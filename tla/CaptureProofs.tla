---------------------------- MODULE CaptureProofs ----------------------------
(* The counters of MutationCapture implement Coverage and leave nothing    *)
(* behind; under the daemon, launches forget their processes, records are  *)
(* attributed to them alone, the first match claims, and nothing owed and  *)
(* not late is lost or missed by an untrack: for any number of launches,   *)
(* processes, homes, file systems and apps, and any capacity of the        *)
(* channel.                                                                *)
EXTENDS Capture, FiniteSetTheorems, TLAPS

(* The launches on a file system that are, or may be, counted there.       *)
On(st, kinds, f) == {l \in Launch : st[l] \in kinds /\ FsOf[l] = f}

Counted == {"held", "unmarked", "leaked"}

(* The group exists as long as something is counted, and marks need it.    *)
GroupUsed ==
    /\ group <=> (\E f \in Fs : refcounts[f] > 0)
    /\ ~group => marks = {}

(* Nothing is counted without a launch that still has to release it.       *)
CountBounded == \A f \in Fs : refcounts[f] <= Cardinality(On(stage, Counted, f))

(* Until a call fails, each file system counts the launches held on it and *)
(* is marked when there is one.                                            *)
CountExact ==
    faults = 0 =>
        /\ \A l \in Launch : stage[l] \in {"new", "held", "ended"}
        /\ \A f \in Fs : refcounts[f] = Cardinality(On(stage, {"held"}, f))
        /\ marks = {f \in Fs : refcounts[f] > 0}

CaptureInv == CaptureTypeOK /\ GroupUsed /\ CountBounded /\ CountExact

-----------------------------------------------------------------------------
(* What the sets of launches do when one of them changes its stage.        *)

LEMMA OnFinite ==
    ASSUME NEW st, NEW kinds, NEW f
    PROVE  /\ IsFiniteSet(On(st, kinds, f))
           /\ Cardinality(On(st, kinds, f)) \in Nat
           /\ Cardinality(On(st, kinds, f)) > 0 <=> On(st, kinds, f) # {}
<1>1. IsFiniteSet(On(st, kinds, f))
      BY CaptureAssumption, FS_Subset DEF On
<1> QED BY <1>1, FS_CardinalityType, FS_EmptySet

(* Only l changes its stage.                                                *)
Moves(st, after, l) ==
    \A k \in Launch : k # l => after[k] = st[k]

LEMMA OnAdds ==
    ASSUME NEW st, NEW after, NEW l \in Launch, NEW kinds, NEW f, Moves(st, after, l),
           st[l] \notin kinds, after[l] \in kinds
    PROVE  /\ f = FsOf[l] =>
                Cardinality(On(after, kinds, f)) = Cardinality(On(st, kinds, f)) + 1
           /\ f # FsOf[l] =>
                Cardinality(On(after, kinds, f)) = Cardinality(On(st, kinds, f))
<1>1. CASE f = FsOf[l]
      <2>1. On(after, kinds, f) = On(st, kinds, f) \cup {l}
            BY <1>1 DEF On, Moves
      <2>2. l \notin On(st, kinds, f)
            BY DEF On
      <2> QED BY <1>1, <2>1, <2>2, OnFinite, FS_AddElement
<1>2. CASE f # FsOf[l]
      <2>1. On(after, kinds, f) = On(st, kinds, f)
            BY <1>2 DEF On, Moves
      <2> QED BY <1>2, <2>1
<1> QED BY <1>1, <1>2

LEMMA OnRemoves ==
    ASSUME NEW st, NEW after, NEW l \in Launch, NEW kinds, NEW f, Moves(st, after, l),
           st[l] \in kinds, after[l] \notin kinds
    PROVE  /\ f = FsOf[l] =>
                Cardinality(On(after, kinds, f)) = Cardinality(On(st, kinds, f)) - 1
           /\ f # FsOf[l] =>
                Cardinality(On(after, kinds, f)) = Cardinality(On(st, kinds, f))
<1>1. CASE f = FsOf[l]
      <2>1. On(after, kinds, f) = On(st, kinds, f) \ {l}
            BY <1>1 DEF On, Moves
      <2>2. l \in On(st, kinds, f)
            BY <1>1 DEF On
      <2> QED BY <1>1, <2>1, <2>2, OnFinite, FS_RemoveElement
<1>2. CASE f # FsOf[l]
      <2>1. On(after, kinds, f) = On(st, kinds, f)
            BY <1>2 DEF On, Moves
      <2> QED BY <1>2, <2>1
<1> QED BY <1>1, <1>2

LEMMA OnKeeps ==
    ASSUME NEW st, NEW after, NEW l \in Launch, NEW kinds, NEW f, Moves(st, after, l),
           st[l] \in kinds <=> after[l] \in kinds
    PROVE  On(after, kinds, f) = On(st, kinds, f)
BY DEF On, Moves

-----------------------------------------------------------------------------
(* One lemma for each kind of step.                                        *)

LEMMA InitInv == CaptureInit => CaptureInv
<1> SUFFICES ASSUME CaptureInit PROVE CaptureInv
    OBVIOUS
<1>1. CaptureTypeOK
      BY CaptureAssumption DEF CaptureInit, CaptureTypeOK, Stage
<1>2. GroupUsed
      <2>1. \A f \in Fs : refcounts[f] = 0
            BY DEF CaptureInit
      <2>2. group = FALSE /\ marks = {}
            BY DEF CaptureInit
      <2> QED BY <2>1, <2>2 DEF GroupUsed
<1>3. CountBounded
      BY OnFinite DEF CaptureInit, CountBounded
<1>4. CountExact
      <2>1. \A f \in Fs : On(stage, {"held"}, f) = {}
            BY DEF CaptureInit, On
      <2> QED BY <2>1, FS_EmptySet DEF CaptureInit, CountExact
<1> QED BY <1>1, <1>2, <1>3, <1>4 DEF CaptureInv

(* Start and MarkFails count a launch that was new.                        *)
LEMMA BumpInv ==
    ASSUME CaptureInv, NEW l \in Launch, Moves(stage, stage', l),
           stage[l] = "new", stage'[l] \in {"held", "unmarked"}, refcounts' = Bump(FsOf[l])
    PROVE  /\ refcounts' \in [Fs -> Nat]
           /\ refcounts'[FsOf[l]] > 0
           /\ CountBounded'
<1> USE DEF CaptureInv, CaptureTypeOK
<1>1. FsOf[l] \in Fs /\ stage[l] \notin Counted /\ stage'[l] \in Counted
      BY CaptureAssumption DEF Counted
<1>2. refcounts' \in [Fs -> Nat] /\ refcounts'[FsOf[l]] > 0
      BY <1>1 DEF Bump
<1>3. ASSUME NEW f \in Fs PROVE refcounts'[f] <= Cardinality(On(stage', Counted, f))
      <2>1. /\ refcounts[f] <= Cardinality(On(stage, Counted, f))
            /\ Cardinality(On(stage, Counted, f)) \in Nat
            BY OnFinite DEF CountBounded
      <2>2. /\ f = FsOf[l] => Cardinality(On(stage', Counted, f)) =
                                  Cardinality(On(stage, Counted, f)) + 1
            /\ f # FsOf[l] => Cardinality(On(stage', Counted, f)) =
                                  Cardinality(On(stage, Counted, f))
            BY <1>1, OnAdds
      <2>3. refcounts'[f] = IF f = FsOf[l] THEN refcounts[f] + 1 ELSE refcounts[f]
            BY DEF Bump
      <2> QED BY <2>1, <2>2, <2>3
<1> QED BY <1>2, <1>3 DEF CountBounded

(* Stop and DisarmFails release it.                                        *)
LEMMA DropInv ==
    ASSUME CaptureInv, NEW l \in Launch, NEW disarmed \in BOOLEAN,
           Moves(stage, stage', l), stage'[l] = "ended", Drop(l, disarmed)
    PROVE  /\ refcounts' \in [Fs -> Nat] /\ group' \in BOOLEAN /\ marks' \subseteq Fs
           /\ GroupUsed' /\ CountBounded'
<1> USE DEF CaptureInv, CaptureTypeOK
<1>1. FsOf[l] \in Fs /\ stage'[l] \notin Counted
      BY CaptureAssumption DEF Counted
<1>2. refcounts' \in [Fs -> Nat]
      BY <1>1 DEF Drop, Release
<1>3. \A f \in Fs : /\ refcounts'[f] <= refcounts[f]
                    /\ f = FsOf[l] /\ refcounts[f] > 0 => refcounts'[f] = refcounts[f] - 1
                    /\ f = FsOf[l] /\ refcounts[f] = 0 => refcounts'[f] = 0
                    /\ f # FsOf[l] => refcounts'[f] = refcounts[f]
      BY <1>1 DEF Drop, Release
<1>4. GroupUsed'
      <2>1. (\E f \in Fs : refcounts'[f] > 0) => group
            BY <1>2, <1>3 DEF GroupUsed
      <2>2. group' <=> group /\ \E f \in Fs : refcounts'[f] > 0
            BY DEF Drop
      <2>3. ~group' => marks' = {}
            BY DEF Drop
      <2> QED BY <2>1, <2>2, <2>3 DEF GroupUsed
<1>5. ASSUME NEW f \in Fs PROVE refcounts'[f] <= Cardinality(On(stage', Counted, f))
      <2>1. /\ refcounts[f] <= Cardinality(On(stage, Counted, f))
            /\ Cardinality(On(stage, Counted, f)) \in Nat
            /\ Cardinality(On(stage', Counted, f)) \in Nat
            BY OnFinite DEF CountBounded
      <2>2. CASE stage[l] \in Counted
            <3>1. /\ f = FsOf[l] => Cardinality(On(stage', Counted, f)) =
                                        Cardinality(On(stage, Counted, f)) - 1
                  /\ f # FsOf[l] => Cardinality(On(stage', Counted, f)) =
                                        Cardinality(On(stage, Counted, f))
                  BY <1>1, <2>2, OnRemoves
            <3> QED BY <1>2, <1>3, <2>1, <3>1
      <2>3. CASE stage[l] \notin Counted
            <3>1. On(stage', Counted, f) = On(stage, Counted, f)
                  BY <1>1, <2>3, OnKeeps
            <3> QED BY <1>2, <1>3, <2>1, <3>1
      <2> QED BY <2>2, <2>3
<1>6. group' \in BOOLEAN /\ marks' \subseteq Fs
      BY <1>1 DEF Drop
<1> QED BY <1>1, <1>2, <1>4, <1>5, <1>6 DEF CountBounded

LEMMA StageMoves ==
    ASSUME CaptureInv, NEW l \in Launch, NEW s \in Stage, stage' = [stage EXCEPT ![l] = s]
    PROVE  Moves(stage, stage', l) /\ stage'[l] = s /\ stage' \in [Launch -> Stage]
BY DEF CaptureInv, CaptureTypeOK, Moves

(* The exact count, where it is still promised.                            *)
LEMMA StartExact ==
    ASSUME CaptureInv, NEW l \in Launch, Moves(stage, stage', l), stage'[l] = "held",
           stage[l] = "new", refcounts' = Bump(FsOf[l]), faults' = faults,
           marks' = IF refcounts[FsOf[l]] = 0 THEN marks \cup {FsOf[l]} ELSE marks
    PROVE  CountExact'
<1> SUFFICES ASSUME faults = 0 PROVE CountExact'
    BY DEF CountExact
<1> USE DEF CaptureInv, CaptureTypeOK
<1>1. /\ \A k \in Launch : stage[k] \in {"new", "held", "ended"}
      /\ \A f \in Fs : refcounts[f] = Cardinality(On(stage, {"held"}, f))
      /\ marks = {f \in Fs : refcounts[f] > 0}
      BY DEF CountExact
<1>2. \A k \in Launch : stage'[k] \in {"new", "held", "ended"}
      BY <1>1 DEF Moves
<1>3. FsOf[l] \in Fs
      BY CaptureAssumption
<1>4. \A f \in Fs : refcounts'[f] = IF f = FsOf[l] THEN refcounts[f] + 1 ELSE refcounts[f]
      BY DEF Bump
<1>5. ASSUME NEW f \in Fs PROVE refcounts'[f] = Cardinality(On(stage', {"held"}, f))
      <2>1. stage[l] \notin {"held"} /\ stage'[l] \in {"held"}
            OBVIOUS
      <2>2. /\ f = FsOf[l] => Cardinality(On(stage', {"held"}, f)) =
                                  Cardinality(On(stage, {"held"}, f)) + 1
            /\ f # FsOf[l] => Cardinality(On(stage', {"held"}, f)) =
                                  Cardinality(On(stage, {"held"}, f))
            BY <2>1, OnAdds
      <2> QED BY <1>1, <1>4, <2>2
<1>6. marks' = {f \in Fs : refcounts'[f] > 0}
      BY <1>1, <1>3, <1>4
<1> QED BY <1>2, <1>5, <1>6 DEF CountExact

LEMMA StopExact ==
    ASSUME CaptureInv, NEW l \in Launch, Moves(stage, stage', l), stage'[l] = "ended",
           stage[l] \in {"held", "unmarked", "refused"}, Drop(l, TRUE), faults' = faults
    PROVE  CountExact'
<1> SUFFICES ASSUME faults = 0 PROVE CountExact'
    BY DEF CountExact
<1> USE DEF CaptureInv, CaptureTypeOK
<1>1. /\ \A k \in Launch : stage[k] \in {"new", "held", "ended"}
      /\ \A f \in Fs : refcounts[f] = Cardinality(On(stage, {"held"}, f))
      /\ marks = {f \in Fs : refcounts[f] > 0}
      BY DEF CountExact
<1>2. \A k \in Launch : stage'[k] \in {"new", "held", "ended"}
      BY <1>1 DEF Moves
<1>3. FsOf[l] \in Fs /\ stage[l] = "held"
      BY <1>1, CaptureAssumption
<1>4. refcounts[FsOf[l]] > 0
      <2>1. l \in On(stage, {"held"}, FsOf[l])
            BY <1>3 DEF On
      <2> QED BY <1>1, <1>3, <2>1, OnFinite
<1>5. \A f \in Fs : refcounts'[f] = IF f = FsOf[l] THEN refcounts[f] - 1 ELSE refcounts[f]
      BY <1>4 DEF Drop, Release
<1>6. ASSUME NEW f \in Fs PROVE refcounts'[f] = Cardinality(On(stage', {"held"}, f))
      <2>1. stage[l] \in {"held"} /\ stage'[l] \notin {"held"}
            BY <1>3
      <2>2. /\ f = FsOf[l] => Cardinality(On(stage', {"held"}, f)) =
                                  Cardinality(On(stage, {"held"}, f)) - 1
            /\ f # FsOf[l] => Cardinality(On(stage', {"held"}, f)) =
                                  Cardinality(On(stage, {"held"}, f))
            BY <2>1, OnRemoves
      <2> QED BY <1>1, <1>5, <2>2
<1>7. marks' = {f \in Fs : refcounts'[f] > 0}
      <2>1. refcounts' \in [Fs -> Nat]
            BY DropInv
      <2>2. CASE ~group'
            <3>1. marks' = {} /\ \A f \in Fs : ~(refcounts'[f] > 0)
                  BY <2>2, DropInv DEF GroupUsed
            <3> QED BY <3>1
      <2>3. CASE group'
            <3>1. marks' = IF refcounts[FsOf[l]] = 1 THEN marks \ {FsOf[l]} ELSE marks
                  BY <2>3 DEF Drop
            <3>2. refcounts'[FsOf[l]] > 0 <=> refcounts[FsOf[l]] # 1
                  BY <1>3, <1>4, <1>5
            <3> QED BY <1>1, <1>3, <1>4, <1>5, <3>1, <3>2
      <2> QED BY <2>2, <2>3
<1> QED BY <1>2, <1>6, <1>7 DEF CountExact

-----------------------------------------------------------------------------
(* The invariant through each action.                                      *)

(* A failing call voids the exact count.                                   *)
LEMMA FaultyVoids == CaptureInv /\ Faulty => CountExact' /\ faults' \in Nat /\ faults' # 0
BY DEF CaptureInv, CaptureTypeOK, Faulty, CountExact

(* A stage that changes among the counted ones, or among the others,       *)
(* changes no bound.                                                       *)
LEMMA SameCount ==
    ASSUME CaptureInv, NEW l \in Launch, Moves(stage, stage', l),
           stage[l] \in Counted <=> stage'[l] \in Counted, refcounts' = refcounts
    PROVE  CountBounded'
<1>1. ASSUME NEW f \in Fs PROVE On(stage', Counted, f) = On(stage, Counted, f)
      BY OnKeeps
<1> QED BY <1>1 DEF CaptureInv, CountBounded

LEMMA StepInv == CaptureInv /\ [CaptureNext]_captureVars => CaptureInv'
<1> SUFFICES ASSUME CaptureInv, [CaptureNext]_captureVars PROVE CaptureInv'
    OBVIOUS
<1>1. /\ stage \in [Launch -> Stage] /\ refcounts \in [Fs -> Nat] /\ group \in BOOLEAN
      /\ marks \subseteq Fs /\ faults \in Nat /\ GroupUsed
      BY DEF CaptureInv, CaptureTypeOK
<1>2. \A f \in Launch : FsOf[f] \in Fs
      BY CaptureAssumption
<1>3. {"new", "held", "unmarked", "refused", "leaked", "ended"} \subseteq Stage
      BY DEF Stage
<1>4. ASSUME NEW l \in Launch, Start(l) PROVE CaptureInv'
      <2>1. Moves(stage, stage', l) /\ stage'[l] = "held" /\ stage' \in [Launch -> Stage]
            BY <1>3, <1>4, StageMoves DEF Start
      <2>2. /\ stage[l] = "new" /\ refcounts' = Bump(FsOf[l]) /\ group' = TRUE
            /\ faults' = faults
            /\ marks' = IF refcounts[FsOf[l]] = 0 THEN marks \cup {FsOf[l]} ELSE marks
            BY <1>4 DEF Start
      <2>3. refcounts' \in [Fs -> Nat] /\ refcounts'[FsOf[l]] > 0 /\ CountBounded'
            BY <2>1, <2>2, BumpInv
      <2>4. CountExact'
            BY <2>1, <2>2, StartExact
      <2>5. GroupUsed'
            BY <1>2, <2>2, <2>3 DEF GroupUsed
      <2>6. CaptureTypeOK'
            BY <1>1, <1>2, <2>1, <2>2, <2>3 DEF CaptureTypeOK
      <2> QED BY <2>3, <2>4, <2>5, <2>6 DEF CaptureInv
<1>5. ASSUME NEW l \in Launch, Refuse(l) PROVE CaptureInv'
      <2>1. Moves(stage, stage', l) /\ stage'[l] = "refused" /\ stage' \in [Launch -> Stage]
            BY <1>3, <1>5, StageMoves DEF Refuse
      <2>2. stage[l] = "new" /\ Faulty /\ refcounts' = refcounts /\ group' = group
            /\ marks' = marks
            BY <1>5 DEF Refuse
      <2>3. CountBounded'
            BY <2>1, <2>2, SameCount DEF Counted
      <2> QED BY <1>1, <2>1, <2>2, <2>3, FaultyVoids DEF CaptureInv, CaptureTypeOK, GroupUsed
<1>6. ASSUME NEW l \in Launch, MarkFails(l) PROVE CaptureInv'
      <2>1. Moves(stage, stage', l) /\ stage'[l] = "unmarked"
            /\ stage' \in [Launch -> Stage]
            BY <1>3, <1>6, StageMoves DEF MarkFails
      <2>2. /\ stage[l] = "new" /\ refcounts' = Bump(FsOf[l]) /\ group' = TRUE
            /\ Faulty /\ marks' = marks
            BY <1>6 DEF MarkFails
      <2>3. refcounts' \in [Fs -> Nat] /\ refcounts'[FsOf[l]] > 0 /\ CountBounded'
            BY <2>1, <2>2, BumpInv
      <2>4. GroupUsed'
            BY <1>2, <2>2, <2>3 DEF GroupUsed
      <2> QED BY <1>1, <2>1, <2>2, <2>3, <2>4, FaultyVoids DEF CaptureInv, CaptureTypeOK
<1>7. ASSUME NEW l \in Launch, Stop(l) PROVE CaptureInv'
      <2>1. Moves(stage, stage', l) /\ stage'[l] = "ended" /\ stage' \in [Launch -> Stage]
            BY <1>3, <1>7, StageMoves DEF Stop
      <2>2. /\ stage[l] \in {"held", "unmarked", "refused"} /\ Drop(l, TRUE)
            /\ faults' = faults
            BY <1>7 DEF Stop
      <2>3. /\ refcounts' \in [Fs -> Nat] /\ group' \in BOOLEAN /\ marks' \subseteq Fs
            /\ GroupUsed' /\ CountBounded'
            BY <2>1, <2>2, DropInv
      <2>4. CountExact'
            BY <2>1, <2>2, StopExact
      <2> QED BY <1>1, <2>1, <2>2, <2>3, <2>4 DEF CaptureInv, CaptureTypeOK
<1>8. ASSUME NEW l \in Launch, DisarmFails(l) PROVE CaptureInv'
      <2>1. Moves(stage, stage', l) /\ stage'[l] = "ended" /\ stage' \in [Launch -> Stage]
            BY <1>3, <1>8, StageMoves DEF DisarmFails
      <2>2. stage[l] \in {"held", "unmarked", "refused"} /\ Drop(l, FALSE) /\ Faulty
            BY <1>8 DEF DisarmFails
      <2>3. /\ refcounts' \in [Fs -> Nat] /\ group' \in BOOLEAN /\ marks' \subseteq Fs
            /\ GroupUsed' /\ CountBounded'
            BY <2>1, <2>2, DropInv
      <2> QED BY <2>1, <2>2, <2>3, FaultyVoids DEF CaptureInv, CaptureTypeOK
<1>9. ASSUME NEW l \in Launch, StopFails(l) PROVE CaptureInv'
      <2>1. /\ stage[l] \in {"held", "unmarked", "refused"} /\ Faulty
            /\ refcounts' = refcounts /\ group' = group /\ marks' = marks
            BY <1>9 DEF StopFails
      <2> DEFINE s == IF stage[l] = "refused" THEN "ended" ELSE "leaked"
      <2>2. stage' = [stage EXCEPT ![l] = s] /\ s \in Stage
            BY <1>3, <1>9 DEF StopFails
      <2>3. Moves(stage, stage', l) /\ stage'[l] = s /\ stage' \in [Launch -> Stage]
            BY <2>2, StageMoves
      <2>4. CountBounded'
            BY <2>1, <2>3, SameCount DEF Counted
      <2> QED BY <1>1, <2>1, <2>3, <2>4, FaultyVoids DEF CaptureInv, CaptureTypeOK, GroupUsed
<1>10. CASE UNCHANGED captureVars
      BY <1>10 DEF captureVars, CaptureInv, CaptureTypeOK, GroupUsed, CountBounded,
         CountExact
<1> QED BY <1>4, <1>5, <1>6, <1>7, <1>8, <1>9, <1>10 DEF CaptureNext, Call, Return

(* The variables of MutationCapture keep their types.                       *)
THEOREM CaptureTypes == CaptureSpec => []CaptureTypeOK
<1>1. CaptureInv => CaptureTypeOK
      BY DEF CaptureInv
<1> QED BY <1>1, InitInv, StepInv, PTL DEF CaptureSpec

(* Whatever calls failed, when no launch is in progress and none was       *)
(* forgotten by its stop, the group and every mark are gone.               *)
THEOREM IdleIsFree == CaptureSpec => []IdlePaysNothing
<1>1. CaptureInv => IdlePaysNothing
      <2> SUFFICES ASSUME CaptureInv, \A l \in Launch : stage[l] \in {"new", "refused", "ended"}
                   PROVE  ~group /\ marks = {}
          BY DEF IdlePaysNothing
      <2>1. ASSUME NEW f \in Fs PROVE refcounts[f] = 0
            <3>1. On(stage, Counted, f) = {}
                  BY DEF On, Counted
            <3>2. Cardinality(On(stage, Counted, f)) = 0
                  BY <3>1, FS_EmptySet
            <3> QED BY <3>2 DEF CaptureInv, CaptureTypeOK, CountBounded
      <2> QED BY <2>1 DEF CaptureInv, GroupUsed
<1> QED BY <1>1, InitInv, StepInv, PTL DEF CaptureSpec

-----------------------------------------------------------------------------
(* Refinement.                                                             *)

LEMMA MarksExact == CaptureInv /\ faults = 0 => marks = Promise!Used(Held)
<1> SUFFICES ASSUME CaptureInv, faults = 0 PROVE marks = Promise!Used(Held)
    OBVIOUS
<1>1. /\ \A f \in Fs : refcounts[f] = Cardinality(On(stage, {"held"}, f))
      /\ marks = {f \in Fs : refcounts[f] > 0}
      BY DEF CaptureInv, CountExact
<1>2. marks = {f \in Fs : On(stage, {"held"}, f) # {}}
      BY <1>1, OnFinite
<1>3. \A f \in Fs : On(stage, {"held"}, f) # {} <=> f \in Promise!Used(Held)
      BY DEF On, Promise!Used, Held
<1>4. Promise!Used(Held) \subseteq Fs
      BY CaptureAssumption DEF Promise!Used, Held
<1> QED BY <1>2, <1>3, <1>4

(* A step of MutationCapture is a join, a leave, a fault or a stutter.      *)
LEMMA StepRefines ==
    ASSUME CaptureInv, CaptureInv', [CaptureNext]_captureVars,
           faults' = 0 => marks' = Promise!Used(Held')
    PROVE  [Promise!Next]_<<Held, marks, faults = 0>>
<1>1. CASE UNCHANGED captureVars
      BY <1>1 DEF captureVars, Held
<1>2. CASE faults' # 0
      <2>1. (faults = 0)' = FALSE
            BY <1>2
      <2> QED BY <2>1 DEF Promise!Next, Promise!Fault
<1>3. ASSUME NEW l \in Launch, Start(l), faults' = 0 PROVE Promise!Join(l)
      <2>1. Held' = Held \cup {l} /\ l \notin Held
            BY <1>3 DEF Start, Held, CaptureInv, CaptureTypeOK
      <2>2. (faults = 0) /\ (faults = 0)'
            BY <1>3 DEF Start
      <2> QED BY <1>3, <2>1, <2>2 DEF Promise!Join
<1>4. ASSUME NEW l \in Launch, Stop(l), faults' = 0 PROVE Promise!Leave(l)
      <2>1. faults = 0
            BY <1>4 DEF Stop
      <2>2. stage[l] = "held"
            BY <1>4, <2>1 DEF Stop, CaptureInv, CountExact
      <2>3. Held' = Held \ {l} /\ l \in Held
            BY <1>4, <2>2 DEF Stop, Held, CaptureInv, CaptureTypeOK
      <2> QED BY <1>4, <2>1, <2>3 DEF Promise!Leave
<1>5. ASSUME NEW l \in Launch, Refuse(l) \/ MarkFails(l) \/ DisarmFails(l) \/ StopFails(l)
      PROVE  faults' # 0
      BY <1>5, FaultyVoids DEF Refuse, MarkFails, DisarmFails, StopFails
<1> QED BY <1>1, <1>2, <1>3, <1>4, <1>5
        DEF CaptureNext, Call, Return, Promise!Next

(* The counters implement Coverage: until a call fails, exactly the file   *)
(* systems with a launch in progress are marked, for every number of       *)
(* launches that come and go in any order.                                 *)
THEOREM CountersImplementCoverage == CaptureSpec => CoverageHolds
<1>1. CaptureInit => Promise!Init
      <2> SUFFICES ASSUME CaptureInit PROVE Promise!Init
          OBVIOUS
      <2>1. Held = {} /\ marks = {} /\ (faults = 0) = TRUE
            BY DEF CaptureInit, Held
      <2> QED BY <2>1 DEF Promise!Init
<1>2. (CaptureInv /\ faults = 0 => marks = Promise!Used(Held))'
      BY MarksExact, PTL
<1>3. CaptureInv /\ CaptureInv' /\ [CaptureNext]_captureVars
          => [Promise!Next]_<<Held, marks, faults = 0>>
      BY <1>2, StepRefines
<1> QED BY <1>1, <1>3, InitInv, StepInv, PTL DEF CaptureSpec, CoverageHolds, Promise!Spec

-----------------------------------------------------------------------------
(* The daemon uses MutationCapture as that module assumes.                 *)

(* A step of the daemon is a call of MutationCapture or leaves it alone.   *)
LEMMA DaemonCalls == [Next]_vars => [CaptureNext]_captureVars
<1> SUFFICES ASSUME [Next]_vars PROVE [CaptureNext]_captureVars
    OBVIOUS
<1>1. ASSUME NEW l \in Launch, StartLaunch(l) PROVE CaptureNext
      BY <1>1 DEF StartLaunch, CaptureNext
<1>2. ASSUME NEW l \in Launch, StopLaunch(l) PROVE CaptureNext
      BY <1>2 DEF StopLaunch, CaptureNext
<1>3. ASSUME NEW l \in Launch, \/ Poll(l) \/ (\E c \in Launch : Collect(l, c))
                               \/ AllDead(l) \/ Prune(l)
      PROVE  UNCHANGED captureVars
      BY <1>3 DEF Poll, Collect, AllDead, Prune
<1>4. ASSUME NEW p \in Launch, Run(p) \/ Exit(p) \/ \E f \in File : Write(p, f)
      PROVE  UNCHANGED captureVars
      BY <1>4 DEF Run, Exit, Write
<1>5. CASE Claim \/ IgnoreExec
      BY <1>5 DEF Claim, IgnoreExec
<1>6. CASE Reader \/ \E e \in pending : Expire(e)
      BY <1>6 DEF Reader, ReadEvent, Retry, Send, Expire, ReadUnchanged
<1>7. CASE JournalTask \/ (\E b \in Bucket : Untrack(b)) \/ SendFlush \/ Reply
      BY <1>7 DEF JournalTask, Untrack, SendFlush, Reply
<1>8. CASE UNCHANGED vars
      BY <1>8 DEF vars
<1> QED BY <1>1, <1>2, <1>3, <1>4, <1>5, <1>6, <1>7, <1>8 DEF Next, Task

LEMMA DaemonUsesCapture == Spec => CaptureSpec
<1>1. Init => CaptureInit
      BY DEF Init
<1> QED BY <1>1, DaemonCalls, PTL DEF Spec, CaptureSpec

(* Under the daemon, whatever launches do and whoever is untracked, the    *)
(* file systems marked are those of the launches in progress.              *)
THEOREM DaemonCovers == Spec => CoverageHolds
BY DaemonUsesCapture, CountersImplementCoverage

(* An idle daemon has no group and no mark.                                *)
THEOREM DaemonIdles == Spec => []IdlePaysNothing
BY DaemonUsesCapture, IdleIsFree

-----------------------------------------------------------------------------
(* What the launches know of processes.                                    *)

Phase == {"none", "claimed", "watching", "grace", "pruned", "done"}

LaunchTypes ==
    /\ phase \in [Launch -> Phase]
    /\ {known, found, pids} \subseteq [Launch -> SUBSET Launch]
    /\ owner \in [Launch -> Launch \cup {Nobody}]

(* Only a launch that is watching has a collector with work to do.         *)
CollectorLives == \A l \in Launch : found[l] # {} => phase[l] = "watching"

(* What the collector has registered the poll knows, so that all of it is  *)
(* dead when the launch ends.                                              *)
RegisteredKnown ==
    \A l \in Launch :
        /\ found[l] \subseteq known[l] /\ pids[l] \subseteq known[l]
        /\ phase[l] \in {"grace", "pruned", "done"} =>
               \A c \in known[l] : proc[c] = "exited"

(* So a process that has claimed a launch has an owner until it exits, and *)
(* cannot claim another.                                                   *)
ClaimedOwned ==
    \A p \in Launch : proc[p] # "exited" /\ phase[p] # "none" => owner[p] # Nobody

OwnerInv == LaunchTypes /\ CollectorLives /\ RegisteredKnown /\ ClaimedOwned /\ NoStaleOwner

LEMMA InitOwner == Init => OwnerInv
BY ProcessAssumption DEF Init, OwnerInv, LaunchTypes, CollectorLives, RegisteredKnown,
   ClaimedOwned, NoStaleOwner, Phase

LEMMA ClaimOwner == OwnerInv /\ Claim => OwnerInv'
<1> SUFFICES ASSUME OwnerInv, Claim PROVE OwnerInv'
    OBVIOUS
<1> DEFINE p == Head(execs)[1]
<1>1. /\ proc[p] = "running" /\ owner[p] = Nobody
      /\ phase' = [phase EXCEPT ![p] = "claimed"]
      /\ known' = [known EXCEPT ![p] = {p}] /\ pids' = [pids EXCEPT ![p] = {p}]
      /\ owner' = [owner EXCEPT ![p] = p]
      /\ found' = found /\ proc' = proc
      BY DEF Claim, Claimable
<1> HIDE DEF p
<1> USE ProcessAssumption DEF OwnerInv, LaunchTypes
<1>2. CASE p \notin Launch
      <2>1. /\ phase' = phase /\ known' = known /\ pids' = pids /\ owner' = owner
            /\ found' = found /\ proc' = proc
            BY <1>1, <1>2
      <2>2. LaunchTypes'
            BY <2>1
      <2>3. CollectorLives' /\ RegisteredKnown' /\ ClaimedOwned' /\ NoStaleOwner'
            BY <2>1 DEF CollectorLives, RegisteredKnown, ClaimedOwned, NoStaleOwner
      <2> QED BY <2>2, <2>3
<1>3. CASE p \in Launch
      <2>1. phase[p] = "none"
            BY <1>1, <1>3 DEF ClaimedOwned
      <2>2. found[p] = {}
            BY <1>3, <2>1 DEF CollectorLives
      <2>3. LaunchTypes'
            BY <1>1, <1>3 DEF Phase
      <2>4. CollectorLives'
            BY <1>1, <1>3, <2>2 DEF CollectorLives
      <2>5. RegisteredKnown'
            BY <1>1, <1>3, <2>2 DEF RegisteredKnown
      <2>6. ClaimedOwned'
            BY <1>1, <1>3 DEF ClaimedOwned
      <2>7. ASSUME NEW q \in Launch, owner'[q] # Nobody
            PROVE  /\ phase'[owner'[q]] \in {"claimed", "watching", "grace"}
                   /\ q \in pids'[owner'[q]]
            <3>1. CASE q = p
                  BY <1>1, <1>3, <3>1
            <3>2. CASE q # p
                  <4>1. owner'[q] = owner[q] /\ owner[q] # p
                        BY <1>1, <1>3, <2>1, <2>7, <3>2 DEF NoStaleOwner
                  <4> QED BY <1>1, <1>3, <2>7, <4>1 DEF NoStaleOwner
            <3> QED BY <3>1, <3>2
      <2> QED BY <2>3, <2>4, <2>5, <2>6, <2>7 DEF NoStaleOwner
<1> QED BY <1>2, <1>3

LEMMA TaskOwner == ASSUME NEW l \in Launch, OwnerInv, Task(l) PROVE OwnerInv'
<1> USE ProcessAssumption DEF OwnerInv, LaunchTypes, Phase, NoStaleOwner, CollectorLives,
        RegisteredKnown, ClaimedOwned
<1>1. CASE StartLaunch(l)
      BY <1>1 DEF StartLaunch
<1>2. CASE Poll(l)
      BY <1>2 DEF Poll
<1>3. ASSUME NEW c \in Launch, Collect(l, c) PROVE OwnerInv'
      BY <1>3 DEF Collect
<1>4. CASE AllDead(l)
      BY <1>4 DEF AllDead
<1>5. CASE Prune(l)
      BY <1>5 DEF Prune, Entries
<1>6. CASE StopLaunch(l)
      BY <1>6 DEF StopLaunch
<1> QED BY <1>1, <1>2, <1>3, <1>4, <1>5, <1>6 DEF Task

LEMMA StepOwner == OwnerInv /\ [Next]_vars => OwnerInv'
<1> SUFFICES ASSUME OwnerInv, [Next]_vars PROVE OwnerInv'
    OBVIOUS
<1>1. CASE UNCHANGED <<proc, tasks, owner>>
      BY <1>1 DEF tasks, OwnerInv, LaunchTypes, CollectorLives, RegisteredKnown,
         ClaimedOwned, NoStaleOwner
<1>2. CASE Claim
      BY <1>2, ClaimOwner
<1>3. ASSUME NEW l \in Launch, Task(l) PROVE OwnerInv'
      BY <1>3, TaskOwner
<1>4. ASSUME NEW p \in Launch, Run(p) PROVE OwnerInv'
      BY <1>4 DEF Run, tasks, OwnerInv, LaunchTypes, CollectorLives, RegisteredKnown,
         ClaimedOwned, NoStaleOwner
<1>5. ASSUME NEW p \in Launch, Exit(p) PROVE OwnerInv'
      BY <1>5 DEF Exit, tasks, OwnerInv, LaunchTypes, CollectorLives, RegisteredKnown,
         ClaimedOwned, NoStaleOwner
<1>6. CASE \E p \in Launch : \E f \in File : Write(p, f)
      BY <1>1, <1>6 DEF Write
<1>7. CASE IgnoreExec \/ Reader \/ \E e \in pending : Expire(e)
      BY <1>1, <1>7 DEF IgnoreExec, Reader, ReadEvent, Retry, Send, Expire, ReadUnchanged
<1>8. CASE JournalTask \/ (\E b \in Bucket : Untrack(b)) \/ SendFlush \/ Reply
      BY <1>1, <1>8 DEF JournalTask, Untrack, SendFlush, Reply
<1>9. CASE UNCHANGED vars
      BY <1>1, <1>9 DEF vars
<1> QED BY <1>2, <1>3, <1>4, <1>5, <1>6, <1>7, <1>8, <1>9 DEF Next

(* A process counts for a launch only while that launch goes on, and the   *)
(* launch knows it: no reused pid is recorded for an app that has ended.   *)
THEOREM OwnersAreLive == Spec => []NoStaleOwner
<1>1. OwnerInv => NoStaleOwner
      BY DEF OwnerInv
<1> QED BY <1>1, InitOwner, StepOwner, PTL DEF Spec

-----------------------------------------------------------------------------
(* Sequences, by their elements.                                           *)

LEMMA RangeIs ==
    ASSUME NEW S, NEW s \in Seq(S)
    PROVE  /\ \A i \in 1 .. Len(s) : s[i] \in SeqRange(s)
           /\ \A x \in SeqRange(s) : x \in S /\ \E i \in 1 .. Len(s) : s[i] = x
BY DEF SeqRange

LEMMA RangeHead ==
    ASSUME NEW S, NEW s \in Seq(S), s # <<>>
    PROVE  /\ Head(s) \in S /\ Tail(s) \in Seq(S)
           /\ SeqRange(s) = {Head(s)} \cup SeqRange(Tail(s))
<1>1. Head(s) \in S /\ Tail(s) \in Seq(S) /\ Head(s) = s[1] /\ Len(s) > 0 /\ Len(s) \in Nat
      /\ Len(Tail(s)) = Len(s) - 1
      OBVIOUS
<1>2. \A i \in 1 .. Len(s) - 1 : Tail(s)[i] = s[i + 1]
      OBVIOUS
<1>3. ASSUME NEW x \in SeqRange(s) PROVE x = Head(s) \/ x \in SeqRange(Tail(s))
      <2>1. PICK i \in 1 .. Len(s) : s[i] = x
            BY RangeIs
      <2>2. CASE i = 1
            BY <1>1, <2>1, <2>2
      <2>3. CASE i # 1
            <3>1. i - 1 \in 1 .. Len(s) - 1 /\ Tail(s)[i - 1] = x
                  BY <1>1, <1>2, <2>1, <2>3
            <3> QED BY <1>1, <3>1, RangeIs
      <2> QED BY <2>2, <2>3
<1>4. Head(s) \in SeqRange(s)
      BY <1>1, RangeIs
<1>5. ASSUME NEW x \in SeqRange(Tail(s)) PROVE x \in SeqRange(s)
      <2>1. PICK i \in 1 .. Len(s) - 1 : Tail(s)[i] = x
            BY <1>1, RangeIs
      <2>2. i + 1 \in 1 .. Len(s) /\ s[i + 1] = x
            BY <1>1, <1>2, <2>1
      <2> QED BY <2>2, RangeIs
<1> QED BY <1>1, <1>3, <1>4, <1>5

LEMMA RangeAppend ==
    ASSUME NEW S, NEW s \in Seq(S), NEW e \in S
    PROVE  Append(s, e) \in Seq(S) /\ SeqRange(Append(s, e)) = SeqRange(s) \cup {e}
<1>1. /\ Append(s, e) \in Seq(S) /\ Len(Append(s, e)) = Len(s) + 1 /\ Len(s) \in Nat
      /\ Append(s, e)[Len(s) + 1] = e
      /\ \A i \in 1 .. Len(s) : Append(s, e)[i] = s[i]
      OBVIOUS
<1>2. ASSUME NEW x \in SeqRange(Append(s, e)) PROVE x = e \/ x \in SeqRange(s)
      <2>1. PICK i \in 1 .. Len(s) + 1 : Append(s, e)[i] = x
            BY <1>1, RangeIs
      <2>2. CASE i = Len(s) + 1
            BY <1>1, <2>1, <2>2
      <2>3. CASE i # Len(s) + 1
            BY <1>1, <2>1, <2>3, RangeIs
      <2> QED BY <2>2, <2>3
<1>3. ASSUME NEW x \in SeqRange(s) PROVE x \in SeqRange(Append(s, e))
      <2>1. PICK i \in 1 .. Len(s) : s[i] = x
            BY RangeIs
      <2>2. Append(s, e)[i] = x /\ i \in 1 .. Len(Append(s, e))
            BY <1>1, <2>1
      <2> QED BY <1>1, <2>2, RangeIs
<1>4. e \in SeqRange(Append(s, e))
      <2>1. Len(s) + 1 \in 1 .. Len(Append(s, e))
            BY <1>1
      <2>2. \A i \in 1 .. Len(Append(s, e)) : Append(s, e)[i] \in SeqRange(Append(s, e))
            BY <1>1, RangeIs
      <2> QED BY <1>1, <2>1, <2>2
<1> QED BY <1>1, <1>2, <1>3, <1>4

LEMMA RangeEmpty == SeqRange(<<>>) = {}
BY DEF SeqRange

-----------------------------------------------------------------------------
(* Types, and what they need of launches, execs and requests.              *)

DataTypes ==
    /\ proc \in [Launch -> {"none", "running", "exited"}]
    /\ watched \subseteq Bucket
    /\ execs \in Seq(Launch \X Bucket)
    /\ txid \in [Launch -> Bucket \cup {Nobody}]
    /\ queue \in Seq(Event) /\ hand \in Seq(Record) /\ pending \subseteq Event
    /\ channel \in Seq(Record \cup {Flush}) /\ journal \subseteq Record
    /\ request \in {"none", "closed", "flushing", "acked"} \X (Bucket \cup {Nobody})
    /\ seen \in [Bucket -> SUBSET Record] /\ due \in [Bucket -> SUBSET Event]
    /\ written \subseteq Event /\ owed \subseteq Event /\ late \subseteq Event

(* A launch is of an app that its exec matches; its reference on the group *)
(* is taken when its task starts and given back when it ends.              *)
Claims ==
    \A l \in Launch :
        /\ phase[l] = "none" => txid[l] = Nobody
        /\ phase[l] # "none" => txid[l] \in Bucket /\ Runs[l] # <<>>
        /\ phase[l] \in {"none", "claimed"} => stage[l] = "new"
        /\ phase[l] \in {"watching", "grace", "pruned"} =>
               stage[l] \in {"held", "unmarked", "refused"}

(* A launch owns its own process and descendants of it.                    *)
Descent ==
    \A l \in Launch :
        /\ \A c \in found[l] : l \in Ancestors[c]
        /\ owner[l] # Nobody => owner[l] \in Ancestors[l] \cup {l}

(* An exec event is about a process that has been started, and an app that *)
(* it matches.                                                             *)
ExecsMatch ==
    \A k \in 1 .. Len(execs) :
        /\ proc[execs[k][1]] # "none"
        /\ \E i \in DOMAIN Runs[execs[k][1]] : Runs[execs[k][1]][i] = execs[k][2]

StateInv == CaptureInv /\ OwnerInv /\ DataTypes /\ Claims /\ Descent /\ ExecsMatch

LEMMA InitState == Init => StateInv
<1> SUFFICES ASSUME Init PROVE StateInv
    OBVIOUS
<1>1. CaptureInv
      BY InitInv DEF Init
<1>2. OwnerInv
      BY InitOwner
<1>3. DataTypes
      BY DEF Init, DataTypes, NoRequest
<1>4. Claims /\ Descent
      BY DEF Init, CaptureInit, Claims, Descent
<1>5. ExecsMatch
      BY DEF Init, ExecsMatch
<1> QED BY <1>1, <1>2, <1>3, <1>4, <1>5 DEF StateInv

(* Only Run appends to the exec events.                                    *)
LEMMA RunExecs ==
    ASSUME StateInv, NEW p \in Launch, Run(p)
    PROVE  \E o \in Seq(Marked(p)) :
              /\ SeqRange(o) = Marked(p)
              /\ \A m, n \in 1 .. Len(o) : m < n => o[m] < o[n]
              /\ execs' \in Seq(Launch \X Bucket)
              /\ Len(execs') = Len(execs) + Len(o)
              /\ \A k \in 1 .. Len(execs) : execs'[k] = execs[k]
              /\ \A n \in 1 .. Len(o) : execs'[Len(execs) + n] = <<p, Runs[p][o[n]]>>
<1>1. PICK o \in InOrder(Marked(p)) :
              execs' = execs \o [n \in DOMAIN o |-> <<p, Runs[p][o[n]]>>]
      BY DEF Run
<1>2. Marked(p) \subseteq DOMAIN Runs[p] /\ Runs[p] \in Seq(Bucket)
      BY ProcessAssumption DEF Marked
<1>3. Marked(p) \subseteq 1 .. Len(Runs[p]) /\ Len(Runs[p]) \in Nat
      BY <1>2
<1>4. Cardinality(Marked(p)) \in Nat
      <2>1. IsFiniteSet(1 .. Len(Runs[p]))
            BY <1>3, FS_Interval
      <2>2. IsFiniteSet(Marked(p))
            BY <1>3, <2>1, FS_Subset
      <2> QED BY <2>2, FS_CardinalityType
<1> DEFINE c == Cardinality(Marked(p))
           new == [n \in DOMAIN o |-> <<p, Runs[p][o[n]]>>]
<1>5. o \in [1 .. c -> Marked(p)] /\ SeqRange(o) = Marked(p)
      /\ \A m, n \in DOMAIN o : m < n => o[m] < o[n]
      BY <1>1 DEF InOrder
<1>6. o \in Seq(Marked(p)) /\ Len(o) = c /\ DOMAIN o = 1 .. c
      BY <1>4, <1>5
<1>7. \A n \in 1 .. c : Runs[p][o[n]] \in Bucket
      BY <1>2, <1>5
<1>8. new \in Seq(Launch \X Bucket) /\ Len(new) = c
      BY <1>4, <1>6, <1>7
<1>9. \A n \in 1 .. c : new[n] = <<p, Runs[p][o[n]]>>
      BY <1>6
<1>10. execs' = execs \o new /\ execs \in Seq(Launch \X Bucket)
      BY <1>1 DEF StateInv, DataTypes
<1> HIDE DEF new, c
<1>11. /\ execs' \in Seq(Launch \X Bucket) /\ Len(execs') = Len(execs) + c
       /\ \A k \in 1 .. Len(execs) : execs'[k] = execs[k]
       /\ \A n \in 1 .. c : execs'[Len(execs) + n] = new[n]
      BY <1>4, <1>8, <1>10 DEF c
<1>12. \A n \in 1 .. c : execs'[Len(execs) + n] = <<p, Runs[p][o[n]]>>
      BY <1>9, <1>11
<1> QED BY <1>5, <1>6, <1>11, <1>12

LEMMA LivesOwner ==
    ASSUME StateInv, NEW p \in Launch, owner[p] # Nobody
    PROVE  /\ owner[p] \in Launch /\ phase[owner[p]] \in {"claimed", "watching", "grace"}
           /\ p \in pids[owner[p]] /\ txid[owner[p]] \in Bucket /\ Runs[owner[p]] # <<>>
           /\ owner[p] \in Ancestors[p] \cup {p}
<1>1. /\ owner[p] \in Launch /\ phase[owner[p]] \in {"claimed", "watching", "grace"}
      /\ p \in pids[owner[p]]
      BY DEF StateInv, OwnerInv, LaunchTypes, NoStaleOwner
<1> QED BY <1>1 DEF StateInv, Claims, Descent

(* Attributing an event extends the records in hand, or does nothing.      *)
LEMMA AttributeIs ==
    ASSUME StateInv, NEW e \in Event, owner[e.pid] # Nobody, Attribute(e)
    PROVE  /\ hand' \in Seq(Record)
           /\ InLaunchHome(e) =>
                SeqRange(hand') = SeqRange(hand) \cup
                    {[txid |-> txid[owner[e.pid]], pid |-> e.pid, file |-> e.file]}
           /\ ~InLaunchHome(e) => hand' = hand
<1> DEFINE r == [txid |-> txid[owner[e.pid]], pid |-> e.pid, file |-> e.file]
<1>1. e.pid \in Launch /\ e.file \in File
      BY DEF Event
<1>2. txid[owner[e.pid]] \in Bucket
      BY <1>1, LivesOwner
<1>3. r \in Record /\ hand \in Seq(Record)
      BY <1>1, <1>2 DEF Record, StateInv, DataTypes
<1>4. hand' = IF InLaunchHome(e) THEN Append(hand, r) ELSE hand
      BY DEF Attribute
<1> HIDE DEF r
<1>5. Append(hand, r) \in Seq(Record) /\ SeqRange(Append(hand, r)) = SeqRange(hand) \cup {r}
      BY <1>3, RangeAppend
<1>6. hand' \in Seq(Record) /\ (~InLaunchHome(e) => hand' = hand)
      /\ (InLaunchHome(e) => SeqRange(hand') = SeqRange(hand) \cup {r})
      BY <1>3, <1>4, <1>5
<1> QED BY <1>6 DEF r

LEMMA WaitingType == StateInv => \A e \in Waiting : e \in Event /\ e.pid \in Launch
<1> SUFFICES ASSUME StateInv, NEW e \in Waiting PROVE e \in Event /\ e.pid \in Launch
    OBVIOUS
<1>1. queue \in Seq(Event) /\ hand \in Seq(Record) /\ pending \subseteq Event
      BY DEF StateInv, DataTypes
<1>2. CASE e \in SeqRange(queue) \cup pending
      <2>1. e \in Event
            BY <1>1, <1>2, RangeIs
      <2> QED BY <2>1 DEF Event
<1>3. CASE e \in InHand
      <2>1. PICK r \in SeqRange(hand) : e = [pid |-> r.pid, file |-> r.file]
            BY <1>3 DEF InHand
      <2>2. r \in Record
            BY <1>1, <2>1, RangeIs
      <2> QED BY <2>1, <2>2 DEF Record, Event
<1> QED BY <1>2, <1>3 DEF Waiting

LEMMA ReadTypes ==
    ASSUME StateInv, Reader \/ \E e \in pending : Expire(e)
    PROVE  DataTypes'
<1>0. /\ DataTypes /\ queue \in Seq(Event) /\ hand \in Seq(Record) /\ pending \subseteq Event
      /\ channel \in Seq(Record \cup {Flush})
      BY DEF StateInv, DataTypes
<1>1. CASE ReadEvent
      <2>1. /\ group /\ queue # <<>> /\ queue' = Tail(queue) /\ ReadUnchanged
            /\ owner[Head(queue).pid] # Nobody => Attribute(Head(queue)) /\ pending' = pending
            /\ owner[Head(queue).pid] = Nobody =>
                  hand' = hand /\ pending' \subseteq pending \cup {Head(queue)}
            BY <1>1 DEF ReadEvent
      <2>2. Head(queue) \in Event /\ Tail(queue) \in Seq(Event)
            BY <1>0, <2>1, RangeHead
      <2>3. hand' \in Seq(Record) /\ pending' \subseteq Event
            BY <1>0, <2>1, <2>2, AttributeIs
      <2> QED BY <1>0, <2>1, <2>2, <2>3
              DEF DataTypes, ReadUnchanged, tasks, store, untrack, ghosts
<1>2. ASSUME NEW e \in pending, Retry(e) PROVE DataTypes'
      <2>1. /\ pending' = pending \ {e} /\ owner[e.pid] # Nobody /\ Attribute(e)
            /\ queue' = queue /\ ReadUnchanged
            BY <1>2 DEF Retry
      <2>2. hand' \in Seq(Record)
            BY <1>0, <2>1, AttributeIs
      <2> QED BY <1>0, <2>1, <2>2
              DEF DataTypes, ReadUnchanged, tasks, store, untrack, ghosts
<1>3. ASSUME NEW e \in pending, Expire(e) PROVE DataTypes'
      <2>1. pending' \subseteq Event /\ late' \subseteq Event
            BY <1>0, <1>3 DEF Expire, DataTypes
      <2> QED BY <1>0, <1>3, <2>1 DEF Expire, DataTypes, tasks, store, untrack
<1>4. CASE Send
      <2>1. hand # <<>> /\ channel' = Append(channel, Head(hand)) /\ hand' = Tail(hand)
            BY <1>4 DEF Send
      <2>2. Head(hand) \in Record /\ Tail(hand) \in Seq(Record)
            BY <1>0, <2>1, RangeHead
      <2>3. channel' \in Seq(Record \cup {Flush})
            BY <1>0, <2>1, <2>2, RangeAppend
      <2> QED BY <1>0, <1>4, <2>1, <2>2, <2>3 DEF Send, DataTypes, tasks, untrack, ghosts
<1> QED BY <1>1, <1>2, <1>3, <1>4 DEF Reader

LEMMA RequestTypes ==
    ASSUME StateInv, JournalTask \/ (\E b \in Bucket : Untrack(b)) \/ SendFlush \/ Reply
    PROVE  DataTypes'
<1>0. /\ DataTypes /\ channel \in Seq(Record \cup {Flush})
      /\ request[2] \in Bucket \cup {Nobody}
      BY DEF StateInv, DataTypes
<1>1. CASE JournalTask
      <2>1. Head(channel) \in Record \cup {Flush} /\ Tail(channel) \in Seq(Record \cup {Flush})
            BY <1>0, <1>1, RangeHead DEF JournalTask
      <2>2. journal' \subseteq Record
            BY <1>0, <1>1, <2>1 DEF JournalTask, DataTypes
      <2>3. request' = request \/ request' = <<"acked", request[2]>>
            BY <1>1 DEF JournalTask
      <2>4. request' \in {"none", "closed", "flushing", "acked"} \X (Bucket \cup {Nobody})
            BY <1>0, <2>3 DEF DataTypes
      <2> QED BY <1>0, <1>1, <2>1, <2>2, <2>4 DEF JournalTask, DataTypes, tasks, loop, ghosts
<1>2. ASSUME NEW b \in Bucket, Untrack(b) PROVE DataTypes'
      <2>1. due' \in [Bucket -> SUBSET Event]
            BY <1>0, <1>2 DEF Untrack, DataTypes
      <2> QED BY <1>0, <1>2, <2>1 DEF Untrack, DataTypes, tasks, loop, store, ghosts
<1>3. CASE SendFlush
      <2>1. channel' \in Seq(Record \cup {Flush})
            BY <1>0, <1>3, RangeAppend DEF SendFlush, FlushIsSent
      <2>2. request' \in {"none", "closed", "flushing", "acked"} \X (Bucket \cup {Nobody})
            BY <1>0, <1>3 DEF SendFlush
      <2> QED BY <1>0, <1>3, <2>1, <2>2 DEF SendFlush, DataTypes, tasks, loop, ghosts
<1>4. CASE Reply
      <2>1. seen' \in [Bucket -> SUBSET Record]
            BY <1>0, <1>4 DEF Reply, DataTypes
      <2> QED BY <1>0, <1>4, <2>1 DEF Reply, NoRequest, DataTypes, tasks, loop, store, ghosts
<1> QED BY <1>1, <1>2, <1>3, <1>4

LEMMA ProcessTypes ==
    ASSUME StateInv, NEW p \in Launch, Run(p) \/ Exit(p) \/ \E f \in File : Write(p, f)
    PROVE  DataTypes'
<1>0. DataTypes
      BY DEF StateInv
<1>1. CASE Run(p)
      <2>1. execs' \in Seq(Launch \X Bucket)
            BY <1>1, RunExecs
      <2> QED BY <1>0, <1>1, <2>1 DEF Run, DataTypes, tasks, loop, store, untrack, ghosts
<1>2. CASE Exit(p)
      BY <1>0, <1>2 DEF Exit, DataTypes, tasks, loop, store, untrack, ghosts
<1>3. ASSUME NEW f \in File, Write(p, f) PROVE DataTypes'
      <2> DEFINE e == [pid |-> p, file |-> f]
      <2>1. e \in Event /\ queue \in Seq(Event)
            BY <1>0 DEF Event, DataTypes
      <2>2. Append(queue, e) \in Seq(Event)
            BY <2>1
      <2>3. /\ queue' = Append(queue, e) \/ queue' = queue
            /\ written' = written \cup {e} /\ owed' \subseteq owed \cup {e}
            BY <1>3 DEF Write
      <2> HIDE DEF e
      <2> QED BY <1>0, <1>3, <2>1, <2>2, <2>3 DEF Write, DataTypes, tasks, store, untrack
<1> QED BY <1>1, <1>2, <1>3

LEMMA LaunchesTypes ==
    ASSUME StateInv, Claim \/ IgnoreExec \/ \E l \in Launch : Task(l)
    PROVE  DataTypes'
<1>0. /\ DataTypes /\ execs \in Seq(Launch \X Bucket)
      BY DEF StateInv, DataTypes
<1>1. CASE Claim
      <2>1. Head(execs) \in Launch \X Bucket /\ Tail(execs) \in Seq(Launch \X Bucket)
            BY <1>0, <1>1, RangeHead DEF Claim
      <2>2. txid' \in [Launch -> Bucket \cup {Nobody}]
            BY <1>0, <1>1, <2>1 DEF Claim, DataTypes
      <2> QED BY <1>0, <1>1, <2>1, <2>2 DEF Claim, DataTypes, loop, store, untrack, ghosts
<1>2. CASE IgnoreExec
      <2>1. Tail(execs) \in Seq(Launch \X Bucket)
            BY <1>0, <1>2, RangeHead DEF IgnoreExec
      <2> QED BY <1>0, <1>2, <2>1 DEF IgnoreExec, DataTypes, tasks, loop, store, untrack, ghosts
<1>3. ASSUME NEW l \in Launch, StopLaunch(l) PROVE DataTypes'
      <2>1. UNCHANGED <<queue, hand, pending>> \/ (queue' = <<>> /\ hand' = <<>> /\ pending' = {})
            BY <1>3 DEF StopLaunch, loop
      <2>0. queue \in Seq(Event) /\ hand \in Seq(Record) /\ pending \subseteq Event
            BY <1>0 DEF DataTypes
      <2>2. queue' \in Seq(Event) /\ hand' \in Seq(Record) /\ pending' \subseteq Event
            <3>1. <<>> \in Seq(Event) /\ <<>> \in Seq(Record)
                  OBVIOUS
            <3>2. CASE UNCHANGED <<queue, hand, pending>>
                  BY <2>0, <3>2
            <3>3. CASE queue' = <<>> /\ hand' = <<>> /\ pending' = {}
                  BY <3>1, <3>3
            <3> QED BY <2>1, <3>2, <3>3
      <2> QED BY <1>0, <1>3, <2>2 DEF StopLaunch, DataTypes, store, untrack, ghosts
<1>4. ASSUME NEW l \in Launch, StartLaunch(l) \/ \E c \in Launch : Collect(l, c)
      PROVE  DataTypes'
      <2>1. owed' \subseteq owed \cup Waiting
            BY <1>4 DEF StartLaunch, Collect, Owe, Waiting
      <2>2. owed' \subseteq Event
            BY <1>0, <2>1, WaitingType DEF DataTypes
      <2> QED BY <1>0, <1>4, <2>2 DEF StartLaunch, Collect, DataTypes, loop, store, untrack
<1>5. ASSUME NEW l \in Launch, Poll(l) \/ AllDead(l) PROVE DataTypes'
      BY <1>0, <1>5 DEF Poll, AllDead, DataTypes, loop, store, untrack, ghosts
<1>6. ASSUME NEW l \in Launch, Prune(l) PROVE DataTypes'
      <2>1. late' \subseteq Event
            BY <1>0, <1>6, WaitingType DEF Prune, DataTypes
      <2> QED BY <1>0, <1>6, <2>1 DEF Prune, DataTypes, loop, store, untrack
<1> QED BY <1>1, <1>2, <1>3, <1>4, <1>5, <1>6 DEF Task

LEMMA StepTypes == StateInv /\ [Next]_vars => DataTypes'
<1>1. StateInv /\ UNCHANGED vars => DataTypes'
      BY DEF vars, StateInv, DataTypes, tasks, loop, store, untrack, ghosts
<1> QED BY <1>1, ReadTypes, RequestTypes, ProcessTypes, LaunchesTypes DEF Next

(* The claims, the descent and the matches.                                *)
LEMMA StepClaims == StateInv /\ [Next]_vars => Claims'
<1> SUFFICES ASSUME StateInv, [Next]_vars PROVE Claims'
    OBVIOUS
<1>0. Claims /\ OwnerInv /\ LaunchTypes /\ phase \in [Launch -> Phase] /\ stage \in [Launch -> Stage]
      BY DEF StateInv, OwnerInv, LaunchTypes, CaptureInv, CaptureTypeOK
<1>1. CASE UNCHANGED <<phase, txid, stage>>
      BY <1>0, <1>1 DEF Claims
<1>2. CASE Claim
      <2> DEFINE p == Head(execs)[1]
                 b == Head(execs)[2]
      <2>1. execs \in Seq(Launch \X Bucket) /\ execs # <<>>
            BY <1>2 DEF Claim, StateInv, DataTypes
      <2>2. Head(execs) \in Launch \X Bucket /\ Head(execs) = execs[1] /\ 1 \in 1 .. Len(execs)
            BY <2>1, RangeHead
      <2>3. p \in Launch /\ b \in Bucket /\ Runs[p] # <<>>
            BY <2>2 DEF StateInv, ExecsMatch
      <2>4. /\ proc[p] = "running" /\ owner[p] = Nobody
            /\ phase' = [phase EXCEPT ![p] = "claimed"] /\ txid' = [txid EXCEPT ![p] = b]
            /\ stage' = stage
            BY <1>2 DEF Claim, Claimable, captureVars
      <2>5. phase[p] = "none"
            BY <1>0, <2>3, <2>4 DEF OwnerInv, ClaimedOwned
      <2> HIDE DEF p, b
      <2>6. txid \in [Launch -> Bucket \cup {Nobody}]
            BY DEF StateInv, DataTypes
      <2> QED BY <1>0, <2>3, <2>4, <2>5, <2>6 DEF Claims
<1>3. ASSUME NEW l \in Launch, StartLaunch(l) PROVE Claims'
      <2>1. /\ phase[l] = "claimed" /\ phase' = [phase EXCEPT ![l] = "watching"] /\ txid' = txid
            /\ \E s \in {"held", "unmarked", "refused"} : stage' = [stage EXCEPT ![l] = s]
            BY <1>3 DEF StartLaunch, Call, Start, Refuse, MarkFails
      <2> QED BY <1>0, <2>1 DEF Claims
<1>4. ASSUME NEW l \in Launch, AllDead(l) \/ Prune(l) PROVE Claims'
      <2>1. /\ phase[l] \in {"watching", "grace"} /\ txid' = txid /\ stage' = stage
            /\ \E s \in {"grace", "pruned"} : phase' = [phase EXCEPT ![l] = s]
            BY <1>4 DEF AllDead, Prune, captureVars
      <2> QED BY <1>0, <2>1 DEF Claims
<1>5. ASSUME NEW l \in Launch, StopLaunch(l) PROVE Claims'
      <2>1. /\ phase[l] = "pruned" /\ phase' = [phase EXCEPT ![l] = "done"] /\ txid' = txid
            /\ \E s : stage' = [stage EXCEPT ![l] = s]
            BY <1>5 DEF StopLaunch, Return, Stop, DisarmFails, StopFails
      <2> QED BY <1>0, <2>1 DEF Claims
<1>6. ASSUME NEW l \in Launch, Poll(l) \/ \E c \in Launch : Collect(l, c)
      PROVE  UNCHANGED <<phase, txid, stage>>
      BY <1>6 DEF Poll, Collect, captureVars
<1>7. CASE \E p \in Launch : Run(p) \/ Exit(p) \/ \E f \in File : Write(p, f)
      BY <1>1, <1>7 DEF Run, Exit, Write, tasks, captureVars
<1>8. CASE IgnoreExec \/ Reader \/ \E e \in pending : Expire(e)
      BY <1>1, <1>8 DEF IgnoreExec, Reader, ReadEvent, Retry, Send, Expire, ReadUnchanged, tasks,
         captureVars
<1>9. CASE JournalTask \/ (\E b \in Bucket : Untrack(b)) \/ SendFlush \/ Reply
      BY <1>1, <1>9 DEF JournalTask, Untrack, SendFlush, Reply, tasks, captureVars
<1>10. CASE UNCHANGED vars
      BY <1>1, <1>10 DEF vars, tasks, captureVars
<1> QED BY <1>1, <1>2, <1>3, <1>4, <1>5, <1>6, <1>7, <1>8, <1>9, <1>10 DEF Next, Task

LEMMA StepDescent == StateInv /\ [Next]_vars => Descent'
<1> SUFFICES ASSUME StateInv, [Next]_vars PROVE Descent'
    OBVIOUS
<1>0. Descent /\ LaunchTypes
      BY DEF StateInv, OwnerInv
<1>00. found \in [Launch -> SUBSET Launch] /\ owner \in [Launch -> Launch \cup {Nobody}]
      BY <1>0 DEF LaunchTypes
<1>1. CASE UNCHANGED <<found, owner>>
      BY <1>0, <1>1 DEF Descent
<1>2. CASE Claim
      <2> DEFINE p == Head(execs)[1]
      <2>1. found' = found /\ owner' = [owner EXCEPT ![p] = p]
            BY <1>2 DEF Claim
      <2> HIDE DEF p
      <2> QED BY <1>0, <1>00, <2>1 DEF Descent
<1>3. ASSUME NEW l \in Launch, Poll(l) PROVE Descent'
      <2>1. /\ owner' = owner
            /\ \E new \in SUBSET {c \in Launch : Descends(c, l)} :
                  found' = [found EXCEPT ![l] = @ \cup new]
            BY <1>3 DEF Poll
      <2>2. \A c \in Launch : Descends(c, l) => l \in Ancestors[c]
            BY DEF Descends
      <2> QED BY <1>0, <1>00, <2>1, <2>2 DEF Descent
<1>4. ASSUME NEW l \in Launch, NEW c \in Launch, Collect(l, c) PROVE Descent'
      BY <1>0, <1>00, <1>4 DEF Collect, Descent
<1>5. ASSUME NEW l \in Launch, AllDead(l) PROVE Descent'
      BY <1>0, <1>00, <1>5 DEF AllDead, Descent
<1>6. ASSUME NEW l \in Launch, Prune(l) PROVE Descent'
      BY <1>0, <1>00, <1>6 DEF Prune, Descent
<1>7. CASE \E l \in Launch : StartLaunch(l) \/ StopLaunch(l)
      BY <1>1, <1>7 DEF StartLaunch, StopLaunch
<1>8. CASE \E p \in Launch : Run(p) \/ Exit(p) \/ \E f \in File : Write(p, f)
      BY <1>1, <1>8 DEF Run, Exit, Write, tasks
<1>9. CASE IgnoreExec \/ Reader \/ \E e \in pending : Expire(e)
      BY <1>1, <1>9 DEF IgnoreExec, Reader, ReadEvent, Retry, Send, Expire, ReadUnchanged, tasks
<1>10. CASE JournalTask \/ (\E b \in Bucket : Untrack(b)) \/ SendFlush \/ Reply
      BY <1>1, <1>10 DEF JournalTask, Untrack, SendFlush, Reply, tasks
<1>11. CASE UNCHANGED vars
      BY <1>1, <1>11 DEF vars, tasks
<1> QED BY <1>2, <1>3, <1>4, <1>5, <1>6, <1>7, <1>8, <1>9, <1>10, <1>11 DEF Next, Task

LEMMA TailIs ==
    ASSUME NEW S, NEW s \in Seq(S), s # <<>>
    PROVE  /\ Len(Tail(s)) = Len(s) - 1 /\ Len(s) \in Nat /\ Len(s) > 0 /\ Head(s) = s[1]
           /\ \A k \in 1 .. Len(s) - 1 : Tail(s)[k] = s[k + 1]
OBVIOUS

LEMMA StepExecsMatch == StateInv /\ [Next]_vars => ExecsMatch'
<1> SUFFICES ASSUME StateInv, [Next]_vars PROVE ExecsMatch'
    OBVIOUS
<1>0. /\ ExecsMatch /\ execs \in Seq(Launch \X Bucket)
      /\ proc \in [Launch -> {"none", "running", "exited"}]
      BY DEF StateInv, DataTypes
<1>00. \A k \in 1 .. Len(execs) : execs[k][1] \in Launch
      BY <1>0
<1>1. CASE UNCHANGED <<proc, execs>>
      BY <1>0, <1>1 DEF ExecsMatch
<1>2. CASE Claim \/ IgnoreExec
      <2>1. execs # <<>> /\ execs' = Tail(execs) /\ proc' = proc
            BY <1>2 DEF Claim, IgnoreExec
      <2>2. /\ Len(execs') = Len(execs) - 1
            /\ \A k \in 1 .. Len(execs) - 1 : execs'[k] = execs[k + 1]
            BY <1>0, <2>1, TailIs
      <2>3. ASSUME NEW k \in 1 .. Len(execs')
            PROVE  k + 1 \in 1 .. Len(execs) /\ execs'[k] = execs[k + 1]
            BY <1>0, <2>2
      <2> QED BY <1>0, <2>1, <2>3 DEF ExecsMatch
<1>3. ASSUME NEW p \in Launch, Run(p) PROVE ExecsMatch'
      <2>1. proc' = [proc EXCEPT ![p] = "running"]
            BY <1>3 DEF Run
      <2>2. PICK o \in Seq(Marked(p)) :
              /\ Len(execs') = Len(execs) + Len(o)
              /\ \A k \in 1 .. Len(execs) : execs'[k] = execs[k]
              /\ \A n \in 1 .. Len(o) : execs'[Len(execs) + n] = <<p, Runs[p][o[n]]>>
            BY <1>3, RunExecs
      <2>3. ASSUME NEW k \in 1 .. Len(execs')
            PROVE  /\ proc'[execs'[k][1]] # "none"
                   /\ \E i \in DOMAIN Runs[execs'[k][1]] : Runs[execs'[k][1]][i] = execs'[k][2]
            <3>1. CASE k \in 1 .. Len(execs)
                  BY <1>0, <1>00, <2>1, <2>2, <3>1 DEF ExecsMatch
            <3>2. CASE k \notin 1 .. Len(execs)
                  <4> DEFINE n == k - Len(execs)
                  <4>1. n \in 1 .. Len(o) /\ k = Len(execs) + n
                        BY <1>0, <2>2, <3>2
                  <4>2. execs'[k] = <<p, Runs[p][o[n]]>> /\ o[n] \in DOMAIN Runs[p]
                        BY <2>2, <4>1 DEF Marked
                  <4> QED BY <1>0, <2>1, <4>2
            <3> QED BY <3>1, <3>2
      <2> QED BY <2>3 DEF ExecsMatch
<1>4. ASSUME NEW p \in Launch, Exit(p) PROVE ExecsMatch'
      BY <1>0, <1>00, <1>4 DEF Exit, ExecsMatch
<1>5. CASE \E p \in Launch : \E f \in File : Write(p, f)
      BY <1>1, <1>5 DEF Write
<1>6. CASE \E l \in Launch : Task(l)
      BY <1>1, <1>6 DEF Task, StartLaunch, Poll, Collect, AllDead, Prune, StopLaunch
<1>7. CASE Reader \/ \E e \in pending : Expire(e)
      BY <1>1, <1>7 DEF Reader, ReadEvent, Retry, Send, Expire, ReadUnchanged
<1>8. CASE JournalTask \/ (\E b \in Bucket : Untrack(b)) \/ SendFlush \/ Reply
      BY <1>1, <1>8 DEF JournalTask, Untrack, SendFlush, Reply
<1>9. CASE UNCHANGED vars
      BY <1>1, <1>9 DEF vars
<1> QED BY <1>2, <1>3, <1>4, <1>5, <1>6, <1>7, <1>8, <1>9 DEF Next

LEMMA StateHolds == Spec => []StateInv
<1>1. StateInv /\ [Next]_vars => StateInv'
      <2>1. CaptureInv /\ [Next]_vars => CaptureInv'
            BY DaemonCalls, StepInv
      <2> QED BY <2>1, StepOwner, StepTypes, StepClaims, StepDescent, StepExecsMatch DEF StateInv
<1> QED BY <1>1, InitState, PTL DEF Spec

(* Every variable has its type, whichever launches overlap: in particular  *)
(* whatever is recorded carries the bucket of some tracked app.            *)
THEOREM CaptureStates == Spec => []CaptureStateOK
<1>1. StateInv => CaptureStateOK
      <2> SUFFICES ASSUME StateInv PROVE CaptureStateOK
          OBVIOUS
      <2>1. CaptureTypeOK
            BY DEF StateInv, CaptureInv
      <2>2. LaunchTypes /\ DataTypes
            BY DEF StateInv, OwnerInv
      <2>3. /\ SeqRange(execs) \subseteq Launch \X Bucket /\ SeqRange(queue) \subseteq Event
            /\ SeqRange(hand) \subseteq Record /\ SeqRange(channel) \subseteq Record \cup {Flush}
            BY <2>2, RangeIs DEF DataTypes
      <2> QED BY <2>1, <2>2, <2>3 DEF CaptureStateOK, LaunchTypes, DataTypes, Phase
<1> QED BY <1>1, StateHolds, PTL

-----------------------------------------------------------------------------
(* The first match claims.                                                 *)

(* As long as a process may still be claimed, what it has matched and is   *)
(* watched is announced before anything it has matched later.              *)
Announced(p, i) ==
    \A k \in 1 .. Len(execs) : execs[k][1] = p =>
        \/ \E j \in 1 .. i : Runs[p][j] = execs[k][2]
        \/ \E h \in 1 .. k - 1 : execs[h] = <<p, Runs[p][i]>>

AnnouncedInOrder ==
    \A p \in Launch : proc[p] = "running" /\ owner[p] = Nobody =>
        \A i \in DOMAIN Runs[p] : Runs[p][i] \in watched => Announced(p, i)

FirstInv == AnnouncedInOrder /\ FirstMatchClaims

LEMMA InitFirst == Init => FirstInv
BY DEF Init, FirstInv, AnnouncedInOrder, FirstMatchClaims

(* Steps that announce nothing and claim nothing.                          *)
LEMMA FirstFrame ==
    ASSUME FirstInv, UNCHANGED <<execs, txid>>, watched' \subseteq watched,
           \A p \in Launch : proc'[p] = "running" /\ owner'[p] = Nobody =>
                                 proc[p] = "running" /\ owner[p] = Nobody
    PROVE  FirstInv'
BY DEF FirstInv, AnnouncedInOrder, Announced, FirstMatchClaims

LEMMA RunFirst == ASSUME StateInv, FirstInv, NEW p \in Launch, Run(p) PROVE FirstInv'
<1>1. /\ proc[p] = "none" /\ proc' = [proc EXCEPT ![p] = "running"]
      /\ UNCHANGED <<owner, txid, watched>>
      BY DEF Run, tasks, untrack
<1>2. PICK o \in Seq(Marked(p)) :
              /\ SeqRange(o) = Marked(p)
              /\ \A m, n \in 1 .. Len(o) : m < n => o[m] < o[n]
              /\ Len(execs') = Len(execs) + Len(o)
              /\ \A k \in 1 .. Len(execs) : execs'[k] = execs[k]
              /\ \A n \in 1 .. Len(o) : execs'[Len(execs) + n] = <<p, Runs[p][o[n]]>>
      BY RunExecs
<1>3. /\ execs \in Seq(Launch \X Bucket) /\ Len(execs) \in Nat /\ Len(o) \in Nat
      /\ proc \in [Launch -> {"none", "running", "exited"}]
      BY DEF StateInv, DataTypes
<1>4. \A k \in 1 .. Len(execs) : execs[k][1] # p
      BY <1>1 DEF StateInv, ExecsMatch
<1>5. DOMAIN Runs[p] \subseteq Nat
      BY ProcessAssumption
<1>6. ASSUME NEW q \in Launch, proc'[q] = "running", owner'[q] = Nobody,
             NEW i \in DOMAIN Runs[q], Runs[q][i] \in watched,
             NEW k \in 1 .. Len(execs'), execs'[k][1] = q
      PROVE  \/ \E j \in 1 .. i : Runs[q][j] = execs'[k][2]
             \/ \E h \in 1 .. k - 1 : execs'[h] = <<q, Runs[q][i]>>
      <2>1. CASE k \in 1 .. Len(execs)
            <3>1. q # p /\ execs'[k] = execs[k]
                  BY <1>2, <1>4, <1>6, <2>1
            <3>2. proc[q] = "running" /\ owner[q] = Nobody
                  BY <1>1, <1>3, <1>6, <3>1
            <3>3. Announced(q, i)
                  BY <1>6, <3>2 DEF FirstInv, AnnouncedInOrder
            <3>4. \/ \E j \in 1 .. i : Runs[q][j] = execs[k][2]
                  \/ \E h \in 1 .. k - 1 : execs[h] = <<q, Runs[q][i]>>
                  BY <1>6, <2>1, <3>1, <3>3 DEF Announced
            <3>5. \A h \in 1 .. k - 1 : execs'[h] = execs[h]
                  BY <1>2, <1>3, <2>1
            <3> QED BY <3>1, <3>4, <3>5
      <2>2. CASE k \notin 1 .. Len(execs)
            <3> DEFINE n == k - Len(execs)
            <3>1. n \in 1 .. Len(o) /\ k = Len(execs) + n
                  BY <1>2, <1>3, <2>2
            <3>2. execs'[k] = <<p, Runs[p][o[n]]>> /\ q = p
                  BY <1>2, <1>6, <3>1
            <3>3. i \in Marked(p)
                  BY <1>6, <3>2 DEF Marked
            <3>4. PICK m \in 1 .. Len(o) : o[m] = i
                  BY <1>2, <3>3, RangeIs
            <3>5. o[n] \in DOMAIN Runs[p]
                  BY <3>1 DEF Marked
            <3>6. CASE m < n
                  <4>1. Len(execs) + m \in 1 .. k - 1
                        BY <1>3, <3>1, <3>4, <3>6
                  <4>2. execs'[Len(execs) + m] = <<q, Runs[q][i]>>
                        BY <1>2, <3>2, <3>4
                  <4> QED BY <4>1, <4>2
            <3>7. CASE ~(m < n)
                  <4>1. o[n] \in Nat /\ i \in Nat
                        BY <1>5, <1>6, <3>2, <3>5
                  <4>2. m = n \/ n < m
                        <5>1. m \in Nat /\ n \in Nat
                              BY <1>3, <3>1
                        <5> HIDE DEF n
                        <5> QED BY <3>7, <5>1
                  <4>3. o[n] <= i
                        BY <1>2, <3>1, <3>4, <4>1, <4>2
                  <4>4. o[n] \in 1 .. i
                        BY <3>5, <4>1, <4>3, ProcessAssumption
                  <4> QED BY <3>2, <4>4
            <3> QED BY <3>6, <3>7
      <2> QED BY <2>1, <2>2
<1>7. AnnouncedInOrder'
      BY <1>1, <1>6 DEF AnnouncedInOrder, Announced
<1>8. FirstMatchClaims'
      BY <1>1 DEF FirstInv, FirstMatchClaims
<1> QED BY <1>7, <1>8 DEF FirstInv

(* The event at the head of the queue goes.                                *)
LEMMA TailAnnounced ==
    ASSUME StateInv, execs # <<>>, execs' = Tail(execs), NEW p \in Launch, NEW i \in DOMAIN Runs[p],
           Announced(p, i), Head(execs) # <<p, Runs[p][i]>>
    PROVE  Announced(p, i)'
<1>1. execs \in Seq(Launch \X Bucket)
      BY DEF StateInv, DataTypes
<1>2. /\ Len(execs') = Len(execs) - 1 /\ Len(execs) \in Nat /\ Head(execs) = execs[1]
      /\ \A k \in 1 .. Len(execs) - 1 : execs'[k] = execs[k + 1]
      BY <1>1, TailIs
<1>3. ASSUME NEW k \in 1 .. Len(execs'), execs'[k][1] = p,
             ~ \E j \in 1 .. i : Runs[p][j] = execs'[k][2]
      PROVE  \E h \in 1 .. k - 1 : execs'[h] = <<p, Runs[p][i]>>
      <2>1. k + 1 \in 1 .. Len(execs) /\ execs'[k] = execs[k + 1]
            BY <1>2
      <2>2. PICK h \in 1 .. (k + 1) - 1 : execs[h] = <<p, Runs[p][i]>>
            BY <1>3, <2>1 DEF Announced
      <2>3. h # 1
            BY <1>2, <2>2
      <2>4. h - 1 \in 1 .. k - 1 /\ h - 1 \in 1 .. Len(execs) - 1 /\ (h - 1) + 1 = h
            BY <1>2, <2>1, <2>2, <2>3
      <2>5. execs'[h - 1] = execs[h]
            BY <1>2, <2>4
      <2> QED BY <2>2, <2>4, <2>5
<1> QED BY <1>3 DEF Announced

LEMMA IgnoreFirst == ASSUME StateInv, FirstInv, IgnoreExec PROVE FirstInv'
<1>1. /\ execs # <<>> /\ execs' = Tail(execs) /\ UNCHANGED <<proc, owner, txid, watched>>
      /\ Head(execs)[2] \notin watched \/ owner[Head(execs)[1]] # Nobody
         \/ proc[Head(execs)[1]] = "exited"
      BY DEF IgnoreExec, Claimable, tasks, untrack
<1>2. ASSUME NEW p \in Launch, proc[p] = "running", owner[p] = Nobody,
             NEW i \in DOMAIN Runs[p], Runs[p][i] \in watched
      PROVE  Announced(p, i)'
      <2>1. Announced(p, i)
            BY <1>2 DEF FirstInv, AnnouncedInOrder
      <2>2. Head(execs) # <<p, Runs[p][i]>>
            BY <1>1, <1>2
      <2> QED BY <1>1, <2>1, <2>2, TailAnnounced
<1>3. AnnouncedInOrder'
      BY <1>1, <1>2 DEF AnnouncedInOrder
<1>4. FirstMatchClaims'
      BY <1>1 DEF FirstInv, FirstMatchClaims
<1> QED BY <1>3, <1>4 DEF FirstInv

LEMMA ClaimFirst == ASSUME StateInv, FirstInv, Claim PROVE FirstInv'
<1> DEFINE p == Head(execs)[1]
           b == Head(execs)[2]
<1>1. /\ execs # <<>> /\ execs' = Tail(execs) /\ UNCHANGED <<proc, watched>>
      /\ proc[p] = "running" /\ owner[p] = Nobody
      /\ txid' = [txid EXCEPT ![p] = b] /\ owner' = [owner EXCEPT ![p] = p]
      BY DEF Claim, Claimable, untrack
<1>2. execs \in Seq(Launch \X Bucket) /\ txid \in [Launch -> Bucket \cup {Nobody}]
      /\ owner \in [Launch -> Launch \cup {Nobody}]
      BY DEF StateInv, DataTypes, OwnerInv, LaunchTypes
<1>3. Head(execs) \in Launch \X Bucket /\ Head(execs) = execs[1] /\ 1 \in 1 .. Len(execs)
      BY <1>1, <1>2, RangeHead, TailIs
<1>4. p \in Launch /\ p # Nobody
      BY <1>3, ProcessAssumption
<1>5. ASSUME NEW q \in Launch, proc'[q] = "running", owner'[q] = Nobody,
             NEW i \in DOMAIN Runs[q], Runs[q][i] \in watched
      PROVE  Announced(q, i)'
      <2>1. q # p /\ owner[q] = Nobody /\ proc[q] = "running"
            BY <1>1, <1>2, <1>4, <1>5
      <2>2. Announced(q, i)
            BY <1>5, <2>1 DEF FirstInv, AnnouncedInOrder
      <2>3. Head(execs) # <<q, Runs[q][i]>>
            BY <2>1
      <2> QED BY <1>1, <2>2, <2>3, TailAnnounced
<1>6. ASSUME NEW i \in DOMAIN Runs[p], Runs[p][i] \in watched, b # Runs[p][i]
      PROVE  \E j \in 1 .. i - 1 : Runs[p][j] = b
      <2>1. Announced(p, i)
            BY <1>1, <1>4, <1>6 DEF FirstInv, AnnouncedInOrder
      <2>2. PICK j \in 1 .. i : Runs[p][j] = b
            BY <1>3, <2>1 DEF Announced
      <2>3. i \in Nat /\ j # i
            BY <1>4, <1>6, <2>2, ProcessAssumption
      <2> QED BY <2>2, <2>3
<1> HIDE DEF p, b
<1>7. AnnouncedInOrder'
      BY <1>1, <1>5 DEF AnnouncedInOrder
<1>8. FirstMatchClaims'
      BY <1>1, <1>2, <1>4, <1>6 DEF FirstInv, FirstMatchClaims
<1> QED BY <1>7, <1>8 DEF FirstInv

LEMMA StepFirst == StateInv /\ FirstInv /\ [Next]_vars => FirstInv'
<1> SUFFICES ASSUME StateInv, FirstInv, [Next]_vars PROVE FirstInv'
    OBVIOUS
<1>0. /\ OwnerInv /\ owner \in [Launch -> Launch \cup {Nobody}]
      /\ proc \in [Launch -> {"none", "running", "exited"}]
      /\ {known, found, pids} \subseteq [Launch -> SUBSET Launch]
      BY DEF StateInv, OwnerInv, LaunchTypes, DataTypes
<1>1. ASSUME NEW p \in Launch, Exit(p) PROVE FirstInv'
      BY <1>0, <1>1, FirstFrame DEF Exit, tasks, untrack
<1>2. ASSUME NEW l \in Launch, NEW c \in Launch, Collect(l, c) PROVE FirstInv'
      <2>1. /\ owner' = [owner EXCEPT ![c] = l] /\ UNCHANGED <<proc, execs, txid, watched>>
            BY <1>2 DEF Collect, untrack
      <2>2. l # Nobody
            BY ProcessAssumption
      <2> QED BY <1>0, <2>1, <2>2, FirstFrame
<1>3. ASSUME NEW l \in Launch, Prune(l) PROVE FirstInv'
      <2>1. /\ phase[l] = "grace" /\ UNCHANGED <<proc, execs, txid, watched>>
            /\ owner' = [p \in Launch |-> IF p \in pids[l] THEN Nobody ELSE owner[p]]
            BY <1>3 DEF Prune, Entries, untrack
      <2>2. \A p \in pids[l] : proc[p] = "exited"
            BY <1>0, <2>1 DEF OwnerInv, RegisteredKnown
      <2> QED BY <1>0, <2>1, <2>2, FirstFrame
<1>4. ASSUME NEW l \in Launch, StartLaunch(l) \/ Poll(l) \/ AllDead(l) \/ StopLaunch(l) PROVE FirstInv'
      BY <1>4, FirstFrame DEF StartLaunch, Poll, AllDead, StopLaunch, untrack
<1>5. CASE Claim \/ IgnoreExec \/ \E p \in Launch : Run(p)
      BY <1>5, ClaimFirst, IgnoreFirst, RunFirst
<1>6. CASE \E p \in Launch : \E f \in File : Write(p, f)
      BY <1>6, FirstFrame DEF Write, tasks, untrack
<1>7. CASE Reader \/ \E e \in pending : Expire(e)
      BY <1>7, FirstFrame DEF Reader, ReadEvent, Retry, Send, Expire, ReadUnchanged, tasks, untrack
<1>8. CASE JournalTask \/ (\E b \in Bucket : Untrack(b)) \/ SendFlush \/ Reply
      BY <1>8, FirstFrame DEF JournalTask, Untrack, SendFlush, Reply, tasks
<1>9. CASE UNCHANGED vars
      BY <1>9, FirstFrame DEF vars, tasks, untrack
<1> QED BY <1>1, <1>2, <1>3, <1>4, <1>5, <1>6, <1>7, <1>8, <1>9 DEF Next, Task

(* A launch is of the app whose executable matched first, among those that *)
(* are still tracked, however exec events, exits and untracks interleave.  *)
THEOREM FirstMatches == Spec => []FirstMatchClaims
<1>1. FirstInv => FirstMatchClaims
      BY DEF FirstInv
<1> QED BY <1>1, InitFirst, StepFirst, StateHolds, PTL DEF Spec

-----------------------------------------------------------------------------
(* What is recorded, and for whom.                                         *)

(* A record names the app of a launch that its process belongs to, and a   *)
(* file in that launch's home.                                             *)
Sound(r) ==
    \E l \in Ancestors[r.pid] \cup {r.pid} :
        phase[l] # "none" /\ r.txid = txid[l] /\ InHome[r.file] = HomeOf[l]

Recorded == (SeqRange(hand) \cup SeqRange(channel) \cup journal) \ {Flush}

RecordsSound == \A r \in Recorded : Sound(r)

LEMMA InitSound == Init => RecordsSound
BY RangeEmpty DEF Init, RecordsSound, Recorded

(* What a launch is of never changes.                                      *)
LEMMA ClaimsStay ==
    ASSUME StateInv, [Next]_vars, NEW l \in Launch, phase[l] # "none"
    PROVE  phase'[l] # "none" /\ txid'[l] = txid[l]
<1>0. /\ phase \in [Launch -> Phase] /\ OwnerInv /\ txid \in [Launch -> Bucket \cup {Nobody}]
      BY DEF StateInv, OwnerInv, LaunchTypes, DataTypes
<1>1. CASE UNCHANGED <<phase, txid>>
      BY <1>1
<1>2. CASE Claim
      <2> DEFINE p == Head(execs)[1]
                 b == Head(execs)[2]
      <2>1. /\ proc[p] = "running" /\ owner[p] = Nobody
            /\ phase' = [phase EXCEPT ![p] = "claimed"] /\ txid' = [txid EXCEPT ![p] = b]
            BY <1>2 DEF Claim, Claimable
      <2>2. l # p
            BY <1>0, <2>1 DEF OwnerInv, ClaimedOwned
      <2> HIDE DEF p, b
      <2> QED BY <1>0, <2>1, <2>2
<1>3. ASSUME NEW k \in Launch, Task(k) PROVE phase'[l] # "none" /\ txid'[l] = txid[l]
      <2>1. txid' = txid /\ (phase' = phase \/ \E s \in {"watching", "grace", "pruned", "done"} :
                                                  phase' = [phase EXCEPT ![k] = s])
            BY <1>3 DEF Task, StartLaunch, Poll, Collect, AllDead, Prune, StopLaunch
      <2> QED BY <1>0, <2>1
<1>4. CASE \E p \in Launch : Run(p) \/ Exit(p) \/ \E f \in File : Write(p, f)
      BY <1>1, <1>4 DEF Run, Exit, Write, tasks
<1>5. CASE IgnoreExec \/ Reader \/ \E e \in pending : Expire(e)
      BY <1>1, <1>5 DEF IgnoreExec, Reader, ReadEvent, Retry, Send, Expire, ReadUnchanged, tasks
<1>6. CASE JournalTask \/ (\E b \in Bucket : Untrack(b)) \/ SendFlush \/ Reply
      BY <1>1, <1>6 DEF JournalTask, Untrack, SendFlush, Reply, tasks
<1>7. CASE UNCHANGED vars
      BY <1>1, <1>7 DEF vars, tasks
<1> QED BY <1>2, <1>3, <1>4, <1>5, <1>6, <1>7 DEF Next

LEMMA SoundStays ==
    ASSUME StateInv, [Next]_vars, NEW r \in Record, Sound(r)
    PROVE  Sound(r)'
<1>1. PICK l \in Ancestors[r.pid] \cup {r.pid} :
              phase[l] # "none" /\ r.txid = txid[l] /\ InHome[r.file] = HomeOf[l]
      BY DEF Sound
<1>2. l \in Launch
      BY ProcessAssumption DEF Record
<1>3. phase'[l] # "none" /\ txid'[l] = txid[l]
      BY <1>1, <1>2, ClaimsStay
<1> QED BY <1>1, <1>3 DEF Sound

LEMMA RecordedType == StateInv => Recorded \subseteq Record /\ Flush \notin Record
BY RangeIs, ProcessAssumption DEF StateInv, DataTypes, Recorded

(* What is new among the records is what has been attributed.              *)
LEMMA NewRecords ==
    ASSUME StateInv, [Next]_vars, NEW r \in Recorded', r \notin Recorded
    PROVE  \E e \in Event :
              /\ e \in SeqRange(queue) \cup pending /\ owner[e.pid] # Nobody /\ InLaunchHome(e)
              /\ r = [txid |-> txid[owner[e.pid]], pid |-> e.pid, file |-> e.file]
<1>0. /\ queue \in Seq(Event) /\ hand \in Seq(Record) /\ pending \subseteq Event
      /\ channel \in Seq(Record \cup {Flush})
      BY DEF StateInv, DataTypes
<1>1. CASE UNCHANGED <<hand, channel, journal>>
      BY <1>1 DEF Recorded
<1>2. ASSUME NEW e \in Event, owner[e.pid] # Nobody, Attribute(e), UNCHANGED <<channel, journal>>
      PROVE  /\ owner[e.pid] # Nobody /\ InLaunchHome(e)
             /\ r = [txid |-> txid[owner[e.pid]], pid |-> e.pid, file |-> e.file]
      <2>1. /\ InLaunchHome(e) =>
                SeqRange(hand') = SeqRange(hand) \cup
                    {[txid |-> txid[owner[e.pid]], pid |-> e.pid, file |-> e.file]}
            /\ ~InLaunchHome(e) => hand' = hand
            BY <1>2, AttributeIs
      <2> QED BY <1>2, <2>1 DEF Recorded
<1>3. CASE ReadEvent
      <2> DEFINE e == Head(queue)
      <2>1. /\ queue # <<>> /\ UNCHANGED <<channel, journal>>
            /\ owner[e.pid] # Nobody => Attribute(e)
            /\ owner[e.pid] = Nobody => hand' = hand
            BY <1>3 DEF ReadEvent, ReadUnchanged, store
      <2>2. e \in Event /\ e \in SeqRange(queue)
            BY <1>0, <2>1, RangeHead
      <2>3. CASE owner[e.pid] = Nobody
            BY <1>1, <2>1, <2>3
      <2>4. CASE owner[e.pid] # Nobody
            <3> HIDE DEF e
            <3> QED BY <1>2, <2>1, <2>2, <2>4
      <2> QED BY <2>3, <2>4
<1>4. ASSUME NEW e \in pending, Retry(e)
      PROVE  /\ e \in Event /\ owner[e.pid] # Nobody /\ InLaunchHome(e)
             /\ r = [txid |-> txid[owner[e.pid]], pid |-> e.pid, file |-> e.file]
      BY <1>0, <1>2, <1>4 DEF Retry, ReadUnchanged, store
<1>5. CASE Send
      <2>1. /\ hand # <<>> /\ hand' = Tail(hand) /\ channel' = Append(channel, Head(hand))
            /\ journal' = journal
            BY <1>5 DEF Send
      <2>2. SeqRange(hand) = {Head(hand)} \cup SeqRange(hand') /\ Head(hand) \in Record
            BY <1>0, <2>1, RangeHead
      <2>3. SeqRange(channel') = SeqRange(channel) \cup {Head(hand)}
            BY <1>0, <2>1, <2>2, RangeAppend
      <2> QED BY <2>1, <2>2, <2>3 DEF Recorded
<1>6. CASE JournalTask
      <2>1. /\ channel # <<>> /\ channel' = Tail(channel) /\ hand' = hand
            /\ journal' = journal \/ journal' = journal \cup {Head(channel)}
            BY <1>6 DEF JournalTask, loop
      <2>2. SeqRange(channel) = {Head(channel)} \cup SeqRange(channel')
            BY <1>0, <2>1, RangeHead
      <2> QED BY <2>1, <2>2 DEF Recorded
<1>7. CASE SendFlush
      <2>1. channel' = Append(channel, Flush) /\ UNCHANGED <<hand, journal>>
            BY <1>7 DEF SendFlush, FlushIsSent, loop
      <2>2. SeqRange(channel') = SeqRange(channel) \cup {Flush}
            BY <1>0, <2>1, RangeAppend
      <2> QED BY <2>1, <2>2 DEF Recorded
<1>8. ASSUME NEW l \in Launch, StopLaunch(l) PROVE FALSE
      <2>1. /\ hand' = hand \/ hand' = <<>>
            /\ UNCHANGED <<channel, journal>>
            BY <1>8 DEF StopLaunch, loop, store
      <2> QED BY <2>1, RangeEmpty DEF Recorded
<1>9. CASE \E l \in Launch : StartLaunch(l) \/ Poll(l) \/ (\E c \in Launch : Collect(l, c))
                             \/ AllDead(l) \/ Prune(l)
      BY <1>1, <1>9 DEF StartLaunch, Poll, Collect, AllDead, Prune, loop, store
<1>10. CASE \E p \in Launch : Run(p) \/ Exit(p) \/ \E f \in File : Write(p, f)
      BY <1>1, <1>10 DEF Run, Exit, Write, loop, store
<1>11. CASE Claim \/ IgnoreExec \/ (\E e \in pending : Expire(e)) \/ (\E b \in Bucket : Untrack(b)) \/ Reply
      BY <1>1, <1>11 DEF Claim, IgnoreExec, Expire, Untrack, Reply, ReadUnchanged, loop, store
<1>12. CASE UNCHANGED vars
      BY <1>1, <1>12 DEF vars, loop, store
<1> QED BY <1>3, <1>4, <1>5, <1>6, <1>7, <1>8, <1>9, <1>10, <1>11, <1>12 DEF Next, Task, Reader

LEMMA StepSound == StateInv /\ StateInv' /\ RecordsSound /\ [Next]_vars => RecordsSound'
<1>0. (StateInv => Recorded \subseteq Record /\ Flush \notin Record)'
      BY RecordedType, PTL
<1> SUFFICES ASSUME StateInv, StateInv', RecordsSound, [Next]_vars, NEW r \in Recorded'
             PROVE  Sound(r)'
    BY DEF RecordsSound
<1>1. r \in Record
      BY <1>0
<1>2. Sound(r)
      <2>1. CASE r \in Recorded
            BY <2>1 DEF RecordsSound
      <2>2. CASE r \notin Recorded
            <3>1. PICK e \in Event : 
                    /\ owner[e.pid] # Nobody /\ InLaunchHome(e)
                    /\ r = [txid |-> txid[owner[e.pid]], pid |-> e.pid, file |-> e.file]
                  BY <2>2, NewRecords
            <3>2. e.pid \in Launch
                  BY DEF Event
            <3>3. /\ owner[e.pid] \in Ancestors[e.pid] \cup {e.pid}
                  /\ phase[owner[e.pid]] \in {"claimed", "watching", "grace"}
                  BY <3>1, <3>2, LivesOwner
            <3>4. r.txid = txid[owner[e.pid]] /\ r.pid = e.pid /\ r.file = e.file
                  BY <3>1
            <3> QED BY <3>1, <3>3, <3>4 DEF Sound, InLaunchHome
      <2> QED BY <2>1, <2>2
<1> QED BY <1>1, <1>2, SoundStays

(* A change is recorded for an app only if a process it launched, or a     *)
(* descendant of one, has made it in the home of that launch, whichever    *)
(* launch its process counts for when the event is read.                   *)
THEOREM AttributionHolds == Spec => []AttributionSound
<1>1. StateInv /\ RecordsSound => AttributionSound
      <2> SUFFICES ASSUME StateInv, RecordsSound, NEW r \in journal
                   PROVE  \E l \in Ancestors[r.pid] \cup {r.pid} :
                             /\ r.txid = txid[l] /\ Runs[l] # <<>>
                             /\ InHome[r.file] = HomeOf[l]
          BY DEF AttributionSound
      <2>1. r \in Record /\ r # Flush
            BY ProcessAssumption DEF StateInv, DataTypes
      <2>2. PICK l \in Ancestors[r.pid] \cup {r.pid} :
                    phase[l] # "none" /\ r.txid = txid[l] /\ InHome[r.file] = HomeOf[l]
            BY <2>1 DEF RecordsSound, Recorded, Sound
      <2>3. l \in Launch
            BY <2>1, ProcessAssumption DEF Record
      <2>4. Runs[l] # <<>>
            BY <2>2, <2>3 DEF StateInv, Claims
      <2> QED BY <2>2, <2>4
<1> QED BY <1>1, InitSound, StepSound, StateHolds, PTL DEF Spec

-----------------------------------------------------------------------------
(* What is owed is delivered.                                              *)

Kept == owed \ late
Stored == Events((SeqRange(channel) \cup journal) \ {Flush})

(* Each change is written once, and before it is read.                     *)
WrittenOnce == SeqRange(queue) \cup pending \cup owed \subseteq written

(* What is owed to a launch is in the home of all it may be read for.      *)
AtHome ==
    \A e \in owed : \A q \in Ancestors[e.pid] \cup {e.pid} :
        Runs[q] # <<>> => InHome[e.file] = HomeOf[q]

(* While it waits to be read or sent, and is not late, its process has an  *)
(* owner that holds a reference on the group, so that it is attributed and *)
(* not lost with the group.                                                *)
StillOwned ==
    faults = 0 =>
        \A e \in Kept \cap Waiting : owner[e.pid] # Nobody /\ stage[owner[e.pid]] = "held"

(* Once a launch is pruned, all that is still to come of it is late.       *)
PrunedIsLate ==
    \A l \in Launch : phase[l] \in {"pruned", "done"} =>
        \A e \in Waiting : e.pid \in pids[l] => e \in late

DeliverInv == WrittenOnce /\ AtHome /\ StillOwned /\ PrunedIsLate /\ NothingLost

LEMMA LostIs == NothingLost <=> (faults = 0 => Kept \subseteq Waiting \cup Stored)
BY DEF NothingLost, Kept, Stored

LEMMA EventsIs ==
    ASSUME NEW R, NEW e
    PROVE  e \in Events(R) <=> \E r \in R : e = [pid |-> r.pid, file |-> r.file]
BY DEF Events

LEMMA HandIs == InHand = Events(SeqRange(hand))
BY DEF InHand, Events

LEMMA InitDeliver == Init => DeliverInv
BY RangeEmpty DEF Init, CaptureInit, DeliverInv, WrittenOnce, AtHome, StillOwned, PrunedIsLate,
   NothingLost, Kept, Waiting, InHand

LEMMA FaultsStay == StateInv /\ [Next]_vars /\ faults' = 0 => faults = 0
<1> SUFFICES ASSUME StateInv, [Next]_vars, faults' = 0 PROVE faults = 0
    OBVIOUS
<1>1. faults \in Nat
      BY DEF StateInv, CaptureInv, CaptureTypeOK
<1>2. [CaptureNext]_captureVars
      BY DaemonCalls
<1>3. faults' = faults \/ faults' = faults + 1
      BY <1>2 DEF CaptureNext, captureVars, Call, Return, Start, Refuse, MarkFails, Stop,
                  DisarmFails, StopFails, Faulty
<1> QED BY <1>1, <1>3

(* A launch that holds a reference keeps the group and its mark.           *)
LEMMA HeldIsMarked ==
    ASSUME CaptureInv, faults = 0, NEW l \in Launch, stage[l] = "held"
    PROVE  FsOf[l] \in marks /\ group
<1>1. FsOf[l] \in Fs
      BY CaptureAssumption
<1>2. l \in On(stage, {"held"}, FsOf[l])
      BY DEF On
<1>3. refcounts[FsOf[l]] > 0
      BY <1>1, <1>2, OnFinite DEF CaptureInv, CountExact
<1> QED BY <1>1, <1>3 DEF CaptureInv, CountExact, GroupUsed

LEMMA HeldGroup ==
    (CaptureInv /\ faults = 0 /\ (\E l \in Launch : stage[l] = "held") => group)'
<1>1. CaptureInv /\ faults = 0 /\ (\E l \in Launch : stage[l] = "held") => group
      BY HeldIsMarked
<1> QED BY <1>1, PTL

LEMMA OwedAtHome ==
    ASSUME StateInv, DeliverInv, NEW e \in owed, owner[e.pid] # Nobody
    PROVE  InLaunchHome(e)
<1>1. e \in Event /\ e.pid \in Launch
      BY DEF StateInv, DataTypes, Event
<1>2. owner[e.pid] \in Ancestors[e.pid] \cup {e.pid} /\ Runs[owner[e.pid]] # <<>>
      BY <1>1, LivesOwner
<1> QED BY <1>2 DEF DeliverInv, AtHome, InLaunchHome

(* Steps of the reading loop and of the journal task.                      *)
LEMMA DeliverFrame ==
    ASSUME DeliverInv, UNCHANGED <<stage, faults, owner, phase, pids, written, owed>>,
           SeqRange(queue') \cup pending' \subseteq written,
           Waiting' \subseteq Waiting, late \subseteq late',
           faults = 0 => Kept' \subseteq Waiting' \cup Stored'
    PROVE  DeliverInv'
<1>1. WrittenOnce' /\ AtHome'
      BY DEF DeliverInv, WrittenOnce, AtHome
<1>2. Kept' \subseteq Kept
      BY DEF Kept
<1>3. StillOwned'
      BY <1>2 DEF DeliverInv, StillOwned
<1>4. PrunedIsLate'
      BY DEF DeliverInv, PrunedIsLate
<1>5. NothingLost'
      BY DEF NothingLost, Kept, Stored
<1> QED BY <1>1, <1>3, <1>4, <1>5 DEF DeliverInv

LEMMA ReadDelivers ==
    ASSUME StateInv, DeliverInv, ReadEvent
    PROVE  DeliverInv'
<1> DEFINE e == Head(queue)
<1>1. /\ queue # <<>> /\ queue' = Tail(queue)
      /\ owner[e.pid] # Nobody => Attribute(e) /\ pending' = pending
      /\ owner[e.pid] = Nobody => /\ hand' = hand /\ pending \subseteq pending'
                                  /\ pending' \subseteq pending \cup {e}
      /\ UNCHANGED <<stage, faults, owner, phase, pids, written, owed, late, channel, journal>>
      BY DEF ReadEvent, ReadUnchanged, captureVars, tasks, store, ghosts
<1>2. queue \in Seq(Event)
      BY DEF StateInv, DataTypes
<1>3. e \in Event /\ SeqRange(queue) = {e} \cup SeqRange(queue')
      BY <1>1, <1>2, RangeHead
<1> HIDE DEF e
<1>4. Stored' = Stored
      BY <1>1 DEF Stored
<1>5. pending' \subseteq pending \cup {e}
      BY <1>1
<1>6. SeqRange(queue') \cup pending' \subseteq written
      BY <1>3, <1>5 DEF DeliverInv, WrittenOnce
<1>7. CASE owner[e.pid] # Nobody
      <2> DEFINE r == [txid |-> txid[owner[e.pid]], pid |-> e.pid, file |-> e.file]
      <2>1. /\ InLaunchHome(e) => SeqRange(hand') = SeqRange(hand) \cup {r}
            /\ ~InLaunchHome(e) => hand' = hand
            BY <1>1, <1>3, <1>7, AttributeIs
      <2>2. e = [pid |-> r.pid, file |-> r.file]
            BY <1>3 DEF Event
      <2> HIDE DEF r
      <2>3. InLaunchHome(e) => InHand' = InHand \cup {e}
            BY <2>1, <2>2 DEF InHand
      <2>4. ~InLaunchHome(e) => InHand' = InHand
            BY <2>1 DEF InHand
      <2>5. e \in owed => InLaunchHome(e)
            BY <1>7, OwedAtHome
      <2>6. Waiting' \subseteq Waiting /\ owed \cap Waiting \subseteq Waiting'
            BY <1>1, <1>3, <1>7, <2>3, <2>4, <2>5 DEF Waiting
      <2>7. faults = 0 => Kept' \subseteq Waiting' \cup Stored'
            BY <1>1, <1>4, <2>6, LostIs DEF DeliverInv, Kept
      <2> QED BY <1>1, <1>6, <2>6, <2>7, DeliverFrame
<1>8. CASE owner[e.pid] = Nobody
      <2>1. InHand' = InHand
            BY <1>1, <1>8 DEF InHand
      <2>2. faults = 0 => e \notin Kept
            BY <1>3, <1>8 DEF DeliverInv, StillOwned, Waiting
      <2>3. Waiting' \subseteq Waiting /\ Waiting \subseteq Waiting' \cup {e}
            BY <1>1, <1>3, <1>5, <1>8, <2>1 DEF Waiting
      <2>4. faults = 0 => Kept' \subseteq Waiting' \cup Stored'
            BY <1>1, <1>4, <2>2, <2>3, LostIs DEF DeliverInv, Kept
      <2> QED BY <1>1, <1>6, <2>3, <2>4, DeliverFrame
<1> QED BY <1>7, <1>8

LEMMA RetryDelivers ==
    ASSUME StateInv, DeliverInv, NEW e \in pending, Retry(e)
    PROVE  DeliverInv'
<1>1. /\ queue' = queue /\ pending' = pending \ {e} /\ owner[e.pid] # Nobody /\ Attribute(e)
      /\ UNCHANGED <<stage, faults, owner, phase, pids, written, owed, late, channel, journal>>
      BY DEF Retry, ReadUnchanged, captureVars, tasks, store, ghosts
<1>2. e \in Event
      BY DEF StateInv, DataTypes
<1>3. /\ InHand \subseteq InHand' /\ InHand' \subseteq InHand \cup {e}
      /\ InLaunchHome(e) => e \in InHand'
      <2> DEFINE r == [txid |-> txid[owner[e.pid]], pid |-> e.pid, file |-> e.file]
      <2>1. /\ InLaunchHome(e) => SeqRange(hand') = SeqRange(hand) \cup {r}
            /\ ~InLaunchHome(e) => hand' = hand
            BY <1>1, <1>2, AttributeIs
      <2>2. e = [pid |-> r.pid, file |-> r.file]
            BY <1>2 DEF Event
      <2> HIDE DEF r
      <2> QED BY <2>1, <2>2 DEF InHand
<1>4. Stored' = Stored
      BY <1>1 DEF Stored
<1>5. SeqRange(queue') \cup pending' \subseteq written
      BY <1>1 DEF DeliverInv, WrittenOnce
<1>6. e \in owed => InLaunchHome(e)
      BY <1>1, OwedAtHome
<1>7. Waiting' \subseteq Waiting /\ owed \cap Waiting \subseteq Waiting'
      BY <1>1, <1>3, <1>6 DEF Waiting
<1>8. faults = 0 => Kept' \subseteq Waiting' \cup Stored'
      BY <1>1, <1>4, <1>7, LostIs DEF DeliverInv, Kept
<1> QED BY <1>1, <1>5, <1>7, <1>8, DeliverFrame

LEMMA ExpireDelivers ==
    ASSUME DeliverInv, NEW e \in pending, Expire(e)
    PROVE  DeliverInv'
<1>1. /\ pending' = pending \ {e} /\ late' = late \cup {e}
      /\ UNCHANGED <<stage, faults, owner, phase, pids, written, owed, queue, hand, channel, journal>>
      BY DEF Expire, captureVars, tasks, store
<1>2. InHand' = InHand /\ Stored' = Stored
      BY <1>1 DEF InHand, Stored
<1>3. SeqRange(queue') \cup pending' \subseteq written
      BY <1>1 DEF DeliverInv, WrittenOnce
<1>4. Waiting' \subseteq Waiting /\ Waiting \subseteq Waiting' \cup {e}
      BY <1>1, <1>2 DEF Waiting
<1>5. faults = 0 => Kept' \subseteq Waiting' \cup Stored'
      BY <1>1, <1>2, <1>4, LostIs DEF DeliverInv, Kept
<1> QED BY <1>1, <1>3, <1>4, <1>5, DeliverFrame

LEMMA SendDelivers ==
    ASSUME StateInv, DeliverInv, Send \/ JournalTask \/ SendFlush
    PROVE  DeliverInv'
<1>1. UNCHANGED <<stage, faults, owner, phase, pids, written, owed, late, queue, pending>>
      BY DEF Send, JournalTask, SendFlush, captureVars, tasks, loop, ghosts
<1>2. hand \in Seq(Record) /\ channel \in Seq(Record \cup {Flush})
      BY DEF StateInv, DataTypes
<1>3. InHand' \subseteq InHand /\ InHand \subseteq InHand' \cup Stored' /\ Stored \subseteq Stored'
      <2>1. CASE Send
            <3>1. /\ hand # <<>> /\ hand' = Tail(hand) /\ channel' = Append(channel, Head(hand))
                  /\ journal' = journal
                  BY <2>1 DEF Send
            <3>2. Head(hand) \in Record /\ SeqRange(hand) = {Head(hand)} \cup SeqRange(hand')
                  BY <1>2, <3>1, RangeHead
            <3>3. SeqRange(channel') = SeqRange(channel) \cup {Head(hand)}
                  BY <1>2, <3>1, <3>2, RangeAppend
            <3>4. Head(hand) # Flush
                  BY <3>2, ProcessAssumption
            <3> QED BY <3>1, <3>2, <3>3, <3>4 DEF InHand, Stored, Events
      <2>2. CASE JournalTask
            <3>1. /\ channel # <<>> /\ channel' = Tail(channel) /\ hand' = hand
                  /\ journal' = IF Head(channel) = Flush THEN journal
                                ELSE journal \cup {Head(channel)}
                  BY <2>2 DEF JournalTask, loop
            <3>2. SeqRange(channel) = {Head(channel)} \cup SeqRange(channel')
                  BY <1>2, <3>1, RangeHead
            <3> QED BY <3>1, <3>2 DEF InHand, Stored, Events
      <2>3. CASE SendFlush
            <3>1. channel' = Append(channel, Flush) /\ hand' = hand /\ journal' = journal
                  BY <2>3 DEF SendFlush, FlushIsSent, loop
            <3>2. SeqRange(channel') = SeqRange(channel) \cup {Flush}
                  BY <1>2, <3>1, RangeAppend
            <3> QED BY <3>1, <3>2 DEF InHand, Stored, Events
      <2> QED BY <2>1, <2>2, <2>3
<1>4. SeqRange(queue') \cup pending' \subseteq written
      BY <1>1 DEF DeliverInv, WrittenOnce
<1>5. Waiting' \subseteq Waiting /\ Waiting \subseteq Waiting' \cup Stored'
      BY <1>1, <1>3 DEF Waiting
<1>6. faults = 0 => Kept' \subseteq Waiting' \cup Stored'
      BY <1>1, <1>3, <1>5, LostIs DEF DeliverInv, Kept
<1> QED BY <1>1, <1>4, <1>5, <1>6, DeliverFrame

LEMMA WriteDelivers ==
    ASSUME StateInv, DeliverInv, NEW p \in Launch, NEW f \in File, Write(p, f)
    PROVE  DeliverInv'
<1> DEFINE e == [pid |-> p, file |-> f]
<1>1. /\ proc[p] = "running" /\ e \notin written /\ written' = written \cup {e}
      /\ queue' = IF FsAt[InHome[f]] \in marks THEN Append(queue, e) ELSE queue
      /\ owed' = IF Captured(p, f) THEN owed \cup {e} ELSE owed
      /\ UNCHANGED <<stage, faults, owner, phase, pids, hand, pending, late, channel, journal>>
      BY DEF Write, captureVars, tasks, store
<1>2. e \in Event /\ queue \in Seq(Event) /\ e.pid = p /\ e.file = f
      BY DEF Event, StateInv, DataTypes
<1> HIDE DEF e
<1>3. SeqRange(Append(queue, e)) = SeqRange(queue) \cup {e}
      BY <1>2, RangeAppend
<1>4. /\ e \notin SeqRange(queue) /\ e \notin pending /\ e \notin owed
      /\ SeqRange(queue) \cup pending \cup owed \subseteq written
      BY <1>1 DEF DeliverInv, WrittenOnce
<1>5. SeqRange(queue) \subseteq SeqRange(queue') /\ SeqRange(queue') \subseteq SeqRange(queue) \cup {e}
      BY <1>1, <1>3
<1>6. owed \subseteq owed' /\ owed' \subseteq owed \cup {e} /\ (e \in owed' => Captured(p, f))
      BY <1>1, <1>4
<1>7. InHand' = InHand /\ Stored' = Stored
      BY <1>1 DEF InHand, Stored
<1>8. Waiting \subseteq Waiting' /\ Waiting' \subseteq Waiting \cup {e}
      BY <1>1, <1>5, <1>7 DEF Waiting
<1>9. Kept \subseteq Kept' /\ Kept' \subseteq Kept \cup {e} /\ (e \in Kept' => e \in owed')
      BY <1>1, <1>4, <1>6 DEF Kept
<1>10. WrittenOnce'
      BY <1>1, <1>4, <1>5, <1>6 DEF WrittenOnce
<1>11. AtHome'
      BY <1>2, <1>6 DEF DeliverInv, AtHome, Captured
<1>12. StillOwned'
      <2>1. e \in owed' => owner[e.pid] # Nobody /\ stage[owner[e.pid]] = "held"
            BY <1>2, <1>6 DEF Captured
      <2>2. e \notin Waiting => Kept' \cap Waiting' \subseteq (Kept \cap Waiting) \cup ({e} \cap Kept')
            BY <1>8, <1>9
      <2> QED BY <1>1, <1>8, <1>9, <2>1 DEF DeliverInv, StillOwned
<1>13. PrunedIsLate'
      <2>1. \A l \in Launch : phase[l] \in {"pruned", "done"} => p \notin pids[l]
            BY <1>1 DEF StateInv, OwnerInv, RegisteredKnown
      <2> QED BY <1>1, <1>2, <1>8, <2>1 DEF DeliverInv, PrunedIsLate
<1>14. NothingLost'
      <2>1. ASSUME faults = 0, e \in owed' PROVE e \in Waiting'
            <3>1. owner[p] # Nobody /\ stage[owner[p]] = "held"
                  BY <1>6, <2>1 DEF Captured
            <3>2. owner[p] \in Launch /\ owner[p] \in Ancestors[p] \cup {p} /\ Runs[owner[p]] # <<>>
                  BY <3>1, LivesOwner
            <3>3. InHome[f] = HomeOf[owner[p]]
                  BY <1>6, <2>1, <3>2 DEF Captured
            <3>4. FsOf[owner[p]] = FsAt[InHome[f]]
                  BY <3>2, <3>3, ProcessAssumption
            <3>5. FsAt[InHome[f]] \in marks
                  BY <2>1, <3>1, <3>2, <3>4, HeldIsMarked DEF StateInv
            <3> QED BY <1>1, <1>3, <3>5 DEF Waiting
      <2>2. faults = 0 => Kept' \subseteq Waiting' \cup Stored'
            BY <1>7, <1>8, <1>9, <2>1, LostIs DEF DeliverInv
      <2> QED BY <1>1, <2>2 DEF NothingLost, Kept, Stored
<1> QED BY <1>10, <1>11, <1>12, <1>13, <1>14 DEF DeliverInv

(* Steps of the launches, which leave what has been read alone, but may    *)
(* make what waits owed or late.                                           *)
LEMMA LaunchFrame ==
    ASSUME DeliverInv, UNCHANGED <<queue, hand, pending, channel, journal, written>>,
           owed' \subseteq owed \cup SeqRange(queue) \cup pending, late \subseteq late',
           faults' = 0 => faults = 0, AtHome', StillOwned', PrunedIsLate'
    PROVE  DeliverInv'
<1>1. Waiting' = Waiting /\ Stored' = Stored
      BY DEF Waiting, Stored, InHand
<1>2. WrittenOnce'
      BY DEF DeliverInv, WrittenOnce
<1>3. NothingLost'
      <2>1. faults = 0 => Kept \subseteq Waiting \cup Stored
            BY LostIs DEF DeliverInv
      <2>2. Kept' \subseteq Kept \cup Waiting
            BY DEF Kept, Waiting
      <2> QED BY <1>1, <2>1, <2>2 DEF NothingLost, Kept, Stored
<1> QED BY <1>2, <1>3 DEF DeliverInv

LEMMA ClaimDelivers == ASSUME StateInv, DeliverInv, Claim PROVE DeliverInv'
<1> DEFINE p == Head(execs)[1]
<1>1. /\ proc[p] = "running" /\ owner[p] = Nobody
      /\ phase' = [phase EXCEPT ![p] = "claimed"] /\ pids' = [pids EXCEPT ![p] = {p}]
      /\ owner' = [owner EXCEPT ![p] = p]
      /\ UNCHANGED <<stage, faults, queue, hand, pending, channel, journal, written, owed, late>>
      BY DEF Claim, Claimable, captureVars, loop, store, ghosts
<1> HIDE DEF p
<1>2. /\ phase \in [Launch -> Phase] /\ pids \in [Launch -> SUBSET Launch]
      /\ owner \in [Launch -> Launch \cup {Nobody}]
      BY DEF StateInv, OwnerInv, LaunchTypes
<1>3. Waiting' = Waiting /\ Kept' = Kept
      BY <1>1 DEF Waiting, InHand, Kept
<1>4. \A e \in Waiting : e.pid \in Launch
      BY WaitingType
<1>5. StillOwned'
      <2>1. \A e \in Kept \cap Waiting : faults = 0 => owner[e.pid] # Nobody /\ owner'[e.pid] = owner[e.pid]
            BY <1>1, <1>2, <1>4 DEF DeliverInv, StillOwned
      <2> QED BY <1>1, <1>3, <2>1 DEF DeliverInv, StillOwned
<1>6. PrunedIsLate'
      <2>1. \A l \in Launch : phase'[l] \in {"pruned", "done"} =>
               phase[l] \in {"pruned", "done"} /\ pids'[l] = pids[l]
            BY <1>1, <1>2
      <2> QED BY <1>1, <1>3, <2>1 DEF DeliverInv, PrunedIsLate
<1>7. AtHome'
      BY <1>1 DEF DeliverInv, AtHome
<1> QED BY <1>1, <1>5, <1>6, <1>7, LaunchFrame

(* What a registration makes owed is at home and captured.                 *)
LEMMA OweIs ==
    ASSUME DeliverInv, Owe
    PROVE  /\ owed' \subseteq owed \cup SeqRange(queue) \cup pending
           /\ \A e \in owed' \ owed : owner'[e.pid] # Nobody /\ stage'[owner'[e.pid]] = "held"
           /\ AtHome'
<1>1. \A e \in owed' \ owed : e \in SeqRange(queue) \cup pending /\ Captured(e.pid, e.file)'
      BY DEF Owe
<1>2. \A e \in owed' \ owed : \A q \in Ancestors[e.pid] \cup {e.pid} :
          Runs[q] # <<>> => InHome[e.file] = HomeOf[q]
      BY <1>1 DEF Captured
<1>3. AtHome'
      BY <1>2 DEF DeliverInv, AtHome
<1> QED BY <1>1, <1>3 DEF Captured

LEMMA TaskDelivers ==
    ASSUME StateInv, DeliverInv, NEW l \in Launch,
           StartLaunch(l) \/ Poll(l) \/ (\E c \in Launch : Collect(l, c)) \/ AllDead(l) \/ Prune(l),
           faults' = 0 => faults = 0
    PROVE  DeliverInv'
<1>1. UNCHANGED <<queue, hand, pending, channel, journal, written>>
      BY DEF StartLaunch, Poll, Collect, AllDead, Prune, loop, store, ghosts
<1>2. /\ phase \in [Launch -> Phase] /\ pids \in [Launch -> SUBSET Launch]
      /\ owner \in [Launch -> Launch \cup {Nobody}] /\ stage \in [Launch -> Stage]
      BY DEF StateInv, OwnerInv, LaunchTypes, CaptureInv, CaptureTypeOK
<1>3. Waiting' = Waiting
      BY <1>1 DEF Waiting, InHand
<1>4. \A e \in Waiting : e.pid \in Launch
      BY WaitingType
<1>5. /\ faults = 0 => \A e \in Kept \cap Waiting :
                           owner[e.pid] # Nobody /\ stage[owner[e.pid]] = "held"
      /\ \A k \in Launch : phase[k] \in {"pruned", "done"} =>
             \A e \in Waiting : e.pid \in pids[k] => e \in late
      BY DEF DeliverInv, StillOwned, PrunedIsLate
<1>6. CASE StartLaunch(l)
      <2>1. /\ phase' = [phase EXCEPT ![l] = "watching"] /\ UNCHANGED <<owner, pids, late>>
            /\ stage[l] = "new" /\ (\E s : stage' = [stage EXCEPT ![l] = s]) /\ Owe
            BY <1>6 DEF StartLaunch, Call, Start, Refuse, MarkFails
      <2>2. \A e \in Waiting : owner[e.pid] # Nobody /\ stage[owner[e.pid]] = "held"
                                   => stage'[owner[e.pid]] = "held"
            BY <1>2, <1>4, <2>1
      <2>3. /\ owed' \subseteq owed \cup SeqRange(queue) \cup pending /\ AtHome'
            /\ \A e \in owed' \ owed : owner'[e.pid] # Nobody /\ stage'[owner'[e.pid]] = "held"
            BY <2>1, OweIs
      <2>4. ASSUME faults' = 0, NEW e \in Kept' \cap Waiting'
            PROVE  owner'[e.pid] # Nobody /\ stage'[owner'[e.pid]] = "held"
            <3>1. CASE e \in owed
                  BY <1>3, <1>5, <2>1, <2>2, <2>4, <3>1 DEF Kept
            <3>2. CASE e \notin owed
                  BY <2>3, <2>4, <3>2 DEF Kept
            <3> QED BY <3>1, <3>2
      <2>5. StillOwned'
            BY <2>4 DEF StillOwned
      <2>6. PrunedIsLate'
            BY <1>2, <1>3, <1>5, <2>1 DEF PrunedIsLate
      <2> QED BY <1>1, <2>1, <2>3, <2>5, <2>6, LaunchFrame
<1>7. CASE Poll(l) \/ AllDead(l)
      <2>1. /\ phase' = phase \/ phase' = [phase EXCEPT ![l] = "grace"]
            /\ UNCHANGED <<owner, pids, stage, faults, owed, late>>
            BY <1>7 DEF Poll, AllDead, captureVars, ghosts
      <2>2. StillOwned'
            BY <1>3, <1>5, <2>1 DEF StillOwned, Kept
      <2>3. PrunedIsLate'
            BY <1>2, <1>3, <1>5, <2>1 DEF PrunedIsLate
      <2>4. AtHome'
            BY <2>1 DEF DeliverInv, AtHome
      <2> QED BY <1>1, <2>1, <2>2, <2>3, <2>4, LaunchFrame
<1>8. ASSUME NEW c \in Launch, Collect(l, c) PROVE DeliverInv'
      <2>1. /\ c \in found[l] /\ pids' = [pids EXCEPT ![l] = @ \cup {c}]
            /\ owner' = [owner EXCEPT ![c] = l] /\ UNCHANGED <<phase, stage, faults, late>> /\ Owe
            BY <1>8 DEF Collect, captureVars
      <2>2. phase[l] = "watching"
            BY <2>1 DEF StateInv, OwnerInv, CollectorLives
      <2>3. faults = 0 => stage[l] = "held"
            BY <2>2 DEF StateInv, Claims, CaptureInv, CountExact
      <2>4. l # Nobody
            BY ProcessAssumption
      <2>5. /\ owed' \subseteq owed \cup SeqRange(queue) \cup pending /\ AtHome'
            /\ \A e \in owed' \ owed : owner'[e.pid] # Nobody /\ stage'[owner'[e.pid]] = "held"
            BY <2>1, OweIs
      <2>6. ASSUME faults = 0, NEW e \in Kept' \cap Waiting'
            PROVE  owner'[e.pid] # Nobody /\ stage'[owner'[e.pid]] = "held"
            <3>1. CASE e \in owed
                  <4>1. e \in Kept \cap Waiting /\ e.pid \in Launch
                        BY <1>3, <1>4, <2>1, <2>6, <3>1 DEF Kept
                  <4>2. owner[e.pid] # Nobody /\ stage[owner[e.pid]] = "held"
                        BY <1>5, <2>6, <4>1
                  <4> QED BY <1>2, <2>1, <2>3, <2>4, <2>6, <4>1, <4>2
            <3>2. CASE e \notin owed
                  BY <2>5, <2>6, <3>2 DEF Kept
            <3> QED BY <3>1, <3>2
      <2>7. StillOwned'
            BY <2>1, <2>6 DEF StillOwned
      <2>8. PrunedIsLate'
            BY <1>2, <1>3, <1>5, <2>1, <2>2 DEF PrunedIsLate
      <2> QED BY <1>1, <2>1, <2>5, <2>7, <2>8, LaunchFrame
<1>9. CASE Prune(l)
      <2>1. /\ phase' = [phase EXCEPT ![l] = "pruned"]
            /\ owner' = [p \in Launch |-> IF p \in pids[l] THEN Nobody ELSE owner[p]]
            /\ late' = late \cup {e \in Waiting : e.pid \in pids[l]}
            /\ UNCHANGED <<pids, stage, faults, owed>>
            BY <1>9 DEF Prune, Entries, captureVars
      <2>2. \A e \in Kept' \cap Waiting : e \in Kept /\ e.pid \notin pids[l]
            BY <2>1 DEF Kept
      <2>3. \A e \in Kept' \cap Waiting : owner'[e.pid] = owner[e.pid]
            BY <1>4, <2>1, <2>2
      <2>4. StillOwned'
            BY <1>3, <1>5, <2>1, <2>2, <2>3 DEF StillOwned
      <2>5. PrunedIsLate'
            BY <1>2, <1>3, <1>5, <2>1 DEF PrunedIsLate
      <2>6. AtHome'
            BY <2>1 DEF DeliverInv, AtHome
      <2> QED BY <1>1, <2>1, <2>4, <2>5, <2>6, LaunchFrame
<1> QED BY <1>6, <1>7, <1>8, <1>9

(* The group outlives whatever is owed and still in the reading loop.      *)
LEMMA StopDelivers ==
    ASSUME StateInv, StateInv', DeliverInv, NEW l \in Launch, StopLaunch(l), faults' = 0 => faults = 0
    PROVE  DeliverInv'
<1>1. /\ phase[l] = "pruned" /\ phase' = [phase EXCEPT ![l] = "done"]
      /\ UNCHANGED <<owner, pids, channel, journal, written, owed, late>>
      /\ IF group' THEN UNCHANGED <<queue, hand, pending>>
         ELSE queue' = <<>> /\ hand' = <<>> /\ pending' = {}
      /\ \E s : stage' = [stage EXCEPT ![l] = s]
      BY DEF StopLaunch, Return, Stop, DisarmFails, StopFails, loop, store, ghosts
<1>2. /\ phase \in [Launch -> Phase] /\ stage \in [Launch -> Stage]
      /\ owner \in [Launch -> Launch \cup {Nobody}]
      BY DEF StateInv, OwnerInv, LaunchTypes, CaptureInv, CaptureTypeOK
<1>3. \A e \in Waiting : e.pid \in Launch
      BY WaitingType
<1>4. ASSUME NEW e \in Kept \cap Waiting, faults' = 0
      PROVE  owner[e.pid] \in Launch /\ owner[e.pid] # Nobody /\ stage'[owner[e.pid]] = "held"
      <2>1. owner[e.pid] # Nobody /\ stage[owner[e.pid]] = "held"
            BY <1>4 DEF DeliverInv, StillOwned
      <2>2. owner[e.pid] \in Launch /\ phase[owner[e.pid]] \in {"claimed", "watching", "grace"}
            BY <1>3, <2>1, LivesOwner
      <2>3. owner[e.pid] # l
            BY <1>1, <2>2
      <2> QED BY <1>1, <1>2, <2>1, <2>2, <2>3
<1>5. CASE group'
      <2>1. UNCHANGED <<queue, hand, pending>>
            BY <1>1, <1>5
      <2>2. Waiting' = Waiting /\ Kept' = Kept
            BY <1>1, <2>1 DEF Waiting, InHand, Kept
      <2>3. StillOwned'
            BY <1>1, <1>4, <2>1, <2>2 DEF DeliverInv, StillOwned
      <2>4. \A k \in Launch : phase'[k] \in {"pruned", "done"} => phase[k] \in {"pruned", "done"}
            BY <1>1, <1>2
      <2>5. PrunedIsLate'
            BY <1>1, <2>2, <2>4 DEF DeliverInv, PrunedIsLate
      <2>6. AtHome'
            BY <1>1 DEF DeliverInv, AtHome
      <2> QED BY <1>1, <2>1, <2>3, <2>5, <2>6, LaunchFrame
<1>6. CASE ~group'
      <2>1. queue' = <<>> /\ hand' = <<>> /\ pending' = {}
            BY <1>1, <1>6
      <2>2. SeqRange(queue') = {} /\ InHand' = {} /\ Waiting' = {} /\ Stored' = Stored
            BY <1>1, <2>1, RangeEmpty DEF InHand, Waiting, Stored
      <2>3. ASSUME NEW e \in Kept \cap Waiting, faults' = 0 PROVE FALSE
            <3>1. \E k \in Launch : stage'[k] = "held"
                  BY <1>4, <2>3
            <3>2. group'
                  BY <2>3, <3>1, HeldGroup DEF StateInv
            <3> QED BY <1>6, <3>2
      <2>4. WrittenOnce' /\ AtHome' /\ StillOwned' /\ PrunedIsLate'
            BY <1>1, <2>1, <2>2 DEF DeliverInv, WrittenOnce, AtHome, StillOwned, PrunedIsLate
      <2>5. faults' = 0 => Kept \subseteq Stored
            BY <2>3, LostIs DEF DeliverInv
      <2>6. NothingLost'
            BY <1>1, <2>2, <2>5 DEF NothingLost, Stored, Kept
      <2> QED BY <2>4, <2>6 DEF DeliverInv
<1> QED BY <1>5, <1>6

LEMMA StepDelivers == StateInv /\ StateInv' /\ DeliverInv /\ [Next]_vars => DeliverInv'
<1> SUFFICES ASSUME StateInv, StateInv', DeliverInv, [Next]_vars PROVE DeliverInv'
    OBVIOUS
<1>1. faults' = 0 => faults = 0
      BY FaultsStay
<1>2. CASE ReadEvent \/ \E e \in pending : Retry(e) \/ Expire(e)
      BY <1>2, ReadDelivers, RetryDelivers, ExpireDelivers
<1>3. CASE Send \/ JournalTask \/ SendFlush
      BY <1>3, SendDelivers
<1>4. CASE Claim
      BY <1>4, ClaimDelivers
<1>5. ASSUME NEW l \in Launch, Task(l) PROVE DeliverInv'
      BY <1>1, <1>5, TaskDelivers, StopDelivers DEF Task
<1>6. CASE \E p \in Launch : \E f \in File : Write(p, f)
      BY <1>6, WriteDelivers
<1>7. ASSUME UNCHANGED <<stage, faults, owner, phase, pids, written, owed, late>>,
             UNCHANGED <<queue, hand, pending, channel, journal>>
      PROVE  DeliverInv'
      BY <1>7 DEF DeliverInv, WrittenOnce, AtHome, StillOwned, PrunedIsLate, NothingLost, Waiting,
         InHand, Kept
<1>8. CASE IgnoreExec \/ \E p \in Launch : Run(p) \/ Exit(p)
      BY <1>7, <1>8 DEF IgnoreExec, Run, Exit, captureVars, tasks, loop, store, ghosts
<1>9. CASE (\E b \in Bucket : Untrack(b)) \/ Reply
      BY <1>7, <1>9 DEF Untrack, Reply, captureVars, tasks, loop, store, ghosts
<1>10. CASE UNCHANGED vars
      BY <1>7, <1>10 DEF vars, captureVars, tasks, loop, store, ghosts
<1> QED BY <1>2, <1>3, <1>4, <1>5, <1>6, <1>8, <1>9, <1>10 DEF Next, Reader

LEMMA DeliverHolds == Spec => []DeliverInv
BY InitDeliver, StepDelivers, StateHolds, PTL DEF Spec

(* As long as no call of MutationCapture fails, whatever a captured        *)
(* process changes in its user's home, before it was registered if that is *)
(* not yet read for good, is on its way to the journal or has arrived,     *)
(* however launches overlap, take processes over, and end; except what the *)
(* reading loop has not sent on when the 250 ms after a launch are over,   *)
(* and what stays in the buffer for its 500 ms.                            *)
THEOREM NothingIsLost == Spec => []NothingLost
<1>1. DeliverInv => NothingLost
      BY DEF DeliverInv
<1> QED BY <1>1, DeliverHolds, PTL

-----------------------------------------------------------------------------
(* The barrier, and what an untrack sees.                                  *)

Before(k) == {channel[n] : n \in 1 .. k - 1}

(* The barrier is alone in the channel, and nowhere else.                  *)
Barrier(k) == /\ channel[k] = Flush
              /\ \A n \in 1 .. Len(channel) : channel[n] = Flush => n = k

OneBarrier ==
    /\ request[1] = "none" => request = NoRequest
    /\ request[1] # "none" => request[2] \in Bucket
    /\ request[1] # "flushing" => Flush \notin SeqRange(channel)
    /\ request[1] = "flushing" => \E k \in 1 .. Len(channel) : Barrier(k)

(* What is due is stored when the request is made, before the barrier when *)
(* that has been sent, and in the journal when it has come through.        *)
DueIsAhead ==
    faults = 0 =>
        /\ request[1] = "closed" => due[request[2]] \subseteq Stored
        /\ request[1] = "flushing" =>
              \A k \in 1 .. Len(channel) :
                  Barrier(k) => due[request[2]] \subseteq Events(Before(k) \cup journal)
        /\ request[1] = "acked" => due[request[2]] \subseteq Events(journal)

FlushInv == OneBarrier /\ DueIsAhead /\ UntrackSeesFinished

LEMMA EventsGrow == ASSUME NEW A, NEW B, A \subseteq B PROVE Events(A) \subseteq Events(B)
BY DEF Events

LEMMA InitFlush == Init => FlushInv
BY RangeEmpty DEF Init, FlushInv, OneBarrier, DueIsAhead, UntrackSeesFinished, NoRequest

LEMMA FlushFrame ==
    ASSUME FlushInv, UNCHANGED <<channel, journal, request, due, seen, watched>>,
           faults' = 0 => faults = 0
    PROVE  FlushInv'
<1>1. Stored' = Stored
      BY DEF Stored
<1>2. OneBarrier'
      BY DEF FlushInv, OneBarrier, Barrier
<1>3. DueIsAhead'
      BY <1>1 DEF FlushInv, DueIsAhead, Barrier, Before
<1>4. UntrackSeesFinished'
      BY DEF FlushInv, UntrackSeesFinished
<1> QED BY <1>2, <1>3, <1>4 DEF FlushInv

LEMMA RequestType ==
    StateInv => /\ request[1] \in {"none", "closed", "flushing", "acked"}
                /\ channel \in Seq(Record \cup {Flush}) /\ Len(channel) \in Nat
BY DEF StateInv, DataTypes

LEMMA SendFlushes == ASSUME StateInv, FlushInv, Send PROVE FlushInv'
<1> DEFINE r == Head(hand)
<1>1. /\ hand # <<>> /\ channel' = Append(channel, r)
      /\ UNCHANGED <<journal, request, due, seen, watched, faults>>
      BY DEF Send, untrack, captureVars
<1>2. r \in Record /\ r # Flush
      BY <1>1, RangeHead, ProcessAssumption DEF StateInv, DataTypes
<1> HIDE DEF r
<1>3. channel \in Seq(Record \cup {Flush}) /\ Len(channel) \in Nat
      BY RequestType
<1>4. /\ SeqRange(channel') = SeqRange(channel) \cup {r} /\ Len(channel') = Len(channel) + 1
      /\ channel'[Len(channel) + 1] = r
      /\ \A n \in 1 .. Len(channel) : channel'[n] = channel[n]
      BY <1>1, <1>2, <1>3, RangeAppend
<1>5. ASSUME NEW k \in 1 .. Len(channel') PROVE Barrier(k)' <=> k \in 1 .. Len(channel) /\ Barrier(k)
      BY <1>2, <1>3, <1>4 DEF Barrier
<1>6. ASSUME NEW k \in 1 .. Len(channel) PROVE Before(k)' = Before(k)
      BY <1>3, <1>4 DEF Before
<1>7. OneBarrier'
      BY <1>1, <1>2, <1>3, <1>4, <1>5 DEF FlushInv, OneBarrier
<1>8. Stored \subseteq Stored'
      BY <1>1, <1>4, EventsGrow DEF Stored
<1>9. DueIsAhead'
      BY <1>1, <1>5, <1>6, <1>8 DEF FlushInv, DueIsAhead
<1>10. UntrackSeesFinished'
      BY <1>1 DEF FlushInv, UntrackSeesFinished
<1> QED BY <1>7, <1>9, <1>10 DEF FlushInv

LEMMA JournalFlushes == ASSUME StateInv, FlushInv, JournalTask PROVE FlushInv'
<1>1. /\ channel # <<>> /\ channel' = Tail(channel) /\ UNCHANGED <<due, seen, watched, faults>>
      /\ Head(channel) = Flush => request' = <<"acked", request[2]>> /\ journal' = journal
      /\ Head(channel) # Flush => journal' = journal \cup {Head(channel)} /\ request' = request
      BY DEF JournalTask, captureVars
<1>2. channel \in Seq(Record \cup {Flush}) /\ Len(channel) \in Nat
      BY RequestType
<1>3. /\ SeqRange(channel) = {Head(channel)} \cup SeqRange(channel')
      /\ Head(channel) = channel[1] /\ Len(channel') = Len(channel) - 1 /\ Len(channel) > 0
      /\ \A n \in 1 .. Len(channel) - 1 : channel'[n] = channel[n + 1]
      BY <1>1, <1>2, RangeHead, TailIs
<1>4. channel' \in Seq(Record \cup {Flush})
      BY <1>1, <1>2, RangeHead
<1>5. CASE Head(channel) = Flush
      <2>1. Flush \in SeqRange(channel)
            BY <1>3, <1>5
      <2>2. request[1] = "flushing" /\ request[2] \in Bucket
            BY <2>1 DEF FlushInv, OneBarrier
      <2>3. PICK k \in 1 .. Len(channel) : Barrier(k)
            BY <2>2 DEF FlushInv, OneBarrier
      <2>4. k = 1
            BY <1>2, <1>3, <1>5, <2>3 DEF Barrier
      <2>5. Flush \notin SeqRange(channel')
            <3>1. ASSUME NEW n \in 1 .. Len(channel'), channel'[n] = Flush PROVE FALSE
                  <4>1. n + 1 \in 1 .. Len(channel) /\ channel[n + 1] = Flush
                        BY <1>2, <1>3, <3>1
                  <4>2. n + 1 = 1
                        BY <2>3, <2>4, <4>1 DEF Barrier
                  <4> QED BY <4>2
            <3> QED BY <1>4, <3>1, RangeIs
      <2>6. Before(1) = {}
            BY DEF Before
      <2>7. faults = 0 => due[request[2]] \subseteq Events(journal)
            BY <2>2, <2>3, <2>4, <2>6 DEF FlushInv, DueIsAhead
      <2>8. request'[1] = "acked" /\ request'[2] = request[2] /\ journal' = journal
            BY <1>1, <1>5
      <2>9. OneBarrier'
            BY <2>2, <2>5, <2>8 DEF OneBarrier
      <2>10. DueIsAhead'
            BY <1>1, <2>7, <2>8 DEF DueIsAhead
      <2>11. UntrackSeesFinished'
            BY <1>1, <2>8 DEF FlushInv, UntrackSeesFinished
      <2> QED BY <2>9, <2>10, <2>11 DEF FlushInv
<1>6. CASE Head(channel) # Flush
      <2>1. request' = request /\ journal' = journal \cup {Head(channel)}
            BY <1>1, <1>6
      <2>2. Stored \subseteq Stored'
            <3>1. (SeqRange(channel) \cup journal) \ {Flush} \subseteq (SeqRange(channel') \cup journal') \ {Flush}
                  BY <1>3, <2>1
            <3> QED BY <3>1, EventsGrow DEF Stored
      <2>3. ASSUME NEW k \in 1 .. Len(channel), Barrier(k)
            PROVE  /\ k - 1 \in 1 .. Len(channel')
                   /\ Barrier(k - 1)'
                   /\ Events(Before(k) \cup journal) \subseteq Events(Before(k - 1)' \cup journal')
            <3>1. k # 1 /\ channel[k] = Flush /\ k \in Nat
                  BY <1>3, <1>6, <2>3 DEF Barrier
            <3>2. k - 1 \in 1 .. Len(channel') /\ channel'[k - 1] = channel[(k - 1) + 1] /\ (k - 1) + 1 = k
                  BY <1>2, <1>3, <3>1
            <3>3. ASSUME NEW n \in 1 .. Len(channel'), channel'[n] = Flush PROVE n = k - 1
                  <4>1. n + 1 \in 1 .. Len(channel) /\ channel[n + 1] = Flush
                        BY <1>2, <1>3, <3>3
                  <4>2. n + 1 = k
                        BY <2>3, <4>1 DEF Barrier
                  <4> QED BY <4>1, <4>2
            <3>4. Barrier(k - 1)'
                  BY <3>1, <3>2, <3>3 DEF Barrier
            <3>5. ASSUME NEW x \in Before(k) PROVE x \in Before(k - 1)' \cup journal'
                  <4>1. PICK n \in 1 .. k - 1 : x = channel[n]
                        BY <3>5 DEF Before
                  <4>2. CASE n = 1
                        BY <1>3, <2>1, <4>1, <4>2
                  <4>3. CASE n # 1
                        <5>1. n - 1 \in 1 .. (k - 1) - 1 /\ n - 1 \in 1 .. Len(channel) - 1 /\ (n - 1) + 1 = n
                              BY <1>2, <3>1, <3>2, <4>1, <4>3
                        <5>2. channel'[n - 1] = x
                              BY <1>3, <4>1, <5>1
                        <5> QED BY <5>1, <5>2 DEF Before
                  <4> QED BY <4>2, <4>3
            <3>6. Before(k) \cup journal \subseteq Before(k - 1)' \cup journal'
                  BY <2>1, <3>5
            <3> QED BY <3>2, <3>4, <3>6, EventsGrow
      <2>4. OneBarrier'
            BY <1>3, <2>1, <2>3 DEF FlushInv, OneBarrier
      <2>5. ASSUME request[1] = "flushing", faults = 0, NEW m \in 1 .. Len(channel'), Barrier(m)'
            PROVE  due[request[2]] \subseteq Events(Before(m)' \cup journal')
            <3>1. PICK k \in 1 .. Len(channel) : Barrier(k)
                  BY <2>5 DEF FlushInv, OneBarrier
            <3>2. k - 1 \in 1 .. Len(channel') /\ channel'[k - 1] = Flush
                  BY <2>3, <3>1 DEF Barrier
            <3>3. k - 1 = m
                  BY <2>5, <3>2 DEF Barrier
            <3>4. due[request[2]] \subseteq Events(Before(k) \cup journal)
                  BY <2>5, <3>1 DEF FlushInv, DueIsAhead
            <3> QED BY <2>3, <3>1, <3>3, <3>4
      <2>6. Events(journal) \subseteq Events(journal')
            BY <2>1, EventsGrow
      <2>7. DueIsAhead'
            BY <1>1, <2>1, <2>2, <2>5, <2>6 DEF FlushInv, DueIsAhead
      <2>8. UntrackSeesFinished'
            BY <1>1, <2>1 DEF FlushInv, UntrackSeesFinished
      <2> QED BY <2>4, <2>7, <2>8 DEF FlushInv
<1> QED BY <1>5, <1>6

(* What the finished launches of an app have changed is no longer in the   *)
(* reading loop when the app is untracked.                                 *)
LEMMA UntrackFlushes ==
    ASSUME StateInv, DeliverInv, FlushInv, NEW b \in Bucket, Untrack(b)
    PROVE  FlushInv'
<1>1. /\ request = NoRequest /\ b \in watched /\ request' = <<"closed", b>>
      /\ watched' = watched \ {b} /\ UNCHANGED <<channel, journal, seen, faults>>
      /\ due' = [due EXCEPT ![b] =
                    {e \in owed \ late : \E l \in Finished(b) : e.pid \in pids[l]}]
      BY DEF Untrack, captureVars, store
<1>2. due \in [Bucket -> SUBSET Event] /\ Nobody \notin Bucket
      BY ProcessAssumption DEF StateInv, DataTypes
<1>3. Stored' = Stored
      BY <1>1 DEF Stored
<1>4. request[1] = "none" /\ request[2] = Nobody /\ request'[1] = "closed" /\ request'[2] = b
      BY <1>1 DEF NoRequest
<1>5. OneBarrier'
      BY <1>1, <1>4 DEF FlushInv, OneBarrier
<1>6. faults = 0 => due'[b] \subseteq Stored
      <2>1. SUFFICES ASSUME faults = 0, NEW e \in owed \ late, NEW l \in Finished(b), e.pid \in pids[l]
                     PROVE  e \in Stored
            BY <1>1, <1>2
      <2>2. l \in Launch /\ phase[l] = "done"
            BY DEF Finished
      <2>3. e \notin Waiting
            BY <2>1, <2>2 DEF DeliverInv, PrunedIsLate
      <2> QED BY <2>1, <2>3, LostIs DEF DeliverInv, Kept
<1>7. DueIsAhead'
      BY <1>1, <1>3, <1>4, <1>6 DEF DueIsAhead
<1>8. UntrackSeesFinished'
      <2>1. ASSUME NEW c \in Bucket, c \notin watched', request'[2] # c, faults = 0
            PROVE  due'[c] \subseteq Events(seen[c])
            <3>1. c # b /\ c \notin watched /\ request[2] # c /\ due'[c] = due[c]
                  BY <1>1, <1>2, <1>4, <2>1
            <3> QED BY <2>1, <3>1 DEF FlushInv, UntrackSeesFinished
      <2> QED BY <1>1, <2>1 DEF UntrackSeesFinished
<1> QED BY <1>5, <1>7, <1>8 DEF FlushInv

LEMMA SendFlushFlushes == ASSUME StateInv, FlushInv, SendFlush PROVE FlushInv'
<1>1. /\ request[1] = "closed" /\ channel' = Append(channel, Flush)
      /\ request' = <<"flushing", request[2]>>
      /\ UNCHANGED <<journal, watched, seen, due, faults>>
      BY DEF SendFlush, FlushIsSent, captureVars
<1>2. channel \in Seq(Record \cup {Flush}) /\ Len(channel) \in Nat
      BY RequestType
<1>3. Flush \notin SeqRange(channel) /\ request[2] \in Bucket
      BY <1>1 DEF FlushInv, OneBarrier
<1>4. /\ Len(channel') = Len(channel) + 1 /\ channel'[Len(channel) + 1] = Flush
      /\ \A n \in 1 .. Len(channel) : channel'[n] = channel[n] /\ channel[n] # Flush
      BY <1>1, <1>2, <1>3, RangeIs
<1>5. ASSUME NEW m \in Nat, m = Len(channel) + 1 PROVE m \in 1 .. Len(channel') /\ Barrier(m)'
      BY <1>2, <1>4, <1>5 DEF Barrier
<1>6. request'[1] = "flushing" /\ request'[2] = request[2]
      BY <1>1
<1>7. OneBarrier'
      <2>1. PICK m \in Nat : m = Len(channel) + 1
            BY <1>2
      <2>2. \E k \in 1 .. Len(channel') : Barrier(k)'
            BY <1>5, <2>1
      <2> QED BY <1>3, <1>6, <2>2 DEF OneBarrier
<1>8. ASSUME faults = 0, NEW k \in 1 .. Len(channel'), Barrier(k)'
      PROVE  due[request[2]] \subseteq Events(Before(k)' \cup journal)
      <2>1. k = Len(channel) + 1
            BY <1>2, <1>4, <1>8 DEF Barrier
      <2>2. SeqRange(channel) \subseteq Before(k)'
            <3>1. ASSUME NEW x \in SeqRange(channel) PROVE x \in Before(k)'
                  <4>1. PICK n \in 1 .. Len(channel) : channel[n] = x
                        BY <1>2, RangeIs
                  <4>2. channel'[n] = x /\ n \in 1 .. k - 1
                        BY <1>2, <1>4, <2>1, <4>1
                  <4> QED BY <4>2 DEF Before
            <3> QED BY <3>1
      <2>3. due[request[2]] \subseteq Stored
            BY <1>1, <1>8 DEF FlushInv, DueIsAhead
      <2>4. (SeqRange(channel) \cup journal) \ {Flush} \subseteq Before(k)' \cup journal
            BY <2>2
      <2> QED BY <2>3, <2>4, EventsGrow DEF Stored
<1>9. DueIsAhead'
      BY <1>1, <1>6, <1>8 DEF DueIsAhead
<1>10. UntrackSeesFinished'
      BY <1>1, <1>6 DEF FlushInv, UntrackSeesFinished
<1> QED BY <1>7, <1>9, <1>10 DEF FlushInv

LEMMA ReplyFlushes == ASSUME StateInv, FlushInv, Reply PROVE FlushInv'
<1>1. /\ request[1] = "acked" /\ seen' = [seen EXCEPT ![request[2]] = journal]
      /\ request' = NoRequest /\ UNCHANGED <<channel, journal, watched, due, faults>>
      BY DEF Reply, captureVars, store
<1>2. request'[1] = "none" /\ seen \in [Bucket -> SUBSET Record]
      BY <1>1 DEF NoRequest, StateInv, DataTypes
<1>3. OneBarrier'
      BY <1>1, <1>2 DEF FlushInv, OneBarrier
<1>4. DueIsAhead'
      BY <1>2 DEF DueIsAhead
<1>5. ASSUME NEW c \in Bucket, c \notin watched, faults = 0
      PROVE  due[c] \subseteq Events(seen'[c])
      <2>1. CASE c = request[2]
            BY <1>1, <1>2, <1>5, <2>1 DEF FlushInv, DueIsAhead
      <2>2. CASE c # request[2]
            BY <1>1, <1>2, <1>5, <2>2 DEF FlushInv, UntrackSeesFinished
      <2> QED BY <2>1, <2>2
<1>6. UntrackSeesFinished'
      BY <1>1, <1>5 DEF UntrackSeesFinished
<1> QED BY <1>3, <1>4, <1>6 DEF FlushInv

LEMMA StepFlushes == StateInv /\ DeliverInv /\ FlushInv /\ [Next]_vars => FlushInv'
<1> SUFFICES ASSUME StateInv, DeliverInv, FlushInv, [Next]_vars PROVE FlushInv'
    OBVIOUS
<1>1. faults' = 0 => faults = 0
      BY FaultsStay
<1>2. ASSUME UNCHANGED <<channel, journal, request, due, seen, watched>> PROVE FlushInv'
      BY <1>1, <1>2, FlushFrame
<1>3. CASE Send \/ JournalTask \/ (\E b \in Bucket : Untrack(b)) \/ SendFlush \/ Reply
      BY <1>3, SendFlushes, JournalFlushes, UntrackFlushes, SendFlushFlushes, ReplyFlushes
<1>4. CASE ReadEvent \/ \E e \in pending : Retry(e) \/ Expire(e)
      BY <1>2, <1>4 DEF ReadEvent, Retry, Expire, ReadUnchanged, store, untrack
<1>5. CASE Claim \/ IgnoreExec
      BY <1>2, <1>5 DEF Claim, IgnoreExec, store, untrack
<1>6. CASE \E l \in Launch : Task(l)
      BY <1>2, <1>6 DEF Task, StartLaunch, Poll, Collect, AllDead, Prune, StopLaunch, store, untrack
<1>7. CASE \E p \in Launch : Run(p) \/ Exit(p) \/ \E f \in File : Write(p, f)
      BY <1>2, <1>7 DEF Run, Exit, Write, store, untrack
<1>8. CASE UNCHANGED vars
      BY <1>2, <1>8 DEF vars, store, untrack
<1> QED BY <1>3, <1>4, <1>5, <1>6, <1>7, <1>8 DEF Next, Reader

(* What the launches that were finished when an untrack was requested had  *)
(* changed is in what its rollback reviews, except what was late for the   *)
(* end of its launch, whatever else is still being captured when the       *)
(* barrier goes through the channel.                                       *)
THEOREM UntrackSees == Spec => []UntrackSeesFinished
<1>1. FlushInv => UntrackSeesFinished
      BY DEF FlushInv
<1> QED BY <1>1, InitFlush, StepFlushes, StateHolds, DeliverHolds, PTL DEF Spec
=============================================================================
