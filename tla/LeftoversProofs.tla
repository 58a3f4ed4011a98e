--------------------------- MODULE LeftoversProofs ---------------------------
(* The removals of Leftovers.tla, for any home, any app and any number of  *)
(* changes the owner makes meanwhile.                                      *)
EXTENDS Leftovers, TLAPS

NeverTouch == {".ssh", ".gnupg", ".password-store"}

(* A file of the candidate is ahead of the walk, archived as it is, or     *)
(* was written behind the walk's back; once the walk is over none is ahead *)
(* of it.                                                                  *)
Covered ==
    /\ pc = "archive" => \A p \in Walked(current) : \/ p \in owed \/ p \in late
                                                     \/ archive[p] = home[p]
    /\ pc = "remove" => \A p \in Walked(current) : p \in late \/ archive[p] = home[p]

(* No candidate is in a directory that is never touched.                   *)
Spared(c) == Lower[c[1]] \notin NeverTouch
CandidatesSpared == (\A c \in toAsk : Spared(c)) /\ (current # NoPath => Spared(current))

LeftoversInv == TypeOK /\ Covered /\ CandidatesSpared

LEMMA Sorts ==
    /\ Absent \notin Content \cup {"link"} /\ "link" \notin Content
    /\ NoPath \notin Path
BY LeftoversAssumption DEF Entry, Link

(* Whatever is below a candidate starts with the same name.                *)
LEMMA SameTop ==
    ASSUME NEW c \in Path, NEW p \in Below(c)
    PROVE  p[1] = c[1]
<1>1. c \in Seq(STRING) /\ p \in Seq(STRING) /\ c # <<>> /\ p \in Path
  BY LeftoversAssumption DEF Below
<1>2. Len(c) \in Nat /\ Len(c) >= 1 /\ Len(c) <= Len(p)
  BY <1>1 DEF Below, IsPrefix
<1>3. SubSeq(c, 1, Len(c)) = SubSeq(p, 1, Len(c))
  BY DEF Below, IsPrefix
<1>4. SubSeq(c, 1, Len(c))[1] = c[1] /\ SubSeq(p, 1, Len(c))[1] = p[1]
  BY <1>1, <1>2
<1> QED BY <1>3, <1>4

(* A name of an XDG directory comes before the one that has matched.       *)
LEMMA CandidateSpared ==
    ASSUME NEW p \in Candidates
    PROVE  p \in Path /\ Spared(p)
<1>1. p \in Path /\ Scanned(p) /\ ~IsNeverTouch(Last(p)) /\ p \in Seq(STRING) /\ p # <<>>
  BY LeftoversAssumption DEF Candidates
<1>2. Len(p) \in Nat /\ Len(p) >= 1
  BY <1>1
<1>3. CASE Len(p) = 1
  BY <1>1, <1>3 DEF Last, IsNeverTouch, Spared, NeverTouch
<1>4. CASE Len(p) # 1
  <2>1. Front(p) \in XdgDirs
    BY <1>1, <1>4 DEF Scanned, InXdg
  <2>2. Front(p)[1] = p[1]
    <3>1. Len(p) > 1 /\ Len(p) - 1 \in 1 .. Len(p)
      BY <1>2, <1>4
    <3>2. SubSeq(p, 1, Len(p) - 1)[1] = p[1]
      BY <1>1, <3>1
    <3> QED BY <3>2 DEF Front
  <2>3. p[1] \in {".config", ".local", ".cache"}
    BY <2>1, <2>2 DEF XdgDirs
  <2>4. p[1] \in Name
    BY <1>1, <1>2 DEF Name
  <2>5. Lower[p[1]] \in {".config", ".local", ".cache"}
    BY <2>3, <2>4, LeftoversAssumption
  <2> QED BY <1>1, <2>5 DEF Spared, NeverTouch
<1> QED BY <1>3, <1>4

LEMMA LeftoversInit == Init => LeftoversInv
<1> SUFFICES ASSUME Init PROVE LeftoversInv
  OBVIOUS
<1>1. archive \in [Path -> Content \cup {"link", Absent}]
  BY DEF Init
<1>2. TypeOK
  BY <1>1, LeftoversAssumption DEF Init, TypeOK
<1>3. Covered /\ CandidatesSpared
  BY DEF Init, Covered, CandidatesSpared
<1> QED BY <1>2, <1>3 DEF LeftoversInv

LEMMA PutStep ==
    ASSUME LeftoversInv, NEW p \in Path, NEW e \in Content \cup {"dir", Absent}, Put(p, e)
    PROVE  LeftoversInv'
<1>1. /\ UNCHANGED <<app, pc, toAsk, current, owed, passed, archive>>
      /\ home' = [home EXCEPT ![p] = e] /\ spent' \in 0 .. Budget
      /\ late' = IF Behind(p) THEN late \cup {p} ELSE late \ {p}
      /\ home \in [Path -> Entry \cup {Absent}]
  BY LeftoversAssumption DEF Put, Spend, command, LeftoversInv, TypeOK
<1>2. home' \in [Path -> Entry \cup {Absent}] /\ late' \subseteq Path
  BY <1>1 DEF Entry, LeftoversInv, TypeOK
<1>3. TypeOK'
  BY <1>1, <1>2 DEF LeftoversInv, TypeOK, Below
<1>4. \A q \in Path : q # p => home'[q] = home[q] /\ (q \in late' <=> q \in late)
  BY <1>1
<1>5. ASSUME NEW q \in Walked(current)', current # NoPath, q \notin owed, q \notin late'
      PROVE  q \in Walked(current) /\ q \notin late /\ home'[q] = home[q]
  <2>1. q \in Below(current)
    BY <1>1, <1>5 DEF Walked, Below
  <2>2. q # p
    BY <1>1, <1>5, <2>1 DEF Behind
  <2> QED BY <1>1, <1>4, <1>5, <2>1, <2>2 DEF Walked, IsFile, Below
<1>6. pc \in {"archive", "remove"} => current # NoPath
  BY DEF LeftoversInv, TypeOK
<1>7. pc = "remove" => owed = {}
  BY DEF LeftoversInv, TypeOK
<1>8. Covered'
  BY <1>1, <1>5, <1>6, <1>7 DEF LeftoversInv, Covered
<1>9. CandidatesSpared'
  BY <1>1 DEF LeftoversInv, CandidatesSpared, Spared
<1> QED BY <1>3, <1>8, <1>9 DEF LeftoversInv

LEMMA ScanStep == LeftoversInv /\ Scan => LeftoversInv'
<1> SUFFICES ASSUME LeftoversInv, Scan PROVE LeftoversInv'
  OBVIOUS
<1>1. /\ pc = "scan" /\ pc' = "ask" /\ toAsk' = Candidates
      /\ UNCHANGED <<app, home, current, owed, passed, archive, late, spent>>
  BY DEF Scan
<1>2. Candidates \subseteq Path /\ \A c \in Candidates : Spared(c)
  BY CandidateSpared
<1>3. TypeOK'
  BY <1>1, <1>2 DEF LeftoversInv, TypeOK, Below
<1>4. Covered'
  BY <1>1 DEF LeftoversInv, Covered
<1>5. CandidatesSpared'
  BY <1>1, <1>2 DEF LeftoversInv, CandidatesSpared, Spared
<1> QED BY <1>3, <1>4, <1>5 DEF LeftoversInv

LEMMA AgreeStep == ASSUME LeftoversInv, NEW c \in toAsk, Agree(c) PROVE LeftoversInv'
<1>1. /\ pc = "ask" /\ pc' = "archive" /\ c \in Path /\ current' = c /\ toAsk' = toAsk \ {c}
      /\ owed' = Walked(c) /\ passed' = {} /\ late' = late \ Below(c)
      /\ UNCHANGED <<app, home, archive, spent>>
  BY DEF Agree, LeftoversInv, TypeOK
<1>2. Walked(c) \subseteq Below(c) /\ c # NoPath
  BY <1>1, Sorts DEF Walked
<1>3. TypeOK'
  BY <1>1, <1>2 DEF LeftoversInv, TypeOK, Below
<1>4. Walked(current)' = Walked(c)
  BY <1>1 DEF Walked, Below, IsFile
<1>5. Covered'
  BY <1>1, <1>4 DEF Covered
<1>6. CandidatesSpared'
  BY <1>1 DEF LeftoversInv, CandidatesSpared, Spared
<1> QED BY <1>3, <1>5, <1>6 DEF LeftoversInv

LEMMA ArchiveStep == ASSUME LeftoversInv, NEW p \in Path, Archive(p) PROVE LeftoversInv'
<1>1. /\ pc = "archive" /\ p \in Walked(current) \ passed /\ passed' = passed \cup {p}
      /\ archive' = [archive EXCEPT ![p] = home[p]]
      /\ owed' = owed \ {p} /\ late' = late \ {p}
      /\ UNCHANGED <<app, home, pc, toAsk, current, spent>>
  BY DEF Archive
<1>2. /\ archive \in [Path -> Content \cup {"link", Absent}]
      /\ home[p] \in Content \cup {"link"} /\ p \in Below(current)
  BY <1>1 DEF LeftoversInv, TypeOK, Walked, IsFile
<1>3. archive' \in [Path -> Content \cup {"link", Absent}]
  BY <1>1, <1>2
<1>4. TypeOK'
  BY <1>1, <1>2, <1>3 DEF LeftoversInv, TypeOK, Below
<1>5. Walked(current)' = Walked(current)
  BY <1>1 DEF Walked, Below, IsFile
<1>6. \A q \in Path : archive'[q] = IF q = p THEN home[p] ELSE archive[q]
  BY <1>1, <1>2
<1>7. Walked(current) \subseteq Path
  BY DEF Walked, Below
<1>8. Covered'
  BY <1>1, <1>5, <1>6, <1>7 DEF LeftoversInv, Covered
<1>9. CandidatesSpared'
  BY <1>1 DEF LeftoversInv, CandidatesSpared, Spared
<1> QED BY <1>4, <1>8, <1>9 DEF LeftoversInv

LEMMA PassOverStep == ASSUME LeftoversInv, NEW p \in Path, PassOver(p) PROVE LeftoversInv'
<1>1. /\ pc = "archive" /\ owed' = owed \ Below(p)
      /\ passed' = passed \cup (Below(p) \cap Below(current))
      /\ late' = late \cup (owed \cap Below(p)) /\ spent' \in 0 .. Budget
      /\ UNCHANGED <<app, home, pc, toAsk, current, archive>>
  BY LeftoversAssumption DEF PassOver, Spend, LeftoversInv, TypeOK
<1>2. TypeOK'
  BY <1>1 DEF LeftoversInv, TypeOK, Below
<1>3. Walked(current)' = Walked(current)
  BY <1>1 DEF Walked, Below, IsFile
<1>4. Covered'
  BY <1>1, <1>3 DEF LeftoversInv, Covered
<1>5. CandidatesSpared'
  BY <1>1 DEF LeftoversInv, CandidatesSpared, Spared
<1> QED BY <1>2, <1>4, <1>5 DEF LeftoversInv

LEMMA StartRemovingStep == LeftoversInv /\ StartRemoving => LeftoversInv'
<1> SUFFICES ASSUME LeftoversInv, StartRemoving PROVE LeftoversInv'
  OBVIOUS
<1>1. /\ pc = "archive" /\ WalkIsOver /\ pc' = "remove" /\ owed' = {} /\ passed' = {}
      /\ UNCHANGED <<app, home, toAsk, current, archive, late, spent>>
  BY DEF StartRemoving
<1>2. TypeOK'
  BY <1>1 DEF LeftoversInv, TypeOK, Below
<1>3. Walked(current)' = Walked(current)
  BY <1>1 DEF Walked, Below, IsFile
<1>4. Covered'
  BY <1>1, <1>3 DEF LeftoversInv, Covered, WalkIsOver
<1>5. CandidatesSpared'
  BY <1>1 DEF LeftoversInv, CandidatesSpared, Spared
<1> QED BY <1>2, <1>4, <1>5 DEF LeftoversInv

LEMMA RemoveEntryStep == ASSUME LeftoversInv, NEW p \in Path, RemoveEntry(p) PROVE LeftoversInv'
<1>1. /\ pc = "remove" /\ p \in Below(current) /\ home' = [home EXCEPT ![p] = Absent]
      /\ UNCHANGED <<app, pc, toAsk, current, owed, passed, archive, late, spent>>
  BY DEF RemoveEntry, command
<1>2. home \in [Path -> Entry \cup {Absent}]
  BY DEF LeftoversInv, TypeOK
<1>3. home' \in [Path -> Entry \cup {Absent}]
  BY <1>1, <1>2
<1>4. TypeOK'
  BY <1>1, <1>3 DEF LeftoversInv, TypeOK, Below
<1>5. \A q \in Path : home'[q] = IF q = p THEN Absent ELSE home[q]
  BY <1>1, <1>2
<1>6. \A q \in Walked(current)' : q \in Walked(current) /\ q # p /\ q \in Path
  BY <1>1, <1>5, Sorts DEF Walked, Below, IsFile
<1>7. Covered'
  <2> SUFFICES ASSUME NEW q \in Walked(current)' PROVE q \in late' \/ archive'[q] = home'[q]
    BY <1>1 DEF Covered
  <2> QED BY <1>1, <1>5, <1>6 DEF LeftoversInv, Covered
<1>8. CandidatesSpared'
  BY <1>1 DEF LeftoversInv, CandidatesSpared, Spared
<1> QED BY <1>4, <1>7, <1>8 DEF LeftoversInv

(* The steps that end something.                                           *)
LEMMA EndStep ==
    ASSUME LeftoversInv, UNCHANGED <<app, home, archive, late>>,
           pc' \in {"ask", "done"}, toAsk' \subseteq toAsk,
           current' = NoPath, owed' = {}, passed' = {}, spent' \in 0 .. Budget
    PROVE  LeftoversInv'
<1>1. TypeOK'
  BY DEF LeftoversInv, TypeOK, Below
<1>2. Covered' /\ CandidatesSpared'
  BY DEF LeftoversInv, Covered, CandidatesSpared, Spared
<1> QED BY <1>1, <1>2 DEF LeftoversInv

LEMMA LeftoversStep == LeftoversInv /\ [Next]_vars => LeftoversInv'
<1> SUFFICES ASSUME LeftoversInv, [Next]_vars PROVE LeftoversInv'
  OBVIOUS
<1>0. /\ toAsk \subseteq Path /\ spent \in 0 .. Budget /\ Budget \in Nat
      /\ pc = "ask" => current = NoPath /\ owed = {} /\ passed = {}
      /\ pc = "remove" => owed = {} /\ passed = {}
  BY LeftoversAssumption DEF LeftoversInv, TypeOK
<1>1. ASSUME NEW c \in toAsk, Decline(c) PROVE LeftoversInv'
  BY <1>0, <1>1, EndStep DEF Decline
<1>2. ASSUME GiveUp PROVE LeftoversInv'
  BY <1>0, <1>2, EndStep DEF GiveUp, Spend
<1>3. ASSUME Removed PROVE LeftoversInv'
  BY <1>0, <1>3, EndStep DEF Removed
<1>4. ASSUME Quit PROVE LeftoversInv'
  BY <1>0, <1>4, EndStep DEF Quit, Spend
<1>5. ASSUME UNCHANGED vars PROVE LeftoversInv'
  <2> USE <1>5 DEF vars, command
  <2>1. TypeOK'
    BY DEF LeftoversInv, TypeOK, Below
  <2>2. Covered'
    BY DEF LeftoversInv, Covered, Walked, Below, IsFile
  <2>3. CandidatesSpared'
    BY DEF LeftoversInv, CandidatesSpared, Spared
  <2> QED BY <2>1, <2>2, <2>3 DEF LeftoversInv
<1> QED BY <1>1, <1>2, <1>3, <1>4, <1>5, PutStep, ScanStep, AgreeStep, ArchiveStep, PassOverStep,
           StartRemovingStep, RemoveEntryStep
        DEF Next

LEMMA LeftoversInvariant == Spec => []LeftoversInv
BY LeftoversInit, LeftoversStep, PTL DEF Spec

(* TypeOK: what the walk has to come to and has passed are files of the    *)
(* candidate, and there is a candidate while one is being removed.         *)
THEOREM TypeCorrect == Spec => []TypeOK
BY LeftoversInvariant, PTL DEF LeftoversInv

(* SeenIsArchivedFirst: remove_dir_all starts when the walk has archived   *)
(* what it could see.  Links below a candidate, and what the walk could    *)
(* not see, are not among what this says.                                  *)
THEOREM SeenAreArchivedFirst == Spec => SeenIsArchivedFirst
<1>1. LeftoversInv => (\A p \in Path : RemoveEntry(p) /\ p \in Walked(current) \ late
                                        => archive[p] = home[p])
  BY DEF LeftoversInv, Covered, RemoveEntry
<1> QED BY <1>1, LeftoversInvariant, PTL DEF SeenIsArchivedFirst

(* FloorHolds: the names below NEVER_TOUCH are no candidates, and neither  *)
(* is what is below them.                                                  *)
THEOREM FloorIsKept == Spec => FloorHolds
<1>1. LeftoversInv => (\A p \in Path : Lower[p[1]] \in {".ssh", ".gnupg", ".password-store"}
                                       => ~RemoveEntry(p))
  <2> SUFFICES ASSUME LeftoversInv, NEW p \in Path, RemoveEntry(p)
               PROVE  Lower[p[1]] \notin NeverTouch
    BY DEF NeverTouch
  <2>1. pc = "remove" /\ p \in Below(current)
    BY DEF RemoveEntry
  <2>2. current \in Path /\ Spared(current)
    BY <2>1 DEF LeftoversInv, TypeOK, CandidatesSpared
  <2> QED BY <2>1, <2>2, SameTop DEF Spared
<1> QED BY <1>1, LeftoversInvariant, PTL DEF FloorHolds
=============================================================================
