----------------------------- MODULE ReviewProofs ----------------------------
(* The review of Review.tla, for any paths, any names and any number of    *)
(* changes.                                                                *)
EXTENDS Review, TLAPS

(* Before the engine is started nothing has been processed, and without    *)
(* groups there is nothing to select.                                      *)
BeforeEngine ==
    /\ pc \in {"untrack", "list"} => toReview = {} /\ listed = {} /\ selected = {}
    /\ pc = "load" => GroupsOf(listed) = {}
    /\ pc = "review" => GroupsOf(listed) # {}
    /\ pc \in {"untrack", "list", "review", "load"} => touched = {} /\ ~rolledBack

(* The engine's filter is what was selected, if anything was to be.        *)
FilterIsSelection ==
    pc = "process" => filter = IF GroupsOf(listed) = {} THEN NoFilter ELSE selected

(* What is selected and not suggested was asked for.                       *)
SelectedIsMeant == \A k \in selected : SuggestsRemoval(k) \/ k \in asked

(* What has to be processed has been or is among what is left.             *)
SelectionAhead ==
    pc = "process" =>
        \A m \in listed : ~AlwaysSkipped(m) /\ KeyOf(m.path) \in selected \cup {NoKey}
                          => m \in toDo \/ m.path \in touched

ReviewInv == /\ TypeOK /\ BeforeEngine /\ FilterIsSelection /\ SelectedIsMeant
             /\ SelectionAhead /\ ReviewedOnly /\ SelectionDone

LEMMA GroupsAreKeys ==
    ASSUME NEW M, M \subseteq Mutation
    PROVE  GroupsOf(M) \subseteq Key
BY DEF GroupsOf, Key, Mutation

LEMMA ReviewInit == Init => ReviewInv
<1> SUFFICES ASSUME Init PROVE ReviewInv
  OBVIOUS
<1>1. GroupsOf(listed) = {}
  BY DEF Init, GroupsOf
<1>2. TypeOK
  <2>1. journal \subseteq Mutation /\ view \subseteq journal /\ listed \subseteq journal
    BY DEF Init
  <2>2. /\ toReview \subseteq GroupsOf(listed) /\ asked \subseteq selected
        /\ selected \subseteq GroupsOf(listed) \ toReview
        /\ toDo \subseteq journal /\ touched \subseteq {m.path : m \in journal}
    BY DEF Init
  <2>3. /\ alive \in BOOLEAN /\ rolledBack \in BOOLEAN /\ spent \in Nat
        /\ pc \in {"untrack", "list", "review", "load", "process", "done"}
        /\ filter = NoFilter
    BY DEF Init
  <2> QED BY <2>1, <2>2, <2>3 DEF TypeOK
<1>3. BeforeEngine /\ FilterIsSelection
  BY <1>1 DEF Init, BeforeEngine, FilterIsSelection
<1>4. SelectedIsMeant /\ SelectionAhead /\ ReviewedOnly /\ SelectionDone
  BY <1>1 DEF Init, SelectedIsMeant, SelectionAhead, ReviewedOnly, SelectionDone
<1> QED BY <1>2, <1>3, <1>4 DEF ReviewInv

(* An answer takes groups off the list and selects among them.             *)
LEMMA AnswerStep ==
    ASSUME ReviewInv, Asking, toReview' \subseteq toReview,
           selected \subseteq selected', selected' \subseteq selected \cup (toReview \ toReview'),
           asked \subseteq asked', asked' \subseteq selected',
           \A k \in selected' : k \in selected \/ SuggestsRemoval(k) \/ k \in asked'
    PROVE  ReviewInv'
<1>1. /\ pc = "review" /\ UNCHANGED <<journal, view, alive, pc, engine, listed, spent>>
      /\ touched = {} /\ ~rolledBack /\ GroupsOf(listed)' = GroupsOf(listed)
  BY DEF Asking, ReviewInv, BeforeEngine
<1>2. TypeOK'
  BY <1>1 DEF ReviewInv, TypeOK, engine
<1>3. BeforeEngine' /\ FilterIsSelection' /\ SelectionAhead' /\ ReviewedOnly' /\ SelectionDone'
  BY <1>1 DEF ReviewInv, BeforeEngine, FilterIsSelection, SelectionAhead, ReviewedOnly,
              SelectionDone, engine
<1>4. SelectedIsMeant'
  BY DEF ReviewInv, SelectedIsMeant
<1> QED BY <1>2, <1>3, <1>4 DEF ReviewInv

(* A step that leaves the review and the engine alone.                     *)
LEMMA OutsideStep ==
    ASSUME ReviewInv, UNCHANGED <<review, engine>>, pc' = pc \/ pc' \in {"list", "done"},
           pc' = "list" => pc \in {"untrack", "list"},
           journal \subseteq journal', journal' \subseteq Mutation, view' \subseteq journal',
           alive' \in BOOLEAN, spent' \in Nat
    PROVE  ReviewInv'
<1> USE DEF review, engine
<1>1. GroupsOf(listed)' = GroupsOf(listed)
  OBVIOUS
<1>2. TypeOK'
  BY <1>1 DEF ReviewInv, TypeOK
<1>3. BeforeEngine'
  BY <1>1 DEF ReviewInv, BeforeEngine
<1>4. FilterIsSelection' /\ SelectedIsMeant' /\ SelectionAhead'
  BY <1>1 DEF ReviewInv, FilterIsSelection, SelectedIsMeant, SelectionAhead
<1>5. ReviewedOnly' /\ SelectionDone'
  BY <1>1 DEF ReviewInv, ReviewedOnly, SelectionDone
<1> QED BY <1>2, <1>3, <1>4, <1>5 DEF ReviewInv

LEMMA ListStep == ReviewInv /\ List => ReviewInv'
<1> SUFFICES ASSUME ReviewInv, List PROVE ReviewInv'
  OBVIOUS
<1>1. /\ pc = "list" /\ listed' = view /\ toReview' = GroupsOf(view) /\ selected = {}
      /\ touched = {} /\ ~rolledBack /\ asked = {}
      /\ UNCHANGED <<journal, view, alive, selected, asked, engine, spent>>
      /\ GroupsOf(listed)' = GroupsOf(view)
      /\ pc' = IF GroupsOf(view) = {} THEN "load" ELSE "review"
  BY DEF List, ReviewInv, BeforeEngine, TypeOK
<1>2. TypeOK'
  BY <1>1 DEF ReviewInv, TypeOK, engine
<1>3. BeforeEngine' /\ FilterIsSelection' /\ SelectedIsMeant' /\ SelectionAhead' /\ ReviewedOnly'
      /\ SelectionDone'
  BY <1>1 DEF BeforeEngine, FilterIsSelection, SelectedIsMeant, SelectionAhead, ReviewedOnly,
              SelectionDone, engine
<1> QED BY <1>2, <1>3 DEF ReviewInv

LEMMA LoadStep == ReviewInv /\ Load => ReviewInv'
<1> SUFFICES ASSUME ReviewInv, Load PROVE ReviewInv'
  OBVIOUS
<1>1. /\ pc' = "process" /\ toDo' = journal /\ touched = {} /\ ~rolledBack
      /\ UNCHANGED <<journal, view, alive, review, rolledBack, touched, spent>>
      /\ GroupsOf(listed)' = GroupsOf(listed)
      /\ filter' = IF GroupsOf(listed) = {} THEN NoFilter ELSE selected
  BY DEF Load, Filter, ReviewInv, BeforeEngine, review
<1>2. listed \subseteq journal /\ journal \subseteq Mutation
      /\ selected \subseteq GroupsOf(listed)
  BY DEF ReviewInv, TypeOK
<1>3. filter' = NoFilter \/ filter' \subseteq Key
  BY <1>1, <1>2, GroupsAreKeys
<1>4. TypeOK'
  BY <1>1, <1>3 DEF ReviewInv, TypeOK, review
<1>5. BeforeEngine' /\ FilterIsSelection' /\ SelectedIsMeant' /\ ReviewedOnly' /\ SelectionDone'
  BY <1>1 DEF ReviewInv, BeforeEngine, FilterIsSelection, SelectedIsMeant, ReviewedOnly,
              SelectionDone, review
<1>6. SelectionAhead'
  BY <1>1, <1>2 DEF SelectionAhead, review
<1> QED BY <1>4, <1>5, <1>6 DEF ReviewInv

LEMMA ProcessStep ==
    ASSUME ReviewInv, NEW m \in Mutation, Process(m)
    PROVE  ReviewInv'
<1>1. /\ pc = "process" /\ m \in toDo /\ m \in journal /\ toDo' = toDo \ {m}
      /\ UNCHANGED <<journal, view, alive, pc, review, filter, rolledBack, spent>>
      /\ touched' = IF Passes(m.path) /\ ~AlwaysSkipped(m) THEN touched \cup {m.path} ELSE touched
      /\ GroupsOf(listed)' = GroupsOf(listed)
  BY DEF Process, ReviewInv, TypeOK, review
<1>2. selected \subseteq Key /\ selected \subseteq GroupsOf(listed)
  BY GroupsAreKeys DEF ReviewInv, TypeOK
<1>3. Passes(m.path) <=> \/ GroupsOf(listed) = {}
                         \/ KeyOf(m.path) = NoKey \/ KeyOf(m.path) \in selected
  <2>1. CASE GroupsOf(listed) = {}
    BY <1>1, <2>1 DEF ReviewInv, FilterIsSelection, Passes
  <2>2. CASE GroupsOf(listed) # {}
    <3>1. filter = selected /\ filter # NoFilter
      BY <1>1, <1>2, <2>2, ReviewAssumption DEF ReviewInv, FilterIsSelection
    <3> QED BY <2>2, <3>1 DEF Passes
  <2> QED BY <2>1, <2>2
<1>4. TypeOK'
  <2>1. touched' \subseteq {n.path : n \in journal}
    BY <1>1 DEF ReviewInv, TypeOK
  <2> QED BY <1>1, <2>1 DEF ReviewInv, TypeOK, review
<1>5. BeforeEngine' /\ FilterIsSelection' /\ SelectedIsMeant'
  BY <1>1 DEF ReviewInv, BeforeEngine, FilterIsSelection, SelectedIsMeant, review
<1>6. ReviewedOnly'
  BY <1>1, <1>2, <1>3 DEF ReviewInv, ReviewedOnly, review
<1>7. SelectionAhead'
  <2> SUFFICES ASSUME NEW n \in listed, ~AlwaysSkipped(n), KeyOf(n.path) \in selected \cup {NoKey}
               PROVE  n \in toDo' \/ n.path \in touched'
    BY <1>1 DEF SelectionAhead, review
  <2>1. n \in toDo \/ n.path \in touched
    BY <1>1 DEF ReviewInv, SelectionAhead
  <2> QED BY <1>1, <1>3, <2>1
<1>8. SelectionDone'
  BY <1>1 DEF ReviewInv, SelectionDone, review
<1> QED BY <1>4, <1>5, <1>6, <1>7, <1>8 DEF ReviewInv

LEMMA FinishStep == ReviewInv /\ Finish => ReviewInv'
<1> SUFFICES ASSUME ReviewInv, Finish PROVE ReviewInv'
  OBVIOUS
<1>1. /\ pc = "process" /\ toDo = {} /\ pc' = "done" /\ rolledBack' = TRUE
      /\ UNCHANGED <<journal, view, alive, review, filter, toDo, touched, spent>>
      /\ GroupsOf(listed)' = GroupsOf(listed)
  BY DEF Finish, review
<1>2. TypeOK'
  BY <1>1 DEF ReviewInv, TypeOK, review
<1>3. BeforeEngine' /\ FilterIsSelection' /\ SelectedIsMeant' /\ SelectionAhead' /\ ReviewedOnly'
  BY <1>1 DEF ReviewInv, BeforeEngine, FilterIsSelection, SelectedIsMeant, SelectionAhead,
              ReviewedOnly, review
<1>4. SelectionDone'
  BY <1>1 DEF ReviewInv, SelectionAhead, SelectionDone, review
<1> QED BY <1>2, <1>3, <1>4 DEF ReviewInv

LEMMA ReviewStep == ReviewInv /\ [Next]_vars => ReviewInv'
<1> SUFFICES ASSUME ReviewInv, [Next]_vars PROVE ReviewInv'
  OBVIOUS
<1>0. /\ journal \subseteq Mutation /\ view \subseteq journal /\ alive \in BOOLEAN
      /\ spent \in Nat /\ asked \subseteq selected /\ toReview \cap selected = {}
  BY DEF ReviewInv, TypeOK
<1>1. ASSUME NEW m \in Mutation, Record(m) PROVE ReviewInv'
  BY <1>0, <1>1, OutsideStep DEF Record
<1>2. ASSUME AppEnds PROVE ReviewInv'
  BY <1>0, <1>2, OutsideStep DEF AppEnds
<1>3. ASSUME Checkpoint PROVE ReviewInv'
  BY <1>0, <1>3, OutsideStep DEF Checkpoint
<1>4. ASSUME Untrack PROVE ReviewInv'
  BY <1>0, <1>4, OutsideStep DEF Untrack
<1>5. ASSUME NEW k \in Key, Accept(k) \/ Remove(k) \/ Keep(k) PROVE ReviewInv'
  BY <1>0, <1>5, AnswerStep DEF Accept, Remove, Keep, Asking, Suggested
<1>6. ASSUME RemoveAllRemaining \/ KeepAllRemaining \/ InputEnds PROVE ReviewInv'
  BY <1>0, <1>6, AnswerStep DEF RemoveAllRemaining, KeepAllRemaining, InputEnds, EndOfInput,
                                Asking, Suggested
<1>7. ASSUME Stop PROVE ReviewInv'
  BY <1>0, <1>7, OutsideStep DEF Stop
<1>8. ASSUME UNCHANGED vars PROVE ReviewInv'
  BY <1>0, <1>8, OutsideStep DEF vars
<1> QED BY <1>1, <1>2, <1>3, <1>4, <1>5, <1>6, <1>7, <1>8, ListStep, LoadStep, ProcessStep,
           FinishStep
        DEF Next, Answer

LEMMA ReviewInvariant == Spec => []ReviewInv
BY ReviewInit, ReviewStep, PTL DEF Spec

(* TypeOK: an answer selects among the groups it takes off the list.       *)
THEOREM TypeCorrect == Spec => []TypeOK
BY ReviewInvariant, PTL DEF ReviewInv

(* ReviewedOnly: what is processed under a home was shown and selected,    *)
(* wherever there was something to show.                                   *)
THEOREM OnlyReviewed == Spec => []ReviewedOnly
BY ReviewInvariant, PTL DEF ReviewInv

(* SelectionDone: what was shown and selected is processed by the time the *)
(* transaction is RolledBack.                                              *)
THEOREM SelectionIsDone == Spec => []SelectionDone
BY ReviewInvariant, PTL DEF ReviewInv

(* DefaultsSpareData: without r or a, nothing tagged as data is processed. *)
THEOREM DefaultsSpare == Spec => []DefaultsSpareData
<1>1. ReviewInv => DefaultsSpareData
  BY DEF ReviewInv, ReviewedOnly, SelectedIsMeant, DefaultsSpareData, SuggestsRemoval
<1> QED BY <1>1, ReviewInvariant, PTL
=============================================================================
