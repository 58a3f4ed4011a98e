------------------------------- MODULE Review --------------------------------
(***************************************************************************)
(* `untrack --rollback`: what the daemon has recorded of a tracked app is  *)
(* put into groups, the user is asked about each (rollback/review.rs), and *)
(* the engine passes over what was not selected (rollback/mod.rs).  What   *)
(* the engine does with the rest is Rollback's.                            *)
(*                                                                         *)
(* A behaviour has three actors: processes of the app that were launched   *)
(* before it was untracked, whose changes are recorded until they end; the *)
(* daemon; and the client (commands/track.rs), which reads what was        *)
(* recorded twice, as of the last checkpoint for the review and as of now  *)
(* for the engine.                                                         *)
(***************************************************************************)
EXTENDS Naturals, Sequences, FiniteSets

CONSTANTS
    Path,       \* paths, as sequences of names, the root left out
    Lower,      \* [name -> the name in lower case]
    Bare,       \* [name -> the name in lower case without leading dots]
    NoKey,      \* the path is under no home
    NoFilter,   \* Option::None for the engine's selected_groups
    Budget      \* bound: changes of the app, checkpoints that are held up

Name == UNION {{p[i] : i \in DOMAIN p} : p \in Path}

Op == {"create", "modify", "rename_from"}
Mutation == [path : Path, op : Op]

-----------------------------------------------------------------------------
(* Groups.                                                                 *)

(* home_root_of: /root, or /home and a name.                               *)
HomeLength(p) == IF p[1] = "root" THEN 1
                 ELSE IF p[1] = "home" /\ Len(p) > 1 THEN 2 ELSE 0

(* ~/.local/share and ~/.local/state count as one name.                    *)
Depth(p) ==
    LET h == HomeLength(p) IN
    IF Len(p) >= h + 2 /\ Lower[p[h + 1]] = ".local" /\ Lower[p[h + 2]] \in {"share", "state"}
    THEN 3 ELSE 2

LesserOf(m, n) == IF m <= n THEN m ELSE n

KeyOf(p) ==
    LET h == HomeLength(p) IN
    IF h = 0 \/ Len(p) = h THEN NoKey ELSE SubSeq(p, 1, LesserOf(Len(p), h + Depth(p)))

(* The first name below the home that tells decides.                       *)
Meaning(n) == CASE n = "cache" -> "Cache" [] n \in {"log", "logs"} -> "Log"
                [] n = "state" -> "State" [] n \in {"tmp", "temp"} -> "Tmp" [] OTHER -> "Data"
Telling(k) == {i \in HomeLength(k) + 1 .. Len(k) : Meaning(Bare[k[i]]) # "Data"}
TagOf(k) == IF Telling(k) = {} THEN "Data"
            ELSE Meaning(Bare[k[CHOOSE i \in Telling(k) : \A j \in Telling(k) : i <= j]])

SuggestsRemoval(k) == TagOf(k) # "Data"

(* The engine does nothing about a path that was renamed away.             *)
AlwaysSkipped(m) == m.op = "rename_from"

GroupsOf(M) == {KeyOf(m.path) : m \in {n \in M : ~AlwaysSkipped(n)}} \ {NoKey}

Key == {KeyOf(p) : p \in Path} \ {NoKey}

ASSUME ReviewAssumption ==
    /\ Path \subseteq Seq(STRING) /\ \A p \in Path : p # <<>>
    /\ Lower \in [Name -> STRING] /\ Bare \in [Name -> STRING]
    /\ \A S \in SUBSET Key : S # NoFilter
    /\ Budget \in Nat

VARIABLES
    journal,    \* the mutations of the app's transaction
    view,       \* ... as of the last checkpoint
    alive,      \* processes of the app are left
    pc,         \* the client's next step
    toReview,   \* groups the user has not been asked about
    selected,   \* groups to be removed
    filter,     \* the engine's selected_groups
    toDo,       \* mutations the engine has loaded and not come to
    rolledBack, \* the status of the transaction
    touched,    \* ghost: paths the engine has processed
    listed,     \* ghost: the mutations that were put into groups
    asked,      \* ghost: groups the user said r or a to
    spent       \* of Budget

review == <<toReview, selected, listed, asked>>
engine == <<filter, toDo, rolledBack, touched>>
vars == <<journal, view, alive, pc, review, engine, spent>>

-----------------------------------------------------------------------------
(* The app and the daemon.                                                 *)

Record(m) ==
    /\ alive /\ m \notin journal /\ spent < Budget /\ spent' = spent + 1
    /\ journal' = journal \cup {m}
    /\ UNCHANGED <<view, alive, pc, review, engine>>

AppEnds ==
    /\ alive /\ alive' = FALSE
    /\ UNCHANGED <<journal, view, pc, review, engine, spent>>

Checkpoint ==
    /\ view # journal /\ view' = journal
    /\ UNCHANGED <<journal, alive, pc, review, engine, spent>>

(* The request is answered; its checkpoint may come to nothing while some  *)
(* other client reads.                                                     *)
Untrack ==
    /\ pc = "untrack" /\ pc' = "list"
    /\ \/ view' = journal /\ spent' = spent
       \/ view' = view /\ spent < Budget /\ spent' = spent + 1
    /\ UNCHANGED <<journal, alive, review, engine>>

-----------------------------------------------------------------------------
(* The review.                                                             *)

List ==
    /\ pc = "list" /\ listed' = view
    /\ toReview' = GroupsOf(view)
    /\ IF toReview' = {} THEN pc' = "load" ELSE pc' = "review"
    /\ UNCHANGED <<journal, view, alive, selected, asked, engine, spent>>

(* Groups are asked about in the order of their keys, which is of no       *)
(* matter here.  l and anything else ask again.                            *)
Asking == pc = "review" /\ UNCHANGED <<journal, view, alive, pc, engine, listed, spent>>
Suggested(S) == {k \in S : SuggestsRemoval(k)}

Accept(k) ==
    /\ Asking /\ k \in toReview
    /\ toReview' = toReview \ {k} /\ selected' = selected \cup Suggested({k})
    /\ UNCHANGED asked

Remove(k) ==
    /\ Asking /\ k \in toReview
    /\ toReview' = toReview \ {k} /\ selected' = selected \cup {k} /\ asked' = asked \cup {k}

Keep(k) ==
    /\ Asking /\ k \in toReview
    /\ toReview' = toReview \ {k} /\ UNCHANGED <<selected, asked>>

RemoveAllRemaining ==
    /\ Asking /\ toReview # {}
    /\ toReview' = {} /\ selected' = selected \cup toReview /\ asked' = asked \cup toReview

KeepAllRemaining ==
    /\ Asking /\ toReview # {}
    /\ toReview' = {} /\ UNCHANGED <<selected, asked>>

Mutant_EndRemoves(S) == S
EndOfInput(S) == Suggested(S)

InputEnds ==
    /\ Asking /\ toReview # {}
    /\ toReview' = {} /\ selected' = selected \cup EndOfInput(toReview)
    /\ UNCHANGED asked

-----------------------------------------------------------------------------
(* The engine reads the journal anew.  No groups, no filter.               *)

Mutant_NoneIsNoFilter == IF selected = {} THEN NoFilter ELSE selected
Filter == IF pc = "load" THEN NoFilter ELSE selected

Load ==
    /\ pc = "load" \/ (pc = "review" /\ toReview = {})
    /\ pc' = "process" /\ toDo' = journal
    /\ filter' = Filter
    /\ UNCHANGED <<journal, view, alive, review, rolledBack, touched, spent>>

(* mutation_passes_group_filter                                            *)
Mutant_DropUngrouped(p) == filter = NoFilter \/ KeyOf(p) \in filter
Passes(p) == filter = NoFilter \/ KeyOf(p) = NoKey \/ KeyOf(p) \in filter

Process(m) ==
    /\ pc = "process" /\ m \in toDo
    /\ toDo' = toDo \ {m}
    /\ touched' = IF Passes(m.path) /\ ~AlwaysSkipped(m) THEN touched \cup {m.path} ELSE touched
    /\ UNCHANGED <<journal, view, alive, pc, review, filter, rolledBack, spent>>

Finish ==
    /\ pc = "process" /\ toDo = {} /\ pc' = "done"
    /\ rolledBack' = TRUE
    /\ UNCHANGED <<journal, view, alive, review, filter, toDo, touched, spent>>

(* A kill, or an error in reading or writing.  The app is untracked by now *)
(* and the daemon refuses to untrack it again.                             *)
Stop ==
    /\ pc \notin {"untrack", "done"} /\ pc' = "done"
    /\ UNCHANGED <<journal, view, alive, review, engine, spent>>

-----------------------------------------------------------------------------
Init ==
    /\ journal = {} /\ view = {} /\ alive = TRUE
    /\ pc = "untrack"
    /\ toReview = {} /\ selected = {} /\ listed = {} /\ asked = {}
    /\ filter = NoFilter /\ toDo = {} /\ rolledBack = FALSE /\ touched = {}
    /\ spent = 0

Answer == \/ \E k \in Key : Accept(k) \/ Remove(k) \/ Keep(k)
          \/ RemoveAllRemaining \/ KeepAllRemaining \/ InputEnds

Next == \/ \E m \in Mutation : Record(m) \/ Process(m)
        \/ AppEnds \/ Checkpoint \/ Untrack
        \/ List \/ Answer \/ Load \/ Finish \/ Stop

Spec == Init /\ [][Next]_vars

-----------------------------------------------------------------------------
TypeOK ==
    /\ journal \subseteq Mutation /\ view \subseteq journal /\ listed \subseteq journal
    /\ alive \in BOOLEAN /\ rolledBack \in BOOLEAN
    /\ pc \in {"untrack", "list", "review", "load", "process", "done"}
    /\ toReview \subseteq GroupsOf(listed) /\ asked \subseteq selected
    /\ selected \subseteq GroupsOf(listed) \ toReview
    /\ filter = NoFilter \/ filter \subseteq Key
    /\ toDo \subseteq journal /\ touched \subseteq {m.path : m \in journal}
    /\ spent \in Nat

(* Wherever there was something to review, what the engine processes under *)
(* a home is in a group that was shown and is to be removed, in spite of   *)
(* what the app has done meanwhile.                                        *)
ReviewedOnly ==
    GroupsOf(listed) # {} =>
        \A p \in touched : KeyOf(p) = NoKey \/ KeyOf(p) \in GroupsOf(listed) \cap selected

(* Whoever accepts the suggestions, or has no input to give, loses caches, *)
(* logs, state and temporary files and nothing else.                       *)
DefaultsSpareData ==
    GroupsOf(listed) # {} =>
        \A p \in touched : KeyOf(p) # NoKey /\ TagOf(KeyOf(p)) = "Data" => KeyOf(p) \in asked

(* When the transaction is RolledBack, everything the review has shown in  *)
(* a group to be removed has been processed, and everything that is under  *)
(* no home.                                                                *)
SelectionDone ==
    rolledBack =>
        \A m \in listed : ~AlwaysSkipped(m) /\ KeyOf(m.path) \in selected \cup {NoKey}
                          => m.path \in touched
=============================================================================
