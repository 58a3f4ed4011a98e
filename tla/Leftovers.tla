------------------------------ MODULE Leftovers ------------------------------
(***************************************************************************)
(* scan-leftovers: files and directories in a home whose names look like   *)
(* an app's (scan_leftovers/mod.rs) are listed, and those the user says y  *)
(* to are archived and removed (commands/scan_leftovers.rs).               *)
(*                                                                         *)
(* Actors: the command; and the owner of the home, whose programs go on    *)
(* writing.  A path is the sequence of names below the home.               *)
(***************************************************************************)
EXTENDS Naturals, Sequences, FiniteSets, SequencesExt

CONSTANTS
    Path,       \* every path there may be, with its prefixes
    Lower,      \* [name -> the name in lower case]
    Bare,       \* [name -> the name in lower case without leading dots]
    Part,       \* {<<s, t>> : the string s is part of the string t}
    App,        \* what may be asked for: see Metadata
    Content,    \* contents of regular files
    Absent,     \* nothing is there
    NoPath,     \* no candidate is being removed
    Budget      \* bound: changes by the owner, and calls that fail

Name == UNION {{p[i] : i \in DOMAIN p} : p \in Path}
(* What a package manager or a cached archive tells about an app.          *)
Metadata(Word) ==
    [name : Word, stage : {"installed", "cached", "unknown"},
     binaries : SUBSET Word,    \* executables it owns
     exec : SUBSET Word,        \* of its desktop files
     ids : SUBSET Word]         \* its desktop and AppStream ids, its vendor

(* A link that leads to a directory is not told from one by is_dir.        *)
Link == {"link", "link to dir"}
Entry == Content \cup {"dir"} \cup Link

ASSUME LeftoversAssumption ==
    /\ Path \subseteq Seq(STRING) /\ \A p \in Path : p # <<>> /\ (Len(p) > 1 => Front(p) \in Path)
    /\ \A n \in {".config", ".local", ".cache"} \cap Name : Lower[n] = n
    /\ App \subseteq Metadata(STRING)
    /\ Absent \notin Entry /\ NoPath \notin Path /\ ({"dir"} \cup Link) \cap Content = {}
    /\ Budget \in Nat

VARIABLES
    app,        \* what the command was given
    home,       \* [path -> what is there]
    pc,         \* the command's next step
    toAsk,      \* candidates the user has not been asked about
    current,    \* the candidate that is being removed
    owed,       \* what the walk will come to there
    passed,     \* what it has passed
    archive,    \* [path -> what the command's transaction has archived]
    late,       \* ghost: files that were written behind the walk's back
    spent       \* of Budget

command == <<pc, toAsk, current, owed, passed>>
vars == <<app, home, command, archive, late, spent>>

Spend == spent < Budget /\ spent' = spent + 1

-----------------------------------------------------------------------------
(* derive_signals.  A binary counts when it is there and executable, and   *)
(* that of a package that has been removed is not.                         *)

Structural == IF app.stage = "unknown" THEN {} ELSE app.ids
Likely == CASE app.stage = "installed" -> {app.name} \cup app.exec \cup app.binaries
            [] app.stage = "cached"    -> {app.name} \cup app.exec
            [] app.stage = "unknown"   -> {}

(* classify.  Exact is 3, a guess is 1, and 0 is no candidate.             *)
Confidence(n, inXdg) ==
    CASE {Bare[n], Lower[n]} \cap Structural # {} -> 3
      [] \E t \in Likely : <<t, Lower[n]>> \in Part \/ <<Lower[n], t>> \in Part -> 2
      [] inXdg /\ <<app.name, Lower[n]>> \in Part -> 1
      [] OTHER -> 0

XdgDirs == {<<".config">>, <<".local", "share">>, <<".cache">>, <<".local", "state">>}

Mutant_TouchAll(n) == FALSE
IsNeverTouch(n) == Lower[n] \in {".ssh", ".gnupg", ".password-store"}

(* scan_with_home: in a home itself, only names with a leading dot.        *)
InXdg(p) == Front(p) \in XdgDirs
Dotted(n) == Lower[n] # Bare[n]
Scanned(p) == IF Len(p) = 1 THEN Dotted(p[1]) ELSE InXdg(p)
Rank(p) == Confidence(Last(p), InXdg(p))

Candidates == {p \in Path : /\ home[p] # Absent /\ Scanned(p)
                            /\ ~IsNeverTouch(Last(p)) /\ Rank(p) > 0}

-----------------------------------------------------------------------------
(* The tree.                                                               *)

Below(c) == {p \in Path : IsPrefix(c, p)}
IsFile(p) == home[p] \in Content
HasParent(p) == Len(p) > 1 => home[Front(p)] = "dir"
Children(p) == {q \in Path : Len(q) = Len(p) + 1 /\ IsPrefix(p, q) /\ home[q] # Absent}

(* The owner writes or deletes a file, or makes a directory.  The walk     *)
(* notices what is done to a file it has yet to come to.                   *)
Behind(p) == current # NoPath /\ p \in Below(current) \ owed

Put(p, e) ==
    /\ pc # "done" /\ Spend
    /\ HasParent(p) /\ home[p] \in (Content \cup {Absent}) \ {e}
    /\ e = "dir" => ~IsFile(p) /\ p # current
    /\ home' = [home EXCEPT ![p] = e]
    /\ late' = IF Behind(p) THEN late \cup {p} ELSE late \ {p}
    /\ UNCHANGED <<app, command, archive>>

-----------------------------------------------------------------------------
(* handle_scan_leftovers.                                                  *)

Scan ==
    /\ pc = "scan" /\ pc' = "ask" /\ toAsk' = Candidates
    /\ UNCHANGED <<app, home, current, owed, passed, archive, late, spent>>

(* Whatever is left of the input, an n or its end keeps the candidate.     *)
(* The most confident matches come first.                                  *)
Asked == {c \in toAsk : \A d \in toAsk : Rank(c) >= Rank(d)}

Decline(c) ==
    /\ pc = "ask" /\ c \in Asked /\ toAsk' = toAsk \ {c}
    /\ UNCHANGED <<app, home, pc, current, owed, passed, archive, late, spent>>

(* archive_and_remove: a candidate that is a file, or a link to one, is    *)
(* archived itself, and the regular files below one that is a directory.   *)
Walked(c) == {p \in Below(c) : IsFile(p) \/ (p = c /\ home[p] = "link")}

Agree(c) ==
    /\ pc = "ask" /\ c \in Asked /\ toAsk' = toAsk \ {c}
    /\ pc' = "archive" /\ current' = c /\ owed' = Walked(c) /\ passed' = {}
    /\ late' = late \ Below(c)
    /\ UNCHANGED <<app, home, archive, spent>>

(* The walk comes to a file; it may or may not come to those that appear   *)
(* behind it, and those that are gone it does not miss.                    *)
Archive(p) ==
    /\ pc = "archive" /\ p \in Walked(current) \ passed /\ passed' = passed \cup {p}
    /\ archive' = [archive EXCEPT ![p] = home[p]]
    /\ owed' = owed \ {p} /\ late' = late \ {p}
    /\ UNCHANGED <<app, home, pc, toAsk, current, spent>>

(* The rest of the candidate is left when one of its files cannot be       *)
(* archived, or removed.                                                   *)
GiveUp ==
    /\ pc \in {"archive", "remove"} /\ Spend
    /\ pc' = "ask" /\ current' = NoPath /\ owed' = {} /\ passed' = {}
    /\ UNCHANGED <<app, home, toAsk, archive, late>>

(* A directory the walk cannot read is passed over.                        *)
PassOver(p) ==
    /\ pc = "archive" /\ p \in Below(current) /\ home[p] = "dir" /\ Spend
    /\ owed \cap Below(p) # {}
    /\ owed' = owed \ Below(p) /\ passed' = passed \cup (Below(p) \cap Below(current))
    /\ late' = late \cup (owed \cap Below(p))
    /\ UNCHANGED <<app, home, pc, toAsk, current, archive>>

Mutant_AnyTime == TRUE
WalkIsOver == owed \cap Walked(current) = {}

StartRemoving ==
    /\ pc = "archive" /\ WalkIsOver
    /\ pc' = "remove" /\ owed' = {} /\ passed' = {}
    /\ UNCHANGED <<app, home, toAsk, current, archive, late, spent>>

(* remove_dir_all, which removes a link to a directory and not what is     *)
(* there, or remove_file.                                                  *)
RemoveEntry(p) ==
    /\ pc = "remove" /\ p \in Below(current) /\ home[p] # Absent /\ Children(p) = {}
    /\ home' = [home EXCEPT ![p] = Absent]
    /\ UNCHANGED <<app, command, archive, late, spent>>

Removed ==
    /\ pc = "remove" /\ home[current] = Absent
    /\ pc' = "ask" /\ current' = NoPath
    /\ UNCHANGED <<app, home, toAsk, owed, passed, archive, late, spent>>

(* All candidates have been asked about, or the command is killed.         *)
Quit ==
    /\ \/ pc = "ask" /\ toAsk = {} /\ UNCHANGED spent
       \/ pc # "done" /\ Spend
    /\ pc' = "done" /\ toAsk' = {} /\ current' = NoPath /\ owed' = {} /\ passed' = {}
    /\ UNCHANGED <<app, home, archive, late>>

-----------------------------------------------------------------------------
Init ==
    /\ app \in App
    /\ home \in [Path -> Entry \cup {Absent}]
    /\ \A p \in Path : home[p] # Absent => HasParent(p)
    /\ pc = "scan" /\ toAsk = {} /\ current = NoPath /\ owed = {} /\ passed = {}
    /\ archive = [p \in Path |-> Absent]
    /\ late = {} /\ spent = 0

Next == \/ \E p \in Path : \E e \in Content \cup {"dir", Absent} : Put(p, e)
        \/ Scan
        \/ \E c \in toAsk : Decline(c) \/ Agree(c)
        \/ \E p \in Path : Archive(p) \/ PassOver(p) \/ RemoveEntry(p)
        \/ GiveUp \/ StartRemoving \/ Removed \/ Quit

Spec == Init /\ [][Next]_vars

-----------------------------------------------------------------------------
TypeOK ==
    /\ app \in App /\ home \in [Path -> Entry \cup {Absent}]
    /\ pc \in {"scan", "ask", "archive", "remove", "done"}
    /\ toAsk \subseteq Path /\ current \in Path \cup {NoPath}
    /\ current = NoPath <=> pc \in {"scan", "ask", "done"}
    /\ owed \cup passed # {} => pc = "archive" /\ owed \cup passed \subseteq Below(current)
    /\ owed \cap passed = {}
    /\ archive \in [Path -> Content \cup {"link", Absent}]
    /\ late \subseteq Path /\ spent \in 0 .. Budget

(* "Nothing is ever silently deleted; everything removable is archived     *)
(* first" (README.md:3).  The code does less: links below a candidate, a   *)
(* candidate that is a link to a directory, what is in a directory the     *)
(* walk cannot read, and what is written behind the walk's back are        *)
(* removed and there is no copy of them.                                   *)
EverythingIsArchivedFirst ==
    [][\A p \in Path : RemoveEntry(p) /\ home[p] # "dir" => archive[p] = home[p]]_vars

(* What does hold: a regular file that the walk could see, and a candidate *)
(* that is itself a link to a file, is in the archive as it is when it is  *)
(* removed, whatever the owner has written while the walk was on.          *)
SeenIsArchivedFirst ==
    [][\A p \in Path : RemoveEntry(p) /\ p \in Walked(current) \ late
                        => archive[p] = home[p]]_vars

(* NEVER_TOUCH, "a safety floor": whatever the app is called and the user  *)
(* says, nothing in those directories of a home is removed.                *)
FloorHolds ==
    [][\A p \in Path : Lower[p[1]] \in {".ssh", ".gnupg", ".password-store"}
                        => ~RemoveEntry(p)]_vars
=============================================================================
