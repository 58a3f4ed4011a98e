----------------------------- MODULE MCRollback -----------------------------
(* Small instances of Rollback for TLC.                                    *)
EXTENDS Rollback

CONSTANTS conf, prog, home, data,   \* paths
          a, b,                     \* file contents
          l, dir                    \* a symlink, a directory

MCTarget == [k \in {l} |-> home]

(* A config and a program of the system, two files of a user's home.       *)
MCCategory == [p \in Path |-> IF p \in {home, data} THEN "NeverTouch" ELSE "Managed"]

Call(mode, dry) == [mode |-> mode, dry |-> dry, home |-> FALSE,
                    filtered |-> FALSE, groups |-> {}]

(* One of the two files of the home is of a review group.                  *)
MCGroups == [p \in Path |-> IF p = data THEN data ELSE Nothing]

(* An install: a config that exists before it (a small file, one too large *)
(* for a blob, or a symlink), and a program that does not.  A tracked app  *)
(* works on the home, where there is a file that it had not created.       *)
MCDisks == {[p \in Path |-> CASE p = conf -> v [] p = home -> a [] OTHER -> Absent] :
               v \in {a, b, l}}

InstallCalls == {Call(m, FALSE) : m \in Mode} \cup {Call("Conservative", TRUE)}
HomeCalls ==
    {[Call("Conservative", FALSE) EXCEPT !.home = TRUE],
     [Call("Clean", FALSE) EXCEPT !.home = TRUE, !.filtered = TRUE]}
MCCalls == InstallCalls \cup HomeCalls
ConservativeCall == {Call("Conservative", FALSE)}
=============================================================================
