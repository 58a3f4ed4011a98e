------------------------------ MODULE Coverage ------------------------------
(***************************************************************************)
(* What MutationCapture promises (its module comment and the comments on   *)
(* start and stop, daemon/mutation_capture.rs): a file system is marked    *)
(* exactly as long as some launch uses it.  A launch joins and leaves; a   *)
(* call that fails voids the promise for good.                             *)
(***************************************************************************)
CONSTANTS Launch, Fs, FsOf      \* FsOf \in [Launch -> Fs]

VARIABLES users,    \* the launches being captured
          marks,    \* the file systems marked
          sound     \* no call has failed so far

Used(u) == {FsOf[l] : l \in u}

Init == users = {} /\ marks = {} /\ sound = TRUE

Join(l) == /\ l \notin users
           /\ users' = users \cup {l}
           /\ marks' = Used(users')
           /\ sound /\ sound'

Leave(l) == /\ l \in users
            /\ users' = users \ {l}
            /\ marks' = Used(users')
            /\ sound /\ sound'

Fault == sound' = FALSE

Next == (\E l \in Launch : Join(l) \/ Leave(l)) \/ Fault

Spec == Init /\ [][Next]_<<users, marks, sound>>
=============================================================================
