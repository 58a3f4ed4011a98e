------------------------------ MODULE MCCapture ------------------------------
(* A small instance of Capture for TLC.                                    *)
EXTENDS Capture

CONSTANTS p1, p2,           \* processes
          app, tool,        \* tracked apps' buckets
          alice, bob,       \* homes
          fileA, fileB,     \* a file in each
          disk              \* the file system of both

(* Alice runs a launcher and its child, both of tracked apps; both may     *)
(* change files in her home and in that of another user.                   *)
MCAncestors == [p \in Launch |-> IF p = p2 THEN {p1} ELSE {}]
MCRuns == [p \in Launch |-> IF p = p1 THEN <<app, tool>> ELSE <<tool>>]
MCHomeOf == [p \in Launch |-> alice]
MCFsAt == [h \in Home |-> disk]
MCFsOf == [p \in Launch |-> MCFsAt[MCHomeOf[p]]]
MCInHome == [f \in File |-> IF f = fileB THEN bob ELSE alice]
=============================================================================
