--------------------------------- MODULE MCRun --------------------------------
(* Small instances of Run for TLC: a command that rewrites a config or     *)
(* renames a new one over it, writes a log on a file system of its own,    *)
(* and installs a program, which it may delete, with its directory.        *)
EXTENDS Run

CONSTANTS prog, conf, log,  \* the files
          root, var         \* the file systems

MCFsOf == [p \in Path |-> IF p = log THEN var ELSE root]
MCWork == {<<prog, "create">>, <<prog, "delete">>, <<conf, "modify">>,
           <<conf, "rename_to">>, <<log, "create">>}
=============================================================================
