------------------------------ MODULE MCRegistry -----------------------------
(* Small instances of Registry for TLC.                                    *)
EXTENDS Registry, TLC

CONSTANTS npm, node,            \* apps
          npmExe, sharedExe     \* npm's own executable, and the interpreter

(* npm owns one executable; an upgrade makes it bring the other as well,   *)
(* which is what node resolves to.                                         *)
MCResolutions == [a \in App |-> IF a = npm THEN {{npmExe}, {npmExe, sharedExe}}
                                ELSE {{sharedExe}}]

MCSymmetry == Permutations(Client)
=============================================================================
