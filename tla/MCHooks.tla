------------------------------ MODULE MCHooks --------------------------------
(* Hooks on a machine with all three package managers; one package is the  *)
(* user's choice, the other comes along as a dependency.                   *)
EXTENDS Hooks

CONSTANTS editor, library

MCPackage == {editor, library}
MCExplicit == {editor}
MCDetected == <<"pacman", "apt", "dnf5">>
=============================================================================
