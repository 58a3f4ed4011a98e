----------------------------- MODULE MCReversal ------------------------------
(* Small instances of Reversal for TLC.                                    *)
EXTENDS Reversal

CONSTANTS svc, svcs, x, y     \* a user, its group, and two lines

MCPrimaryOf == [u \in User |-> svcs]

(* The service's user and group are there already, or the group, or none.  *)
MCAccounts == {[a \in Account |-> IF a \in S THEN x ELSE Absent] : S \in SUBSET Account}
=============================================================================
