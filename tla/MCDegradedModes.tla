-------------------------- MODULE MCDegradedModes ---------------------------
(* Two of MODE_RULES' rows: the symbol-restricting mode that leaves on two *)
(* clears and the one that enters on two faults and needs a reconciliation *)
(* to leave.                                                               *)
EXTENDS DegradedModes, TLC

CONSTANTS stale, unreachable, btc, eth

MCModes       == {stale, unreachable}
MCSymbols     == {btc, eth}
MCEnter       == [m \in MCModes |-> IF m = unreachable THEN 2 ELSE 1]
MCLeave       == [m \in MCModes |-> IF m = stale THEN 2 ELSE 1]
MCReconciled  == {unreachable}
MCRestricting == {stale}
MCSymmetry    == Permutations(MCSymbols)

Spec == DegradedSpec
=============================================================================
