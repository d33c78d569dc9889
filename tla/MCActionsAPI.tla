---------------------------- MODULE MCActionsAPI ----------------------------
(***************************************************************************)
(* Two blocks, the first with two transactions, and pages of one row.      *)
(***************************************************************************)
EXTENDS ActionsAPI, TLC

CONSTANTS first, second, third

MCTx == {first, second, third}
MCBlockOf == first :> 1 @@ second :> 1 @@ third :> 2

\* The two transactions of one block may change places.
MCSymmetry == Permutations({first, second})
=============================================================================
