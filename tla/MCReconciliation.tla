-------------------------- MODULE MCReconciliation --------------------------
(***************************************************************************)
(* Reconciliation on two balances, one sound and one whose row holds back  *)
(* a unit that no movement explains; a return is made into the latter.     *)
(***************************************************************************)
EXTENDS Reconciliation

CONSTANTS goods, drifted, ret, run1, run2, k1, k2, h1, h2

Held(onHand, hold) == [onHand |-> onHand, allocated |-> 0, hold |-> hold, available |-> onHand - hold]

MCReturnQuantity == ret :> 1
MCOrderLines     == ret :> <<drifted, goods>>
MCOpeningStock   == goods :> Held(1, 0) @@ drifted :> Held(2, 1)
MCOpeningLedger  == goods :> Held(1, 0) @@ drifted :> Held(2, 0)
MCScopes         == {{drifted}, {goods, drifted}}
MCClientKeys     == {k1, k2} \cup {run1, run2} \X {goods, drifted}
Symmetry         == Permutations({k1, k2}) \cup Permutations({run1, run2}) \cup Permutations({h1, h2})
=============================================================================
