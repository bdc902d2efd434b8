------------------------------ MODULE MCPutaway ------------------------------
(***************************************************************************)
(* Putaway on one order of two units of one product, received in up to two *)
(* receipts, in the staging bin or outside the bins.                       *)
(***************************************************************************)
EXTENDS Putaway

CONSTANTS order, item, sku, staging, shelf, rack, r1, r2, count, ann, bob, h1, h2

MCBalances    == {sku} \X {staging, shelf, rack, NoBin}
MCItemsOf     == order :> {item}
MCOrdered     == item :> 2
MCProductOf   == item :> sku
MCBinOrder    == <<shelf, rack, staging, NoBin>>
MCCounts      == [accepted : 0..2, rejected : {0, 1}]
MCCorrections == {[balance |-> <<sku, staging>>, change |-> -1, client |-> count]}
MCClientKeys  == {count} \cup {r1, r2} \X {item}
\* Operators, handlers and receipt keys are interchangeable.
Symmetry == Permutations({ann, bob}) \cup Permutations({h1, h2}) \cup Permutations({r1, r2})
=============================================================================
