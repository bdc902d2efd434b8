------------------------- MODULE MCSalesFulfillment -------------------------
(***************************************************************************)
(* SalesFulfillment on two orders of one product that compete for it: two  *)
(* of order o1 take both balances, one of o2 whatever is left.             *)
(***************************************************************************)
EXTENDS SalesFulfillment

CONSTANTS o1, o2, i1, i2, near, far, ship1, ship2, count, ann, bob

MCBalances    == {near, far}
MCItemsOf     == (o1 :> <<i1>>) @@ (o2 :> <<i2>>)
MCOrdered     == (i1 :> 2) @@ (i2 :> 1)
MCCandidates  == (i1 :> <<near, far>>) @@ (i2 :> <<near, far>>)
MCStocked     == (near :> 1) @@ (far :> 2)
MCTokens      == {ship1, ship2}
MCCorrections == {[balance |-> far, change |-> -1, client |-> count]}
MCClientKeys  == LET ids == {i1, i2} \X MCBalances
                 IN  {count} \cup MCTokens \cup ids \cup (MCTokens \X ids)
\* Operators and keys are interchangeable.
Symmetry == Permutations({ann, bob}) \cup Permutations(MCTokens)
=============================================================================
