---------------------------- MODULE InventoryBook ----------------------------
(***************************************************************************)
(* The inventory as one atomic command sees it: the quantities of every    *)
(* balance and the set of the postings made.  AtomicInventory, which       *)
(* InventoryPosting is shown to implement, is stated with it; the modules  *)
(* of the documents (orders, receipts, returns) post through it too.       *)
(***************************************************************************)
EXTENDS StockPosting, SequencesExt

Taken(posted, key) == \E p \in posted : p.key = key

\* InventoryPostingService.post, one posting.
OneMore(s, p) ==
    LET after == After(s.stock[p.balance], p.delta)
    IN  IF Taken(s.posted, p.key) THEN [s EXCEPT !.ok = @ /\ p.quantity > 0]
        ELSE [stock  |-> [s.stock EXCEPT ![p.balance] = after],
              posted |-> s.posted \cup {p},
              ok     |-> s.ok /\ p.quantity > 0 /\ NonNegative(after)]

\* The postings of one command, in order.
PostAll(s, postings) == FoldLeft(OneMore, s, postings)

\* A reversal of the posting with this key exists.
ReversedIn(posted, key) == \E p \in posted : p.reversalOf = key
=============================================================================
