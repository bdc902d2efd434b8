---------------------------- MODULE StockPosting ----------------------------
(***************************************************************************)
(* The arithmetic of InventoryPostingService.post: what one posting does   *)
(* to the StockLevel row it names and to the StockMovement ledger.  Every  *)
(* change of stock in the program goes through it, so the modules that     *)
(* model transactions, orders, receipts and tasks all use these operators. *)
(*                                                                         *)
(* An inventory is a record of two functions on the balance identities:    *)
(*   rows[b]   the StockLevel row (its four quantities and its version);   *)
(*   moves[b]  the StockMovement rows of that balance in posting order.    *)
(* A StockLevel that ensureBalance has not created yet is the row of zeros *)
(* it would be created with, so creating it changes nothing here.          *)
(***************************************************************************)
EXTENDS Integers, Sequences

CONSTANTS
    Balances,    \* StockLevel identities (warehouse, bin, product, variant, status, lot, serial)
    ClientKeys,  \* what a caller may put in its idempotency key: a client's key, a document's id
    NoKey        \* the null reversalOfId

\* An idempotency key as the services build it: a prefix, the caller's part, a running index.  Assumed: no client
\* sends a key that spells another service's prefix.  The code checks it nowhere: the key of a return has no prefix at
\* all, and a transfer looks for the correlation id TRANSFER:<key>, where adjust puts its client's key as it came.
KeyKinds == {"ADJUSTMENT", "REVERSAL", "TRANSFER_OUT", "TRANSFER_IN", "RECEIPT_LINE", "ALLOCATE",
             "DEALLOCATE", "SHIP", "SHIPMENT_VOID", "RETURN", "RECONCILIATION"}

Keys == [kind : KeyKinds, client : ClientKeys, index : Nat]

ASSUME NoKeyAssumption == NoKey \notin Keys

Quantities == [onHand : Int, allocated : Int, hold : Int, available : Int]
Deltas     == [onHand : Int, allocated : Int, hold : Int]
MovementTypes == {"RECEIPT", "ISSUE", "ADJUSTMENT", "TRANSFER_OUT", "TRANSFER_IN", "ALLOCATION",
                  "DEALLOCATION", "PICK", "PUTAWAY", "SHIPMENT", "RETURN", "REVERSAL"}

Rows       == [quantities : Quantities, version : Nat]

Postings == [balance : Balances, key : Keys, type : MovementTypes, quantity : Int,
             delta : Deltas, reversalOf : Keys \cup {NoKey}]

Movements   == [posting : Postings, before : Quantities, after : Quantities]
Inventories == [rows : [Balances -> Rows], moves : [Balances -> Seq(Movements)]]

Key(kind, client, n) == [kind |-> kind, client |-> client, index |-> n]

Posting(b, key, type, quantity, delta, reversed) ==
    [balance |-> b, key |-> key, type |-> type, quantity |-> quantity, delta |-> delta,
     reversalOf |-> reversed]

ZERO == [onHand |-> 0, allocated |-> 0, hold |-> 0, available |-> 0]

EmptyInventory == [rows  |-> [b \in Balances |-> [quantities |-> ZERO, version |-> 0]],
                   moves |-> [b \in Balances |-> <<>>]]

----------------------------------------------------------------------------

Abs(n) == IF n < 0 THEN -n ELSE n

\* Deltas of the kinds the services post.
OnHand(n)    == [onHand |-> n, allocated |-> 0, hold |-> 0]
Reserve(n)   == [onHand |-> 0, allocated |-> n, hold |-> 0]
Relieve(n)   == [onHand |-> -n, allocated |-> -n, hold |-> 0]
Negated(d)   == [onHand |-> -d.onHand, allocated |-> -d.allocated, hold |-> -d.hold]

\* What reverse posts: the deltas of the original, negated, on the original's balance.
Reversal(original, key) ==
    Posting(original.balance, key, "REVERSAL", original.quantity, Negated(original.delta), original.key)

\* What adjust posts for a command [client, balance, change].
AdjustKey(c) == Key("ADJUSTMENT", c.client, 0)

AdjustPosting(c) ==
    Posting(c.balance, AdjustKey(c), "ADJUSTMENT", Abs(c.change), OnHand(c.change), NoKey)

Lesser(m, n) == IF m < n THEN m ELSE n

\* The after* snapshot; available is recomputed, never carried over.
After(q, d) ==
    LET onHand    == q.onHand + d.onHand
        allocated == q.allocated + d.allocated
        hold      == q.hold + d.hold
    IN  [onHand |-> onHand, allocated |-> allocated, hold |-> hold,
         available |-> onHand - allocated - hold]

NonNegative(q) == q.onHand >= 0 /\ q.allocated >= 0 /\ q.hold >= 0 /\ q.available >= 0

KeyUsed(inv, key) ==
    \E b \in Balances : \E i \in DOMAIN inv.moves[b] : inv.moves[b][i].posting.key = key

AfterPosting(inv, p) == After(inv.rows[p.balance].quantities, p.delta)

\* What if post checked onHand alone, and not what is left available?
BugCanPostUnchecked(inv, p) == p.quantity > 0 /\ AfterPosting(inv, p).onHand >= 0

\* post neither throws badRequest (quantity) nor conflict (a negative result).
CanPost(inv, p) ==
    /\ p.quantity > 0
    /\ KeyUsed(inv, p.key) \/ NonNegative(AfterPosting(inv, p))

\* The row moves to the after* snapshot and its version by one; the movement records both snapshots.
Posted(inv, p) ==
    [rows  |-> [inv.rows EXCEPT ![p.balance] =
                  [quantities |-> AfterPosting(inv, p), version |-> @.version + 1]],
     moves |-> [inv.moves EXCEPT ![p.balance] =
                  Append(@, [posting |-> p, before |-> inv.rows[p.balance].quantities,
                             after |-> AfterPosting(inv, p)])]]

\* A key that was posted before returns the first movement and posts nothing.
Post(inv, p) == IF KeyUsed(inv, p.key) THEN inv ELSE Posted(inv, p)
=============================================================================
