-------------------------- MODULE PurchaseReceiving --------------------------
(***************************************************************************)
(* PurchaseOrderService: a purchase order from draft to received, the      *)
(* goods receipts posted against it and the stock their accepted           *)
(* quantities become.  Both operations are serializable transactions,      *)
(* hence one action each.  A receipt whose key was used before returns     *)
(* the first one and is no action.                                         *)
(***************************************************************************)
EXTENDS InventoryBook

CONSTANTS
    PurchaseOrders,
    ItemsOf,       \* ItemsOf[o]: the items of an order
    Ordered,       \* Ordered[i]: the quantity of item i
    ProductOf,     \* ProductOf[i]: the product (and variant) of item i
    Bins,          \* the bins of the warehouse
    NoBin,         \* the null binId
    ReceiptKeys,   \* idempotency keys of receipts
    Counts         \* what a receipt may say of an item: [accepted, rejected]

Items == UNION {ItemsOf[o] : o \in PurchaseOrders}

\* The AVAILABLE balance of a product at a bin, or outside the bins.
At(product, place) == <<product, place>>

\* GoodsReceiptLine is unique for its receipt and item.
LineIds == ReceiptKeys \X Items

\* Orders have items and an item is of one order; the bins of the warehouse are finitely many.
ASSUME ReceivingAssumption ==
    /\ IsFiniteSet(PurchaseOrders) /\ IsFiniteSet(ReceiptKeys) /\ IsFiniteSet(Bins)
    /\ \A o \in PurchaseOrders : IsFiniteSet(ItemsOf[o]) /\ ItemsOf[o] # {}
    /\ \A o, other \in PurchaseOrders : ItemsOf[o] \cap ItemsOf[other] # {} => o = other
    /\ \A i \in Items : Ordered[i] \in Nat \ {0}
    /\ Counts \subseteq [accepted : Nat, rejected : Nat]
    /\ \A i \in Items, place \in Bins \cup {NoBin} : At(ProductOf[i], place) \in Balances
    /\ LineIds \subseteq ClientKeys

VARIABLES
    status,        \* status[o]: PurchaseOrder.status
    receivedQty,   \* receivedQty[i]: PurchaseOrderItem.receivedQty
    receipts,      \* receipts[key]: the GoodsReceipt row with its lines, or NoReceipt
    stock,         \* the StockLevel rows
    posted         \* the StockMovement rows

receivingVars == <<status, receivedQty, receipts>>
inventoryVars == <<stock, posted>>

Statuses == {"DRAFT", "PENDING_APPROVAL", "APPROVED", "SENT", "PARTIALLY_RECEIVED", "RECEIVED", "CANCELLED"}

\* lines: a function on the items the receipt names.
NoReceipt == [place |-> NoBin, lines |-> <<>>]

ReceivingInit ==
    /\ status = [o \in PurchaseOrders |-> "DRAFT"]
    /\ receivedQty = [i \in Items |-> 0]
    /\ receipts = [key \in ReceiptKeys |-> NoReceipt]
    /\ stock = [b \in Balances |-> ZERO]
    /\ posted = {}

Inventory == [stock |-> stock, posted |-> posted, ok |-> TRUE]

Posts(inv) == inv.ok /\ stock' = inv.stock /\ posted' = inv.posted

----------------------------------------------------------------------------

\* What if a partly received order could be cancelled?
BugValidTransitions ==
    [s \in Statuses |->
        CASE s = "DRAFT"            -> {"PENDING_APPROVAL", "CANCELLED"}
          [] s = "PENDING_APPROVAL" -> {"APPROVED", "CANCELLED"}
          [] s = "APPROVED"         -> {"SENT", "CANCELLED"}
          [] s \in {"SENT", "PARTIALLY_RECEIVED"} -> {"CANCELLED"}
          [] OTHER                  -> {}]

\* Receiving statuses are never requested, only derived.
validTransitions ==
    [s \in Statuses |->
        CASE s = "DRAFT"            -> {"PENDING_APPROVAL", "CANCELLED"}
          [] s = "PENDING_APPROVAL" -> {"APPROVED", "CANCELLED"}
          [] s = "APPROVED"         -> {"SENT", "CANCELLED"}
          [] s = "SENT"             -> {"CANCELLED"}
          [] OTHER                  -> {}]

UpdateStatus(o, requested) ==
    /\ requested \in validTransitions[status[o]]
    /\ status' = [status EXCEPT ![o] = requested]
    /\ UNCHANGED <<receivedQty, receipts, stock, posted>>

LinePosting(key, i, place, count) ==
    Posting(At(ProductOf[i], place), Key("RECEIPT_LINE", <<key, i>>, 0), "RECEIPT",
            count.accepted, OnHand(count.accepted), NoKey)

\* The status of an order whose items have these received quantities.
Derived(o, received) ==
    IF \A i \in ItemsOf[o] : received[i] >= Ordered[i] THEN "RECEIVED"
    ELSE IF \E i \in ItemsOf[o] : received[i] > 0 THEN "PARTIALLY_RECEIVED"
    ELSE status[o]

\* lines[i] is what was counted of item i; only accepted goods become stock.
Receive(o, key, place, lines) ==
    LET accepted == {i \in DOMAIN lines : lines[i].accepted > 0}
        received == [i \in Items |-> receivedQty[i] + IF i \in accepted THEN lines[i].accepted ELSE 0]
    IN  /\ receipts[key] = NoReceipt
        /\ status[o] \in {"SENT", "PARTIALLY_RECEIVED"}
        /\ \A i \in DOMAIN lines : /\ lines[i].accepted + lines[i].rejected > 0
                                   /\ received[i] <= Ordered[i]
        /\ Posts(PostAll(Inventory,
                         SetToSeq({LinePosting(key, i, place, lines[i]) : i \in accepted})))
        /\ receivedQty' = received
        /\ receipts' = [receipts EXCEPT ![key] = [place |-> place, lines |-> lines]]
        /\ status' = [status EXCEPT ![o] = Derived(o, received)]

ReceivingNext ==
    \E o \in PurchaseOrders :
        \/ \E requested \in Statuses : UpdateStatus(o, requested)
        \/ \E key \in ReceiptKeys, place \in Bins \cup {NoBin}, named \in SUBSET ItemsOf[o] :
              named # {} /\ \E lines \in [named -> Counts] : Receive(o, key, place, lines)

----------------------------------------------------------------------------
(* Properties.                                                             *)

\* What the receipts accepted of item i, over all of them.
Accepted(i) ==
    LET naming == {key \in ReceiptKeys : i \in DOMAIN receipts[key].lines}
    IN  SumFunctionOnSet([key \in naming |-> receipts[key].lines[i].accepted], naming)

\* However many receipts are posted and refused, an item's received quantity is what they accepted,
\* never above what was ordered, and the order says received, partly received or cancelled
\* exactly when that is so: goods never arrive on an order that was called off.
OrdersFollowReceipts ==
    /\ \A i \in Items : receivedQty[i] = Accepted(i) /\ Accepted(i) <= Ordered[i]
    /\ \A o \in PurchaseOrders :
          /\ status[o] = "RECEIVED" <=> \A i \in ItemsOf[o] : Accepted(i) = Ordered[i]
          /\ status[o] \in {"PARTIALLY_RECEIVED", "RECEIVED"} <=> \E i \in ItemsOf[o] : Accepted(i) > 0
=============================================================================
