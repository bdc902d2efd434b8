-------------------------- MODULE SalesFulfillment --------------------------
(***************************************************************************)
(* Sales orders from draft to delivery: the status of the order, the       *)
(* allocations that reserve stock for its items and carry the picking and  *)
(* packing tasks, its shipment, and the stock they reserve and relieve.    *)
(*                                                                         *)
(* Four services write these tables: SalesOrderService.updateStatus,       *)
(* PickingService, PackingService and ShipmentService.  Every operation is *)
(* one serializable transaction, hence one action; clients and operators   *)
(* call them in any order, for competing orders, and stock is corrected    *)
(* meanwhile.  Replays that change nothing are not actions.                *)
(***************************************************************************)
EXTENDS InventoryBook

CONSTANTS
    Orders,
    ItemsOf,       \* ItemsOf[o]: the items of an order, in order
    Ordered,       \* Ordered[i]: the quantity of item i
    Candidates,    \* Candidates[i]: the AVAILABLE balances of item i's product, in query order
    Stocked,       \* Stocked[b]: what balance b has on hand at first
    Operators,     \* users who pick and pack
    NoOperator,    \* the null claimedById
    Tokens,        \* idempotency keys of shipments and of voids
    Corrections    \* adjustments others make: [balance, change, client]

\* An item is a row of one order, which reads each of its items once.
ASSUME ItemsAssumption ==
    /\ IsFiniteSet(Orders)
    /\ \A o, p \in Orders : ToSet(ItemsOf[o]) \cap ToSet(ItemsOf[p]) # {} => o = p
    /\ \A o \in Orders : ItemsOf[o] \in Seq(ToSet(ItemsOf[o])) /\ IsInjective(ItemsOf[o])

Items == UNION {ToSet(ItemsOf[o]) : o \in Orders}

\* An allocation is identified by its item and its balance (a unique index).
AllocationIds == {a \in Items \X Balances : a[2] \in ToSet(Candidates[a[1]])}

IdsOf(o) == {a \in AllocationIds : a[1] \in ToSet(ItemsOf[o])}

\* The quantities are numbers and a query returns a balance once.
ASSUME QuantitiesAssumption ==
    /\ \A i \in Items : /\ Ordered[i] \in Nat
                        /\ Candidates[i] \in Seq(Balances) /\ IsInjective(Candidates[i])
    /\ Stocked \in [Balances -> Nat]

\* What the services put into their keys.
ASSUME KeysAssumption ==
    /\ AllocationIds \cup (Tokens \X AllocationIds) \subseteq ClientKeys
    /\ Corrections \subseteq [balance : Balances, change : Int, client : ClientKeys]

VARIABLES
    status,        \* status[o]: SalesOrder.status
    allocations,   \* allocations[a]: the InventoryAllocation row, or NoAllocation
    shipments,     \* shipments[o]: the Shipment row of the order
    stock,         \* the StockLevel rows
    posted         \* the StockMovement rows

vars == <<status, allocations, shipments, stock, posted>>

Statuses == {"DRAFT", "CONFIRMED", "ALLOCATED", "PICKING", "PICKED", "PACKED", "SHIPPED",
             "DELIVERED", "CLOSED", "CANCELLED", "RETURNED"}

Executions == {"READY", "CLAIMED", "PICKED", "SHORTED", "PACKING_CLAIMED", "PACKED", "EXCEPTION"}

NoAllocation == [quantity |-> 0, status |-> "NONE", execution |-> "READY",
                 claimedBy |-> NoOperator, picked |-> 0, packed |-> 0]

Allocations == [quantity : Nat, status : {"NONE", "ACTIVE", "RELEASED", "FULFILLED"},
                execution : Executions, claimedBy : Operators \cup {NoOperator},
                picked : Nat, packed : Nat]

NoShipment == [status |-> "NONE", key |-> "none"]

Init ==
    /\ status = [o \in Orders |-> "DRAFT"]
    /\ allocations = [a \in AllocationIds |-> NoAllocation]
    /\ shipments = [o \in Orders |-> NoShipment]
    /\ stock = [b \in Balances |-> After(ZERO, OnHand(Stocked[b]))]
    /\ posted = {}

----------------------------------------------------------------------------
(* What the operations do to the inventory.                                *)

Inventory == [stock |-> stock, posted |-> posted, ok |-> TRUE]

\* The command's postings are made; none of them was refused.
Posts(inv) == inv.ok /\ stock' = inv.stock /\ posted' = inv.posted

Active(o) == {a \in IdsOf(o) : allocations[a].status = "ACTIVE"}

AllocatePosting(a, q) == Posting(a[2], Key("ALLOCATE", a, 0), "ALLOCATION", q, Reserve(q), NoKey)

\* allocateSalesOrder, inner loop: the item takes what it still needs, or what there is, from b.
TakeFrom(s, b) ==
    LET a == <<s.item, b>>
        q == Lesser(s.inv.stock[b].available, s.remaining)
    IN  IF q <= 0 THEN s
        ELSE [inv       |-> OneMore(s.inv, AllocatePosting(a, q)),
              taken     |-> [s.taken EXCEPT ![a] = q],
              item      |-> s.item,
              remaining |-> s.remaining - q]

\* Outer loop; an item that is short makes the whole command fail.
TakeItem(s, i) ==
    LET start == [inv |-> s.inv, taken |-> s.taken, item |-> i, remaining |-> Ordered[i]]
        end   == FoldLeft(TakeFrom, start, Candidates[i])
    IN  [inv |-> [end.inv EXCEPT !.ok = @ /\ end.remaining <= 0], taken |-> end.taken]

Allocation(o) ==
    FoldLeft(TakeItem, [inv |-> Inventory, taken |-> [a \in AllocationIds |-> 0]], ItemsOf[o])

\* One command makes these postings.
AllOf(postings) == PostAll(Inventory, SetToSeq(postings))

\* What if the key of a release did not name the allocation?
BugDeallocatePosting(a) ==
    LET q == allocations[a].quantity
    IN  Posting(a[2], Key("DEALLOCATE", CHOOSE other \in AllocationIds : other[1] = a[1], 0),
                "DEALLOCATION", q, Reserve(-q), NoKey)

DeallocatePosting(a) ==
    LET q == allocations[a].quantity
    IN  Posting(a[2], Key("DEALLOCATE", a, 0), "DEALLOCATION", q, Reserve(-q), NoKey)

ShipPosting(a) ==
    LET q == allocations[a].quantity
    IN  Posting(a[2], Key("SHIP", a, 0), "SHIPMENT", q, Relieve(q), NoKey)

\* The active allocations of the order get a new status.
ActiveBecome(o, new) ==
    allocations' = [a \in AllocationIds |->
        IF a \in Active(o) THEN [allocations[a] EXCEPT !.status = new] ELSE allocations[a]]

----------------------------------------------------------------------------
(* SalesOrderService.updateStatus.                                         *)

validTransitions ==
    [s \in Statuses |->
        CASE s = "DRAFT"     -> {"CONFIRMED", "CANCELLED"}
          [] s = "CONFIRMED" -> {"ALLOCATED", "CANCELLED"}
          [] s = "ALLOCATED" -> {"PICKING", "CANCELLED"}
          [] s = "PICKING"   -> {"PICKED", "CANCELLED"}
          [] s = "PICKED"    -> {"PACKED", "CANCELLED"}
          [] s = "PACKED"    -> {"SHIPPED", "CANCELLED"}
          [] s = "SHIPPED"   -> {"DELIVERED"}
          [] s = "DELIVERED" -> {"CLOSED", "RETURNED"}
          [] OTHER           -> {}]

Moves(o, requested) ==
    /\ requested \in validTransitions[status[o]]
    /\ status' = [status EXCEPT ![o] = requested]
    /\ UNCHANGED shipments

\* The allocations an order has already are kept, and nothing is allocated beside them.
Allocate(o) ==
    /\ Moves(o, "ALLOCATED")
    /\ \/ Active(o) # {} /\ UNCHANGED <<allocations, stock, posted>>
       \/ /\ Active(o) = {}
          /\ Posts(Allocation(o).inv)
          /\ allocations' = [a \in AllocationIds |->
                IF a \in IdsOf(o) /\ Allocation(o).taken[a] > 0
                THEN [NoAllocation EXCEPT !.quantity = Allocation(o).taken[a], !.status = "ACTIVE"]
                ELSE allocations[a]]

\* What if a cancelled order kept its reservations?
BugCancelKeeps(o) == Moves(o, "CANCELLED") /\ UNCHANGED <<allocations, stock, posted>>

Cancel(o) ==
    /\ Moves(o, "CANCELLED")
    /\ Posts(AllOf({DeallocatePosting(a) : a \in Active(o)}))
    /\ ActiveBecome(o, "RELEASED")

\* shipSalesOrder
Relieves(o) ==
    /\ Active(o) # {}
    /\ Posts(AllOf({ShipPosting(a) : a \in Active(o)}))
    /\ ActiveBecome(o, "FULFILLED")

Ship(o) == Moves(o, "SHIPPED") /\ Relieves(o)

\* The other transitions: milestones only.
Advance(o) ==
    /\ \E s \in {"CONFIRMED", "PICKING", "PICKED", "PACKED", "DELIVERED", "CLOSED", "RETURNED"} :
          Moves(o, s)
    /\ UNCHANGED <<allocations, stock, posted>>

----------------------------------------------------------------------------
(* PickingService and PackingService: the tasks of an active allocation.   *)

\* What if the task queries did not ask for active allocations?
BugIsTaskOfAnyStatus(a, execution) == allocations[a].execution = execution

IsTask(a, execution) ==
    allocations[a].status = "ACTIVE" /\ allocations[a].execution = execution

Mine(a, execution, u) == IsTask(a, execution) /\ allocations[a].claimedBy = u

OnlyTask(a, row) ==
    /\ allocations' = [allocations EXCEPT ![a] = row]
    /\ UNCHANGED <<shipments, stock, posted>>

ClaimPick(a, u) ==
    /\ IsTask(a, "READY")
    /\ OnlyTask(a, [allocations[a] EXCEPT !.execution = "CLAIMED", !.claimedBy = u])
    /\ UNCHANGED status

ConfirmPick(a, u) ==
    /\ Mine(a, "CLAIMED", u)
    /\ \E q \in 1..allocations[a].quantity :
          OnlyTask(a, [allocations[a] EXCEPT !.execution = "PICKED", !.picked = q])
    /\ UNCHANGED status

ShortPick(a, u) ==
    /\ Mine(a, "CLAIMED", u)
    /\ OnlyTask(a, [allocations[a] EXCEPT !.execution = "SHORTED"])
    /\ UNCHANGED status

ClaimPack(a, u) ==
    /\ IsTask(a, "PICKED")
    /\ OnlyTask(a, [allocations[a] EXCEPT !.execution = "PACKING_CLAIMED", !.claimedBy = u])
    /\ UNCHANGED status

OrderOf(a) == CHOOSE o \in Orders : a \in IdsOf(o)

\* What if the remaining tasks were counted before this one is packed?
BugCompletePackCountsFirst(a, u) ==
    /\ Mine(a, "PACKING_CLAIMED", u)
    /\ \E q \in 1..allocations[a].picked :
          OnlyTask(a, [allocations[a] EXCEPT !.execution = "PACKED", !.packed = q])
    /\ status' = IF \A other \in Active(OrderOf(a)) : allocations[other].execution = "PACKED"
                 THEN [status EXCEPT ![OrderOf(a)] = "PACKED"] ELSE status

\* When no other task of the order is left the order is packed, whatever its status was.
CompletePack(a, u) ==
    /\ Mine(a, "PACKING_CLAIMED", u)
    /\ \E q \in 1..allocations[a].picked :
          OnlyTask(a, [allocations[a] EXCEPT !.execution = "PACKED", !.packed = q])
    /\ status' = IF \A other \in Active(OrderOf(a)) \ {a} : allocations[other].execution = "PACKED"
                 THEN [status EXCEPT ![OrderOf(a)] = "PACKED"] ELSE status

PackException(a, u) ==
    /\ Mine(a, "PACKING_CLAIMED", u)
    /\ OnlyTask(a, [allocations[a] EXCEPT !.execution = "EXCEPTION"])
    /\ UNCHANGED status

----------------------------------------------------------------------------
(* ShipmentService.                                                        *)

\* The Shipment row is created: its order has none (a unique index) and its key is free.
PostShipment(o, key) ==
    /\ status[o] = "PACKED"
    /\ shipments[o] = NoShipment
    /\ \A other \in Orders : shipments[other].key # key
    /\ Relieves(o)
    /\ status' = [status EXCEPT ![o] = "SHIPPED"]
    /\ shipments' = [shipments EXCEPT ![o] = [status |-> "POSTED", key |-> key]]

\* What if voiding put only the rows of the order back, not the stock?
BugVoidNothing(o) == {}

\* The order's SHIPMENT movements that have no reversal.
ToReverse(o) ==
    {m \in posted : /\ m.type = "SHIPMENT" /\ m.key.client \in IdsOf(o)
                    /\ ~ReversedIn(posted, m.key)}

VoidPosting(m, key) == Reversal(m, Key("SHIPMENT_VOID", <<key, m.key.client>>, 0))

\* Whatever became of the order meanwhile, it is packed again.
VoidShipment(o, key) ==
    /\ shipments[o].status = "POSTED"
    /\ Posts(AllOf({VoidPosting(m, key) : m \in ToReverse(o)}))
    /\ allocations' = [a \in AllocationIds |->
          IF a \in IdsOf(o) /\ allocations[a].status = "FULFILLED"
          THEN [allocations[a] EXCEPT !.status = "ACTIVE"] ELSE allocations[a]]
    /\ status' = [status EXCEPT ![o] = "PACKED"]
    /\ shipments' = [shipments EXCEPT ![o].status = "VOIDED"]

\* StockService.adjust, by somebody else.
Correct(c) ==
    /\ ~Taken(posted, AdjustKey(c))
    /\ Posts(OneMore(Inventory, AdjustPosting(c)))
    /\ UNCHANGED <<status, allocations, shipments>>

----------------------------------------------------------------------------

Fulfil(a, u) ==
    \/ ClaimPick(a, u) \/ ConfirmPick(a, u) \/ ShortPick(a, u)
    \/ ClaimPack(a, u) \/ CompletePack(a, u) \/ PackException(a, u)

UpdateStatus(o) == Allocate(o) \/ Cancel(o) \/ Ship(o) \/ Advance(o)

Next ==
    \/ \E o \in Orders : UpdateStatus(o)
    \/ \E a \in AllocationIds, u \in Operators : Fulfil(a, u)
    \/ \E o \in Orders, key \in Tokens : PostShipment(o, key) \/ VoidShipment(o, key)
    \/ \E c \in Corrections : Correct(c)

Spec == Init /\ [][Next]_vars

----------------------------------------------------------------------------
(* Properties.                                                             *)

\* The rows hold what their tables allow, and a claimed task has its operator.
TypeOK ==
    /\ status \in [Orders -> Statuses]
    /\ allocations \in [AllocationIds -> Allocations]
    /\ \A a \in AllocationIds :
          allocations[a].execution \in {"CLAIMED", "PACKING_CLAIMED"} => allocations[a].claimedBy # NoOperator
    /\ \A o \in Orders : /\ shipments[o].status \in {"NONE", "POSTED", "VOIDED"}
                         /\ shipments[o].key \in Tokens \cup {"none"}
    /\ stock \in [Balances -> Quantities]
    /\ posted \subseteq Postings

QuantityWith(ids, wanted) ==
    SumFunctionOnSet([a \in ids |-> allocations[a].quantity], {a \in ids : allocations[a].status \in wanted})

IdsOfItem(i) == {a \in AllocationIds : a[1] = i}

IdsAt(b) == {a \in AllocationIds : a[2] = b}

\* The order's status and its allocations, rows of two tables written by four services, tell one
\* story: every item reserved in full from allocation to packing, in full fulfilled from
\* shipping on, and nothing reserved before or after a cancellation.
AllocationsFollowStatus ==
    \A o \in Orders : \A i \in ToSet(ItemsOf[o]) :
        /\ QuantityWith(IdsOfItem(i), {"ACTIVE"}) =
             IF status[o] \in {"ALLOCATED", "PICKING", "PICKED", "PACKED"} THEN Ordered[i] ELSE 0
        /\ QuantityWith(IdsOfItem(i), {"FULFILLED"}) =
             IF status[o] \in {"SHIPPED", "DELIVERED", "CLOSED", "RETURNED"} THEN Ordered[i] ELSE 0

\* The order was shipped again after its shipment was voided.
Reshipped(o) ==
    shipments[o].status = "VOIDED" /\ status[o] \in {"SHIPPED", "DELIVERED", "CLOSED", "RETURNED"}

\* No reservation is lost: what the active allocations at a balance promise is always reserved
\* there, so no other order and no correction can take it.
ReservationsAreBacked ==
    \A b \in Balances : stock[b].allocated >= QuantityWith(IdsAt(b), {"ACTIVE"})

Corrected(b) ==
    SumFunctionOnSet([p \in posted |-> p.delta.onHand],
                     {p \in posted : p.type = "ADJUSTMENT" /\ p.balance = b})

\* Nothing more is reserved, and nothing but what was shipped or corrected is gone, at balances
\* no reshipped order had stock of.
StockFollowsAllocations ==
    \A b \in Balances :
        (\A o \in Orders : Reshipped(o) => IdsOf(o) \cap IdsAt(b) = {}) =>
            /\ stock[b].allocated = QuantityWith(IdsAt(b), {"ACTIVE"})
            /\ stock[b].onHand = Stocked[b] + Corrected(b) - QuantityWith(IdsAt(b), {"FULFILLED"})

\* An order that shipped leaves that state only by its milestones or by voiding its shipment, and
\* a cancelled order is never touched again: no late pick or pack task revives either.
LateTasksChangeNothing ==
    [][\A o \in Orders :
          status[o] \in {"CANCELLED", "SHIPPED", "DELIVERED", "CLOSED", "RETURNED"} =>
              \/ status'[o] = status[o]
              \/ status'[o] \in validTransitions[status[o]]
              \/ shipments[o].status = "POSTED" /\ shipments'[o].status = "VOIDED"]_vars

\* The last packer packs the order: packers who finish its tasks in any order, whatever the status
\* was set to meanwhile, never leave a fully packed order waiting in an earlier state.
LastPackerPacksOrder ==
    \A o \in Orders :
        Active(o) # {} /\ (\A a \in Active(o) : allocations[a].execution = "PACKED")
            => status[o] = "PACKED"

\* "Delivery is a business milestone. Physical inventory was already relieved exactly once when
\* the shipment was posted" (sales-orders.service.ts).
DeliveredStockWasRelieved ==
    \A o \in Orders : status[o] = "DELIVERED" =>
        \A a \in IdsOf(o) : allocations[a].status = "FULFILLED" =>
            \E m \in posted : m.key = Key("SHIP", a, 0) /\ ~ReversedIn(posted, m.key)
=============================================================================
