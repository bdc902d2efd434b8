----------------------- MODULE SalesFulfillment_proofs -----------------------
(***************************************************************************)
(* Proofs about SalesFulfillment, for any orders, items, balances,         *)
(* operators and keys, in every order of calls: the status of an order and *)
(* those of its allocations go together (SalesInv), and so do the stock    *)
(* the allocations reserve and relieve (StockInv).                         *)
(*                                                                         *)
(* StockInv says two things.  The rows of stock are the totals of the      *)
(* movements, which every single posting keeps.  And which movements there *)
(* are follows from the statuses: a reservation once the allocation is     *)
(* made, a release when it is released, a shipment when it is fulfilled or *)
(* was, its reversal when the shipment was voided.  What a row holds is    *)
(* then a sum over the allocations at its balance.                         *)
(*                                                                         *)
(* The constant Op of FoldTheorems is free here: its lemmas about folds    *)
(* are used through the instances below, those about sums do not name it.  *)
(***************************************************************************)
EXTENDS SalesFulfillment, FoldTheorems, TLAPS

Reserving == {"ALLOCATED", "PICKING", "PICKED", "PACKED"}
Shipped   == {"SHIPPED", "DELIVERED", "CLOSED", "RETURNED"}

\* The forms of the rows.
AllocationFields == {"quantity", "status", "execution", "claimedBy", "picked", "packed"}
IsAllocation(row) == row = [field \in AllocationFields |-> row[field]]
IsShipment(row)   == row = [field \in {"status", "key"} |-> row[field]]

\* An order whose allocations are active is between allocation and packing, one whose allocations are fulfilled has
\* shipped, and one whose tasks are all packed is packed.
OrderSound(o) ==
    /\ \A a \in IdsOf(o) : /\ allocations[a].status = "ACTIVE" => status[o] \in Reserving
                           /\ allocations[a].status = "FULFILLED" => status[o] \in Shipped
    /\ Active(o) # {} /\ (\A a \in Active(o) : allocations[a].execution = "PACKED") => status[o] = "PACKED"

RowsSound ==
    /\ status \in [Orders -> Statuses]
    /\ allocations = [a \in AllocationIds |-> allocations[a]]
    /\ \A a \in AllocationIds : IsAllocation(allocations[a])
    /\ shipments = [o \in Orders |-> shipments[o]]
    /\ \A o \in Orders : IsShipment(shipments[o])

SalesInv == RowsSound /\ \A o \in Orders : OrderSound(o)

----------------------------------------------------------------------------

\* An allocation belongs to one order.
LEMMA IdsAreOfOneOrder ==
    ASSUME NEW o \in Orders, NEW p \in Orders, NEW a \in IdsOf(o), a \in IdsOf(p)
    PROVE  o = p
  BY ItemsAssumption DEF IdsOf

\* And OrderOf names it.
LEMMA OrderOfIs ==
    ASSUME NEW a \in AllocationIds
    PROVE  OrderOf(a) \in Orders /\ a \in IdsOf(OrderOf(a)) /\ \A o \in Orders : a \in IdsOf(o) => o = OrderOf(a)
  <1>1. \E o \in Orders : a \in IdsOf(o)
    BY DEF AllocationIds, IdsOf, Items
  <1>2. OrderOf(a) \in Orders /\ a \in IdsOf(OrderOf(a))
    BY <1>1 DEF OrderOf
  <1> QED
    BY <1>2, IdsAreOfOneOrder

\* What validTransitions says of the groups of statuses.
LEMMA Transitions ==
    ASSUME NEW from \in Statuses, NEW to \in validTransitions[from]
    PROVE  /\ to \in Statuses
           /\ from # "CANCELLED"
           /\ from = "PACKED" => to \in {"SHIPPED", "CANCELLED"}
           /\ to = "ALLOCATED" => from = "CONFIRMED"
           /\ to = "SHIPPED" => from = "PACKED"
           /\ to = "CANCELLED" => from \notin Shipped
           /\ from \in Shipped => to \in Shipped
           /\ from \in Reserving /\ to \notin {"SHIPPED", "CANCELLED"} => to \in Reserving
  BY DEF validTransitions, Statuses, Shipped, Reserving

\* A step on one order leaves the others as they are.
LEMMA OneOrder ==
    ASSUME SalesInv, RowsSound', NEW o \in Orders, OrderSound(o)',
           \A p \in Orders \ {o} : status'[p] = status[p],
           \A a \in AllocationIds \ IdsOf(o) : allocations'[a] = allocations[a]
    PROVE  SalesInv'
  <1>1. ASSUME NEW p \in Orders \ {o}
        PROVE  OrderSound(p)'
    <2>1. \A a \in IdsOf(p) : allocations'[a] = allocations[a]
      BY IdsAreOfOneOrder DEF IdsOf
    <2>2. Active(p)' = Active(p) /\ Active(p) \subseteq IdsOf(p)
      BY <2>1 DEF Active, IdsOf
    <2>3. OrderSound(p)
      BY DEF SalesInv
    <2> QED
      BY <2>1, <2>2, <2>3 DEF OrderSound, IdsOf
  <1> QED
    BY <1>1 DEF SalesInv

\* A row that gets another status.
LEMMA StatusWritten ==
    ASSUME NEW row, IsAllocation(row), NEW new
    PROVE  /\ IsAllocation([row EXCEPT !.status = new])
           /\ [row EXCEPT !.status = new].status = new
           /\ [row EXCEPT !.status = new].execution = row.execution
  BY DEF IsAllocation, AllocationFields

----------------------------------------------------------------------------
(* SalesOrderService.updateStatus.                                         *)

\* A transition moves the status of its order alone, along validTransitions.
LEMMA MovesKeeps ==
    ASSUME SalesInv, NEW o \in Orders, NEW to, Moves(o, to)
    PROVE  /\ to \in validTransitions[status[o]] /\ status[o] \in Statuses /\ to \in Statuses
           /\ status' \in [Orders -> Statuses] /\ status'[o] = to
           /\ \A p \in Orders \ {o} : status'[p] = status[p]
           /\ shipments' = [p \in Orders |-> shipments'[p]] /\ \A p \in Orders : IsShipment(shipments'[p])
  <1>1. status \in [Orders -> Statuses]
    BY DEF SalesInv, RowsSound
  <1>2. to \in Statuses
    BY <1>1, Transitions DEF Moves
  <1> QED
    BY <1>1, <1>2 DEF Moves, SalesInv, RowsSound

\* New allocations are made for an order that has none active, and none of their tasks is done.
LEMMA AllocateKeeps ==
    ASSUME SalesInv, NEW o \in Orders, Allocate(o)
    PROVE  SalesInv'
  <1>1. Moves(o, "ALLOCATED")
    BY DEF Allocate
  <1>2. status[o] = "CONFIRMED" /\ status'[o] = "ALLOCATED"
    BY <1>1, MovesKeeps, Transitions
  <1>3. \A a \in IdsOf(o) : allocations[a].status \notin {"ACTIVE", "FULFILLED"}
    BY <1>2 DEF SalesInv, OrderSound, Reserving, Shipped
  <1>4. Active(o) = {}
    BY <1>3 DEF Active
  <1>5. PICK taken :
           allocations' = [a \in AllocationIds |->
               IF a \in IdsOf(o) /\ taken[a] > 0
               THEN [NoAllocation EXCEPT !.quantity = taken[a], !.status = "ACTIVE"]
               ELSE allocations[a]]
    BY <1>4 DEF Allocate
  <1>6. IsAllocation(NoAllocation) /\ NoAllocation.execution = "READY"
    <2>1. DOMAIN NoAllocation = AllocationFields /\ NoAllocation.execution = "READY"
      BY DEF NoAllocation, AllocationFields
    <2>2. NoAllocation = [field \in DOMAIN NoAllocation |-> NoAllocation[field]]
      BY DEF NoAllocation
    <2> HIDE DEF NoAllocation
    <2> QED
      BY <2>1, <2>2 DEF IsAllocation
  <1>7. ASSUME NEW q
        PROVE  LET new == [NoAllocation EXCEPT !.quantity = q, !.status = "ACTIVE"]
               IN  IsAllocation(new) /\ new.status = "ACTIVE" /\ new.execution = "READY"
    BY <1>6 DEF IsAllocation, AllocationFields
  <1>8. ASSUME NEW a \in AllocationIds
        PROVE  /\ IsAllocation(allocations'[a])
               /\ a \notin IdsOf(o) => allocations'[a] = allocations[a]
               /\ a \in IdsOf(o) => /\ allocations'[a].status # "FULFILLED"
                                    /\ allocations'[a].status = "ACTIVE" => allocations'[a].execution = "READY"
    BY <1>3, <1>5, <1>7 DEF SalesInv, RowsSound
  <1>9. RowsSound'
    BY <1>1, <1>5, <1>8, MovesKeeps DEF RowsSound
  <1>10. OrderSound(o)'
    <2>1. \A a \in Active(o)' : allocations'[a].execution = "READY"
      BY <1>8 DEF Active, IdsOf
    <2>2. \A a \in IdsOf(o) : allocations'[a].status # "FULFILLED"
      BY <1>8 DEF IdsOf
    <2> QED
      BY <1>2, <2>1, <2>2 DEF OrderSound, Reserving
  <1> QED
    BY <1>1, <1>8, <1>9, <1>10, MovesKeeps, OneOrder

\* All active allocations of an order get one status, and the order another.
LEMMA ActiveBecomeKeeps ==
    ASSUME SalesInv, NEW o \in Orders, NEW new \in {"RELEASED", "FULFILLED"}, ActiveBecome(o, new),
           status' \in [Orders -> Statuses], \A p \in Orders \ {o} : status'[p] = status[p],
           shipments' = [p \in Orders |-> shipments'[p]], \A p \in Orders : IsShipment(shipments'[p]),
           new = "FULFILLED" => status'[o] \in Shipped,
           new = "RELEASED" => status[o] \notin Shipped
    PROVE  SalesInv'
  <1>1. ASSUME NEW a \in AllocationIds
        PROVE  /\ IsAllocation(allocations'[a])
               /\ a \notin IdsOf(o) => allocations'[a] = allocations[a]
               /\ a \in IdsOf(o) => /\ allocations'[a].status # "ACTIVE"
                                    /\ allocations'[a].status = "FULFILLED" => status'[o] \in Shipped
    <2>1. IsAllocation(allocations[a])
      BY DEF SalesInv, RowsSound
    <2>2. CASE a \in Active(o)
      <3>1. allocations'[a] = [allocations[a] EXCEPT !.status = new] /\ a \in IdsOf(o)
        BY <2>2 DEF ActiveBecome, Active
      <3> QED
        BY <2>1, <3>1, StatusWritten
    <2>3. CASE a \notin Active(o)
      <3>1. allocations'[a] = allocations[a]
        BY <2>3 DEF ActiveBecome
      <3>2. a \in IdsOf(o) => allocations[a].status # "ACTIVE"
        BY <2>3 DEF Active
      <3>3. ASSUME a \in IdsOf(o), allocations[a].status = "FULFILLED"
            PROVE  status'[o] \in Shipped
        BY <3>3 DEF SalesInv, OrderSound
      <3> QED
        BY <2>1, <3>1, <3>2, <3>3
    <2> QED
      BY <2>2, <2>3
  <1>2. RowsSound'
    BY <1>1 DEF RowsSound, ActiveBecome
  <1>3. OrderSound(o)'
    <2>1. Active(o)' = {}
      BY <1>1 DEF Active, IdsOf
    <2> QED
      BY <1>1, <2>1 DEF OrderSound, IdsOf
  <1> QED
    BY <1>1, <1>2, <1>3, OneOrder

\* A cancelled order has no active allocation.
LEMMA CancelKeeps ==
    ASSUME SalesInv, NEW o \in Orders, Cancel(o)
    PROVE  SalesInv'
  <1>1. Moves(o, "CANCELLED") /\ ActiveBecome(o, "RELEASED")
    BY DEF Cancel
  <1>2. status[o] \notin Shipped
    BY <1>1, MovesKeeps, Transitions
  <1> QED
    BY <1>1, <1>2, MovesKeeps, ActiveBecomeKeeps

\* Neither has a shipped one.
LEMMA ShipKeeps ==
    ASSUME SalesInv, NEW o \in Orders, Ship(o)
    PROVE  SalesInv'
  <1>1. Moves(o, "SHIPPED") /\ ActiveBecome(o, "FULFILLED")
    BY DEF Ship, Relieves
  <1>2. status'[o] \in Shipped
    BY <1>1, MovesKeeps DEF Shipped
  <1> QED
    BY <1>1, <1>2, MovesKeeps, ActiveBecomeKeeps

\* Milestones keep an order in its group of statuses, and a packed order is at none.
LEMMA AdvanceKeeps ==
    ASSUME SalesInv, NEW o \in Orders, Advance(o)
    PROVE  SalesInv'
  <1>1. PICK to \in {"CONFIRMED", "PICKING", "PICKED", "PACKED", "DELIVERED", "CLOSED", "RETURNED"} : Moves(o, to)
    BY DEF Advance
  <1>2. allocations' = allocations
    BY DEF Advance
  <1>3. RowsSound'
    BY <1>1, <1>2, MovesKeeps DEF SalesInv, RowsSound
  <1>4. /\ status[o] # "PACKED" /\ status'[o] = to
        /\ status[o] \in Reserving => to \in Reserving
        /\ status[o] \in Shipped => to \in Shipped
    BY <1>1, MovesKeeps, Transitions
  <1>5. Active(o)' = Active(o)
    BY <1>2 DEF Active
  <1>6. OrderSound(o)'
    BY <1>2, <1>4, <1>5 DEF SalesInv, OrderSound
  <1> QED
    BY <1>1, <1>2, <1>3, <1>6, MovesKeeps, OneOrder

----------------------------------------------------------------------------
(* PickingService and PackingService.                                      *)

\* A task that goes on, and the status of its order: unchanged unless the task was packed last.
LEMMA TaskKeeps ==
    ASSUME SalesInv, NEW a \in AllocationIds, allocations[a].status = "ACTIVE", NEW row, IsAllocation(row),
           row.status = "ACTIVE", allocations' = [allocations EXCEPT ![a] = row], shipments' = shipments,
           \/ status' = status /\ row.execution # "PACKED"
           \/ /\ row.execution = "PACKED"
              /\ status' = IF \A other \in Active(OrderOf(a)) \ {a} : allocations[other].execution = "PACKED"
                           THEN [status EXCEPT ![OrderOf(a)] = "PACKED"] ELSE status
    PROVE  SalesInv'
  <1> DEFINE o == OrderOf(a)
  <1>1. o \in Orders /\ a \in IdsOf(o)
    BY OrderOfIs
  <1> HIDE DEF o
  <1>2. /\ allocations'[a] = row /\ \A b \in AllocationIds \ {a} : allocations'[b] = allocations[b]
        /\ allocations' = [b \in AllocationIds |-> allocations'[b]]
    BY DEF SalesInv, RowsSound
  <1>3. status \in [Orders -> Statuses] /\ "PACKED" \in Statuses
    BY DEF SalesInv, RowsSound, Statuses
  <1>4. /\ status' \in [Orders -> Statuses] /\ status'[o] \in {status[o], "PACKED"}
        /\ \A p \in Orders \ {o} : status'[p] = status[p]
    BY <1>1, <1>3 DEF o
  <1>5. RowsSound'
    BY <1>2, <1>4 DEF SalesInv, RowsSound
  <1>6. status[o] \in Reserving /\ status'[o] \in Reserving
    BY <1>1, <1>4 DEF SalesInv, OrderSound, Reserving
  <1>7. \A b \in IdsOf(o) : allocations[b].status # "FULFILLED"
    BY <1>1, <1>6 DEF SalesInv, OrderSound, Reserving, Shipped
  <1>8. Active(o)' = Active(o) /\ a \in Active(o)
    BY <1>1, <1>2 DEF Active, IdsOf
  <1>9. ASSUME \A b \in Active(o) : allocations'[b].execution = "PACKED"
        PROVE  status'[o] = "PACKED"
    <2>1. row.execution = "PACKED" /\ \A b \in Active(o) \ {a} : allocations[b].execution = "PACKED"
      BY <1>2, <1>8, <1>9 DEF Active, IdsOf
    <2> QED
      BY <1>1, <1>3, <2>1 DEF o
  <1>10. OrderSound(o)'
    <2>1. \A b \in IdsOf(o) : allocations'[b].status # "FULFILLED"
      BY <1>2, <1>7 DEF IdsOf
    <2> QED
      BY <1>6, <1>8, <1>9, <2>1 DEF OrderSound
  <1> QED
    BY <1>1, <1>2, <1>4, <1>5, <1>10, OneOrder

\* The pick and pack tasks move the status of an order to PACKED only, and only while its allocations are active.
LEMMA FulfilKeeps ==
    ASSUME SalesInv, NEW a \in AllocationIds, NEW u \in Operators, Fulfil(a, u)
    PROVE  SalesInv'
  <1>1. IsAllocation(allocations[a]) /\ allocations[a].status = "ACTIVE"
    BY DEF SalesInv, RowsSound, Fulfil, ClaimPick, ConfirmPick, ShortPick, ClaimPack, CompletePack, PackException,
           Mine, IsTask
  <1>2. ASSUME NEW execution, NEW row,
               \/ row = [allocations[a] EXCEPT !.execution = execution]
               \/ \E x : \/ row = [allocations[a] EXCEPT !.execution = execution, !.claimedBy = x]
                         \/ row = [allocations[a] EXCEPT !.execution = execution, !.picked = x]
                         \/ row = [allocations[a] EXCEPT !.execution = execution, !.packed = x]
        PROVE  IsAllocation(row) /\ row.status = "ACTIVE" /\ row.execution = execution
    BY <1>1, <1>2 DEF IsAllocation, AllocationFields
  <1>3. CASE CompletePack(a, u)
    <2>1. PICK row, q : /\ row = [allocations[a] EXCEPT !.execution = "PACKED", !.packed = q]
                        /\ OnlyTask(a, row)
      BY <1>3 DEF CompletePack
    <2>2. IsAllocation(row) /\ row.status = "ACTIVE" /\ row.execution = "PACKED"
      BY <1>2, <2>1
    <2> QED
      BY <1>1, <1>3, <2>1, <2>2, TaskKeeps DEF CompletePack, OnlyTask
  <1>4. CASE ~CompletePack(a, u)
    <2>1. ASSUME NEW row, IsAllocation(row), row.status = "ACTIVE", row.execution # "PACKED", OnlyTask(a, row),
                 status' = status
          PROVE  SalesInv'
      BY <1>1, <2>1, TaskKeeps DEF OnlyTask
    <2>2. CASE ClaimPick(a, u)
      <3> DEFINE row == [allocations[a] EXCEPT !.execution = "CLAIMED", !.claimedBy = u]
      <3>1. OnlyTask(a, row) /\ status' = status
        BY <2>2 DEF ClaimPick
      <3>2. IsAllocation(row) /\ row.status = "ACTIVE" /\ row.execution = "CLAIMED"
        BY <1>2
      <3> HIDE DEF row
      <3> QED
        BY <2>1, <3>1, <3>2
    <2>3. CASE ConfirmPick(a, u)
      <3>1. PICK row, q : /\ row = [allocations[a] EXCEPT !.execution = "PICKED", !.picked = q]
                          /\ OnlyTask(a, row) /\ status' = status
        BY <2>3 DEF ConfirmPick
      <3>2. IsAllocation(row) /\ row.status = "ACTIVE" /\ row.execution = "PICKED"
        BY <1>2, <3>1
      <3> QED
        BY <2>1, <3>1, <3>2
    <2>4. CASE ShortPick(a, u)
      <3> DEFINE row == [allocations[a] EXCEPT !.execution = "SHORTED"]
      <3>1. OnlyTask(a, row) /\ status' = status
        BY <2>4 DEF ShortPick
      <3>2. IsAllocation(row) /\ row.status = "ACTIVE" /\ row.execution = "SHORTED"
        BY <1>2
      <3> HIDE DEF row
      <3> QED
        BY <2>1, <3>1, <3>2
    <2>5. CASE ClaimPack(a, u)
      <3> DEFINE row == [allocations[a] EXCEPT !.execution = "PACKING_CLAIMED", !.claimedBy = u]
      <3>1. OnlyTask(a, row) /\ status' = status
        BY <2>5 DEF ClaimPack
      <3>2. IsAllocation(row) /\ row.status = "ACTIVE" /\ row.execution = "PACKING_CLAIMED"
        BY <1>2
      <3> HIDE DEF row
      <3> QED
        BY <2>1, <3>1, <3>2
    <2>6. CASE PackException(a, u)
      <3> DEFINE row == [allocations[a] EXCEPT !.execution = "EXCEPTION"]
      <3>1. OnlyTask(a, row) /\ status' = status
        BY <2>6 DEF PackException
      <3>2. IsAllocation(row) /\ row.status = "ACTIVE" /\ row.execution = "EXCEPTION"
        BY <1>2
      <3> HIDE DEF row
      <3> QED
        BY <2>1, <3>1, <3>2
    <2> QED
      BY <1>4, <2>2, <2>3, <2>4, <2>5, <2>6 DEF Fulfil
  <1> QED
    BY <1>3, <1>4

----------------------------------------------------------------------------
(* ShipmentService.                                                        *)

\* Posting a shipment fulfils the active allocations of the order and ships it.
LEMMA PostShipmentKeeps ==
    ASSUME SalesInv, NEW o \in Orders, NEW key \in Tokens, PostShipment(o, key)
    PROVE  SalesInv'
  <1>1. /\ status' = [status EXCEPT ![o] = "SHIPPED"] /\ ActiveBecome(o, "FULFILLED")
        /\ shipments' = [shipments EXCEPT ![o] = [status |-> "POSTED", key |-> key]]
    BY DEF PostShipment, Relieves
  <1>2. /\ status' \in [Orders -> Statuses] /\ status'[o] = "SHIPPED"
        /\ \A p \in Orders \ {o} : status'[p] = status[p]
    BY <1>1 DEF SalesInv, RowsSound, Statuses
  <1>3. IsShipment([status |-> "POSTED", key |-> key])
    BY DEF IsShipment
  <1>4. shipments' = [p \in Orders |-> shipments'[p]] /\ \A p \in Orders : IsShipment(shipments'[p])
    BY <1>1, <1>3 DEF SalesInv, RowsSound
  <1> QED
    BY <1>1, <1>2, <1>4, ActiveBecomeKeeps DEF Shipped

\* Whatever the status was, the order is packed and what was fulfilled is active again.
LEMMA VoidShipmentKeeps ==
    ASSUME SalesInv, NEW o \in Orders, NEW key \in Tokens, VoidShipment(o, key)
    PROVE  /\ SalesInv'
           /\ shipments'[o].status = "VOIDED" /\ \A p \in Orders \ {o} : status'[p] = status[p]
  <1>1. /\ status' \in [Orders -> Statuses] /\ status'[o] = "PACKED"
        /\ \A p \in Orders \ {o} : status'[p] = status[p]
    BY DEF SalesInv, RowsSound, Statuses, VoidShipment
  <1>2. IsShipment([shipments[o] EXCEPT !.status = "VOIDED"]) /\ [shipments[o] EXCEPT !.status = "VOIDED"].status = "VOIDED"
    BY DEF SalesInv, RowsSound, IsShipment
  <1>3. shipments' = [shipments EXCEPT ![o] = [shipments[o] EXCEPT !.status = "VOIDED"]]
    BY DEF VoidShipment
  <1>4. /\ shipments' = [p \in Orders |-> shipments'[p]] /\ \A p \in Orders : IsShipment(shipments'[p])
        /\ shipments'[o].status = "VOIDED"
    BY <1>2, <1>3 DEF SalesInv, RowsSound
  <1>5. ASSUME NEW a \in AllocationIds
        PROVE  /\ IsAllocation(allocations'[a])
               /\ a \notin IdsOf(o) => allocations'[a] = allocations[a]
               /\ a \in IdsOf(o) => allocations'[a].status # "FULFILLED"
    <2>1. IsAllocation(allocations[a])
      BY DEF SalesInv, RowsSound
    <2>2. IsAllocation([allocations[a] EXCEPT !.status = "ACTIVE"]) /\ [allocations[a] EXCEPT !.status = "ACTIVE"].status = "ACTIVE"
      BY <2>1, StatusWritten
    <2>3. allocations'[a] = IF a \in IdsOf(o) /\ allocations[a].status = "FULFILLED"
                            THEN [allocations[a] EXCEPT !.status = "ACTIVE"] ELSE allocations[a]
      BY DEF VoidShipment
    <2> QED
      BY <2>1, <2>2, <2>3
  <1>6. allocations' = [a \in AllocationIds |-> allocations'[a]]
    BY DEF VoidShipment
  <1>7. RowsSound'
    BY <1>1, <1>4, <1>5, <1>6 DEF RowsSound
  <1>8. OrderSound(o)'
    BY <1>1, <1>5 DEF OrderSound, IdsOf, Reserving
  <1> QED
    BY <1>1, <1>4, <1>5, <1>7, <1>8, OneOrder

----------------------------------------------------------------------------

\* At first nothing is allocated.
LEMMA InitSound == Init => SalesInv
  <1> SUFFICES ASSUME Init
               PROVE  SalesInv
    OBVIOUS
  <1>1. NoAllocation.status = "NONE" /\ DOMAIN NoAllocation = AllocationFields
        /\ NoAllocation = [field \in DOMAIN NoAllocation |-> NoAllocation[field]]
    BY DEF NoAllocation, AllocationFields
  <1>2. IsShipment(NoShipment)
    BY DEF IsShipment, NoShipment
  <1> HIDE DEF NoAllocation, NoShipment
  <1>3. RowsSound
    BY <1>1, <1>2 DEF Init, RowsSound, IsAllocation, Statuses
  <1>4. \A a \in AllocationIds : allocations[a].status = "NONE"
    BY <1>1 DEF Init
  <1>5. \A o \in Orders : OrderSound(o)
    BY <1>4 DEF OrderSound, Active, IdsOf
  <1> QED
    BY <1>3, <1>5 DEF SalesInv

\* What touches no row of the order keeps its invariant.
LEMMA Untouched ==
    ASSUME SalesInv, UNCHANGED <<status, allocations, shipments>>
    PROVE  SalesInv'
  BY DEF SalesInv, RowsSound, OrderSound, Active

\* Every step keeps the invariant of statuses.
LEMMA NextSound == SalesInv /\ [Next]_vars => SalesInv'
  <1> SUFFICES ASSUME SalesInv, [Next]_vars
               PROVE  SalesInv'
    OBVIOUS
  <1>1. ASSUME NEW o \in Orders, UpdateStatus(o)
        PROVE  SalesInv'
    BY <1>1, AllocateKeeps, CancelKeeps, ShipKeeps, AdvanceKeeps DEF UpdateStatus
  <1>2. ASSUME NEW a \in AllocationIds, NEW u \in Operators, Fulfil(a, u)
        PROVE  SalesInv'
    BY <1>2, FulfilKeeps
  <1>3. ASSUME NEW o \in Orders, NEW key \in Tokens, PostShipment(o, key) \/ VoidShipment(o, key)
        PROVE  SalesInv'
    BY <1>3, PostShipmentKeeps, VoidShipmentKeeps
  <1>4. CASE \E c \in Corrections : Correct(c)
    BY <1>4, Untouched DEF Correct
  <1>5. CASE UNCHANGED vars
    BY <1>5, Untouched DEF vars
  <1> QED
    BY <1>1, <1>2, <1>3, <1>4, <1>5 DEF Next

\* No step but a milestone or a void takes an order out of the statuses behind shipping or cancellation.
LEMMA EndedStays ==
    ASSUME SalesInv, [Next]_vars, NEW o \in Orders, status[o] \in Shipped \cup {"CANCELLED"}
    PROVE  \/ status'[o] = status[o]
           \/ status'[o] \in validTransitions[status[o]]
           \/ shipments[o].status = "POSTED" /\ shipments'[o].status = "VOIDED"
  <1>1. ASSUME NEW p \in Orders, UpdateStatus(p)
        PROVE  status'[o] = status[o] \/ status'[o] \in validTransitions[status[o]]
    <2>1. PICK to : Moves(p, to)
      BY <1>1 DEF UpdateStatus, Allocate, Cancel, Ship, Advance
    <2> QED
      BY <2>1, MovesKeeps
  <1>2. ASSUME NEW a \in AllocationIds, NEW u \in Operators, Fulfil(a, u)
        PROVE  status'[o] = status[o]
    <2>1. CASE CompletePack(a, u)
      <3>1. OrderOf(a) \in Orders /\ status[OrderOf(a)] \in Reserving
        BY <2>1, OrderOfIs DEF CompletePack, Mine, IsTask, SalesInv, OrderSound
      <3>2. OrderOf(a) # o
        BY <3>1 DEF Reserving, Shipped
      <3> QED
        BY <2>1, <3>2 DEF CompletePack, SalesInv, RowsSound
    <2>2. CASE ~CompletePack(a, u)
      BY <1>2, <2>2 DEF Fulfil, ClaimPick, ConfirmPick, ShortPick, ClaimPack, PackException
    <2> QED
      BY <2>1, <2>2
  <1>3. ASSUME NEW p \in Orders, NEW key \in Tokens, PostShipment(p, key)
        PROVE  status'[o] = status[o]
    BY <1>3 DEF PostShipment, SalesInv, RowsSound, Shipped
  <1>4. ASSUME NEW p \in Orders, NEW key \in Tokens, VoidShipment(p, key)
        PROVE  status'[o] = status[o] \/ (shipments[o].status = "POSTED" /\ shipments'[o].status = "VOIDED")
    <2>1. shipments[p].status = "POSTED"
      BY <1>4 DEF VoidShipment
    <2>2. \A q \in Orders \ {p} : status'[q] = status[q]
      BY <1>4 DEF VoidShipment, SalesInv, RowsSound
    <2>3. shipments'[p].status = "VOIDED"
      BY <1>4 DEF VoidShipment, SalesInv, RowsSound, IsShipment
    <2>4. CASE o = p
      BY <2>1, <2>3, <2>4
    <2>5. CASE o # p
      BY <2>2, <2>5
    <2> QED
      BY <2>4, <2>5
  <1>5. CASE UNCHANGED status
    BY <1>5
  <1> QED
    BY <1>1, <1>2, <1>3, <1>4, <1>5 DEF Next, Correct, vars

----------------------------------------------------------------------------
(* The rows of stock, the movements and the statuses: definitions.         *)

\* What a fold of postings, of the candidates of an item and of the items of an order computes.
Fold  == INSTANCE FoldTheorems WITH Op <- OneMore
Takes == INSTANCE FoldTheorems WITH Op <- TakeFrom
Order == INSTANCE FoldTheorems WITH Op <- TakeItem

Open == {"DRAFT", "CONFIRMED"}

----------------------------------------------------------------------------
(* The rows of stock say what was posted.                                  *)

DeltasOf(made, field) == [p \in made |-> p.delta[field]]

PostedAt(made, b) == {p \in made : p.balance = b}

Total(made, b, field) == SumFunctionOnSet(DeltasOf(made, field), PostedAt(made, b))

Formed(p) == p.balance \in Balances /\ p.delta \in Deltas

LedgerKept(inv) ==
    /\ inv.stock \in [Balances -> Quantities]
    /\ IsFiniteSet(inv.posted) /\ \A p \in inv.posted : Formed(p)
    /\ \A b \in Balances : /\ inv.stock[b].allocated = Total(inv.posted, b, "allocated")
                           /\ inv.stock[b].onHand = Stocked[b] + Total(inv.posted, b, "onHand")

----------------------------------------------------------------------------
(* What was posted follows the status of the order and of its allocations. *)

Voided(o) == shipments[o].status = "VOIDED"

ReservedBy(a) == AllocatePosting(a, allocations[a].quantity)

VoidOf(a, key) == VoidPosting(ShipPosting(a), key)

\* The postings that may be made of an allocation.
PostingsOf(a) == {ReservedBy(a), DeallocatePosting(a), ShipPosting(a)} \cup {VoidOf(a, key) : key \in Tokens}

Made(kind, a) == Taken(posted, Key(kind, a, 0))

\* The keys under which the shipment of the allocation was voided.
VoidsOf(a) == {key \in Tokens : Made("SHIPMENT_VOID", <<key, a>>)}

ShippedAndVoided(a) == allocations[a].status # "NONE" /\ Voided(OrderOf(a))

Booked(a) ==
    /\ Made("ALLOCATE", a) <=> allocations[a].status # "NONE"
    /\ Made("DEALLOCATE", a) <=> allocations[a].status = "RELEASED"
    /\ Made("SHIP", a) <=> allocations[a].status = "FULFILLED" \/ ShippedAndVoided(a)
    /\ ShippedAndVoided(a) => \E key \in Tokens : VoidsOf(a) = {key}
    /\ ~ShippedAndVoided(a) => VoidsOf(a) = {}

PostingsKnown ==
    \A p \in posted : \/ \E c \in Corrections : p = AdjustPosting(c)
                      \/ \E a \in AllocationIds : p \in PostingsOf(a)

ItemQuantity(i) == SumFunctionOnSet([a \in AllocationIds |-> allocations[a].quantity], IdsOfItem(i))

AllocationStatusIn(s) ==
    IF s \in Open THEN {"NONE"} ELSE IF s \in Reserving THEN {"NONE", "ACTIVE"}
    ELSE IF s \in Shipped THEN {"NONE", "FULFILLED"} ELSE {"NONE", "RELEASED"}

Progress(o) ==
    /\ \A a \in IdsOf(o) : allocations[a].status \in AllocationStatusIn(status[o])
    /\ shipments[o].status \in {"NONE", "POSTED", "VOIDED"}
    /\ shipments[o].status = "POSTED" => status[o] \in Shipped
    /\ status[o] \in Open => shipments[o].status = "NONE"
    /\ status[o] \in Reserving \cup Shipped => \A i \in ToSet(ItemsOf[o]) : ItemQuantity(i) = Ordered[i]

QuantitiesKept ==
    \A a \in AllocationIds : /\ allocations[a].quantity \in Nat
                             /\ allocations[a].status = "NONE" => allocations[a].quantity = 0

StockInv ==
    /\ LedgerKept(Inventory)
    /\ PostingsKnown
    /\ \A a \in AllocationIds : Booked(a)
    /\ QuantitiesKept
    /\ \A o \in Orders : Progress(o)

----------------------------------------------------------------------------
(* Types and finite sets.                                                  *)

\* A posting adds its deltas, field by field.
LEMMA AfterFields ==
    ASSUME NEW q \in Quantities, NEW d \in Deltas
    PROVE  /\ After(q, d) \in Quantities
           /\ After(q, d).allocated = q.allocated + d.allocated
           /\ After(q, d).onHand = q.onHand + d.onHand
  BY DEF After, Quantities, Deltas

\* The fields of the deltas the services post.
LEMMA DeltaFields ==
    /\ \A n \in Int : /\ Reserve(n) \in Deltas /\ Reserve(n).allocated = n /\ Reserve(n).onHand = 0
                      /\ Relieve(n) \in Deltas /\ Relieve(n).allocated = -n /\ Relieve(n).onHand = -n
                      /\ OnHand(n) \in Deltas /\ OnHand(n).allocated = 0 /\ OnHand(n).onHand = n
    /\ \A d \in Deltas : Negated(d) \in Deltas /\ Negated(d).allocated = -d.allocated /\ Negated(d).onHand = -d.onHand
  BY DEF Reserve, Relieve, OnHand, Negated, Deltas

\* The images of finitely many arguments are finitely many.
LEMMA ImageIsFinite ==
    ASSUME NEW S, IsFiniteSet(S), NEW f
    PROVE  IsFiniteSet({f[x] : x \in S})
  <1> DEFINE T == {f[x] : x \in S}
             g == [x \in S |-> f[x]]
  <1>1. g \in Surjection(S, T)
    BY DEF Surjection
  <1> QED
    BY <1>1, FS_Surjection

\* An order has finitely many items and allocations.
LEMMA AllocationIdsFinite ==
    IsFiniteSet(Items) /\ IsFiniteSet(AllocationIds) /\ \A o \in Orders : IsFiniteSet(IdsOf(o))
  <1>1. ASSUME NEW S, NEW seq \in Seq(S)
        PROVE  IsFiniteSet(ToSet(seq))
    <2>1. 1 \in Int /\ Len(seq) \in Int /\ DOMAIN seq = 1..Len(seq)
      OBVIOUS
    <2>2. IsFiniteSet(DOMAIN seq)
      BY <2>1, FS_Interval
    <2>3. IsFiniteSet({seq[n] : n \in DOMAIN seq})
      BY <2>2, ImageIsFinite
    <2> QED
      BY <2>3 DEF ToSet
  <1>2. IsFiniteSet(Items)
    <2>1. IsFiniteSet(Orders) /\ \A o \in Orders : IsFiniteSet(ToSet(ItemsOf[o]))
      BY <1>1, ItemsAssumption
    <2> DEFINE f == [o \in Orders |-> ToSet(ItemsOf[o])]
    <2>2. IsFiniteSet({f[o] : o \in Orders})
      BY <2>1, ImageIsFinite
    <2>3. {f[o] : o \in Orders} = {ToSet(ItemsOf[o]) : o \in Orders}
      OBVIOUS
    <2>4. IsFiniteSet({ToSet(ItemsOf[o]) : o \in Orders})
      BY <2>2, <2>3
    <2> QED
      BY <2>1, <2>4, FS_UNION DEF Items
  <1>3. IsFiniteSet({ToSet(Candidates[i]) : i \in Items})
    <2> DEFINE f == [i \in Items |-> ToSet(Candidates[i])]
    <2>1. IsFiniteSet({f[i] : i \in Items})
      BY <1>2, ImageIsFinite
    <2>2. {f[i] : i \in Items} = {ToSet(Candidates[i]) : i \in Items}
      OBVIOUS
    <2> QED
      BY <2>1, <2>2
  <1>4. IsFiniteSet(UNION {ToSet(Candidates[i]) : i \in Items})
    BY <1>1, <1>3, QuantitiesAssumption, FS_UNION
  <1>5. IsFiniteSet(Items \X UNION {ToSet(Candidates[i]) : i \in Items})
    BY <1>2, <1>4, FS_Product
  <1>6. AllocationIds \subseteq Items \X UNION {ToSet(Candidates[i]) : i \in Items}
    BY DEF AllocationIds
  <1> QED
    BY <1>2, <1>5, <1>6, FS_Subset DEF IdsOf

----------------------------------------------------------------------------
(* Posting keeps the rows equal to the totals of the movements.            *)

\* One more posting adds its own to the totals of its balance.
LEMMA TotalWithOneMore ==
    ASSUME NEW made, IsFiniteSet(made), \A r \in made : Formed(r), NEW p, Formed(p), p \notin made,
           NEW b \in Balances, NEW field \in {"allocated", "onHand"}
    PROVE  /\ Total(made, b, field) \in Int
           /\ Total(made \cup {p}, b, field) = Total(made, b, field) + (IF p.balance = b THEN p.delta[field] ELSE 0)
  <1> DEFINE S == PostedAt(made, b)
             f == DeltasOf(made, field)
             g == DeltasOf(made \cup {p}, field)
             R == PostedAt(made \cup {p}, b)
  <1>1. IsFiniteSet(S) /\ S \subseteq made
    BY FS_Subset DEF PostedAt
  <1>2. \A r \in made : f[r] = r.delta[field] /\ g[r] = r.delta[field] /\ r.delta[field] \in Int
    BY DEF DeltasOf, Formed, Deltas
  <1>3. g[p] = p.delta[field] /\ p.delta[field] \in Int
    BY DEF DeltasOf, Formed, Deltas
  <1>4. R = (IF p.balance = b THEN S \cup {p} ELSE S) /\ p \notin S
    BY DEF PostedAt
  <1>5. IntegersOn(f, S) /\ IntegersOn(g, S) /\ \A r \in S : g[r] = f[r]
    BY <1>1, <1>2 DEF IntegersOn
  <1>6. Total(made, b, field) = SumFunctionOnSet(f, S) /\ Total(made \cup {p}, b, field) = SumFunctionOnSet(g, R)
    BY DEF Total
  <1> HIDE DEF S, f, g, R
  <1>7. SumFunctionOnSet(g, S) = SumFunctionOnSet(f, S) /\ SumFunctionOnSet(f, S) \in Int
    BY <1>1, <1>5, SumsAgree, SumIsInteger
  <1>8. CASE p.balance = b
    <2>1. SumFunctionOnSet(g, S \cup {p}) = SumFunctionOnSet(g, S) + g[p]
      BY <1>1, <1>3, <1>4, <1>5, SumWithOneMore
    <2> QED
      BY <1>3, <1>4, <1>6, <1>7, <1>8, <2>1
  <1>9. CASE p.balance # b
    <2>1. SumFunctionOnSet(g, R) = SumFunctionOnSet(f, S)
      BY <1>4, <1>7, <1>9
    <2>2. SumFunctionOnSet(f, S) + 0 = SumFunctionOnSet(f, S)
      BY <1>7
    <2> QED
      BY <1>6, <1>7, <1>9, <2>1, <2>2
  <1> QED
    BY <1>8, <1>9

\* A posting under a taken key changes nothing; one under a free key moves its row and is in the ledger.
LEMMA OneMoreIs ==
    ASSUME NEW inv, NEW p
    PROVE  /\ Taken(inv.posted, p.key) =>
                /\ OneMore(inv, p).posted = inv.posted /\ OneMore(inv, p).stock = inv.stock
           /\ ~Taken(inv.posted, p.key) =>
                /\ OneMore(inv, p).posted = inv.posted \cup {p}
                /\ OneMore(inv, p).stock = [inv.stock EXCEPT ![p.balance] = After(inv.stock[p.balance], p.delta)]
                /\ OneMore(inv, p).ok => inv.ok
                /\ p \notin inv.posted
  <1>1. CASE Taken(inv.posted, p.key)
    <2>1. OneMore(inv, p) = [inv EXCEPT !.ok = @ /\ p.quantity > 0]
      BY <1>1 DEF OneMore
    <2> QED
      BY <1>1, <2>1
  <1>2. CASE ~Taken(inv.posted, p.key)
    <2>1. p \notin inv.posted
      BY <1>2 DEF Taken
    <2> QED
      BY <1>2, <2>1 DEF OneMore
  <1> QED
    BY <1>1, <1>2

\* Either way the rows stay the totals of the ledger.
LEMMA OneMoreKeepsLedger ==
    ASSUME NEW inv, LedgerKept(inv), NEW p, Formed(p)
    PROVE  LedgerKept(OneMore(inv, p))
  <1> DEFINE new == OneMore(inv, p)
  <1>1. CASE Taken(inv.posted, p.key)
    <2>1. new.posted = inv.posted /\ new.stock = inv.stock
      BY <1>1, OneMoreIs
    <2> HIDE DEF new
    <2>2. LedgerKept(new)
      BY <2>1 DEF LedgerKept
    <2> QED
      BY <2>2 DEF new
  <1>2. CASE ~Taken(inv.posted, p.key)
    <2>1. /\ new.posted = inv.posted \cup {p} /\ p \notin inv.posted
          /\ new.stock = [inv.stock EXCEPT ![p.balance] = After(inv.stock[p.balance], p.delta)]
      BY <1>2, OneMoreIs
    <2> HIDE DEF new
    <2>2. /\ inv.stock \in [Balances -> Quantities]
          /\ IsFiniteSet(inv.posted) /\ \A r \in inv.posted : Formed(r)
      BY DEF LedgerKept
    <2>3. p.balance \in Balances /\ p.delta \in Deltas
      BY DEF Formed
    <2>4. /\ After(inv.stock[p.balance], p.delta) \in Quantities
          /\ After(inv.stock[p.balance], p.delta).allocated = inv.stock[p.balance].allocated + p.delta.allocated
          /\ After(inv.stock[p.balance], p.delta).onHand = inv.stock[p.balance].onHand + p.delta.onHand
      BY <2>2, <2>3, AfterFields
    <2>5. new.stock \in [Balances -> Quantities]
      BY <2>1, <2>2, <2>4
    <2>6. IsFiniteSet(new.posted) /\ \A r \in new.posted : Formed(r)
      BY <2>1, <2>2, FS_AddElement
    <2>7. ASSUME NEW b \in Balances
          PROVE  /\ new.stock[b].allocated = Total(new.posted, b, "allocated")
                 /\ new.stock[b].onHand = Stocked[b] + Total(new.posted, b, "onHand")
      <3>1. inv.stock[b].allocated = Total(inv.posted, b, "allocated")
            /\ inv.stock[b].onHand = Stocked[b] + Total(inv.posted, b, "onHand")
        BY DEF LedgerKept
      <3>2. /\ Total(inv.posted, b, "allocated") \in Int
            /\ Total(new.posted, b, "allocated") =
                 Total(inv.posted, b, "allocated") + (IF p.balance = b THEN p.delta.allocated ELSE 0)
        <4>1. /\ Total(inv.posted, b, "allocated") \in Int
              /\ Total(inv.posted \cup {p}, b, "allocated") =
                   Total(inv.posted, b, "allocated") + (IF p.balance = b THEN p.delta["allocated"] ELSE 0)
          BY <2>1, <2>2, TotalWithOneMore
        <4> QED
          BY <2>1, <4>1
      <3>3. /\ Total(inv.posted, b, "onHand") \in Int
            /\ Total(new.posted, b, "onHand") =
                 Total(inv.posted, b, "onHand") + (IF p.balance = b THEN p.delta.onHand ELSE 0)
        <4>1. /\ Total(inv.posted, b, "onHand") \in Int
              /\ Total(inv.posted \cup {p}, b, "onHand") =
                   Total(inv.posted, b, "onHand") + (IF p.balance = b THEN p.delta["onHand"] ELSE 0)
          BY <2>1, <2>2, TotalWithOneMore
        <4> QED
          BY <2>1, <4>1
      <3>4. Stocked[b] \in Int /\ p.delta.allocated \in Int /\ p.delta.onHand \in Int
        BY <2>3, QuantitiesAssumption DEF Deltas
      <3>5. CASE p.balance = b
        <4>1. new.stock[b].allocated = inv.stock[b].allocated + p.delta.allocated
              /\ new.stock[b].onHand = inv.stock[b].onHand + p.delta.onHand
          BY <2>1, <2>2, <2>4, <3>5
        <4> QED
          BY <3>1, <3>2, <3>3, <3>4, <3>5, <4>1
      <3>6. CASE p.balance # b
        <4>1. new.stock[b] = inv.stock[b]
          BY <2>1, <2>2, <3>6
        <4> QED
          BY <3>1, <3>2, <3>3, <3>4, <3>6, <4>1
      <3> QED
        BY <3>5, <3>6
    <2>8. LedgerKept(new)
      BY <2>5, <2>6, <2>7 DEF LedgerKept
    <2> QED
      BY <2>8 DEF new
  <1> QED
    BY <1>1, <1>2

\* PostAll is the fold FoldTheorems speaks of.
LEMMA PostAllIsFold == \A inv, postings : PostAll(inv, postings) = Fold!Folded(inv, postings)
  BY DEF PostAll, FoldLeft, MapThenFoldSet, Max, Fold!Folded, Fold!FoldLeft, Fold!MapThenFoldSet, Fold!Max

\* Postings whose keys are all free are all made.
LEMMA PostsSet ==
    ASSUME NEW inv, LedgerKept(inv), NEW S, IsFiniteSet(S), \A p \in S : Formed(p) /\ ~Taken(inv.posted, p.key),
           \A p, r \in S : p.key = r.key => p = r
    PROVE  /\ PostAll(inv, SetToSeq(S)).posted = inv.posted \cup S
           /\ LedgerKept(PostAll(inv, SetToSeq(S)))
  <1> DEFINE seq == SetToSeq(S)
             First(n) == {seq[m] : m \in 1..n}
  <1>1. /\ seq \in Seq(S) /\ Len(seq) \in Nat
        /\ \A x \in S : \E n \in 1..Len(seq) : seq[n] = x
        /\ \A m, n \in 1..Len(seq) : seq[m] = seq[n] => m = n
        /\ \A n \in 1..Len(seq) : seq[n] \in S
    BY SetToSeqIs
  <1> HIDE DEF seq
  <1>2. PICK f : Fold!Steps(f, inv, seq)
    BY <1>1, Fold!FoldLeftSteps
  <1>3. PostAll(inv, seq) = f[Len(seq)]
    BY <1>1, <1>2, PostAllIsFold, Fold!FoldLeftIs
  <1> DEFINE T == {n \in Nat : n <= Len(seq) => LedgerKept(f[n]) /\ f[n].posted = inv.posted \cup First(n)}
  <1>4. 0 \in T
    <2>1. First(0) = {}
      OBVIOUS
    <2>2. f[0] = inv
      BY <1>2 DEF Fold!Steps
    <2> QED
      BY <2>1, <2>2
  <1>5. ASSUME NEW n \in Nat, n \in T
        PROVE  n + 1 \in T
    <2> SUFFICES ASSUME n + 1 <= Len(seq)
                 PROVE  LedgerKept(f[n + 1]) /\ f[n + 1].posted = inv.posted \cup First(n + 1)
      OBVIOUS
    <2>1. n <= Len(seq) /\ n + 1 \in 1..Len(seq) /\ (n + 1) - 1 = n
      BY <1>1
    <2>2. f[n + 1] = OneMore(f[n], seq[n + 1])
      <3>1. f[n + 1] = OneMore(f[(n + 1) - 1], seq[n + 1])
        BY <1>2, <2>1 DEF Fold!Steps
      <3> QED
        BY <2>1, <3>1
    <2>3. LedgerKept(f[n]) /\ f[n].posted = inv.posted \cup First(n)
      BY <1>5, <2>1
    <2>4. seq[n + 1] \in S /\ Formed(seq[n + 1])
      BY <1>1, <2>1
    <2>5. ~Taken(f[n].posted, seq[n + 1].key)
      <3> SUFFICES ASSUME NEW p \in f[n].posted, p.key = seq[n + 1].key PROVE FALSE
        BY DEF Taken
      <3>1. CASE p \in inv.posted
        BY <2>4, <3>1 DEF Taken
      <3>2. CASE p \in First(n)
        <4>1. PICK m \in 1..n : p = seq[m]
          BY <3>2
        <4>2. m \in 1..Len(seq) /\ m # n + 1
          BY <1>1, <2>1, <4>1
        <4>3. seq[m] = seq[n + 1]
          BY <1>1, <2>4, <4>1, <4>2
        <4> QED
          BY <1>1, <2>1, <4>2, <4>3
      <3> QED
        BY <2>3, <3>1, <3>2
    <2>6. f[n + 1].posted = f[n].posted \cup {seq[n + 1]}
      <3>1. OneMore(f[n], seq[n + 1]).posted = f[n].posted \cup {seq[n + 1]}
        <4>1. \A s, p : ~Taken(s.posted, p.key) => OneMore(s, p).posted = s.posted \cup {p}
          BY OneMoreIs
        <4> QED
          BY <2>5, <4>1
      <3> QED
        BY <2>2, <3>1
    <2>7. LedgerKept(f[n + 1])
      BY <2>2, <2>3, <2>4, OneMoreKeepsLedger
    <2>8. First(n + 1) = First(n) \cup {seq[n + 1]}
      <3>1. \A m : m \in 1..(n + 1) <=> m \in 1..n \/ m = n + 1
        OBVIOUS
      <3> QED
        BY <3>1
    <2> QED
      BY <2>3, <2>6, <2>7, <2>8
  <1> HIDE DEF T
  <1>6. Len(seq) \in T
    BY <1>1, <1>4, <1>5, NaturalInduction
  <1>7. Len(seq) <= Len(seq)
    BY <1>1
  <1>8. First(Len(seq)) = S
    BY <1>1
  <1>9. LedgerKept(f[Len(seq)]) /\ f[Len(seq)].posted = inv.posted \cup First(Len(seq))
    BY <1>6, <1>7 DEF T
  <1> QED
    BY <1>3, <1>8, <1>9 DEF seq

\* Postings whose keys are all taken change nothing.
LEMMA RepeatsSet ==
    ASSUME NEW inv, NEW S, IsFiniteSet(S), \A p \in S : Taken(inv.posted, p.key)
    PROVE  /\ PostAll(inv, SetToSeq(S)).posted = inv.posted
           /\ PostAll(inv, SetToSeq(S)).stock = inv.stock
  <1> DEFINE seq == SetToSeq(S)
  <1>1. seq \in Seq(S) /\ Len(seq) \in Nat /\ \A n \in 1..Len(seq) : seq[n] \in S
    BY SetToSeqIs
  <1> HIDE DEF seq
  <1>2. PICK f : Fold!Steps(f, inv, seq)
    BY <1>1, Fold!FoldLeftSteps
  <1>3. PostAll(inv, seq) = f[Len(seq)]
    BY <1>1, <1>2, PostAllIsFold, Fold!FoldLeftIs
  <1> DEFINE T == {n \in Nat : n <= Len(seq) => f[n].posted = inv.posted /\ f[n].stock = inv.stock}
  <1>4. 0 \in T
    BY <1>2 DEF Fold!Steps
  <1>5. ASSUME NEW n \in Nat, n \in T
        PROVE  n + 1 \in T
    <2> SUFFICES ASSUME n + 1 <= Len(seq)
                 PROVE  f[n + 1].posted = inv.posted /\ f[n + 1].stock = inv.stock
      OBVIOUS
    <2>1. n <= Len(seq) /\ n + 1 \in 1..Len(seq) /\ (n + 1) - 1 = n
      BY <1>1
    <2>2. f[n + 1] = OneMore(f[n], seq[n + 1])
      <3>1. f[n + 1] = OneMore(f[(n + 1) - 1], seq[n + 1])
        BY <1>2, <2>1 DEF Fold!Steps
      <3> QED
        BY <2>1, <3>1
    <2>3. f[n].posted = inv.posted /\ f[n].stock = inv.stock
      BY <1>5, <2>1
    <2>4. Taken(f[n].posted, seq[n + 1].key)
      BY <1>1, <2>1, <2>3
    <2>5. /\ OneMore(f[n], seq[n + 1]).posted = f[n].posted
          /\ OneMore(f[n], seq[n + 1]).stock = f[n].stock
      BY <2>4, OneMoreIs
    <2> QED
      BY <2>2, <2>3, <2>5
  <1> HIDE DEF T
  <1>6. Len(seq) \in T
    BY <1>1, <1>4, <1>5, NaturalInduction
  <1>7. Len(seq) <= Len(seq)
    BY <1>1
  <1>8. f[Len(seq)].posted = inv.posted /\ f[Len(seq)].stock = inv.stock
    BY <1>6, <1>7 DEF T
  <1> QED
    BY <1>3, <1>8 DEF seq

----------------------------------------------------------------------------
(* What an order takes.                                                    *)

Amount(taken, i) == SumFunctionOnSet(taken, IdsOfItem(i))

\* The postings of what was taken.
ReservationsOf(taken) == {AllocatePosting(a, taken[a]) : a \in {x \in AllocationIds : taken[x] > 0}}

\* Nothing is taken but of the allocations in `done`, and what is taken is posted beside what was made before.
TakenIsPosted(s, made, done) ==
    /\ LedgerKept(s.inv) /\ "ok" \in DOMAIN s.inv
    /\ s.taken \in [AllocationIds -> Nat]
    /\ \A a \in AllocationIds \ done : s.taken[a] = 0
    /\ s.inv.posted = made \cup ReservationsOf(s.taken)

\* These items have all they need, unless the command fails.
Filled(s, items) == s.inv.ok => \A i \in items : Amount(s.taken, i) = Ordered[i]

Midway(s, made, i, done, items) ==
    /\ s.item = i /\ s.remaining \in Nat
    /\ TakenIsPosted(s, made, done)
    /\ Filled(s, items)
    /\ Amount(s.taken, i) + s.remaining = Ordered[i]

\* The fields of a reservation.
LEMMA AllocatePostingIs ==
    ASSUME NEW a \in AllocationIds, NEW q \in Int
    PROVE  /\ Formed(AllocatePosting(a, q))
           /\ AllocatePosting(a, q).key = Key("ALLOCATE", a, 0)
           /\ AllocatePosting(a, q).balance = a[2] /\ AllocatePosting(a, q).delta = Reserve(q)
           /\ AllocatePosting(a, q).type = "ALLOCATION" /\ AllocatePosting(a, q).reversalOf = NoKey
  BY DeltaFields DEF AllocatePosting, Posting, Formed, AllocationIds

\* Allocations that differ have keys that differ.
LEMMA KeysDiffer ==
    ASSUME NEW kind, NEW a, NEW b, Key(kind, a, 0) = Key(kind, b, 0)
    PROVE  a = b
  BY DEF Key

\* A taken quantity more: the totals of its item and of the others.
LEMMA AmountChanges ==
    ASSUME NEW taken \in [AllocationIds -> Nat], NEW a \in AllocationIds, taken[a] = 0, NEW q \in Nat
    PROVE  LET more == [taken EXCEPT ![a] = q]
           IN  /\ more \in [AllocationIds -> Nat]
               /\ Amount(taken, a[1]) \in Int
               /\ Amount(more, a[1]) = Amount(taken, a[1]) + q
               /\ \A i : i # a[1] => Amount(more, i) = Amount(taken, i)
  <1> DEFINE more == [taken EXCEPT ![a] = q]
  <1>1. /\ more \in [AllocationIds -> Nat] /\ more[a] = q /\ \A x \in AllocationIds \ {a} : more[x] = taken[x]
    OBVIOUS
  <1> HIDE DEF more
  <1>2. \A i : IsFiniteSet(IdsOfItem(i)) /\ IdsOfItem(i) \subseteq AllocationIds
    BY AllocationIdsFinite, FS_Subset DEF IdsOfItem
  <1>3. \A i : IntegersOn(taken, IdsOfItem(i))
    BY <1>2 DEF IntegersOn
  <1>4. a \in IdsOfItem(a[1]) /\ \A i : i # a[1] => a \notin IdsOfItem(i)
    BY DEF IdsOfItem
  <1>5. Amount(taken, a[1]) \in Int
    BY <1>2, <1>3, SumIsInteger DEF Amount
  <1>6. Amount(more, a[1]) = Amount(taken, a[1]) - taken[a] + more[a]
    <2>1. \A x \in IdsOfItem(a[1]) \ {a} : more[x] = taken[x]
      BY <1>1, <1>2
    <2>2. more[a] \in Int
      BY <1>1
    <2> QED
      BY <1>2, <1>3, <1>4, <2>1, <2>2, SumWithOneChanged DEF Amount
  <1>7. ASSUME NEW i, i # a[1]
        PROVE  Amount(more, i) = Amount(taken, i)
    <2>1. \A x \in IdsOfItem(i) : more[x] = taken[x]
      BY <1>1, <1>2, <1>4, <1>7
    <2> QED
      BY <1>2, <1>3, <2>1, SumsAgree DEF Amount
  <1>8. Amount(more, a[1]) = Amount(taken, a[1]) + q
    BY <1>1, <1>5, <1>6
  <1> QED
    BY <1>1, <1>5, <1>7, <1>8 DEF more

\* A taken quantity more is a reservation more.
LEMMA ReservationsWithOneMore ==
    ASSUME NEW taken \in [AllocationIds -> Nat], NEW a \in AllocationIds, taken[a] = 0, NEW q \in Nat, q > 0
    PROVE  ReservationsOf([taken EXCEPT ![a] = q]) = ReservationsOf(taken) \cup {AllocatePosting(a, q)}
  <1> DEFINE more == [taken EXCEPT ![a] = q]
  <1>1. more[a] = q /\ \A x \in AllocationIds \ {a} : more[x] = taken[x]
    OBVIOUS
  <1>2. \A x \in AllocationIds : more[x] > 0 <=> taken[x] > 0 \/ x = a
    BY <1>1
  <1>3. \A x \in AllocationIds : taken[x] > 0 => x # a
    OBVIOUS
  <1> HIDE DEF more
  <1>4. ReservationsOf(more) = ReservationsOf(taken) \cup {AllocatePosting(a, q)}
    <2>1. ASSUME NEW p \in ReservationsOf(more)
          PROVE  p \in ReservationsOf(taken) \cup {AllocatePosting(a, q)}
      <3>1. PICK x \in AllocationIds : more[x] > 0 /\ p = AllocatePosting(x, more[x])
        BY DEF ReservationsOf
      <3>2. CASE x = a
        BY <1>1, <3>1, <3>2
      <3>3. CASE x # a
        <4>1. more[x] = taken[x] /\ taken[x] > 0
          BY <1>1, <1>2, <3>1, <3>3
        <4>2. p = AllocatePosting(x, taken[x])
          BY <3>1, <4>1
        <4> QED
          BY <4>1, <4>2 DEF ReservationsOf
      <3> QED
        BY <3>2, <3>3
    <2>2. ASSUME NEW p \in ReservationsOf(taken)
          PROVE  p \in ReservationsOf(more)
      <3>1. PICK x \in AllocationIds : taken[x] > 0 /\ p = AllocatePosting(x, taken[x])
        BY DEF ReservationsOf
      <3>2. more[x] = taken[x] /\ more[x] > 0
        BY <1>1, <1>2, <1>3, <3>1
      <3>3. p = AllocatePosting(x, more[x])
        BY <3>1, <3>2
      <3> QED
        BY <3>2, <3>3 DEF ReservationsOf
    <2>3. AllocatePosting(a, q) \in ReservationsOf(more)
      <3>1. AllocatePosting(a, q) = AllocatePosting(a, more[a]) /\ more[a] > 0
        BY <1>1
      <3> QED
        BY <3>1 DEF ReservationsOf
    <2> QED
      BY <2>1, <2>2, <2>3
  <1> QED
    BY <1>4 DEF more

\* The two cases of TakeFrom: nothing is left to take or needed, or a quantity is reserved.
LEMMA TakeFromIs ==
    ASSUME NEW s, NEW b
    PROVE  LET a == <<s.item, b>>
               q == Lesser(s.inv.stock[b].available, s.remaining)
           IN  /\ q <= 0 => TakeFrom(s, b) = s
               /\ ~(q <= 0) => TakeFrom(s, b) = [inv |-> OneMore(s.inv, AllocatePosting(a, q)),
                                                taken |-> [s.taken EXCEPT ![a] = q],
                                                item |-> s.item, remaining |-> s.remaining - q]
  BY DEF TakeFrom

\* Taking from one more candidate keeps what was taken equal to what was posted, and what was taken of the item plus
\* what remains equal to what was ordered.
LEMMA TakeFromKeeps ==
    ASSUME NEW s, NEW made, NEW i \in Items, NEW done, NEW items, i \notin items, Midway(s, made, i, done, items),
           NEW b \in ToSet(Candidates[i]), <<i, b>> \notin done, ~Taken(made, Key("ALLOCATE", <<i, b>>, 0))
    PROVE  Midway(TakeFrom(s, b), made, i, done \cup {<<i, b>>}, items)
  <1> DEFINE a == <<i, b>>
             q == Lesser(s.inv.stock[b].available, s.remaining)
             new == TakeFrom(s, b)
  <1>1. a \in AllocationIds /\ b \in Balances /\ a[1] = i
    BY QuantitiesAssumption DEF AllocationIds, ToSet
  <1>2. s.item = i /\ s.remaining \in Nat /\ TakenIsPosted(s, made, done) /\ Filled(s, items)
        /\ Amount(s.taken, i) + s.remaining = Ordered[i]
    BY DEF Midway
  <1>3. s.inv.stock[b].available \in Int
    BY <1>1, <1>2 DEF TakenIsPosted, LedgerKept, Quantities
  <1>4. q \in Int /\ q <= s.remaining
    BY <1>2, <1>3 DEF Lesser
  <1>5. s.taken[a] = 0 /\ s.taken \in [AllocationIds -> Nat]
    BY <1>1, <1>2 DEF TakenIsPosted
  <1>6. /\ q <= 0 => new = s
        /\ ~(q <= 0) => new = [inv |-> OneMore(s.inv, AllocatePosting(a, q)), taken |-> [s.taken EXCEPT ![a] = q],
                               item |-> s.item, remaining |-> s.remaining - q]
    BY <1>2, TakeFromIs
  <1> HIDE DEF a, q, new
  <1>7. CASE q <= 0
    <2>1. new = s
      BY <1>6, <1>7
    <2>2. TakenIsPosted(s, made, done \cup {a})
      BY <1>2 DEF TakenIsPosted
    <2>3. Midway(s, made, i, done \cup {a}, items)
      BY <1>2, <2>2 DEF Midway
    <2> QED
      BY <2>1, <2>3 DEF new, a
  <1>8. CASE ~(q <= 0)
    <2> DEFINE p == AllocatePosting(a, q)
               more == [s.taken EXCEPT ![a] = q]
    <2>1. q \in Nat /\ q > 0 /\ s.remaining - q \in Nat
      BY <1>2, <1>4, <1>8
    <2>2. Formed(p) /\ p.key = Key("ALLOCATE", a, 0)
      BY <1>1, <2>1, AllocatePostingIs
    <2>3. /\ new.inv = OneMore(s.inv, p) /\ new.taken = more /\ new.item = i /\ new.remaining = s.remaining - q
      BY <1>2, <1>6, <1>8
    <2>4. ~Taken(s.inv.posted, p.key)
      <3> SUFFICES ASSUME NEW r \in s.inv.posted, r.key = Key("ALLOCATE", a, 0) PROVE FALSE
        BY <2>2 DEF Taken
      <3>1. r \notin made
        BY DEF Taken, a
      <3>2. PICK x \in AllocationIds : s.taken[x] > 0 /\ r = AllocatePosting(x, s.taken[x])
        BY <1>2, <3>1 DEF TakenIsPosted, ReservationsOf
      <3>3. s.taken[x] \in Int
        BY <1>5
      <3>4. r.key = Key("ALLOCATE", x, 0)
        BY <3>2, <3>3, AllocatePostingIs
      <3>5. x = a
        BY <3>4, KeysDiffer
      <3> QED
        BY <1>5, <3>2, <3>5
    <2>5. /\ more \in [AllocationIds -> Nat]
          /\ Amount(s.taken, i) \in Int
          /\ Amount(more, i) = Amount(s.taken, i) + q
          /\ \A j : j # i => Amount(more, j) = Amount(s.taken, j)
      BY <1>1, <1>5, <2>1, AmountChanges
    <2>6. ReservationsOf(more) = ReservationsOf(s.taken) \cup {p}
      BY <1>1, <1>5, <2>1, ReservationsWithOneMore
    <2>7. /\ OneMore(s.inv, p).posted = s.inv.posted \cup {p}
          /\ OneMore(s.inv, p).ok => s.inv.ok
      <3>1. \A t, r : ~Taken(t.posted, r.key) => /\ OneMore(t, r).posted = t.posted \cup {r}
                                                 /\ OneMore(t, r).ok => t.ok
        BY OneMoreIs
      <3> QED
        BY <2>4, <3>1
    <2>8. "ok" \in DOMAIN OneMore(s.inv, p)
      BY <2>4 DEF OneMore
    <2>9. LedgerKept(OneMore(s.inv, p))
      BY <1>2, <2>2, OneMoreKeepsLedger DEF TakenIsPosted
    <2>10. \A x \in AllocationIds \ (done \cup {a}) : more[x] = 0
      BY <1>2, <1>5 DEF TakenIsPosted
    <2> HIDE DEF p, more
    <2>11. TakenIsPosted(new, made, done \cup {a})
      <3>1. s.inv.posted = made \cup ReservationsOf(s.taken)
        BY <1>2 DEF TakenIsPosted
      <3>2. new.inv.posted = made \cup ReservationsOf(more)
        BY <2>3, <2>6, <2>7, <3>1
      <3> QED
        BY <2>3, <2>5, <2>8, <2>9, <2>10, <3>2 DEF TakenIsPosted
    <2>12. Filled(new, items)
      <3> SUFFICES ASSUME new.inv.ok, NEW j \in items PROVE Amount(new.taken, j) = Ordered[j]
        BY DEF Filled
      <3>1. s.inv.ok /\ j # i
        BY <2>3, <2>7
      <3>2. Amount(s.taken, j) = Ordered[j]
        BY <1>2, <3>1 DEF Filled
      <3> QED
        BY <2>3, <2>5, <3>1, <3>2
    <2>13. Amount(new.taken, i) + new.remaining = Ordered[i]
      <3>1. (Amount(s.taken, i) + q) + (s.remaining - q) = Amount(s.taken, i) + s.remaining
        BY <1>2, <2>1, <2>5
      <3> QED
        BY <1>2, <2>3, <2>5, <3>1
    <2>14. Midway(new, made, i, done \cup {a}, items)
      BY <2>1, <2>3, <2>11, <2>12, <2>13 DEF Midway
    <2> QED
      BY <2>14 DEF new, a
  <1> QED
    BY <1>7, <1>8

\* The allocations of the items in a set.
IdsIn(items) == {a \in AllocationIds : a[1] \in items}

\* Where an item is to be filled, one after the other.
Free(made, ids) == \A a \in ids : ~Taken(made, Key("ALLOCATE", a, 0))

Between(s, made, items) == TakenIsPosted(s, made, IdsIn(items)) /\ Filled(s, items)

\* The loops of allocateSalesOrder are the folds FoldTheorems speaks of.
LEMMA TakesIsFold == \A s, seq : FoldLeft(TakeFrom, s, seq) = Takes!Folded(s, seq)
  BY DEF FoldLeft, MapThenFoldSet, Max, Takes!Folded, Takes!FoldLeft, Takes!MapThenFoldSet, Takes!Max

\* The outer loop is one as well.
LEMMA OrderIsFold == \A s, seq : FoldLeft(TakeItem, s, seq) = Order!Folded(s, seq)
  BY DEF FoldLeft, MapThenFoldSet, Max, Order!Folded, Order!FoldLeft, Order!MapThenFoldSet, Order!Max

\* An item goes through its candidates.
LEMMA ItemTakes ==
    ASSUME NEW made, NEW i \in Items, NEW items, i \notin items, NEW start, Midway(start, made, i, IdsIn(items), items),
           Free(made, IdsIn({i}))
    PROVE  Midway(FoldLeft(TakeFrom, start, Candidates[i]), made, i, IdsIn(items \cup {i}), items)
  <1> DEFINE seq == Candidates[i]
             First(n) == {<<i, seq[m]>> : m \in 1..n}
  <1>1. seq \in Seq(Balances) /\ Len(seq) \in Nat /\ \A m, n \in 1..Len(seq) : seq[m] = seq[n] => m = n
    BY QuantitiesAssumption DEF IsInjective
  <1>2. \A n \in 1..Len(seq) : seq[n] \in ToSet(Candidates[i]) /\ <<i, seq[n]>> \in IdsIn({i})
    <2>1. \A n \in 1..Len(seq) : seq[n] \in ToSet(Candidates[i]) /\ seq[n] \in Balances
      BY <1>1 DEF ToSet
    <2> QED
      BY <2>1 DEF IdsIn, AllocationIds
  <1>3. PICK f : Takes!Steps(f, start, seq)
    BY <1>1, Takes!FoldLeftSteps
  <1>4. FoldLeft(TakeFrom, start, seq) = f[Len(seq)]
    BY <1>1, <1>3, TakesIsFold, Takes!FoldLeftIs
  <1>5. IdsIn(items) \cup First(Len(seq)) = IdsIn(items \cup {i})
    <2>1. \A a \in AllocationIds : a = <<a[1], a[2]>> /\ a[2] \in ToSet(Candidates[a[1]])
      BY DEF AllocationIds
    <2>2. \A a \in IdsIn({i}) : \E n \in 1..Len(seq) : a = <<i, seq[n]>>
      <3> SUFFICES ASSUME NEW a \in IdsIn({i}) PROVE \E n \in 1..Len(seq) : a = <<i, seq[n]>>
        OBVIOUS
      <3>1. a \in AllocationIds /\ a[1] = i
        BY DEF IdsIn
      <3>2. a = <<i, a[2]>> /\ a[2] \in ToSet(seq)
        BY <2>1, <3>1
      <3>3. PICK n \in DOMAIN seq : a[2] = seq[n]
        BY <3>2 DEF ToSet
      <3>4. n \in 1..Len(seq)
        BY <1>1, <3>3
      <3> QED
        BY <3>2, <3>3, <3>4
    <2>3. First(Len(seq)) = IdsIn({i})
      BY <1>2, <2>2
    <2>4. IdsIn(items \cup {i}) = IdsIn(items) \cup IdsIn({i})
      BY DEF IdsIn
    <2> QED
      BY <2>3, <2>4
  <1> DEFINE T == {n \in Nat : n <= Len(seq) => Midway(f[n], made, i, IdsIn(items) \cup First(n), items)}
  <1>6. 0 \in T
    <2>1. First(0) = {} /\ IdsIn(items) \cup {} = IdsIn(items)
      OBVIOUS
    <2>2. f[0] = start
      BY <1>3 DEF Takes!Steps
    <2>3. Midway(f[0], made, i, IdsIn(items) \cup First(0), items)
      BY <2>1, <2>2
    <2> QED
      BY <2>3
  <1> HIDE DEF seq
  <1>7. ASSUME NEW n \in Nat, n \in T
        PROVE  n + 1 \in T
    <2> SUFFICES ASSUME n + 1 <= Len(seq)
                 PROVE  Midway(f[n + 1], made, i, IdsIn(items) \cup First(n + 1), items)
      OBVIOUS
    <2>1. n <= Len(seq) /\ n + 1 \in 1..Len(seq) /\ (n + 1) - 1 = n
      BY <1>1
    <2>2. f[n + 1] = TakeFrom(f[n], seq[n + 1])
      <3>1. f[n + 1] = TakeFrom(f[(n + 1) - 1], seq[n + 1])
        BY <1>3, <2>1 DEF Takes!Steps
      <3> QED
        BY <2>1, <3>1
    <2>3. Midway(f[n], made, i, IdsIn(items) \cup First(n), items)
      BY <1>7, <2>1
    <2>4. <<i, seq[n + 1]>> \notin IdsIn(items) \cup First(n)
      <3>1. <<i, seq[n + 1]>> \notin IdsIn(items)
        BY DEF IdsIn
      <3>2. ASSUME NEW m \in 1..n, <<i, seq[n + 1]>> = <<i, seq[m]>>
            PROVE  FALSE
        <4>1. m \in 1..Len(seq) /\ m # n + 1 /\ seq[m] = seq[n + 1]
          BY <1>1, <2>1, <3>2
        <4> QED
          BY <1>1, <2>1, <4>1
      <3> QED
        BY <3>1, <3>2
    <2>5. seq[n + 1] \in ToSet(Candidates[i]) /\ ~Taken(made, Key("ALLOCATE", <<i, seq[n + 1]>>, 0))
      BY <1>2, <2>1 DEF Free
    <2>6. First(n + 1) = First(n) \cup {<<i, seq[n + 1]>>}
      <3>1. \A m : m \in 1..(n + 1) <=> m \in 1..n \/ m = n + 1
        OBVIOUS
      <3> QED
        BY <3>1
    <2> HIDE DEF First, T
    <2>7. Midway(TakeFrom(f[n], seq[n + 1]), made, i, (IdsIn(items) \cup First(n)) \cup {<<i, seq[n + 1]>>}, items)
      BY <2>3, <2>4, <2>5, TakeFromKeeps
    <2>8. (IdsIn(items) \cup First(n)) \cup {<<i, seq[n + 1]>>} = IdsIn(items) \cup First(n + 1)
      BY <2>6
    <2> QED
      BY <2>2, <2>7, <2>8
  <1> HIDE DEF T, First
  <1>8. Len(seq) \in T
    BY <1>1, <1>6, <1>7, NaturalInduction
  <1>9. Len(seq) <= Len(seq)
    BY <1>1
  <1>10. Midway(f[Len(seq)], made, i, IdsIn(items) \cup First(Len(seq)), items)
    BY <1>8, <1>9 DEF T
  <1> QED
    BY <1>4, <1>5, <1>10 DEF seq

\* An item that went through its candidates is filled, or the command fails.
LEMMA TakeItemKeeps ==
    ASSUME NEW made, NEW i \in Items, NEW items, i \notin items, NEW s, Between(s, made, items),
           Free(made, IdsIn({i}))
    PROVE  Between(TakeItem(s, i), made, items \cup {i})
  <1> DEFINE start == [inv |-> s.inv, taken |-> s.taken, item |-> i, remaining |-> Ordered[i]]
             end   == FoldLeft(TakeFrom, start, Candidates[i])
             new   == TakeItem(s, i)
  <1>1. start.inv = s.inv /\ start.taken = s.taken /\ start.item = i /\ start.remaining = Ordered[i]
    OBVIOUS
  <1>2. Ordered[i] \in Nat
    BY QuantitiesAssumption
  <1>3. new = [inv |-> [end.inv EXCEPT !.ok = @ /\ end.remaining <= 0], taken |-> end.taken]
    BY DEF TakeItem
  <1> HIDE DEF start, end, new
  <1>4. TakenIsPosted(s, made, IdsIn(items)) /\ Filled(s, items)
    BY DEF Between
  <1>5. Amount(s.taken, i) = 0
    <2>1. \A a \in IdsOfItem(i) : s.taken[a] = 0
      BY <1>4 DEF TakenIsPosted, IdsOfItem, IdsIn
    <2>2. IsFiniteSet(IdsOfItem(i))
      BY AllocationIdsFinite, FS_Subset DEF IdsOfItem
    <2> QED
      BY <2>1, <2>2, SumOfZeros DEF Amount
  <1>6. Midway(start, made, i, IdsIn(items), items)
    <2>1. TakenIsPosted(start, made, IdsIn(items))
      BY <1>1, <1>4 DEF TakenIsPosted
    <2>2. Filled(start, items)
      BY <1>1, <1>4 DEF Filled
    <2>3. Amount(start.taken, i) + start.remaining = Ordered[i]
      BY <1>1, <1>2, <1>5
    <2> QED
      BY <1>1, <1>2, <2>1, <2>2, <2>3 DEF Midway
  <1>7. Midway(end, made, i, IdsIn(items \cup {i}), items)
    BY <1>6, ItemTakes DEF end
  <1>8. /\ new.taken = end.taken /\ new.inv.stock = end.inv.stock /\ new.inv.posted = end.inv.posted
        /\ "ok" \in DOMAIN new.inv /\ new.inv.ok = (end.inv.ok /\ end.remaining <= 0)
    <2>1. "ok" \in DOMAIN end.inv
      BY <1>7 DEF Midway, TakenIsPosted
    <2> DEFINE inv == [end.inv EXCEPT !.ok = @ /\ end.remaining <= 0]
    <2>2. inv.stock = end.inv.stock /\ inv.posted = end.inv.posted
      OBVIOUS
    <2>3. "ok" \in DOMAIN inv
      BY <2>1
    <2>4. inv.ok = (end.inv.ok /\ end.remaining <= 0)
      BY <2>1
    <2>5. new.inv = inv /\ new.taken = end.taken
      BY <1>3
    <2> HIDE DEF inv
    <2> QED
      BY <2>2, <2>3, <2>4, <2>5
  <1>9. TakenIsPosted(new, made, IdsIn(items \cup {i}))
    <2>1. TakenIsPosted(end, made, IdsIn(items \cup {i}))
      BY <1>7 DEF Midway
    <2>2. LedgerKept(new.inv)
      BY <1>8, <2>1 DEF TakenIsPosted, LedgerKept
    <2> QED
      BY <1>8, <2>1, <2>2 DEF TakenIsPosted
  <1>10. Filled(new, items \cup {i})
    <2> SUFFICES ASSUME new.inv.ok, NEW j \in items \cup {i} PROVE Amount(new.taken, j) = Ordered[j]
      BY DEF Filled
    <2>1. end.inv.ok /\ end.remaining <= 0
      BY <1>8
    <2>2. CASE j \in items
      BY <1>7, <1>8, <2>1, <2>2 DEF Midway, Filled
    <2>3. CASE j = i
      <3>1. end.remaining \in Nat /\ Amount(end.taken, i) + end.remaining = Ordered[i]
        BY <1>7 DEF Midway
      <3>2. Amount(end.taken, i) \in Int
        <4>1. end.taken \in [AllocationIds -> Nat]
          BY <1>7 DEF Midway, TakenIsPosted
        <4>2. IsFiniteSet(IdsOfItem(i)) /\ IdsOfItem(i) \subseteq AllocationIds
          BY AllocationIdsFinite, FS_Subset DEF IdsOfItem
        <4>3. IntegersOn(end.taken, IdsOfItem(i))
          BY <4>1, <4>2 DEF IntegersOn
        <4> QED
          BY <4>2, <4>3, SumIsInteger DEF Amount
      <3>3. Amount(end.taken, i) = Ordered[i]
        BY <1>2, <2>1, <3>1, <3>2
      <3> QED
        BY <1>8, <2>3, <3>3
    <2> QED
      BY <2>2, <2>3
  <1>11. Between(new, made, items \cup {i})
    BY <1>9, <1>10 DEF Between
  <1> QED
    BY <1>11 DEF new

NothingTaken(inv) == [inv |-> inv, taken |-> [a \in AllocationIds |-> 0]]

\* The items of an order are filled one after the other, and all of them unless the command fails.
LEMMA OrderTakes ==
    ASSUME NEW inv, LedgerKept(inv), "ok" \in DOMAIN inv, NEW o \in Orders, Free(inv.posted, IdsOf(o))
    PROVE  Between(FoldLeft(TakeItem, NothingTaken(inv), ItemsOf[o]), inv.posted, ToSet(ItemsOf[o]))
  <1> DEFINE seq == ItemsOf[o]
             First(n) == {seq[m] : m \in 1..n}
             made == inv.posted
             start == NothingTaken(inv)
  <1>1. /\ seq \in Seq(ToSet(ItemsOf[o])) /\ Len(seq) \in Nat
        /\ \A m, n \in 1..Len(seq) : seq[m] = seq[n] => m = n
    BY ItemsAssumption DEF IsInjective
  <1>2. \A n \in 1..Len(seq) : seq[n] \in Items /\ IdsIn({seq[n]}) \subseteq IdsOf(o)
    <2>1. \A n \in 1..Len(seq) : seq[n] \in ToSet(ItemsOf[o])
      BY <1>1
    <2> QED
      BY <2>1 DEF Items, IdsIn, IdsOf
  <1>3. PICK f : Order!Steps(f, start, seq)
    BY <1>1, Order!FoldLeftSteps
  <1>4. FoldLeft(TakeItem, start, seq) = f[Len(seq)]
    BY <1>1, <1>3, OrderIsFold, Order!FoldLeftIs
  <1>5. First(Len(seq)) = ToSet(ItemsOf[o])
    BY <1>1 DEF ToSet
  <1>6. Between(start, made, {})
    <2>1. start.inv = inv /\ start.taken = [a \in AllocationIds |-> 0]
      BY DEF NothingTaken
    <2>2. ReservationsOf(start.taken) = {}
      BY <2>1 DEF ReservationsOf
    <2>3. TakenIsPosted(start, made, IdsIn({}))
      BY <2>1, <2>2 DEF TakenIsPosted
    <2>4. Filled(start, {})
      BY DEF Filled
    <2> QED
      BY <2>3, <2>4 DEF Between
  <1> HIDE DEF start, made, seq
  <1> DEFINE T == {n \in Nat : n <= Len(seq) => Between(f[n], made, First(n))}
  <1>7. 0 \in T
    <2>1. First(0) = {}
      OBVIOUS
    <2>2. f[0] = start
      BY <1>3 DEF Order!Steps
    <2>3. Between(f[0], made, First(0))
      BY <1>6, <2>1, <2>2
    <2> QED
      BY <2>3
  <1>8. ASSUME NEW n \in Nat, n \in T
        PROVE  n + 1 \in T
    <2> SUFFICES ASSUME n + 1 <= Len(seq)
                 PROVE  Between(f[n + 1], made, First(n + 1))
      OBVIOUS
    <2>1. n <= Len(seq) /\ n + 1 \in 1..Len(seq) /\ (n + 1) - 1 = n
      BY <1>1
    <2>2. f[n + 1] = TakeItem(f[n], seq[n + 1])
      <3>1. f[n + 1] = TakeItem(f[(n + 1) - 1], seq[n + 1])
        BY <1>3, <2>1 DEF Order!Steps
      <3> QED
        BY <2>1, <3>1
    <2>3. Between(f[n], made, First(n))
      BY <1>8, <2>1
    <2>4. seq[n + 1] \notin First(n)
      <3> SUFFICES ASSUME NEW m \in 1..n, seq[n + 1] = seq[m] PROVE FALSE
        OBVIOUS
      <3>1. m \in 1..Len(seq) /\ m # n + 1 /\ seq[m] = seq[n + 1]
        BY <1>1, <2>1
      <3> QED
        BY <1>1, <2>1, <3>1
    <2>5. seq[n + 1] \in Items /\ Free(made, IdsIn({seq[n + 1]}))
      BY <1>2, <2>1 DEF Free, made
    <2>6. First(n + 1) = First(n) \cup {seq[n + 1]}
      <3>1. \A m : m \in 1..(n + 1) <=> m \in 1..n \/ m = n + 1
        OBVIOUS
      <3> QED
        BY <3>1
    <2> HIDE DEF First, T
    <2>7. Between(TakeItem(f[n], seq[n + 1]), made, First(n) \cup {seq[n + 1]})
      BY <2>3, <2>4, <2>5, TakeItemKeeps
    <2> QED
      BY <2>2, <2>6, <2>7
  <1> HIDE DEF T, First
  <1>9. Len(seq) \in T
    BY <1>1, <1>7, <1>8, NaturalInduction
  <1>10. Len(seq) <= Len(seq)
    BY <1>1
  <1>11. Between(f[Len(seq)], made, First(Len(seq)))
    BY <1>9, <1>10 DEF T
  <1> QED
    BY <1>4, <1>5, <1>11 DEF seq, start, made

----------------------------------------------------------------------------
(* The postings of an allocation and their keys.                           *)

\* The keys the services build are keys, and none is the null reversalOfId.
LEMMA KeysAreKeys ==
    ASSUME NEW kind \in KeyKinds, NEW client \in ClientKeys
    PROVE  Key(kind, client, 0) \in Keys /\ Key(kind, client, 0) # NoKey /\ Key(kind, client, 0).client = client
  <1>1. Key(kind, client, 0) \in Keys /\ Key(kind, client, 0).client = client
    BY DEF Key, Keys
  <1> QED
    BY <1>1, NoKeyAssumption

\* The postings made of an allocation of this quantity.
Reservation(a, q) == AllocatePosting(a, q)
Release(a, q)     == Posting(a[2], Key("DEALLOCATE", a, 0), "DEALLOCATION", q, Reserve(-q), NoKey)
Shipping(a, q)    == Posting(a[2], Key("SHIP", a, 0), "SHIPMENT", q, Relieve(q), NoKey)
Voiding(a, q, key) ==
    Posting(a[2], Key("SHIPMENT_VOID", <<key, a>>, 0), "REVERSAL", q, Negated(Relieve(q)), Key("SHIP", a, 0))

\* The postings of the model are these, for the quantity of the allocation.
LEMMA PostingsAre ==
    ASSUME NEW a, NEW key
    PROVE  LET q == allocations[a].quantity
           IN  /\ ReservedBy(a) = Reservation(a, q) /\ DeallocatePosting(a) = Release(a, q)
               /\ ShipPosting(a) = Shipping(a, q) /\ VoidOf(a, key) = Voiding(a, q, key)
  BY DEF ReservedBy, Reservation, DeallocatePosting, Release, ShipPosting, Shipping, VoidOf, Voiding, VoidPosting,
         Reversal, Posting, Key

\* Their fields.
LEMMA PostingFields ==
    ASSUME NEW a \in AllocationIds, NEW q \in Int, NEW key
    PROVE  /\ Formed(Reservation(a, q)) /\ Formed(Release(a, q)) /\ Formed(Shipping(a, q)) /\ Formed(Voiding(a, q, key))
           /\ Reservation(a, q).balance = a[2] /\ Release(a, q).balance = a[2]
           /\ Shipping(a, q).balance = a[2] /\ Voiding(a, q, key).balance = a[2]
           /\ Reservation(a, q).delta = Reserve(q) /\ Release(a, q).delta = Reserve(-q)
           /\ Shipping(a, q).delta = Relieve(q) /\ Voiding(a, q, key).delta = Negated(Relieve(q))
           /\ Reservation(a, q).key = Key("ALLOCATE", a, 0) /\ Release(a, q).key = Key("DEALLOCATE", a, 0)
           /\ Shipping(a, q).key = Key("SHIP", a, 0) /\ Voiding(a, q, key).key = Key("SHIPMENT_VOID", <<key, a>>, 0)
           /\ Reservation(a, q).type = "ALLOCATION" /\ Release(a, q).type = "DEALLOCATION"
           /\ Shipping(a, q).type = "SHIPMENT" /\ Voiding(a, q, key).type = "REVERSAL"
           /\ Reservation(a, q).reversalOf = NoKey /\ Release(a, q).reversalOf = NoKey
           /\ Shipping(a, q).reversalOf = NoKey /\ Voiding(a, q, key).reversalOf = Key("SHIP", a, 0)
  <1>1. a[2] \in Balances /\ -q \in Int
    BY DEF AllocationIds
  <1>2. Reserve(q) \in Deltas /\ Reserve(-q) \in Deltas /\ Relieve(q) \in Deltas /\ Negated(Relieve(q)) \in Deltas
    BY <1>1, DeltaFields
  <1> QED
    BY <1>1, <1>2 DEF Reservation, AllocatePosting, Release, Shipping, Voiding, Posting, Formed

\* The fields of a correction.
LEMMA AdjustPostingFields ==
    ASSUME NEW c \in Corrections
    PROVE  /\ Formed(AdjustPosting(c)) /\ AdjustPosting(c).key = AdjustKey(c)
           /\ AdjustPosting(c).balance = c.balance /\ AdjustPosting(c).delta = OnHand(c.change)
           /\ AdjustPosting(c).type = "ADJUSTMENT" /\ AdjustPosting(c).reversalOf = NoKey
           /\ c.change \in Int
  <1>1. c.balance \in Balances /\ c.change \in Int
    BY KeysAssumption
  <1> QED
    BY <1>1, DeltaFields DEF AdjustPosting, Posting, Formed

\* A key names its kind and its client.
LEMMA KeysEqual ==
    ASSUME NEW k, NEW l, NEW a, NEW b, Key(k, a, 0) = Key(l, b, 0)
    PROVE  k = l /\ a = b
  BY DEF Key

\* A posting is known by its key.
LEMMA KnownByKey ==
    ASSUME PostingsKnown, QuantitiesKept, NEW p \in posted, NEW a \in AllocationIds
    PROVE  LET q == allocations[a].quantity
           IN  /\ p.key = Key("ALLOCATE", a, 0) => p = Reservation(a, q)
               /\ p.key = Key("DEALLOCATE", a, 0) => p = Release(a, q)
               /\ p.key = Key("SHIP", a, 0) => p = Shipping(a, q)
               /\ \A key : p.key = Key("SHIPMENT_VOID", <<key, a>>, 0) => p = Voiding(a, q, key)
  <1>1. CASE \E c \in Corrections : p = AdjustPosting(c)
    <2>1. PICK c \in Corrections : p = AdjustPosting(c)
      BY <1>1
    <2>2. p.key = Key("ADJUSTMENT", c.client, 0)
      BY <2>1, AdjustPostingFields DEF AdjustKey
    <2> QED
      BY <2>2, KeysEqual
  <1>2. ASSUME NEW b \in AllocationIds, p \in PostingsOf(b)
        PROVE  LET q == allocations[a].quantity
               IN  /\ p.key = Key("ALLOCATE", a, 0) => p = Reservation(a, q)
                   /\ p.key = Key("DEALLOCATE", a, 0) => p = Release(a, q)
                   /\ p.key = Key("SHIP", a, 0) => p = Shipping(a, q)
                   /\ \A key : p.key = Key("SHIPMENT_VOID", <<key, a>>, 0) => p = Voiding(a, q, key)
    <2> DEFINE q == allocations[b].quantity
    <2>1. q \in Int
      BY DEF QuantitiesKept
    <2>2. PICK x : \/ p = Reservation(b, q) \/ p = Release(b, q) \/ p = Shipping(b, q)
                   \/ p = Voiding(b, q, x)
      BY <1>2, PostingsAre DEF PostingsOf
    <2> HIDE DEF q
    <2>3. CASE p = Reservation(b, q)
      <3>1. p.key = Key("ALLOCATE", b, 0)
        BY <2>1, <2>3, PostingFields
      <3> QED
        BY <2>3, <3>1, KeysEqual DEF q
    <2>4. CASE p = Release(b, q)
      <3>1. p.key = Key("DEALLOCATE", b, 0)
        BY <2>1, <2>4, PostingFields
      <3> QED
        BY <2>4, <3>1, KeysEqual DEF q
    <2>5. CASE p = Shipping(b, q)
      <3>1. p.key = Key("SHIP", b, 0)
        BY <2>1, <2>5, PostingFields
      <3> QED
        BY <2>5, <3>1, KeysEqual DEF q
    <2>6. CASE p = Voiding(b, q, x)
      <3>1. p.key = Key("SHIPMENT_VOID", <<x, b>>, 0)
        BY <2>1, <2>6, PostingFields
      <3>2. \A key : p.key = Key("SHIPMENT_VOID", <<key, a>>, 0) => key = x /\ a = b
        <4> SUFFICES ASSUME NEW key, p.key = Key("SHIPMENT_VOID", <<key, a>>, 0) PROVE key = x /\ a = b
          OBVIOUS
        <4>1. <<key, a>> = <<x, b>>
          BY <3>1, KeysEqual
        <4> QED
          BY <4>1
      <3> QED
        BY <2>6, <3>1, <3>2, KeysEqual DEF q
    <2> QED
      BY <2>2, <2>3, <2>4, <2>5, <2>6
  <1> QED
    BY <1>1, <1>2 DEF PostingsKnown

\* The shipments and their reversals.
LEMMA ShipmentsKnown ==
    ASSUME PostingsKnown, QuantitiesKept, NEW p \in posted
    PROVE  /\ p.type = "SHIPMENT" => \E a \in AllocationIds : p = ShipPosting(a) /\ p.key = Key("SHIP", a, 0)
           /\ \A a \in AllocationIds : p.reversalOf = Key("SHIP", a, 0) =>
                  \E key \in Tokens : p.key = Key("SHIPMENT_VOID", <<key, a>>, 0)
           /\ p.type = "ADJUSTMENT" => \E c \in Corrections : p = AdjustPosting(c)
  <1>0. \A a \in AllocationIds : Key("SHIP", a, 0) # NoKey
    BY KeysAreKeys, KeysAssumption DEF KeyKinds
  <1>1. CASE \E c \in Corrections : p = AdjustPosting(c)
    BY <1>0, <1>1, AdjustPostingFields
  <1>2. ASSUME NEW b \in AllocationIds, p \in PostingsOf(b)
        PROVE  /\ p.type = "SHIPMENT" => \E a \in AllocationIds : p = ShipPosting(a) /\ p.key = Key("SHIP", a, 0)
               /\ \A a \in AllocationIds : p.reversalOf = Key("SHIP", a, 0) =>
                      \E key \in Tokens : p.key = Key("SHIPMENT_VOID", <<key, a>>, 0)
               /\ p.type # "ADJUSTMENT"
    <2> DEFINE q == allocations[b].quantity
    <2>1. q \in Int
      BY DEF QuantitiesKept
    <2>2. CASE p = ReservedBy(b) \/ p = DeallocatePosting(b)
      <3>1. p = Reservation(b, q) \/ p = Release(b, q)
        BY <2>2, PostingsAre
      <3>2. p.type \in {"ALLOCATION", "DEALLOCATION"} /\ p.reversalOf = NoKey
        <4>1. Reservation(b, q).type = "ALLOCATION" /\ Reservation(b, q).reversalOf = NoKey
          BY <2>1, PostingFields
        <4>2. Release(b, q).type = "DEALLOCATION" /\ Release(b, q).reversalOf = NoKey
          BY <2>1, PostingFields
        <4> QED
          BY <3>1, <4>1, <4>2
      <3> QED
        BY <1>0, <3>2
    <2>3. CASE p = ShipPosting(b)
      <3>1. p = Shipping(b, q)
        BY <2>3, PostingsAre
      <3>2. p.type = "SHIPMENT" /\ p.reversalOf = NoKey /\ p.key = Key("SHIP", b, 0)
        BY <2>1, <3>1, PostingFields
      <3> QED
        BY <1>0, <2>3, <3>2
    <2>4. ASSUME NEW x \in Tokens, p = VoidOf(b, x)
          PROVE  /\ p.type = "REVERSAL" /\ p.reversalOf = Key("SHIP", b, 0)
                 /\ p.key = Key("SHIPMENT_VOID", <<x, b>>, 0)
      <3>1. p = Voiding(b, q, x)
        BY <2>4, PostingsAre
      <3> QED
        BY <2>1, <3>1, PostingFields
    <2>5. CASE \E x \in Tokens : p = VoidOf(b, x)
      <3>1. PICK x \in Tokens : /\ p.type = "REVERSAL" /\ p.reversalOf = Key("SHIP", b, 0)
                                /\ p.key = Key("SHIPMENT_VOID", <<x, b>>, 0)
        BY <2>4, <2>5
      <3>2. \A a \in AllocationIds : p.reversalOf = Key("SHIP", a, 0) => a = b
        BY <3>1, KeysEqual
      <3> QED
        BY <3>1, <3>2
    <2> QED
      BY <1>2, <2>2, <2>3, <2>5 DEF PostingsOf
  <1> QED
    BY <1>1, <1>2 DEF PostingsKnown

----------------------------------------------------------------------------
(* What a step that posts nothing, or what it does not touch, keeps.       *)

\* The rows and the ledger after a command are those of its result.
LEMMA LedgerOf ==
    ASSUME NEW inv, LedgerKept(inv), stock' = inv.stock, posted' = inv.posted
    PROVE  LedgerKept(Inventory)'
  <1> DEFINE new == [stock |-> stock', posted |-> posted', ok |-> TRUE]
  <1>1. new.stock = inv.stock /\ new.posted = inv.posted
    OBVIOUS
  <1> HIDE DEF new
  <1>2. LedgerKept(new)
    BY <1>1 DEF LedgerKept
  <1> QED
    BY <1>2 DEF Inventory, new

\* A step that posts nothing keeps them.
LEMMA LedgerStays ==
    ASSUME LedgerKept(Inventory), UNCHANGED <<stock, posted>>
    PROVE  LedgerKept(Inventory)'
  BY DEF Inventory

\* The posting is not one of the allocation.
NotOf(p, a) ==
    /\ \A kind \in {"ALLOCATE", "DEALLOCATE", "SHIP"} : p.key # Key(kind, a, 0)
    /\ \A key \in Tokens : p.key # Key("SHIPMENT_VOID", <<key, a>>, 0)

\* An allocation none of the new postings is of stays booked.
LEMMA BookedStays ==
    ASSUME NEW a \in AllocationIds, Booked(a), NEW new, posted' = posted \cup new, \A p \in new : NotOf(p, a),
           allocations'[a].status = allocations[a].status, Voided(OrderOf(a))' <=> Voided(OrderOf(a))
    PROVE  Booked(a)'
  <1>1. ASSUME NEW key, \A p \in new : p.key # key
        PROVE  Taken(posted, key)' <=> Taken(posted, key)
    BY <1>1 DEF Taken
  <1>2. \A kind \in {"ALLOCATE", "DEALLOCATE", "SHIP"} : Made(kind, a)' <=> Made(kind, a)
    BY <1>1 DEF Made, NotOf
  <1>3. \A key \in Tokens : Made("SHIPMENT_VOID", <<key, a>>)' <=> Made("SHIPMENT_VOID", <<key, a>>)
    BY <1>1 DEF Made, NotOf
  <1>4. VoidsOf(a)' = VoidsOf(a)
    BY <1>3 DEF VoidsOf
  <1>5. ShippedAndVoided(a)' <=> ShippedAndVoided(a)
    BY DEF ShippedAndVoided
  <1> QED
    BY <1>2, <1>4, <1>5 DEF Booked

\* The postings that may be made of an allocation depend on its quantity alone.
LEMMA PostingsOfSame ==
    ASSUME NEW a, allocations'[a].quantity = allocations[a].quantity
    PROVE  PostingsOf(a)' = PostingsOf(a)
  BY DEF PostingsOf, ReservedBy, AllocatePosting, DeallocatePosting, ShipPosting, VoidOf, VoidPosting

\* New postings of corrections and allocations are known ones.
LEMMA KnownGrows ==
    ASSUME PostingsKnown, \A a \in AllocationIds : allocations'[a].quantity = allocations[a].quantity,
           NEW new, posted' = posted \cup new,
           \A p \in new : \/ \E c \in Corrections : p = AdjustPosting(c)
                          \/ \E a \in AllocationIds : p \in PostingsOf(a)
    PROVE  PostingsKnown'
  <1>1. \A a \in AllocationIds : PostingsOf(a)' = PostingsOf(a)
    BY PostingsOfSame
  <1>2. \A p \in posted' : \/ \E c \in Corrections : p = AdjustPosting(c)
                           \/ \E a \in AllocationIds : p \in PostingsOf(a)
    BY DEF PostingsKnown
  <1>3. \A p \in posted' : \/ \E c \in Corrections : p = AdjustPosting(c)
                           \/ \E a \in AllocationIds : p \in PostingsOf(a)'
    BY <1>1, <1>2
  <1> QED
    BY <1>3 DEF PostingsKnown

\* Where the quantities stay, so do their sums.
LEMMA QuantitiesStay ==
    ASSUME QuantitiesKept, \A a \in AllocationIds : /\ allocations'[a].quantity = allocations[a].quantity
                                                    /\ allocations'[a].status = "NONE" => allocations[a].status = "NONE"
    PROVE  QuantitiesKept' /\ \A i : ItemQuantity(i)' = ItemQuantity(i)
  <1>1. QuantitiesKept'
    BY DEF QuantitiesKept
  <1>2. [a \in AllocationIds |-> allocations'[a].quantity] = [a \in AllocationIds |-> allocations[a].quantity]
    OBVIOUS
  <1> QED
    BY <1>1, <1>2 DEF ItemQuantity

\* An order whose rows stay makes no progress.
LEMMA ProgressStays ==
    ASSUME NEW o \in Orders, Progress(o), status'[o] = status[o], shipments'[o].status = shipments[o].status,
           \A a \in IdsOf(o) : allocations'[a].status = allocations[a].status,
           \A i \in ToSet(ItemsOf[o]) : ItemQuantity(i)' = ItemQuantity(i)
    PROVE  Progress(o)'
  BY DEF Progress

\* Statuses that mean the same for the stock.
SameGroup(s, t) ==
    /\ s \in Open <=> t \in Open
    /\ s \in Reserving <=> t \in Reserving
    /\ s \in Shipped <=> t \in Shipped

\* A step that moves orders among statuses that mean the same for the stock, and posts nothing, keeps the invariant.
LEMMA StatusOnly ==
    ASSUME StockInv, UNCHANGED <<stock, posted>>, \A o \in Orders : SameGroup(status[o], status'[o]),
           \A o \in Orders : shipments'[o].status = shipments[o].status,
           \A a \in AllocationIds : /\ allocations'[a].status = allocations[a].status
                                    /\ allocations'[a].quantity = allocations[a].quantity
    PROVE  StockInv'
  <1>1. LedgerKept(Inventory)'
    BY LedgerStays DEF StockInv
  <1>0. PICK new : new = {p \in posted : p \notin posted}
    OBVIOUS
  <1>8. \A p : p \notin new
    BY <1>0
  <1>2. posted' = posted \cup new /\ \A p \in new : FALSE
    BY <1>8
  <1>3. PostingsKnown'
    BY <1>2, KnownGrows DEF StockInv
  <1>4. \A a \in AllocationIds : Voided(OrderOf(a))' <=> Voided(OrderOf(a))
    BY OrderOfIs DEF Voided
  <1>5. \A a \in AllocationIds : Booked(a)'
    BY <1>2, <1>4, BookedStays DEF StockInv
  <1>6. QuantitiesKept' /\ \A i : ItemQuantity(i)' = ItemQuantity(i)
    BY QuantitiesStay DEF StockInv
  <1>7. ASSUME NEW o \in Orders
        PROVE  Progress(o)'
    <2>1. Progress(o) /\ SameGroup(status[o], status'[o]) /\ shipments'[o].status = shipments[o].status
      BY DEF StockInv
    <2>2. AllocationStatusIn(status'[o]) = AllocationStatusIn(status[o])
      BY <2>1 DEF SameGroup, AllocationStatusIn
    <2>3. \A a \in IdsOf(o) : allocations'[a].status \in AllocationStatusIn(status'[o])
      BY <2>1, <2>2 DEF Progress, IdsOf
    <2>4. \A i \in ToSet(ItemsOf[o]) : ItemQuantity(i)' = ItemQuantity(i)
      BY <1>6
    <2> QED
      BY <2>1, <2>3, <2>4 DEF Progress, SameGroup
  <1> QED
    BY <1>1, <1>3, <1>5, <1>6, <1>7 DEF StockInv

----------------------------------------------------------------------------
(* The steps.                                                              *)

\* Picking and packing move no stock.
LEMMA FulfilStock ==
    ASSUME StockInv, SalesInv, NEW a \in AllocationIds, NEW u \in Operators, Fulfil(a, u)
    PROVE  StockInv'
  <1>1. IsAllocation(allocations[a]) /\ allocations[a].status = "ACTIVE"
    BY DEF SalesInv, RowsSound, Fulfil, ClaimPick, ConfirmPick, ShortPick, ClaimPack, CompletePack, PackException,
           Mine, IsTask
  <1>2. ASSUME NEW execution, NEW row,
               \/ row = [allocations[a] EXCEPT !.execution = execution]
               \/ \E x : \/ row = [allocations[a] EXCEPT !.execution = execution, !.claimedBy = x]
                         \/ row = [allocations[a] EXCEPT !.execution = execution, !.picked = x]
                         \/ row = [allocations[a] EXCEPT !.execution = execution, !.packed = x]
        PROVE  row.status = allocations[a].status /\ row.quantity = allocations[a].quantity
    BY <1>1, <1>2 DEF IsAllocation, AllocationFields
  <1>3. PICK row, execution :
           /\ \/ row = [allocations[a] EXCEPT !.execution = execution]
              \/ \E x : \/ row = [allocations[a] EXCEPT !.execution = execution, !.claimedBy = x]
                        \/ row = [allocations[a] EXCEPT !.execution = execution, !.picked = x]
                        \/ row = [allocations[a] EXCEPT !.execution = execution, !.packed = x]
           /\ OnlyTask(a, row)
    <2>1. CASE ClaimPick(a, u)
      BY <2>1 DEF ClaimPick
    <2>2. CASE ConfirmPick(a, u)
      BY <2>2 DEF ConfirmPick
    <2>3. CASE ShortPick(a, u)
      BY <2>3 DEF ShortPick
    <2>4. CASE ClaimPack(a, u)
      BY <2>4 DEF ClaimPack
    <2>5. CASE CompletePack(a, u)
      BY <2>5 DEF CompletePack
    <2>6. CASE PackException(a, u)
      BY <2>6 DEF PackException
    <2> QED
      BY <2>1, <2>2, <2>3, <2>4, <2>5, <2>6 DEF Fulfil
  <1>4. row.status = allocations[a].status /\ row.quantity = allocations[a].quantity
    BY <1>2, <1>3
  <1>5. allocations' = [allocations EXCEPT ![a] = row] /\ UNCHANGED <<shipments, stock, posted>>
    BY <1>3 DEF OnlyTask
  <1>6. allocations = [b \in AllocationIds |-> allocations[b]]
    BY DEF SalesInv, RowsSound
  <1>7. \A b \in AllocationIds : /\ allocations'[b].status = allocations[b].status
                                 /\ allocations'[b].quantity = allocations[b].quantity
    BY <1>4, <1>5, <1>6
  <1>8. \A o \in Orders : SameGroup(status[o], status'[o])
    <2>1. CASE status' = status
      BY <2>1 DEF SameGroup
    <2>2. CASE CompletePack(a, u) /\ status' = [status EXCEPT ![OrderOf(a)] = "PACKED"]
      <3>1. OrderOf(a) \in Orders /\ status[OrderOf(a)] \in Reserving
        BY <1>1, OrderOfIs DEF SalesInv, OrderSound
      <3>2. \A o \in Orders : status'[o] = IF o = OrderOf(a) THEN "PACKED" ELSE status[o]
        BY <2>2 DEF SalesInv, RowsSound
      <3>3. \A s \in Reserving : SameGroup(s, "PACKED")
        BY DEF SameGroup, Open, Reserving, Shipped
      <3>4. \A s : SameGroup(s, s)
        BY DEF SameGroup
      <3> QED
        BY <3>1, <3>2, <3>3, <3>4
    <2> QED
      BY <2>1, <2>2 DEF Fulfil, ClaimPick, ConfirmPick, ShortPick, ClaimPack, CompletePack, PackException
  <1> QED
    BY <1>5, <1>7, <1>8, StatusOnly

\* Nor do the milestones.
LEMMA AdvanceStock ==
    ASSUME StockInv, SalesInv, NEW o \in Orders, Advance(o)
    PROVE  StockInv'
  <1>1. PICK to \in {"CONFIRMED", "PICKING", "PICKED", "PACKED", "DELIVERED", "CLOSED", "RETURNED"} : Moves(o, to)
    BY DEF Advance
  <1>2. UNCHANGED <<allocations, shipments, stock, posted>>
    BY <1>1 DEF Advance, Moves
  <1>3. /\ to \in validTransitions[status[o]] /\ status[o] \in Statuses /\ status'[o] = to
        /\ \A p \in Orders \ {o} : status'[p] = status[p]
    BY <1>1, MovesKeeps
  <1>4. SameGroup(status[o], to)
    BY <1>1, <1>3 DEF validTransitions, Statuses, SameGroup, Open, Reserving, Shipped
  <1>5. \A p \in Orders : SameGroup(status[p], status'[p])
    <2>1. \A s : SameGroup(s, s)
      BY DEF SameGroup
    <2> QED
      BY <1>3, <1>4, <2>1
  <1> QED
    BY <1>2, <1>5, StatusOnly

\* A correction takes or adds what is on hand and touches no allocation.
LEMMA CorrectStock ==
    ASSUME StockInv, NEW c \in Corrections, Correct(c)
    PROVE  StockInv'
  <1> DEFINE p == AdjustPosting(c)
             inv == OneMore(Inventory, p)
  <1>1. /\ ~Taken(posted, p.key) /\ stock' = inv.stock /\ posted' = inv.posted
        /\ UNCHANGED <<status, allocations, shipments>>
    BY AdjustPostingFields DEF Correct, Posts
  <1>2. Formed(p) /\ p.key = Key("ADJUSTMENT", c.client, 0)
    BY AdjustPostingFields DEF AdjustKey
  <1>3. LedgerKept(inv)
    BY <1>2, OneMoreKeepsLedger DEF StockInv
  <1>4. LedgerKept(Inventory)'
    <2>1. PICK new : new = inv
      OBVIOUS
    <2> QED
      BY <1>1, <1>3, <2>1, LedgerOf
  <1>5. posted' = posted \cup {p}
    <2>1. Inventory.posted = posted
      BY DEF Inventory
    <2>2. \A s, r : ~Taken(s.posted, r.key) => OneMore(s, r).posted = s.posted \cup {r}
      BY OneMoreIs
    <2> QED
      BY <1>1, <2>1, <2>2
  <1>6. \A a \in AllocationIds : NotOf(p, a)
    BY <1>2, KeysEqual DEF NotOf
  <1> HIDE DEF p
  <1>7. PostingsKnown'
    <2>1. \A r \in {p} : \E d \in Corrections : r = AdjustPosting(d)
      BY DEF p
    <2> QED
      BY <1>1, <1>5, <2>1, KnownGrows DEF StockInv
  <1>8. ASSUME NEW a \in AllocationIds
        PROVE  Booked(a)'
    <2>1. Booked(a) /\ allocations'[a].status = allocations[a].status /\ (Voided(OrderOf(a))' <=> Voided(OrderOf(a)))
      BY <1>1 DEF StockInv, Voided
    <2>2. PICK new : new = {p}
      OBVIOUS
    <2>3. posted' = posted \cup new /\ \A r \in new : NotOf(r, a)
      BY <1>5, <1>6, <2>2
    <2> QED
      BY <2>1, <2>3, BookedStays
  <1>9. QuantitiesKept' /\ \A i : ItemQuantity(i)' = ItemQuantity(i)
    BY <1>1, QuantitiesStay DEF StockInv
  <1>10. \A o \in Orders : Progress(o)'
    BY <1>1, <1>9, ProgressStays DEF StockInv
  <1> QED
    BY <1>4, <1>7, <1>8, <1>9, <1>10 DEF StockInv

\* What a command posts of some allocations, under keys of which none is taken, or all.
LEMMA PostsOfAllocations ==
    ASSUME LedgerKept(Inventory), NEW ids \in SUBSET AllocationIds, NEW f,
           \A a \in ids : Formed(f[a]) /\ ~Taken(posted, f[a].key),
           \A a, b \in ids : f[a].key = f[b].key => a = b,
           Posts(AllOf({f[a] : a \in ids}))
    PROVE  posted' = posted \cup {f[a] : a \in ids} /\ LedgerKept(Inventory)'
  <1> DEFINE S == {f[a] : a \in ids}
  <1>1. IsFiniteSet(S)
    <2>1. IsFiniteSet(ids)
      BY AllocationIdsFinite, FS_Subset
    <2> QED
      BY <2>1, ImageIsFinite
  <1>2. PICK old : old = Inventory
    OBVIOUS
  <1>3. old.posted = posted /\ LedgerKept(old)
    BY <1>2 DEF Inventory
  <1>4. PICK new : new = PostAll(old, SetToSeq(S))
    OBVIOUS
  <1>5. stock' = new.stock /\ posted' = new.posted
    BY <1>2, <1>4 DEF Posts, AllOf
  <1>6. /\ \A p \in S : Formed(p) /\ ~Taken(old.posted, p.key)
        /\ \A p, r \in S : p.key = r.key => p = r
    BY <1>3
  <1> HIDE DEF S
  <1>7. new.posted = old.posted \cup S /\ LedgerKept(new)
    BY <1>1, <1>3, <1>4, <1>6, PostsSet
  <1>8. posted' = posted \cup S
    BY <1>3, <1>5, <1>7
  <1>9. LedgerKept(Inventory)'
    BY <1>5, <1>7, LedgerOf
  <1> QED
    BY <1>8, <1>9 DEF S

\* A command all of whose keys are taken posts nothing.
LEMMA RepeatsOfAllocations ==
    ASSUME NEW ids \in SUBSET AllocationIds, NEW f, \A a \in ids : Taken(posted, f[a].key),
           Posts(AllOf({f[a] : a \in ids}))
    PROVE  UNCHANGED <<stock, posted>>
  <1> DEFINE S == {f[a] : a \in ids}
  <1>1. IsFiniteSet(S)
    <2>1. IsFiniteSet(ids)
      BY AllocationIdsFinite, FS_Subset
    <2> QED
      BY <2>1, ImageIsFinite
  <1>2. PICK old : old = Inventory
    OBVIOUS
  <1>3. old.posted = posted /\ old.stock = stock
    BY <1>2 DEF Inventory
  <1>4. PICK new : new = PostAll(old, SetToSeq(S))
    OBVIOUS
  <1>5. stock' = new.stock /\ posted' = new.posted
    BY <1>2, <1>4 DEF Posts, AllOf
  <1>6. \A p \in S : Taken(old.posted, p.key)
    BY <1>3
  <1> HIDE DEF S
  <1>7. new.posted = old.posted /\ new.stock = old.stock
    BY <1>1, <1>4, <1>6, RepeatsSet
  <1> QED
    BY <1>3, <1>5, <1>7

\* Which postings are made when those of one kind are added.
LEMMA MadeGrows ==
    ASSUME NEW kind, NEW clients, NEW new, posted' = posted \cup new,
           \A p \in new : \E x \in clients : p.key = Key(kind, x, 0),
           \A x \in clients : \E p \in new : p.key = Key(kind, x, 0)
    PROVE  \A k, x : Made(k, x)' <=> Made(k, x) \/ (k = kind /\ x \in clients)
  <1> SUFFICES ASSUME NEW k, NEW x
               PROVE  Made(k, x)' <=> Made(k, x) \/ (k = kind /\ x \in clients)
    OBVIOUS
  <1>1. Made(k, x)' <=> \E p \in posted \cup new : p.key = Key(k, x, 0)
    BY DEF Made, Taken
  <1>2. (\E p \in new : p.key = Key(k, x, 0)) <=> k = kind /\ x \in clients
    <2>1. ASSUME NEW p \in new, p.key = Key(k, x, 0)
          PROVE  k = kind /\ x \in clients
      BY <2>1, KeysEqual
    <2> QED
      BY <2>1
  <1>3. Made(k, x) <=> \E p \in posted : p.key = Key(k, x, 0)
    BY DEF Made, Taken
  <1> QED
    BY <1>1, <1>2, <1>3

\* The active allocations of the order get the status, and keep their quantities.
LEMMA ActiveBecomeIs ==
    ASSUME SalesInv, NEW o, NEW new, ActiveBecome(o, new)
    PROVE  \A a \in AllocationIds :
             /\ allocations'[a].quantity = allocations[a].quantity
             /\ allocations'[a].status = IF a \in Active(o) THEN new ELSE allocations[a].status
  <1> SUFFICES ASSUME NEW a \in AllocationIds
               PROVE  /\ allocations'[a].quantity = allocations[a].quantity
                      /\ allocations'[a].status = IF a \in Active(o) THEN new ELSE allocations[a].status
    OBVIOUS
  <1>1. IsAllocation(allocations[a])
    BY DEF SalesInv, RowsSound
  <1>2. [allocations[a] EXCEPT !.status = new].quantity = allocations[a].quantity
        /\ [allocations[a] EXCEPT !.status = new].status = new
    BY <1>1 DEF IsAllocation, AllocationFields
  <1>3. allocations'[a] = IF a \in Active(o) THEN [allocations[a] EXCEPT !.status = new] ELSE allocations[a]
    BY DEF ActiveBecome
  <1> QED
    BY <1>2, <1>3

\* The rows of the other orders stay.
LEMMA OthersProgress ==
    ASSUME StockInv, NEW o \in Orders, \A p \in Orders \ {o} : status'[p] = status[p] /\ shipments'[p] = shipments[p],
           \A a \in AllocationIds \ IdsOf(o) : allocations'[a].status = allocations[a].status,
           \A i : ItemQuantity(i)' = ItemQuantity(i), Progress(o)'
    PROVE  \A p \in Orders : Progress(p)'
  <1> SUFFICES ASSUME NEW p \in Orders \ {o} PROVE Progress(p)'
    OBVIOUS
  <1>1. \A a \in IdsOf(p) : allocations'[a].status = allocations[a].status
    BY IdsAreOfOneOrder DEF IdsOf
  <1>2. Progress(p)
    BY DEF StockInv
  <1> QED
    BY <1>1, <1>2, ProgressStays

\* Postings of one kind, of these allocations and no other.
OfKind(f, kind, ids) == \A a \in ids : f[a].key = Key(kind, a, 0) /\ Formed(f[a]) /\ f[a] \in PostingsOf(a)

\* What a command that posts one kind of these allocations leaves of the parts of the invariant that do not depend on the
\* status of the order.
LEMMA CommandKeeps ==
    ASSUME StockInv, NEW kind, NEW ids \in SUBSET AllocationIds, NEW f, OfKind(f, kind, ids),
           \A a \in ids : ~Made(kind, a), Posts(AllOf({f[a] : a \in ids})),
           \A a \in AllocationIds : allocations'[a].quantity = allocations[a].quantity
    PROVE  /\ LedgerKept(Inventory)' /\ PostingsKnown'
           /\ \A k, x : Made(k, x)' <=> Made(k, x) \/ (k = kind /\ x \in ids)
  <1>1. \A a \in ids : Formed(f[a]) /\ ~Taken(posted, f[a].key)
    BY DEF OfKind, Made
  <1>2. \A a, b \in ids : f[a].key = f[b].key => a = b
    BY KeysEqual DEF OfKind
  <1>3. posted' = posted \cup {f[a] : a \in ids} /\ LedgerKept(Inventory)'
    BY <1>1, <1>2, PostsOfAllocations DEF StockInv
  <1>4. PICK new : new = {f[a] : a \in ids}
    OBVIOUS
  <1>5. PostingsKnown'
    <2>1. \A p \in new : \E a \in AllocationIds : p \in PostingsOf(a)
      BY <1>4 DEF OfKind
    <2> QED
      BY <1>3, <1>4, <2>1, KnownGrows DEF StockInv
  <1>6. /\ \A p \in new : \E x \in ids : p.key = Key(kind, x, 0)
        /\ \A x \in ids : \E p \in new : p.key = Key(kind, x, 0)
    BY <1>4 DEF OfKind
  <1>7. \A k, x : Made(k, x)' <=> Made(k, x) \/ (k = kind /\ x \in ids)
    <2>1. posted' = posted \cup new
      BY <1>3, <1>4
    <2> QED
      BY <1>6, <2>1, MadeGrows
  <1> QED
    BY <1>3, <1>5, <1>7

\* The keys of the postings of an allocation.
LEMMA PostingOfAllocation ==
    ASSUME QuantitiesKept, NEW a \in AllocationIds
    PROVE  /\ Formed(DeallocatePosting(a)) /\ DeallocatePosting(a).key = Key("DEALLOCATE", a, 0)
           /\ Formed(ShipPosting(a)) /\ ShipPosting(a).key = Key("SHIP", a, 0)
           /\ \A key : Formed(VoidOf(a, key)) /\ VoidOf(a, key).key = Key("SHIPMENT_VOID", <<key, a>>, 0)
  <1>1. PICK q \in Int : q = allocations[a].quantity
    BY DEF QuantitiesKept
  <1>2. /\ DeallocatePosting(a) = Release(a, q) /\ ShipPosting(a) = Shipping(a, q)
        /\ \A key : VoidOf(a, key) = Voiding(a, q, key)
    BY <1>1, PostingsAre
  <1>3. \A key : /\ Formed(Release(a, q)) /\ Release(a, q).key = Key("DEALLOCATE", a, 0)
                 /\ Formed(Shipping(a, q)) /\ Shipping(a, q).key = Key("SHIP", a, 0)
                 /\ Formed(Voiding(a, q, key)) /\ Voiding(a, q, key).key = Key("SHIPMENT_VOID", <<key, a>>, 0)
    BY PostingFields
  <1> QED
    BY <1>2, <1>3

\* A cancellation releases what the order had reserved, each allocation once.
LEMMA CancelStock ==
    ASSUME StockInv, SalesInv, NEW o \in Orders, Cancel(o)
    PROVE  StockInv'
  <1>1. /\ Moves(o, "CANCELLED") /\ Posts(AllOf({DeallocatePosting(a) : a \in Active(o)}))
        /\ ActiveBecome(o, "RELEASED") /\ UNCHANGED shipments
    BY DEF Cancel, Moves
  <1>2. /\ status[o] \in Statuses \ Shipped /\ status[o] # "CANCELLED" /\ status'[o] = "CANCELLED"
        /\ \A p \in Orders \ {o} : status'[p] = status[p]
    BY <1>1, MovesKeeps, Transitions
  <1>3. PICK ids \in SUBSET AllocationIds : ids = Active(o)
    BY DEF Active, IdsOf
  <1>4. \A a \in AllocationIds :
           /\ allocations'[a].quantity = allocations[a].quantity
           /\ allocations'[a].status = IF a \in ids THEN "RELEASED" ELSE allocations[a].status
    BY <1>1, <1>3, ActiveBecomeIs
  <1>5. \A a \in ids : allocations[a].status = "ACTIVE" /\ a \in IdsOf(o)
    BY <1>3 DEF Active
  <1>6. PICK f : f = [a \in AllocationIds |-> DeallocatePosting(a)]
    OBVIOUS
  <1>7. OfKind(f, "DEALLOCATE", ids)
    BY <1>6, PostingOfAllocation DEF OfKind, StockInv, PostingsOf
  <1>8. Posts(AllOf({f[a] : a \in ids}))
    <2>1. {f[a] : a \in ids} = {DeallocatePosting(a) : a \in Active(o)}
      BY <1>3, <1>6
    <2> QED
      BY <1>1, <2>1
  <1>9. \A a \in ids : ~Made("DEALLOCATE", a)
    BY <1>5 DEF StockInv, Booked
  <1>10. /\ LedgerKept(Inventory)' /\ PostingsKnown'
         /\ \A k, x : Made(k, x)' <=> Made(k, x) \/ (k = "DEALLOCATE" /\ x \in ids)
    BY <1>4, <1>7, <1>8, <1>9, CommandKeeps
  <1>11. ASSUME NEW a \in AllocationIds
         PROVE  Booked(a)'
    <2>1. Booked(a)
      BY DEF StockInv
    <2>2. VoidsOf(a)' = VoidsOf(a)
      BY <1>10 DEF VoidsOf
    <2>3. /\ ShippedAndVoided(a)' <=> ShippedAndVoided(a)
          /\ allocations'[a].status = "NONE" <=> allocations[a].status = "NONE"
          /\ allocations'[a].status = "RELEASED" <=> allocations[a].status = "RELEASED" \/ a \in ids
          /\ allocations'[a].status = "FULFILLED" <=> allocations[a].status = "FULFILLED"
      BY <1>1, <1>4, <1>5 DEF ShippedAndVoided, Voided
    <2>4. /\ Made("ALLOCATE", a)' <=> Made("ALLOCATE", a)
          /\ Made("DEALLOCATE", a)' <=> Made("DEALLOCATE", a) \/ a \in ids
          /\ Made("SHIP", a)' <=> Made("SHIP", a)
      BY <1>10
    <2> QED
      BY <2>1, <2>2, <2>3, <2>4 DEF Booked
  <1>12. QuantitiesKept' /\ \A i : ItemQuantity(i)' = ItemQuantity(i)
    BY <1>4, QuantitiesStay DEF StockInv
  <1>13. Progress(o)'
    <2>1. Progress(o) /\ status[o] \in Open \cup Reserving
      BY <1>2 DEF StockInv, Open, Reserving, Shipped, Statuses
    <2>2. \A a \in IdsOf(o) : allocations[a].status \in {"NONE", "ACTIVE"}
      BY <2>1 DEF Progress, AllocationStatusIn, Open, Reserving
    <2>3. \A a \in IdsOf(o) : allocations'[a].status \in {"NONE", "RELEASED"}
      BY <1>3, <1>4, <2>2 DEF Active, IdsOf
    <2>4. shipments[o].status \in {"NONE", "VOIDED"}
      BY <1>2, <2>1 DEF Progress
    <2> QED
      BY <1>1, <1>2, <2>3, <2>4 DEF Progress, AllocationStatusIn, Open, Reserving, Shipped
  <1>14. \A p \in Orders : Progress(p)'
    <2>1. \A a \in AllocationIds \ IdsOf(o) : allocations'[a].status = allocations[a].status
      BY <1>4, <1>5
    <2> QED
      BY <1>1, <1>2, <1>12, <1>13, <2>1, OthersProgress
  <1> QED
    BY <1>10, <1>11, <1>12, <1>14 DEF StockInv

\* What shipping leaves of the stock, when the stock of the order was never relieved, and when it was and was put back.
LEMMA RelievesPosts ==
    ASSUME StockInv, SalesInv, NEW o \in Orders, Relieves(o)
    PROVE  /\ LedgerKept(Inventory)' /\ PostingsKnown'
           /\ \A k, x : Made(k, x)' <=> Made(k, x) \/ (k = "SHIP" /\ x \in Active(o))
           /\ \A a \in AllocationIds :
                /\ allocations'[a].quantity = allocations[a].quantity
                /\ allocations'[a].status = IF a \in Active(o) THEN "FULFILLED" ELSE allocations[a].status
  <1>1. Posts(AllOf({ShipPosting(a) : a \in Active(o)})) /\ ActiveBecome(o, "FULFILLED")
    BY DEF Relieves
  <1>2. PICK ids \in SUBSET AllocationIds : ids = Active(o)
    BY DEF Active, IdsOf
  <1>3. \A a \in AllocationIds :
           /\ allocations'[a].quantity = allocations[a].quantity
           /\ allocations'[a].status = IF a \in ids THEN "FULFILLED" ELSE allocations[a].status
    BY <1>1, <1>2, ActiveBecomeIs
  <1>4. \A a \in ids : allocations[a].status = "ACTIVE" /\ a \in IdsOf(o) /\ OrderOf(a) = o
    BY <1>2, OrderOfIs DEF Active
  <1>5. PICK f : f = [a \in AllocationIds |-> ShipPosting(a)]
    OBVIOUS
  <1>6. OfKind(f, "SHIP", ids)
    BY <1>5, PostingOfAllocation DEF OfKind, StockInv, PostingsOf
  <1>7. Posts(AllOf({f[a] : a \in ids}))
    <2>1. {f[a] : a \in ids} = {ShipPosting(a) : a \in Active(o)}
      BY <1>2, <1>5
    <2> QED
      BY <1>1, <2>1
  <1>8. CASE ~Voided(o)
    <2>1. \A a \in ids : ~Made("SHIP", a)
      BY <1>4, <1>8 DEF StockInv, Booked, ShippedAndVoided
    <2>2. /\ LedgerKept(Inventory)' /\ PostingsKnown'
          /\ \A k, x : Made(k, x)' <=> Made(k, x) \/ (k = "SHIP" /\ x \in ids)
      BY <1>3, <1>6, <1>7, <2>1, CommandKeeps
    <2> QED
      BY <1>2, <1>3, <2>2
  <1>9. CASE Voided(o)
    <2>1. \A a \in ids : Made("SHIP", a)
      BY <1>4, <1>9 DEF StockInv, Booked, ShippedAndVoided
    <2>2. UNCHANGED <<stock, posted>>
      <3>1. \A a \in ids : Taken(posted, f[a].key)
        BY <1>6, <2>1 DEF OfKind, Made
      <3> QED
        BY <1>7, <3>1, RepeatsOfAllocations
    <2>3. LedgerKept(Inventory)'
      BY <2>2, LedgerStays DEF StockInv
    <2>4. PostingsKnown'
      <3>1. PICK new : new = {p \in posted : p \notin posted}
        OBVIOUS
      <3>2. \A p : p \notin new
        BY <3>1
      <3>3. posted' = posted \cup new /\ \A p \in new : FALSE
        BY <2>2, <3>2
      <3> QED
        BY <1>3, <3>3, KnownGrows DEF StockInv
    <2>5. \A k, x : Made(k, x)' <=> Made(k, x)
      BY <2>2 DEF Made
    <2> QED
      BY <1>2, <1>3, <2>1, <2>3, <2>4, <2>5
  <1> QED
    BY <1>8, <1>9

\* An order that ships relieves its stock, or, shipped again after a void, finds it relieved already.
LEMMA ShippingStock ==
    ASSUME StockInv, SalesInv, NEW o \in Orders, Relieves(o), status[o] \in Reserving, status'[o] = "SHIPPED",
           \A p \in Orders \ {o} : status'[p] = status[p] /\ shipments'[p] = shipments[p],
           \/ shipments'[o].status = shipments[o].status
           \/ shipments[o].status = "NONE" /\ shipments'[o].status = "POSTED"
    PROVE  StockInv'
  <1>1. /\ LedgerKept(Inventory)' /\ PostingsKnown'
        /\ \A k, x : Made(k, x)' <=> Made(k, x) \/ (k = "SHIP" /\ x \in Active(o))
        /\ \A a \in AllocationIds :
             /\ allocations'[a].quantity = allocations[a].quantity
             /\ allocations'[a].status = IF a \in Active(o) THEN "FULFILLED" ELSE allocations[a].status
    BY RelievesPosts
  <1>2. \A a \in Active(o) : allocations[a].status = "ACTIVE" /\ a \in IdsOf(o)
    BY DEF Active
  <1>3. \A p \in Orders : Voided(p)' <=> Voided(p)
    BY DEF Voided
  <1>4. ASSUME NEW a \in AllocationIds
        PROVE  Booked(a)'
    <2>1. Booked(a)
      BY DEF StockInv
    <2>2. VoidsOf(a)' = VoidsOf(a)
      BY <1>1 DEF VoidsOf
    <2>3. Voided(OrderOf(a))' <=> Voided(OrderOf(a))
      BY <1>3, OrderOfIs
    <2>4. /\ ShippedAndVoided(a)' <=> ShippedAndVoided(a)
          /\ allocations'[a].status = "NONE" <=> allocations[a].status = "NONE"
          /\ allocations'[a].status = "RELEASED" <=> allocations[a].status = "RELEASED"
          /\ allocations'[a].status = "FULFILLED" <=> allocations[a].status = "FULFILLED" \/ a \in Active(o)
      BY <1>1, <1>2, <2>3 DEF ShippedAndVoided
    <2>5. /\ Made("ALLOCATE", a)' <=> Made("ALLOCATE", a)
          /\ Made("DEALLOCATE", a)' <=> Made("DEALLOCATE", a)
          /\ Made("SHIP", a)' <=> Made("SHIP", a) \/ a \in Active(o)
      BY <1>1
    <2> QED
      BY <2>1, <2>2, <2>4, <2>5 DEF Booked
  <1>5. QuantitiesKept' /\ \A i : ItemQuantity(i)' = ItemQuantity(i)
    <2>1. \A a \in AllocationIds : /\ allocations'[a].quantity = allocations[a].quantity
                                   /\ allocations'[a].status = "NONE" => allocations[a].status = "NONE"
      BY <1>1
    <2> QED
      BY <2>1, QuantitiesStay DEF StockInv
  <1>6. Progress(o)'
    <2>1. Progress(o)
      BY DEF StockInv
    <2>2. \A a \in IdsOf(o) : allocations[a].status \in {"NONE", "ACTIVE"}
      BY <2>1 DEF Progress, AllocationStatusIn, Open, Reserving
    <2>3. \A a \in IdsOf(o) : allocations'[a].status \in {"NONE", "FULFILLED"}
      BY <1>1, <2>2 DEF Active, IdsOf
    <2>4. shipments'[o].status \in {"NONE", "POSTED", "VOIDED"}
      BY <2>1 DEF Progress
    <2>5. \A i \in ToSet(ItemsOf[o]) : ItemQuantity(i)' = Ordered[i]
      BY <1>5, <2>1 DEF Progress
    <2> QED
      BY <2>3, <2>4, <2>5 DEF Progress, AllocationStatusIn, Open, Reserving, Shipped
  <1>7. \A p \in Orders : Progress(p)'
    <2>1. \A a \in AllocationIds \ IdsOf(o) : allocations'[a].status = allocations[a].status
      BY <1>1, <1>2
    <2> QED
      BY <1>5, <1>6, <2>1, OthersProgress
  <1> QED
    BY <1>1, <1>4, <1>5, <1>7 DEF StockInv

\* updateStatus ships an order so.
LEMMA ShipStock ==
    ASSUME StockInv, SalesInv, NEW o \in Orders, Ship(o)
    PROVE  StockInv'
  <1>1. Moves(o, "SHIPPED") /\ Relieves(o) /\ UNCHANGED shipments
    BY DEF Ship, Moves
  <1>2. status[o] \in Reserving /\ status'[o] = "SHIPPED" /\ \A p \in Orders \ {o} : status'[p] = status[p]
    BY <1>1, MovesKeeps, Transitions DEF Reserving
  <1> QED
    BY <1>1, <1>2, ShippingStock

\* And so does ShipmentService.post.
LEMMA PostShipmentStock ==
    ASSUME StockInv, SalesInv, NEW o \in Orders, NEW key \in Tokens, PostShipment(o, key)
    PROVE  StockInv'
  <1>1. /\ status[o] = "PACKED" /\ shipments[o] = NoShipment /\ Relieves(o)
        /\ status' = [status EXCEPT ![o] = "SHIPPED"]
        /\ shipments' = [shipments EXCEPT ![o] = [status |-> "POSTED", key |-> key]]
    BY DEF PostShipment
  <1>2. status \in [Orders -> Statuses] /\ shipments = [p \in Orders |-> shipments[p]]
    BY DEF SalesInv, RowsSound
  <1>3. status'[o] = "SHIPPED" /\ shipments[o].status = "NONE" /\ shipments'[o].status = "POSTED"
    BY <1>1, <1>2 DEF NoShipment
  <1>4. \A p \in Orders \ {o} : status'[p] = status[p] /\ shipments'[p] = shipments[p]
    BY <1>1, <1>2
  <1> QED
    BY <1>1, <1>3, <1>4, ShippingStock DEF Reserving

\* The movements that voiding a shipment reverses are the shipments of the fulfilled allocations.
LEMMA ToReverseIs ==
    ASSUME StockInv, SalesInv, NEW o \in Orders, shipments[o].status = "POSTED",
           NEW ids, ids = {a \in IdsOf(o) : allocations[a].status = "FULFILLED"}
    PROVE  ToReverse(o) = {ShipPosting(a) : a \in ids} /\ \A a \in ids : VoidsOf(a) = {}
  <1>1. \A a \in IdsOf(o) : a \in AllocationIds /\ ~ShippedAndVoided(a)
    BY OrderOfIs DEF ShippedAndVoided, Voided, IdsOf
  <1>2. \A a \in ids : VoidsOf(a) = {}
    BY <1>1 DEF StockInv, Booked
  <1>3. PostingsKnown /\ QuantitiesKept
    BY DEF StockInv
  <1>4. ASSUME NEW m \in ToReverse(o)
        PROVE  m \in {ShipPosting(a) : a \in ids}
    <2>1. m \in posted /\ m.type = "SHIPMENT" /\ m.key.client \in IdsOf(o)
      BY DEF ToReverse
    <2>2. PICK a \in AllocationIds : m = ShipPosting(a) /\ m.key = Key("SHIP", a, 0)
      BY <1>3, <2>1, ShipmentsKnown
    <2>3. a \in IdsOf(o)
      <3>1. Key("SHIP", a, 0).client = a
        BY DEF Key
      <3> QED
        BY <2>1, <2>2, <3>1
    <2>4. Made("SHIP", a)
      BY <2>1, <2>2 DEF Made, Taken
    <2>5. allocations[a].status = "FULFILLED"
      BY <1>1, <2>3, <2>4 DEF StockInv, Booked
    <2> QED
      BY <2>2, <2>3, <2>5
  <1>5. ASSUME NEW a \in ids
        PROVE  ShipPosting(a) \in ToReverse(o)
    <2>1. a \in IdsOf(o) /\ a \in AllocationIds /\ allocations[a].status = "FULFILLED"
      BY <1>1
    <2>2. Made("SHIP", a)
      BY <2>1 DEF StockInv, Booked
    <2>3. PICK p \in posted : p.key = Key("SHIP", a, 0)
      BY <2>2 DEF Made, Taken
    <2>4. PICK q \in Int : q = allocations[a].quantity
      BY <2>1 DEF StockInv, QuantitiesKept
    <2>5. p = Shipping(a, q) /\ ShipPosting(a) = Shipping(a, q)
      BY <1>3, <2>1, <2>3, <2>4, KnownByKey, PostingsAre
    <2>6. p.type = "SHIPMENT"
      BY <2>1, <2>5, PostingFields
    <2>7. p.key.client = a
      BY <2>3 DEF Key
    <2>8. ~ReversedIn(posted, p.key)
      <3> SUFFICES ASSUME NEW r \in posted, r.reversalOf = Key("SHIP", a, 0) PROVE FALSE
        BY <2>3 DEF ReversedIn
      <3>1. PICK key \in Tokens : r.key = Key("SHIPMENT_VOID", <<key, a>>, 0)
        BY <1>3, <2>1, ShipmentsKnown
      <3>2. key \in VoidsOf(a)
        BY <3>1 DEF VoidsOf, Made, Taken
      <3> QED
        BY <1>2, <3>2
    <2>9. p \in ToReverse(o)
      BY <2>1, <2>6, <2>7, <2>8 DEF ToReverse
    <2> QED
      BY <2>5, <2>9
  <1> QED
    BY <1>2, <1>4, <1>5

\* Voiding posts the reversals of these, under keys that name the void and the allocation.
LEMMA VoidPosts ==
    ASSUME StockInv, SalesInv, NEW o \in Orders, NEW key \in Tokens, VoidShipment(o, key),
           NEW ids, ids = {a \in IdsOf(o) : allocations[a].status = "FULFILLED"},
           \A a \in AllocationIds : allocations'[a].quantity = allocations[a].quantity
    PROVE  /\ LedgerKept(Inventory)' /\ PostingsKnown'
           /\ \A k, x : Made(k, x)' <=> Made(k, x) \/ (k = "SHIPMENT_VOID" /\ x \in {<<key, a>> : a \in ids})
  <1>1. shipments[o].status = "POSTED" /\ Posts(AllOf({VoidPosting(m, key) : m \in ToReverse(o)}))
    BY DEF VoidShipment
  <1>2. ToReverse(o) = {ShipPosting(a) : a \in ids} /\ \A a \in ids : VoidsOf(a) = {}
    BY <1>1, ToReverseIs
  <1>3. ids \in SUBSET AllocationIds
    BY DEF IdsOf
  <1>4. PICK f : f = [a \in AllocationIds |-> VoidOf(a, key)]
    OBVIOUS
  <1>5. Posts(AllOf({f[a] : a \in ids}))
    <2>1. {f[a] : a \in ids} = {VoidOf(a, key) : a \in ids}
      BY <1>3, <1>4
    <2>2. {VoidOf(a, key) : a \in ids} = {VoidPosting(m, key) : m \in ToReverse(o)}
      BY <1>2 DEF VoidOf
    <2> QED
      BY <1>1, <2>1, <2>2
  <1>6. \A a \in ids : /\ f[a].key = Key("SHIPMENT_VOID", <<key, a>>, 0) /\ Formed(f[a])
                       /\ f[a] \in PostingsOf(a)
    BY <1>3, <1>4, PostingOfAllocation DEF StockInv, PostingsOf
  <1>7. \A a \in ids : ~Taken(posted, f[a].key)
    BY <1>2, <1>6 DEF VoidsOf, Made
  <1>8. \A a, b \in ids : f[a].key = f[b].key => a = b
    <2> SUFFICES ASSUME NEW a \in ids, NEW b \in ids, f[a].key = f[b].key PROVE a = b
      OBVIOUS
    <2>1. Key("SHIPMENT_VOID", <<key, a>>, 0) = Key("SHIPMENT_VOID", <<key, b>>, 0)
      BY <1>6
    <2>2. <<key, a>> = <<key, b>>
      BY <2>1, KeysEqual
    <2> QED
      BY <2>2
  <1>9. posted' = posted \cup {f[a] : a \in ids} /\ LedgerKept(Inventory)'
    BY <1>3, <1>5, <1>6, <1>7, <1>8, PostsOfAllocations DEF StockInv
  <1>10. PICK new : new = {f[a] : a \in ids}
    OBVIOUS
  <1>11. posted' = posted \cup new
    BY <1>9, <1>10
  <1>12. PostingsKnown'
    <2>1. \A p \in new : \E a \in AllocationIds : p \in PostingsOf(a)
      BY <1>3, <1>6, <1>10
    <2> QED
      BY <1>11, <2>1, KnownGrows DEF StockInv
  <1>13. PICK clients : clients = {<<key, a>> : a \in ids}
    OBVIOUS
  <1>14. /\ \A p \in new : \E x \in clients : p.key = Key("SHIPMENT_VOID", x, 0)
         /\ \A x \in clients : \E p \in new : p.key = Key("SHIPMENT_VOID", x, 0)
    BY <1>6, <1>10, <1>13
  <1>15. \A k, x : Made(k, x)' <=> Made(k, x) \/ (k = "SHIPMENT_VOID" /\ x \in clients)
    BY <1>11, <1>14, MadeGrows
  <1> QED
    BY <1>9, <1>12, <1>13, <1>15

\* A voided shipment puts back what was shipped and makes the fulfilled allocations active.
LEMMA VoidShipmentStock ==
    ASSUME StockInv, SalesInv, NEW o \in Orders, NEW key \in Tokens, VoidShipment(o, key)
    PROVE  StockInv'
  <1>1. PICK ids : ids = {a \in IdsOf(o) : allocations[a].status = "FULFILLED"}
    OBVIOUS
  <1>2. /\ shipments[o].status = "POSTED"
        /\ allocations' = [a \in AllocationIds |->
              IF a \in ids THEN [allocations[a] EXCEPT !.status = "ACTIVE"] ELSE allocations[a]]
        /\ status' = [status EXCEPT ![o] = "PACKED"]
        /\ shipments' = [shipments EXCEPT ![o].status = "VOIDED"]
    BY <1>1 DEF VoidShipment
  <1>3. /\ status \in [Orders -> Statuses]
        /\ shipments = [p \in Orders |-> shipments[p]] /\ IsShipment(shipments[o])
        /\ \A a \in AllocationIds : IsAllocation(allocations[a])
    BY DEF SalesInv, RowsSound
  <1>4. \A a \in AllocationIds :
           /\ allocations'[a].quantity = allocations[a].quantity
           /\ allocations'[a].status = IF a \in ids THEN "ACTIVE" ELSE allocations[a].status
    <2> SUFFICES ASSUME NEW a \in AllocationIds
                 PROVE  /\ allocations'[a].quantity = allocations[a].quantity
                        /\ allocations'[a].status = IF a \in ids THEN "ACTIVE" ELSE allocations[a].status
      OBVIOUS
    <2>1. [allocations[a] EXCEPT !.status = "ACTIVE"].quantity = allocations[a].quantity
          /\ [allocations[a] EXCEPT !.status = "ACTIVE"].status = "ACTIVE"
      BY <1>3 DEF IsAllocation, AllocationFields
    <2>2. allocations'[a] = IF a \in ids THEN [allocations[a] EXCEPT !.status = "ACTIVE"] ELSE allocations[a]
      BY <1>2
    <2> QED
      BY <2>1, <2>2
  <1>5. /\ status'[o] = "PACKED" /\ shipments'[o].status = "VOIDED"
        /\ \A p \in Orders \ {o} : status'[p] = status[p] /\ shipments'[p] = shipments[p]
    BY <1>2, <1>3 DEF IsShipment
  <1>6. Progress(o) /\ status[o] \in Shipped /\ \A a \in IdsOf(o) : allocations[a].status \in {"NONE", "FULFILLED"}
    BY <1>2 DEF StockInv, Progress, AllocationStatusIn, Open, Reserving, Shipped
  <1>7. /\ LedgerKept(Inventory)' /\ PostingsKnown'
        /\ \A k, x : Made(k, x)' <=> Made(k, x) \/ (k = "SHIPMENT_VOID" /\ x \in {<<key, a>> : a \in ids})
    BY <1>1, <1>4, VoidPosts
  <1>8. ASSUME NEW a \in AllocationIds
        PROVE  Booked(a)'
    <2>1. Booked(a)
      BY DEF StockInv
    <2>2. /\ Made("ALLOCATE", a)' <=> Made("ALLOCATE", a)
          /\ Made("DEALLOCATE", a)' <=> Made("DEALLOCATE", a)
          /\ Made("SHIP", a)' <=> Made("SHIP", a)
      BY <1>7
    <2>3. \A x \in Tokens : Made("SHIPMENT_VOID", <<x, a>>)' <=>
                            Made("SHIPMENT_VOID", <<x, a>>) \/ (x = key /\ a \in ids)
      BY <1>7
    <2>4. CASE a \in ids
      <3>1. OrderOf(a) = o /\ allocations[a].status = "FULFILLED" /\ allocations'[a].status = "ACTIVE"
        BY <1>1, <1>4, <2>4, OrderOfIs
      <3>2. ~ShippedAndVoided(a) /\ ShippedAndVoided(a)'
        BY <1>2, <1>5, <3>1 DEF ShippedAndVoided, Voided
      <3>3. VoidsOf(a) = {}
        BY <2>1, <3>2 DEF Booked
      <3>4. VoidsOf(a)' = {key}
        BY <2>3, <2>4, <3>3 DEF VoidsOf
      <3> QED
        BY <2>1, <2>2, <3>1, <3>2, <3>4 DEF Booked
    <2>5. CASE a \notin ids
      <3>1. allocations'[a].status = allocations[a].status
        BY <1>4, <2>5
      <3>2. VoidsOf(a)' = VoidsOf(a)
        BY <2>3, <2>5 DEF VoidsOf
      <3>3. ShippedAndVoided(a)' <=> ShippedAndVoided(a)
        <4>1. CASE OrderOf(a) = o
          <5>1. allocations[a].status = "NONE"
            BY <1>1, <1>6, <2>5, <4>1, OrderOfIs
          <5> QED
            BY <3>1, <5>1 DEF ShippedAndVoided
        <4>2. CASE OrderOf(a) # o
          BY <1>5, <3>1, <4>2, OrderOfIs DEF ShippedAndVoided, Voided
        <4> QED
          BY <4>1, <4>2
      <3> QED
        BY <2>1, <2>2, <3>1, <3>2, <3>3 DEF Booked
    <2> QED
      BY <2>4, <2>5
  <1>9. QuantitiesKept' /\ \A i : ItemQuantity(i)' = ItemQuantity(i)
    <2>1. \A a \in AllocationIds : /\ allocations'[a].quantity = allocations[a].quantity
                                   /\ allocations'[a].status = "NONE" => allocations[a].status = "NONE"
      BY <1>4
    <2> QED
      BY <2>1, QuantitiesStay DEF StockInv
  <1>10. Progress(o)'
    <2>1. \A a \in IdsOf(o) : allocations'[a].status \in {"NONE", "ACTIVE"}
      BY <1>1, <1>4, <1>6 DEF IdsOf
    <2>2. \A i \in ToSet(ItemsOf[o]) : ItemQuantity(i)' = Ordered[i]
      BY <1>6, <1>9 DEF Progress
    <2> QED
      BY <1>5, <2>1, <2>2 DEF Progress, AllocationStatusIn, Open, Reserving, Shipped
  <1>11. \A p \in Orders : Progress(p)'
    <2>1. \A a \in AllocationIds \ IdsOf(o) : allocations'[a].status = allocations[a].status
      BY <1>1, <1>4
    <2> QED
      BY <1>5, <1>9, <1>10, <2>1, OthersProgress
  <1> QED
    BY <1>7, <1>8, <1>9, <1>11 DEF StockInv

\* What the allocation of an order takes, posts and writes.
Takings(o, taken) ==
    /\ taken \in [AllocationIds -> Nat]
    /\ \A a \in AllocationIds \ IdsOf(o) : taken[a] = 0
    /\ posted' = posted \cup ReservationsOf(taken)
    /\ \A i \in ToSet(ItemsOf[o]) : Amount(taken, i) = Ordered[i]
    /\ \A a \in AllocationIds :
         /\ allocations'[a].quantity = IF taken[a] > 0 THEN taken[a] ELSE allocations[a].quantity
         /\ allocations'[a].status = IF taken[a] > 0 THEN "ACTIVE" ELSE allocations[a].status

NothingMade(a) ==
    /\ allocations[a].status = "NONE" /\ allocations[a].quantity = 0
    /\ \A kind \in {"ALLOCATE", "DEALLOCATE", "SHIP"} : ~Made(kind, a)
    /\ VoidsOf(a) = {}

\* Nothing was posted of the allocations of an order before it is allocated.
LEMMA OpenIsUntouched ==
    ASSUME StockInv, NEW o \in Orders, status[o] \in Open
    PROVE  Active(o) = {} /\ ~Voided(o) /\ \A a \in IdsOf(o) : NothingMade(a)
  <1>1. Progress(o) /\ shipments[o].status = "NONE" /\ \A a \in IdsOf(o) : allocations[a].status = "NONE"
    BY DEF StockInv, Progress, AllocationStatusIn
  <1>2. Active(o) = {} /\ ~Voided(o)
    BY <1>1 DEF Active, Voided
  <1>3. ASSUME NEW a \in IdsOf(o)
        PROVE  NothingMade(a)
    <2>1. a \in AllocationIds /\ ~ShippedAndVoided(a)
      BY <1>1 DEF IdsOf, ShippedAndVoided
    <2>2. Booked(a) /\ allocations[a].quantity = 0
      BY <1>1, <2>1 DEF StockInv, QuantitiesKept
    <2> QED
      BY <1>1, <2>1, <2>2 DEF NothingMade, Booked
  <1> QED
    BY <1>2, <1>3

\* The command's result is the takings of the order.
LEMMA AllocateTakes ==
    ASSUME StockInv, SalesInv, NEW o \in Orders, Allocate(o), status[o] = "CONFIRMED"
    PROVE  LedgerKept(Inventory)' /\ \E taken : Takings(o, taken)
  <1>1. Active(o) = {} /\ \A a \in IdsOf(o) : NothingMade(a)
    BY OpenIsUntouched DEF Open
  <1>2. PICK result : result = Allocation(o)
    OBVIOUS
  <1>3. PICK inv : inv = Inventory
    OBVIOUS
  <1>4. LedgerKept(inv) /\ "ok" \in DOMAIN inv /\ inv.posted = posted
    BY <1>3 DEF StockInv, Inventory
  <1>5. result = FoldLeft(TakeItem, NothingTaken(inv), ItemsOf[o])
    BY <1>2, <1>3 DEF Allocation, NothingTaken
  <1>6. Free(inv.posted, IdsOf(o))
    BY <1>1, <1>4 DEF Free, NothingMade, Made
  <1>7. Between(result, inv.posted, ToSet(ItemsOf[o]))
    BY <1>4, <1>5, <1>6, OrderTakes
  <1>8. PICK taken : taken = result.taken
    OBVIOUS
  <1>9. IdsIn(ToSet(ItemsOf[o])) = IdsOf(o)
    BY DEF IdsIn, IdsOf
  <1>10. /\ LedgerKept(result.inv) /\ taken \in [AllocationIds -> Nat]
         /\ \A a \in AllocationIds \ IdsOf(o) : taken[a] = 0
         /\ result.inv.posted = posted \cup ReservationsOf(taken)
    BY <1>4, <1>7, <1>8, <1>9 DEF Between, TakenIsPosted
  <1>11. /\ result.inv.ok /\ stock' = result.inv.stock /\ posted' = result.inv.posted
         /\ allocations' = [a \in AllocationIds |->
               IF a \in IdsOf(o) /\ taken[a] > 0
               THEN [NoAllocation EXCEPT !.quantity = taken[a], !.status = "ACTIVE"] ELSE allocations[a]]
    BY <1>1, <1>2, <1>8 DEF Allocate, Posts
  <1>12. \A i \in ToSet(ItemsOf[o]) : Amount(taken, i) = Ordered[i]
    BY <1>7, <1>8, <1>11 DEF Between, Filled
  <1>13. \A a \in AllocationIds :
           /\ allocations'[a].quantity = IF taken[a] > 0 THEN taken[a] ELSE allocations[a].quantity
           /\ allocations'[a].status = IF taken[a] > 0 THEN "ACTIVE" ELSE allocations[a].status
    <2> SUFFICES ASSUME NEW a \in AllocationIds
                 PROVE  /\ allocations'[a].quantity = IF taken[a] > 0 THEN taken[a] ELSE allocations[a].quantity
                        /\ allocations'[a].status = IF taken[a] > 0 THEN "ACTIVE" ELSE allocations[a].status
      OBVIOUS
    <2>1. taken[a] \in Nat /\ (taken[a] > 0 => a \in IdsOf(o))
      BY <1>10
    <2>2. CASE taken[a] > 0
      <3>1. allocations'[a] = [NoAllocation EXCEPT !.quantity = taken[a], !.status = "ACTIVE"]
        BY <1>11, <2>1, <2>2
      <3> QED
        BY <2>2, <3>1 DEF NoAllocation
    <2>3. CASE ~(taken[a] > 0)
      <3>1. allocations'[a] = allocations[a]
        BY <1>11, <2>3
      <3> QED
        BY <2>3, <3>1
    <2> QED
      BY <2>2, <2>3
  <1>14. Takings(o, taken)
    BY <1>10, <1>11, <1>12, <1>13 DEF Takings
  <1>15. PICK new : new = result.inv
    OBVIOUS
  <1>16. LedgerKept(Inventory)'
    BY <1>10, <1>11, <1>15, LedgerOf
  <1> QED
    BY <1>14, <1>16

\* What was taken is posted under the keys of these allocations.
LEMMA TakingsMade ==
    ASSUME NEW o \in Orders, NEW taken, Takings(o, taken)
    PROVE  \A k, x : Made(k, x)' <=> Made(k, x) \/ (k = "ALLOCATE" /\ x \in {a \in AllocationIds : taken[a] > 0})
  <1>1. PICK clients : clients = {a \in AllocationIds : taken[a] > 0}
    OBVIOUS
  <1>2. PICK new : new = ReservationsOf(taken)
    OBVIOUS
  <1>3. \A a \in AllocationIds : AllocatePosting(a, taken[a]).key = Key("ALLOCATE", a, 0)
    BY AllocatePostingIs DEF Takings
  <1>4. /\ \A p \in new : \E x \in clients : p.key = Key("ALLOCATE", x, 0)
        /\ \A x \in clients : \E p \in new : p.key = Key("ALLOCATE", x, 0)
    BY <1>1, <1>2, <1>3 DEF ReservationsOf
  <1>5. posted' = posted \cup new
    BY <1>2 DEF Takings
  <1>6. \A k, x : Made(k, x)' <=> Made(k, x) \/ (k = "ALLOCATE" /\ x \in clients)
    BY ONLY <1>4, <1>5, MadeGrows
  <1> QED
    BY <1>1, <1>6

\* The reservations are of the quantities the allocations now have.
LEMMA TakingsKnown ==
    ASSUME StockInv, NEW o \in Orders, NEW taken, Takings(o, taken), \A a \in IdsOf(o) : NothingMade(a)
    PROVE  PostingsKnown'
  <1>1. ASSUME NEW p \in posted
        PROVE  \/ \E c \in Corrections : p = AdjustPosting(c)
               \/ \E a \in AllocationIds : p \in PostingsOf(a)'
    <2> SUFFICES ASSUME NEW a \in AllocationIds, p \in PostingsOf(a)
                 PROVE  p \in PostingsOf(a)'
      BY DEF StockInv, PostingsKnown
    <2>1. QuantitiesKept
      BY DEF StockInv
    <2>2. ReservedBy(a).key = Key("ALLOCATE", a, 0)
      BY <2>1, AllocatePostingIs DEF ReservedBy, QuantitiesKept
    <2>3. \/ \E kind \in {"ALLOCATE", "DEALLOCATE", "SHIP"} : p.key = Key(kind, a, 0)
          \/ \E key \in Tokens : p.key = Key("SHIPMENT_VOID", <<key, a>>, 0)
      BY <2>1, <2>2, PostingOfAllocation DEF PostingsOf
    <2>4. \/ \E kind \in {"ALLOCATE", "DEALLOCATE", "SHIP"} : Made(kind, a)
          \/ VoidsOf(a) # {}
      BY <2>3 DEF Made, Taken, VoidsOf
    <2>5. a \notin IdsOf(o)
      BY <2>4 DEF NothingMade
    <2>6. allocations'[a].quantity = allocations[a].quantity
      BY <2>5 DEF Takings
    <2> QED
      BY <2>6, PostingsOfSame
  <1>2. ASSUME NEW p \in ReservationsOf(taken)
        PROVE  \E a \in AllocationIds : p \in PostingsOf(a)'
    <2>1. PICK a \in AllocationIds : taken[a] > 0 /\ p = AllocatePosting(a, taken[a])
      BY DEF ReservationsOf
    <2>2. allocations'[a].quantity = taken[a]
      BY <2>1 DEF Takings
    <2>3. p = ReservedBy(a)'
      BY <2>1, <2>2 DEF ReservedBy, AllocatePosting
    <2> QED
      BY <2>3 DEF PostingsOf
  <1>3. posted' = posted \cup ReservationsOf(taken)
    BY DEF Takings
  <1>4. \A p \in posted' : \/ \E c \in Corrections : p = AdjustPosting(c)
                           \/ \E a \in AllocationIds : p \in PostingsOf(a)'
    BY <1>1, <1>2, <1>3
  <1> QED
    BY <1>4 DEF PostingsKnown

\* The quantities of the order's allocations are what was taken, and those of the others stay.
LEMMA TakingsFill ==
    ASSUME StockInv, NEW o \in Orders, NEW taken, Takings(o, taken), \A a \in IdsOf(o) : NothingMade(a)
    PROVE  /\ QuantitiesKept'
           /\ \A i \in ToSet(ItemsOf[o]) : ItemQuantity(i)' = Ordered[i]
           /\ \A p \in Orders \ {o} : \A i \in ToSet(ItemsOf[p]) : ItemQuantity(i)' = ItemQuantity(i)
  <1>1. \A a \in AllocationIds : taken[a] \in Nat /\ allocations[a].quantity \in Nat
    BY DEF Takings, StockInv, QuantitiesKept
  <1>2. QuantitiesKept'
    BY <1>1 DEF Takings, StockInv, QuantitiesKept
  <1>3. PICK old : old = [a \in AllocationIds |-> allocations[a].quantity]
    OBVIOUS
  <1>4. PICK new : new = [a \in AllocationIds |-> allocations'[a].quantity]
    OBVIOUS
  <1>5. \A i : IsFiniteSet(IdsOfItem(i)) /\ IdsOfItem(i) \subseteq AllocationIds
    BY AllocationIdsFinite, FS_Subset DEF IdsOfItem
  <1>6. \A i : ItemQuantity(i)' = SumFunctionOnSet(new, IdsOfItem(i))
    BY <1>4 DEF ItemQuantity
  <1>7. \A i : ItemQuantity(i) = SumFunctionOnSet(old, IdsOfItem(i))
    BY <1>3 DEF ItemQuantity
  <1>8. ASSUME NEW i \in ToSet(ItemsOf[o])
        PROVE  ItemQuantity(i)' = Ordered[i]
    <2>1. \A a \in IdsOfItem(i) : new[a] = taken[a]
      <3> SUFFICES ASSUME NEW a \in IdsOfItem(i) PROVE new[a] = taken[a]
        OBVIOUS
      <3>1. a \in IdsOf(o) /\ a \in AllocationIds
        BY DEF IdsOfItem, IdsOf
      <3>2. allocations[a].quantity = 0 /\ taken[a] \in Nat
        BY <1>1, <3>1 DEF NothingMade
      <3>3. allocations'[a].quantity = IF taken[a] > 0 THEN taken[a] ELSE 0
        BY <3>1, <3>2 DEF Takings
      <3> QED
        BY <1>4, <3>1, <3>2, <3>3
    <2>2. IntegersOn(taken, IdsOfItem(i))
      BY <1>1, <1>5 DEF IntegersOn
    <2>3. SumFunctionOnSet(new, IdsOfItem(i)) = Amount(taken, i)
      BY <1>5, <2>1, <2>2, SumsAgree DEF Amount
    <2> QED
      BY <1>6, <2>3 DEF Takings
  <1>9. ASSUME NEW p \in Orders \ {o}, NEW i \in ToSet(ItemsOf[p])
        PROVE  ItemQuantity(i)' = ItemQuantity(i)
    <2>1. \A a \in IdsOfItem(i) : new[a] = old[a]
      <3> SUFFICES ASSUME NEW a \in IdsOfItem(i) PROVE new[a] = old[a]
        OBVIOUS
      <3>1. a \in IdsOf(p) /\ a \in AllocationIds
        BY DEF IdsOfItem, IdsOf
      <3>2. a \notin IdsOf(o)
        BY <3>1, IdsAreOfOneOrder
      <3>3. allocations'[a].quantity = allocations[a].quantity
        BY <3>1, <3>2 DEF Takings
      <3> QED
        BY <1>3, <1>4, <3>1, <3>3
    <2>2. IntegersOn(old, IdsOfItem(i))
      BY <1>1, <1>3, <1>5 DEF IntegersOn
    <2>3. SumFunctionOnSet(new, IdsOfItem(i)) = SumFunctionOnSet(old, IdsOfItem(i))
      BY <1>5, <2>1, <2>2, SumsAgree
    <2> QED
      BY <1>6, <1>7, <2>3
  <1> QED
    BY <1>2, <1>8, <1>9

\* An allocation reserves for every item of the order what was ordered.
LEMMA AllocateStock ==
    ASSUME StockInv, SalesInv, NEW o \in Orders, Allocate(o)
    PROVE  StockInv'
  <1>1. Moves(o, "ALLOCATED") /\ UNCHANGED shipments
    BY DEF Allocate, Moves
  <1>2. status[o] = "CONFIRMED" /\ status'[o] = "ALLOCATED" /\ \A p \in Orders \ {o} : status'[p] = status[p]
    BY <1>1, MovesKeeps, Transitions
  <1>3. ~Voided(o) /\ shipments[o].status = "NONE" /\ \A a \in IdsOf(o) : NothingMade(a)
    BY <1>2, OpenIsUntouched DEF Open, StockInv, Progress
  <1>4. PICK taken : LedgerKept(Inventory)' /\ Takings(o, taken)
    BY <1>2, AllocateTakes
  <1>5. PostingsKnown'
    BY <1>3, <1>4, TakingsKnown
  <1>6. /\ QuantitiesKept'
        /\ \A i \in ToSet(ItemsOf[o]) : ItemQuantity(i)' = Ordered[i]
        /\ \A p \in Orders \ {o} : \A i \in ToSet(ItemsOf[p]) : ItemQuantity(i)' = ItemQuantity(i)
    BY <1>3, <1>4, TakingsFill
  <1>7. \A k, x : Made(k, x)' <=> Made(k, x) \/ (k = "ALLOCATE" /\ x \in {a \in AllocationIds : taken[a] > 0})
    BY <1>4, TakingsMade
  <1>8. ASSUME NEW a \in AllocationIds
        PROVE  Booked(a)'
    <2>1. Booked(a)
      BY DEF StockInv
    <2>2. VoidsOf(a)' = VoidsOf(a)
      BY <1>7 DEF VoidsOf
    <2>3. /\ Made("ALLOCATE", a)' <=> Made("ALLOCATE", a) \/ taken[a] > 0
          /\ Made("DEALLOCATE", a)' <=> Made("DEALLOCATE", a)
          /\ Made("SHIP", a)' <=> Made("SHIP", a)
      BY <1>7
    <2>4. CASE taken[a] > 0
      <3>1. a \in IdsOf(o) /\ allocations'[a].status = "ACTIVE"
        BY <1>4, <2>4 DEF Takings
      <3>2. ~ShippedAndVoided(a)'
        BY <1>1, <1>3, <3>1, OrderOfIs DEF ShippedAndVoided, Voided
      <3>3. NothingMade(a)
        BY <1>3, <3>1
      <3> QED
        BY <2>2, <2>3, <2>4, <3>1, <3>2, <3>3 DEF Booked, NothingMade
    <2>5. CASE ~(taken[a] > 0)
      <3>1. allocations'[a].status = allocations[a].status
        BY <1>4, <2>5 DEF Takings
      <3>2. ShippedAndVoided(a)' <=> ShippedAndVoided(a)
        BY <1>1, <3>1 DEF ShippedAndVoided, Voided
      <3> QED
        BY <2>1, <2>2, <2>3, <2>5, <3>1, <3>2 DEF Booked
    <2> QED
      BY <2>4, <2>5
  <1>9. Progress(o)'
    <2>1. \A a \in IdsOf(o) : allocations'[a].status \in {"NONE", "ACTIVE"}
      BY <1>3, <1>4 DEF NothingMade, Takings, IdsOf
    <2> QED
      BY <1>1, <1>2, <1>3, <1>6, <2>1 DEF Progress, AllocationStatusIn, Open, Reserving, Shipped
  <1>10. ASSUME NEW p \in Orders \ {o}
         PROVE  Progress(p)'
    <2>1. \A a \in IdsOf(p) : allocations'[a].status = allocations[a].status
      <3> SUFFICES ASSUME NEW a \in IdsOf(p) PROVE allocations'[a].status = allocations[a].status
        OBVIOUS
      <3>1. a \in AllocationIds \ IdsOf(o)
        BY IdsAreOfOneOrder DEF IdsOf
      <3>2. ~(taken[a] > 0)
        BY <1>4, <3>1 DEF Takings
      <3> QED
        BY <1>4, <3>1, <3>2 DEF Takings
    <2>2. Progress(p)
      BY DEF StockInv
    <2> QED
      BY <1>1, <1>2, <1>6, <2>1, <2>2, ProgressStays
  <1> QED
    BY <1>4, <1>5, <1>6, <1>8, <1>9, <1>10 DEF StockInv

\* At first the rows are what was stocked and the ledger is empty.
LEMMA InitStock == Init => StockInv
  <1> SUFFICES ASSUME Init PROVE StockInv
    OBVIOUS
  <1>1. /\ stock = [b \in Balances |-> After(ZERO, OnHand(Stocked[b]))] /\ posted = {}
        /\ status = [o \in Orders |-> "DRAFT"]
        /\ \A a \in AllocationIds : allocations[a].status = "NONE" /\ allocations[a].quantity = 0
        /\ \A o \in Orders : shipments[o].status = "NONE"
    BY DEF Init, NoAllocation, NoShipment
  <1>2. ASSUME NEW b \in Balances
        PROVE  /\ stock[b] \in Quantities /\ stock[b].allocated = 0 /\ stock[b].onHand = Stocked[b]
               /\ Stocked[b] \in Int
    <2>1. PICK n \in Nat : n = Stocked[b]
      BY QuantitiesAssumption
    <2>2. ZERO \in Quantities /\ ZERO.allocated = 0 /\ ZERO.onHand = 0
      BY DEF ZERO, Quantities
    <2>3. OnHand(n) \in Deltas /\ OnHand(n).allocated = 0 /\ OnHand(n).onHand = n
      BY DeltaFields
    <2>4. /\ After(ZERO, OnHand(n)) \in Quantities /\ After(ZERO, OnHand(n)).allocated = 0
          /\ After(ZERO, OnHand(n)).onHand = n
      BY <2>2, <2>3, AfterFields
    <2> QED
      BY <1>1, <2>1, <2>4
  <1>3. \A b, field : Total(posted, b, field) = 0
    <2>1. \A b : PostedAt(posted, b) = {}
      BY <1>1 DEF PostedAt
    <2> QED
      BY <2>1, SumOfNone DEF Total
  <1>4. LedgerKept(Inventory)
    <2>1. Inventory.stock = stock /\ Inventory.posted = posted
      BY DEF Inventory
    <2>2. stock \in [Balances -> Quantities]
      BY <1>1, <1>2
    <2>3. IsFiniteSet(posted) /\ \A p \in posted : Formed(p)
      BY <1>1, FS_EmptySet
    <2> QED
      BY <1>2, <1>3, <2>1, <2>2, <2>3 DEF LedgerKept
  <1>5. PostingsKnown /\ QuantitiesKept
    BY <1>1 DEF PostingsKnown, QuantitiesKept
  <1>6. \A k, x : ~Made(k, x)
    BY <1>1 DEF Made, Taken
  <1>7. \A a \in AllocationIds : Booked(a)
    BY <1>1, <1>6 DEF Booked, ShippedAndVoided, VoidsOf
  <1>8. \A o \in Orders : Progress(o)
    BY <1>1 DEF Progress, AllocationStatusIn, Open, Reserving, Shipped, IdsOf
  <1> QED
    BY <1>4, <1>5, <1>7, <1>8 DEF StockInv

\* Every step keeps the invariant of stock.
LEMMA NextStock == StockInv /\ SalesInv /\ [Next]_vars => StockInv'
  <1> SUFFICES ASSUME StockInv, SalesInv, [Next]_vars PROVE StockInv'
    OBVIOUS
  <1>1. ASSUME NEW o \in Orders, UpdateStatus(o) PROVE StockInv'
    BY <1>1, AllocateStock, CancelStock, ShipStock, AdvanceStock DEF UpdateStatus
  <1>2. ASSUME NEW a \in AllocationIds, NEW u \in Operators, Fulfil(a, u) PROVE StockInv'
    BY <1>2, FulfilStock
  <1>3. ASSUME NEW o \in Orders, NEW key \in Tokens, PostShipment(o, key) \/ VoidShipment(o, key) PROVE StockInv'
    BY <1>3, PostShipmentStock, VoidShipmentStock
  <1>4. ASSUME NEW c \in Corrections, Correct(c) PROVE StockInv'
    BY <1>4, CorrectStock
  <1>5. CASE UNCHANGED vars
    <2>1. UNCHANGED <<stock, posted, status, shipments, allocations>>
      BY <1>5 DEF vars
    <2>2. \A o \in Orders : SameGroup(status[o], status'[o])
      BY <2>1 DEF SameGroup
    <2> QED
      BY <2>1, <2>2, StatusOnly
  <1> QED
    BY <1>1, <1>2, <1>3, <1>4, <1>5 DEF Next

----------------------------------------------------------------------------
(* The quantities of the allocations of an item.                           *)

\* QuantityWith as a sum over all the allocations, where the others count for nothing.
LEMMA WantedQuantity ==
    ASSUME QuantitiesKept, NEW ids \in SUBSET AllocationIds, NEW wanted, NEW g,
           \A a \in ids : g[a] = IF allocations[a].status \in wanted THEN allocations[a].quantity ELSE 0
    PROVE  QuantityWith(ids, wanted) = SumFunctionOnSet(g, ids)
  <1>1. PICK f : f = [a \in ids |-> allocations[a].quantity]
    OBVIOUS
  <1>2. PICK R : R = {a \in ids : allocations[a].status \in wanted}
    OBVIOUS
  <1>3. R \in SUBSET ids /\ IsFiniteSet(ids)
    BY <1>2, AllocationIdsFinite, FS_Subset
  <1>4. \A a \in R : f[a] \in Int /\ g[a] = f[a]
    BY <1>1, <1>2 DEF QuantitiesKept
  <1>5. \A a \in ids \ R : g[a] = 0
    BY <1>2
  <1>6. SumFunctionOnSet(g, ids) = SumFunctionOnSet(f, R)
    BY <1>3, <1>4, <1>5, SumOfSelected DEF IntegersOn
  <1>7. QuantityWith(ids, wanted) = SumFunctionOnSet(f, R)
    BY <1>1, <1>2 DEF QuantityWith
  <1> QED
    BY <1>6, <1>7

\* The allocations of an item that are all in one status, or none of them.
LEMMA AllOrNone ==
    ASSUME QuantitiesKept, NEW i, NEW wanted
    PROVE  /\ (\A a \in IdsOfItem(i) : allocations[a].status \in {"NONE", wanted}) =>
                  QuantityWith(IdsOfItem(i), {wanted}) = ItemQuantity(i)
           /\ (\A a \in IdsOfItem(i) : allocations[a].status # wanted) =>
                  QuantityWith(IdsOfItem(i), {wanted}) = 0
  <1>1. IdsOfItem(i) \in SUBSET AllocationIds /\ IsFiniteSet(IdsOfItem(i))
    BY AllocationIdsFinite, FS_Subset DEF IdsOfItem
  <1>2. PICK g : g = [a \in AllocationIds |-> allocations[a].quantity]
    OBVIOUS
  <1>3. ASSUME \A a \in IdsOfItem(i) : allocations[a].status \in {"NONE", wanted}
        PROVE  QuantityWith(IdsOfItem(i), {wanted}) = ItemQuantity(i)
    <2>1. \A a \in IdsOfItem(i) : g[a] = IF allocations[a].status \in {wanted} THEN allocations[a].quantity ELSE 0
      BY <1>1, <1>2, <1>3 DEF QuantitiesKept
    <2>2. PICK ids \in SUBSET AllocationIds : ids = IdsOfItem(i)
      BY <1>1
    <2>3. PICK w : w = {wanted}
      OBVIOUS
    <2>4. QuantityWith(ids, w) = SumFunctionOnSet(g, ids)
      BY <2>1, <2>2, <2>3, WantedQuantity
    <2> QED
      BY <1>2, <2>2, <2>3, <2>4 DEF ItemQuantity
  <1>4. ASSUME \A a \in IdsOfItem(i) : allocations[a].status # wanted
        PROVE  QuantityWith(IdsOfItem(i), {wanted}) = 0
    <2>1. PICK h : h = [a \in AllocationIds |-> 0]
      OBVIOUS
    <2>2. PICK ids \in SUBSET AllocationIds : ids = IdsOfItem(i)
      BY <1>1
    <2>3. PICK w : w = {wanted}
      OBVIOUS
    <2>4. \A a \in ids : h[a] = IF allocations[a].status \in w THEN allocations[a].quantity ELSE 0
      BY <1>4, <2>1, <2>2, <2>3
    <2>5. QuantityWith(ids, w) = SumFunctionOnSet(h, ids)
      BY <2>4, WantedQuantity
    <2>6. SumFunctionOnSet(h, ids) = 0
      BY <1>1, <2>1, <2>2, SumOfZeros
    <2> QED
      BY <2>2, <2>3, <2>5, <2>6
  <1> QED
    BY <1>3, <1>4

\* What the status of an order says of its allocations is AllocationsFollowStatus.
LEMMA StatusTells == StockInv /\ SalesInv => AllocationsFollowStatus
  <1> SUFFICES ASSUME StockInv, SalesInv, NEW o \in Orders, NEW i \in ToSet(ItemsOf[o])
               PROVE  /\ QuantityWith(IdsOfItem(i), {"ACTIVE"}) =
                           IF status[o] \in {"ALLOCATED", "PICKING", "PICKED", "PACKED"} THEN Ordered[i] ELSE 0
                      /\ QuantityWith(IdsOfItem(i), {"FULFILLED"}) =
                           IF status[o] \in {"SHIPPED", "DELIVERED", "CLOSED", "RETURNED"} THEN Ordered[i] ELSE 0
    BY DEF AllocationsFollowStatus
  <1>1. Progress(o) /\ QuantitiesKept /\ \A a \in IdsOfItem(i) : a \in IdsOf(o)
    BY DEF StockInv, IdsOfItem, IdsOf
  <1>2. \A a \in IdsOfItem(i) : allocations[a].status \in AllocationStatusIn(status[o])
    BY <1>1 DEF Progress
  <1>3. CASE status[o] \in Reserving
    <2>1. AllocationStatusIn(status[o]) = {"NONE", "ACTIVE"} /\ ItemQuantity(i) = Ordered[i]
      BY <1>1, <1>3 DEF AllocationStatusIn, Reserving, Open, Progress
    <2>2. /\ QuantityWith(IdsOfItem(i), {"ACTIVE"}) = Ordered[i]
          /\ QuantityWith(IdsOfItem(i), {"FULFILLED"}) = 0
      BY <1>1, <1>2, <2>1, AllOrNone
    <2> QED
      BY <1>3, <2>2 DEF Reserving
  <1>4. CASE status[o] \in Shipped
    <2>1. AllocationStatusIn(status[o]) = {"NONE", "FULFILLED"} /\ ItemQuantity(i) = Ordered[i]
      BY <1>1, <1>4 DEF AllocationStatusIn, Reserving, Open, Shipped, Progress
    <2>2. /\ QuantityWith(IdsOfItem(i), {"FULFILLED"}) = Ordered[i]
          /\ QuantityWith(IdsOfItem(i), {"ACTIVE"}) = 0
      BY <1>1, <1>2, <2>1, AllOrNone
    <2> QED
      BY <1>4, <2>2 DEF Shipped
  <1>5. CASE status[o] \notin Reserving \cup Shipped
    <2>1. AllocationStatusIn(status[o]) \subseteq {"NONE", "RELEASED"}
      BY <1>5 DEF AllocationStatusIn
    <2>2. \A a \in IdsOfItem(i) : allocations[a].status # "ACTIVE" /\ allocations[a].status # "FULFILLED"
      BY <1>2, <2>1
    <2>3. /\ QuantityWith(IdsOfItem(i), {"FULFILLED"}) = 0
          /\ QuantityWith(IdsOfItem(i), {"ACTIVE"}) = 0
      BY <1>1, <2>2, AllOrNone
    <2> QED
      BY <1>5, <2>3 DEF Reserving, Shipped
  <1> QED
    BY <1>3, <1>4, <1>5

----------------------------------------------------------------------------
(* What the movements of an allocation, and those of a balance, amount to. *)

\* The postings made of an allocation.
PostedOf(a) == posted \cap PostingsOf(a)

\* Which they are.
LEMMA PostedAre ==
    ASSUME StockInv, NEW a \in AllocationIds
    PROVE  /\ ReservedBy(a) \in posted <=> Made("ALLOCATE", a)
           /\ DeallocatePosting(a) \in posted <=> Made("DEALLOCATE", a)
           /\ ShipPosting(a) \in posted <=> Made("SHIP", a)
           /\ \A key \in Tokens : VoidOf(a, key) \in posted <=> key \in VoidsOf(a)
  <1>1. PostingsKnown /\ QuantitiesKept
    BY DEF StockInv
  <1>2. PICK q \in Int : q = allocations[a].quantity
    BY <1>1 DEF QuantitiesKept
  <1>3. /\ ReservedBy(a) = Reservation(a, q) /\ DeallocatePosting(a) = Release(a, q)
        /\ ShipPosting(a) = Shipping(a, q) /\ \A key : VoidOf(a, key) = Voiding(a, q, key)
    BY <1>2, PostingsAre
  <1>4. /\ Reservation(a, q).key = Key("ALLOCATE", a, 0) /\ Release(a, q).key = Key("DEALLOCATE", a, 0)
        /\ Shipping(a, q).key = Key("SHIP", a, 0)
        /\ \A key : Voiding(a, q, key).key = Key("SHIPMENT_VOID", <<key, a>>, 0)
    BY PostingFields
  <1>5. \A p \in posted :
           /\ p.key = Key("ALLOCATE", a, 0) => p = Reservation(a, q)
           /\ p.key = Key("DEALLOCATE", a, 0) => p = Release(a, q)
           /\ p.key = Key("SHIP", a, 0) => p = Shipping(a, q)
           /\ \A key : p.key = Key("SHIPMENT_VOID", <<key, a>>, 0) => p = Voiding(a, q, key)
    BY <1>1, <1>2, KnownByKey
  <1>6. ReservedBy(a) \in posted <=> Made("ALLOCATE", a)
    BY <1>3, <1>4, <1>5 DEF Made, Taken
  <1>7. DeallocatePosting(a) \in posted <=> Made("DEALLOCATE", a)
    BY <1>3, <1>4, <1>5 DEF Made, Taken
  <1>8. ShipPosting(a) \in posted <=> Made("SHIP", a)
    BY <1>3, <1>4, <1>5 DEF Made, Taken
  <1>9. ASSUME NEW key \in Tokens
        PROVE  VoidOf(a, key) \in posted <=> key \in VoidsOf(a)
    BY <1>3, <1>4, <1>5 DEF Made, Taken, VoidsOf
  <1> QED
    BY <1>6, <1>7, <1>8, <1>9

\* What these conditions say of the postings, with the deltas they have.
Entries(a, q, field) ==
    Adds(Made("ALLOCATE", a), Reserve(q)[field]) + Adds(Made("DEALLOCATE", a), Reserve(-q)[field])
    + Adds(Made("SHIP", a), Relieve(q)[field]) + Adds(ShippedAndVoided(a), Negated(Relieve(q))[field])

\* The postings of an allocation differ.
LEMMA DifferentPostings ==
    ASSUME NEW a \in AllocationIds, NEW q \in Int, NEW key
    PROVE  /\ Release(a, q) # Reservation(a, q)
           /\ Shipping(a, q) # Reservation(a, q) /\ Shipping(a, q) # Release(a, q)
           /\ Voiding(a, q, key) # Reservation(a, q) /\ Voiding(a, q, key) # Release(a, q)
           /\ Voiding(a, q, key) # Shipping(a, q)
  <1>1. /\ Reservation(a, q).type = "ALLOCATION" /\ Release(a, q).type = "DEALLOCATION"
        /\ Shipping(a, q).type = "SHIPMENT" /\ Voiding(a, q, key).type = "REVERSAL"
    BY PostingFields
  <1> QED
    BY <1>1

\* What the postings of an allocation amount to.
LEMMA EntriesAre ==
    ASSUME StockInv, NEW a \in AllocationIds, NEW q \in Int, q = allocations[a].quantity,
           NEW field \in {"allocated", "onHand"}
    PROVE  /\ IsFiniteSet(PostedOf(a)) /\ IntegersOn(DeltasOf(posted, field), PostedOf(a))
           /\ SumFunctionOnSet(DeltasOf(posted, field), PostedOf(a)) = Entries(a, q, field)
  <1>1. Booked(a)
    BY DEF StockInv
  <1>2. PICK key : ShippedAndVoided(a) => key \in Tokens /\ VoidsOf(a) = {key}
    BY <1>1 DEF Booked
  <1>3. PICK c1 \in BOOLEAN : c1 <=> ReservedBy(a) \in posted
    <2>1. \E c \in BOOLEAN : c <=> ReservedBy(a) \in posted
      <3>1. CASE ReservedBy(a) \in posted
        BY <3>1
      <3>2. CASE ReservedBy(a) \notin posted
        BY <3>2
      <3> QED
        BY <3>1, <3>2
    <2> QED
      BY <2>1
  <1>4. PICK c2 \in BOOLEAN : c2 <=> DeallocatePosting(a) \in posted
    <2>1. \E c \in BOOLEAN : c <=> DeallocatePosting(a) \in posted
      <3>1. CASE DeallocatePosting(a) \in posted
        BY <3>1
      <3>2. CASE DeallocatePosting(a) \notin posted
        BY <3>2
      <3> QED
        BY <3>1, <3>2
    <2> QED
      BY <2>1
  <1>5. PICK c3 \in BOOLEAN : c3 <=> ShipPosting(a) \in posted
    <2>1. \E c \in BOOLEAN : c <=> ShipPosting(a) \in posted
      <3>1. CASE ShipPosting(a) \in posted
        BY <3>1
      <3>2. CASE ShipPosting(a) \notin posted
        BY <3>2
      <3> QED
        BY <3>1, <3>2
    <2> QED
      BY <2>1
  <1>6. PICK c4 \in BOOLEAN : c4 = ShippedAndVoided(a)
    BY DEF ShippedAndVoided
  <1>7. PICK r : r = Reservation(a, q)
    OBVIOUS
  <1>8. PICK l : l = Release(a, q)
    OBVIOUS
  <1>9. PICK s : s = Shipping(a, q)
    OBVIOUS
  <1>10. PICK v : v = Voiding(a, q, key)
    OBVIOUS
  <1>11. /\ ReservedBy(a) = r /\ DeallocatePosting(a) = l /\ ShipPosting(a) = s /\ VoidOf(a, key) = v
    BY <1>7, <1>8, <1>9, <1>10, PostingsAre
  <1>12. \A x \in Tokens : VoidOf(a, x) \in posted <=> c4 /\ x = key
    <2>1. \A x \in Tokens : VoidOf(a, x) \in posted <=> x \in VoidsOf(a)
      BY PostedAre
    <2> QED
      BY <1>1, <1>2, <1>6, <2>1 DEF Booked
  <1>13. /\ c1 => r \in posted
         /\ c2 => l \in posted
         /\ c3 => s \in posted
         /\ c4 => v \in posted
    BY <1>2, <1>3, <1>4, <1>5, <1>6, <1>11, <1>12
  <1>0. PICK none : none = {}
    OBVIOUS
  <1> DEFINE S1 == none \cup Optionally(r, c1)
             S2 == S1 \cup Optionally(l, c2)
             S3 == S2 \cup Optionally(s, c3)
             S4 == S3 \cup Optionally(v, c4)
  <1>14. PostedOf(a) = S4
    <2>1. ASSUME NEW p \in PostedOf(a)
          PROVE  p \in S4
      <3>1. p \in posted /\ (p = r \/ p = l \/ p = s \/ \E x \in Tokens : p = VoidOf(a, x))
        BY <1>11 DEF PostedOf, PostingsOf
      <3>2. CASE \E x \in Tokens : p = VoidOf(a, x)
        <4>1. p = v /\ c4
          BY <1>11, <1>12, <3>1, <3>2
        <4> QED
          BY <4>1 DEF Optionally
      <3> QED
        BY <1>3, <1>4, <1>5, <1>11, <3>1, <3>2 DEF Optionally
    <2>2. ASSUME NEW p \in S4
          PROVE  p \in PostedOf(a)
      <3>1. p \in posted
        BY <1>0, <1>13 DEF Optionally
      <3>2. p = r \/ p = l \/ p = s \/ (p = v /\ c4)
        BY <1>0 DEF Optionally
      <3> QED
        BY <1>2, <1>6, <1>11, <3>1, <3>2 DEF PostedOf, PostingsOf
    <2> QED
      BY <2>1, <2>2
  <1>15. /\ l # r /\ s # r /\ s # l /\ v # r /\ v # l /\ v # s
    BY <1>7, <1>8, <1>9, <1>10, DifferentPostings
  <1>16. PICK f : f = DeltasOf(posted, field)
    OBVIOUS
  <1>17. /\ r.delta[field] = Reserve(q)[field] /\ r.delta[field] \in Int
         /\ l.delta[field] = Reserve(-q)[field] /\ l.delta[field] \in Int
         /\ s.delta[field] = Relieve(q)[field] /\ s.delta[field] \in Int
         /\ v.delta[field] = Negated(Relieve(q))[field] /\ v.delta[field] \in Int
    <2>1. /\ r.delta = Reserve(q) /\ l.delta = Reserve(-q) /\ s.delta = Relieve(q) /\ v.delta = Negated(Relieve(q))
          /\ Formed(r) /\ Formed(l) /\ Formed(s) /\ Formed(v)
      BY <1>7, <1>8, <1>9, <1>10, PostingFields
    <2>2. \A p : Formed(p) => p.delta[field] \in Int
      BY DEF Formed, Deltas
    <2> QED
      BY <2>1, <2>2
  <1>18. /\ c1 => f[r] = r.delta[field]
         /\ c2 => f[l] = l.delta[field]
         /\ c3 => f[s] = s.delta[field]
         /\ c4 => f[v] = v.delta[field]
    BY <1>13, <1>16 DEF DeltasOf
  <1> DEFINE n1 == Adds(c1, f[r])
             n2 == Adds(c2, f[l])
             n3 == Adds(c3, f[s])
             n4 == Adds(c4, f[v])
  <1>19. IsFiniteSet(none) /\ IntegersOn(f, none) /\ r \notin none
    BY <1>0, FS_EmptySet DEF IntegersOn
  <1>28. SumFunctionOnSet(f, none) = 0
    BY <1>0, SumOfNone
  <1>20. l \notin S1 /\ s \notin S2 /\ v \notin S3
    BY <1>0, <1>15 DEF Optionally
  <1> HIDE DEF S4, S3, S2, S1
  <1>21. IsFiniteSet(S1) /\ IntegersOn(f, S1) /\ SumFunctionOnSet(f, S1) = SumFunctionOnSet(f, none) + n1
    <2>1. c1 => f[r] \in Int
      BY <1>17, <1>18
    <2>2. c1 \in BOOLEAN
      OBVIOUS
    <2>3. /\ IsFiniteSet(none \cup Optionally(r, c1)) /\ IntegersOn(f, none \cup Optionally(r, c1))
          /\ SumFunctionOnSet(f, none \cup Optionally(r, c1)) = SumFunctionOnSet(f, none) + Adds(c1, f[r])
      BY ONLY <1>19, <2>1, <2>2, SumWithOption
    <2> QED
      BY <2>3 DEF S1
  <1>22. IsFiniteSet(S2) /\ IntegersOn(f, S2) /\ SumFunctionOnSet(f, S2) = SumFunctionOnSet(f, S1) + n2
    BY <1>17, <1>18, <1>20, <1>21, SumWithOption DEF S2
  <1>23. IsFiniteSet(S3) /\ IntegersOn(f, S3) /\ SumFunctionOnSet(f, S3) = SumFunctionOnSet(f, S2) + n3
    BY <1>17, <1>18, <1>20, <1>22, SumWithOption DEF S3
  <1>24. IsFiniteSet(S4) /\ IntegersOn(f, S4) /\ SumFunctionOnSet(f, S4) = SumFunctionOnSet(f, S3) + n4
    BY <1>17, <1>18, <1>20, <1>23, SumWithOption DEF S4
  <1>25. n1 \in Int /\ n2 \in Int /\ n3 \in Int /\ n4 \in Int
    BY <1>17, <1>18 DEF Adds
  <1>26. /\ n1 = Adds(Made("ALLOCATE", a), Reserve(q)[field])
         /\ n2 = Adds(Made("DEALLOCATE", a), Reserve(-q)[field])
         /\ n3 = Adds(Made("SHIP", a), Relieve(q)[field])
         /\ n4 = Adds(ShippedAndVoided(a), Negated(Relieve(q))[field])
    <2>1. /\ c1 <=> Made("ALLOCATE", a)
          /\ c2 <=> Made("DEALLOCATE", a)
          /\ c3 <=> Made("SHIP", a)
      BY <1>3, <1>4, <1>5, PostedAre
    <2> QED
      BY <1>6, <1>17, <1>18, <2>1 DEF Adds
  <1> HIDE DEF n1, n2, n3, n4
  <1>27. SumFunctionOnSet(f, S4) = n1 + n2 + n3 + n4
    BY <1>21, <1>22, <1>23, <1>24, <1>25, <1>28
  <1> QED
    BY <1>14, <1>16, <1>24, <1>26, <1>27 DEF Entries

\* What is reserved for an allocation, and what of it is gone.
Keeps(a) == Adds(allocations[a].status = "ACTIVE" \/ (allocations[a].status = "FULFILLED" /\ Voided(OrderOf(a))),
                 allocations[a].quantity)
Gone(a)  == Adds(allocations[a].status = "FULFILLED" /\ ~Voided(OrderOf(a)), allocations[a].quantity)

\* What is reserved and what is gone of an allocation follow from its status and that of the shipment.
LEMMA EntriesMean ==
    ASSUME StockInv, NEW a \in AllocationIds, NEW q \in Int, q = allocations[a].quantity
    PROVE  Entries(a, q, "allocated") = Keeps(a) /\ Entries(a, q, "onHand") = -Gone(a)
  <1>1. Booked(a) /\ allocations[a].status \in {"NONE", "ACTIVE", "RELEASED", "FULFILLED"}
    <2>1. OrderOf(a) \in Orders /\ a \in IdsOf(OrderOf(a))
      BY OrderOfIs
    <2> QED
      BY <2>1 DEF StockInv, Progress, AllocationStatusIn
  <1>2. /\ Reserve(q)["allocated"] = q /\ Reserve(q)["onHand"] = 0
        /\ Reserve(-q)["allocated"] = -q /\ Reserve(-q)["onHand"] = 0
        /\ Relieve(q)["allocated"] = -q /\ Relieve(q)["onHand"] = -q
        /\ Negated(Relieve(q))["allocated"] = q /\ Negated(Relieve(q))["onHand"] = q
    BY DEF Reserve, Relieve, Negated
  <1>3. /\ Made("ALLOCATE", a) <=> allocations[a].status # "NONE"
        /\ Made("DEALLOCATE", a) <=> allocations[a].status = "RELEASED"
        /\ Made("SHIP", a) <=> allocations[a].status = "FULFILLED" \/ ShippedAndVoided(a)
        /\ ShippedAndVoided(a) <=> allocations[a].status # "NONE" /\ Voided(OrderOf(a))
    BY <1>1 DEF Booked, ShippedAndVoided
  <1>4. Entries(a, q, "allocated") = Adds(Made("ALLOCATE", a), q) + Adds(Made("DEALLOCATE", a), -q)
                                     + Adds(Made("SHIP", a), -q) + Adds(ShippedAndVoided(a), q)
    BY <1>2 DEF Entries
  <1>5. Entries(a, q, "onHand") = Adds(Made("ALLOCATE", a), 0) + Adds(Made("DEALLOCATE", a), 0)
                                  + Adds(Made("SHIP", a), -q) + Adds(ShippedAndVoided(a), q)
    BY <1>2 DEF Entries
  <1>6. CASE allocations[a].status = "NONE"
    BY <1>3, <1>4, <1>5, <1>6 DEF Adds, Keeps, Gone
  <1>7. CASE allocations[a].status = "ACTIVE"
    BY <1>3, <1>4, <1>5, <1>7 DEF Adds, Keeps, Gone
  <1>8. CASE allocations[a].status = "RELEASED"
    BY <1>3, <1>4, <1>5, <1>8 DEF Adds, Keeps, Gone
  <1>9. CASE allocations[a].status = "FULFILLED"
    BY <1>3, <1>4, <1>5, <1>9 DEF Adds, Keeps, Gone
  <1> QED
    BY <1>1, <1>6, <1>7, <1>8, <1>9

AdjustedAt(b) == {p \in posted : p.type = "ADJUSTMENT" /\ p.balance = b}

\* The postings of an allocation are at its balance, under its keys.
LEMMA FieldsOfPosted ==
    ASSUME StockInv, NEW a \in AllocationIds, NEW p \in PostedOf(a)
    PROVE  /\ p.balance = a[2] /\ p.type # "ADJUSTMENT"
           /\ \/ \E kind \in {"ALLOCATE", "DEALLOCATE", "SHIP"} : p.key = Key(kind, a, 0)
              \/ \E key : p.key = Key("SHIPMENT_VOID", <<key, a>>, 0)
  <1>1. PICK q \in Int : q = allocations[a].quantity
    BY DEF StockInv, QuantitiesKept
  <1>2. PICK key : p = Reservation(a, q) \/ p = Release(a, q) \/ p = Shipping(a, q) \/ p = Voiding(a, q, key)
    BY <1>1, PostingsAre DEF PostedOf, PostingsOf
  <1>3. CASE p = Reservation(a, q)
    BY <1>3, PostingFields
  <1>4. CASE p = Release(a, q)
    BY <1>4, PostingFields
  <1>5. CASE p = Shipping(a, q)
    BY <1>5, PostingFields
  <1>6. CASE p = Voiding(a, q, key)
    BY <1>6, PostingFields
  <1> QED
    BY <1>2, <1>3, <1>4, <1>5, <1>6

\* No posting is of two allocations.
LEMMA PostedOfOne ==
    ASSUME StockInv, NEW a \in AllocationIds, NEW b \in AllocationIds, NEW p \in PostedOf(a), p \in PostedOf(b)
    PROVE  a = b
  <1>1. \/ \E kind \in {"ALLOCATE", "DEALLOCATE", "SHIP"} : p.key = Key(kind, a, 0)
        \/ \E key : p.key = Key("SHIPMENT_VOID", <<key, a>>, 0)
    BY FieldsOfPosted
  <1>2. \/ \E kind \in {"ALLOCATE", "DEALLOCATE", "SHIP"} : p.key = Key(kind, b, 0)
        \/ \E key : p.key = Key("SHIPMENT_VOID", <<key, b>>, 0)
    BY FieldsOfPosted
  <1>3. ASSUME NEW x, NEW y, p.key = Key("SHIPMENT_VOID", <<x, a>>, 0), p.key = Key("SHIPMENT_VOID", <<y, b>>, 0)
        PROVE  a = b
    <2>1. <<x, a>> = <<y, b>>
      BY <1>3, KeysEqual
    <2> QED
      BY <2>1
  <1>4. ASSUME NEW k, NEW l, NEW x, NEW y, p.key = Key(k, x, 0), p.key = Key(l, y, 0)
        PROVE  k = l /\ x = y
    BY <1>4, KeysEqual
  <1>5. CASE \E kind \in {"ALLOCATE", "DEALLOCATE", "SHIP"} : p.key = Key(kind, a, 0)
    BY <1>2, <1>4, <1>5
  <1>6. CASE \E key : p.key = Key("SHIPMENT_VOID", <<key, a>>, 0)
    BY <1>2, <1>3, <1>4, <1>6
  <1> QED
    BY <1>1, <1>5, <1>6

\* The movements of a balance: the corrections, and those of each of its allocations.
LEMMA PostedAtIs ==
    ASSUME StockInv, NEW b \in Balances
    PROVE  PostedAt(posted, b) = AdjustedAt(b) \cup UNION {PostedOf(a) : a \in IdsAt(b)}
  <1>1. ASSUME NEW p \in PostedAt(posted, b)
        PROVE  p \in AdjustedAt(b) \cup UNION {PostedOf(a) : a \in IdsAt(b)}
    <2>1. p \in posted /\ p.balance = b
      BY DEF PostedAt
    <2>2. CASE \E c \in Corrections : p = AdjustPosting(c)
      <3>1. p.type = "ADJUSTMENT"
        BY <2>2, AdjustPostingFields
      <3> QED
        BY <2>1, <3>1 DEF AdjustedAt
    <2>3. CASE \E a \in AllocationIds : p \in PostingsOf(a)
      <3>1. PICK a \in AllocationIds : p \in PostedOf(a)
        BY <2>1, <2>3 DEF PostedOf
      <3>2. a \in IdsAt(b)
        BY <2>1, <3>1, FieldsOfPosted DEF IdsAt
      <3> QED
        BY <3>1, <3>2
    <2> QED
      BY <2>1, <2>2, <2>3 DEF StockInv, PostingsKnown
  <1>2. \A p \in AdjustedAt(b) : p \in PostedAt(posted, b)
    BY DEF AdjustedAt, PostedAt
  <1>3. ASSUME NEW a \in IdsAt(b), NEW p \in PostedOf(a)
        PROVE  p \in PostedAt(posted, b)
    <2>1. a \in AllocationIds /\ a[2] = b
      BY DEF IdsAt
    <2> QED
      BY <2>1, FieldsOfPosted DEF PostedOf, PostedAt
  <1> QED
    BY <1>1, <1>2, <1>3

\* So the total of a balance is that of its corrections and of the entries of its allocations.
LEMMA TotalIs ==
    ASSUME StockInv, NEW b \in Balances, NEW field \in {"allocated", "onHand"}, NEW g,
           \A a \in IdsAt(b) : g[a] = Entries(a, allocations[a].quantity, field)
    PROVE  /\ Total(posted, b, field) = SumFunctionOnSet(DeltasOf(posted, field), AdjustedAt(b))
                                        + SumFunctionOnSet(g, IdsAt(b))
           /\ IntegersOn(DeltasOf(posted, field), AdjustedAt(b)) /\ IsFiniteSet(AdjustedAt(b))
  <1>1. PICK f : f = DeltasOf(posted, field)
    OBVIOUS
  <1>2. PICK F : F = [a \in AllocationIds |-> PostedOf(a)]
    OBVIOUS
  <1>3. PICK ids : ids = IdsAt(b)
    OBVIOUS
  <1>4. PICK A : A = AdjustedAt(b)
    OBVIOUS
  <1>5. IsFiniteSet(ids) /\ ids \subseteq AllocationIds
    BY <1>3, AllocationIdsFinite, FS_Subset DEF IdsAt
  <1>6. IsFiniteSet(posted) /\ IntegersOn(f, posted)
    BY <1>1 DEF StockInv, LedgerKept, Inventory, Formed, Deltas, DeltasOf, IntegersOn
  <1>7. \A a \in ids : IsFiniteSet(F[a]) /\ IntegersOn(f, F[a]) /\ g[a] = SumFunctionOnSet(f, F[a])
    <2> SUFFICES ASSUME NEW a \in ids
                 PROVE  IsFiniteSet(F[a]) /\ IntegersOn(f, F[a]) /\ g[a] = SumFunctionOnSet(f, F[a])
      OBVIOUS
    <2>1. a \in AllocationIds /\ F[a] = PostedOf(a)
      BY <1>2, <1>5
    <2>2. PICK q \in Int : q = allocations[a].quantity
      BY <2>1 DEF StockInv, QuantitiesKept
    <2>3. /\ IsFiniteSet(PostedOf(a)) /\ IntegersOn(f, PostedOf(a))
          /\ SumFunctionOnSet(f, PostedOf(a)) = Entries(a, q, field)
      BY <1>1, <2>1, <2>2, EntriesAre
    <2> QED
      BY <1>3, <2>1, <2>2, <2>3
  <1>8. \A a, c \in ids : F[a] \cap F[c] # {} => a = c
    BY <1>2, <1>5, PostedOfOne
  <1>9. PICK all : all = UNION {F[a] : a \in ids}
    OBVIOUS
  <1>10. SumFunctionOnSet(f, all) = SumFunctionOnSet(g, ids)
    BY <1>5, <1>7, <1>8, <1>9, SumOfFamily
  <1>11. PostedAt(posted, b) = A \cup all
    <2>1. {PostedOf(a) : a \in IdsAt(b)} = {F[a] : a \in ids}
      BY <1>2, <1>3, <1>5
    <2> QED
      BY <1>4, <1>9, <2>1, PostedAtIs
  <1>12. A \cap all = {}
    <2> SUFFICES ASSUME NEW p \in A, NEW a \in ids, p \in F[a] PROVE FALSE
      BY <1>9
    <2>1. p.type = "ADJUSTMENT" /\ a \in AllocationIds /\ p \in PostedOf(a)
      BY <1>2, <1>4, <1>5 DEF AdjustedAt
    <2> QED
      BY <2>1, FieldsOfPosted
  <1>13. IsFiniteSet(A) /\ IsFiniteSet(all) /\ IntegersOn(f, A) /\ IntegersOn(f, all)
    <2>1. A \subseteq posted /\ all \subseteq posted
      BY <1>4, <1>11 DEF AdjustedAt, PostedAt
    <2> QED
      BY <1>6, <2>1, FS_Subset DEF IntegersOn
  <1>14. SumFunctionOnSet(f, A \cup all) = SumFunctionOnSet(f, A) + SumFunctionOnSet(f, all)
    BY <1>12, <1>13, SumOfUnion
  <1> QED
    BY <1>1, <1>3, <1>4, <1>10, <1>11, <1>13, <1>14 DEF Total

\* The quantities of a balance by its allocations and its corrections.
LEMMA StockHeld ==
    ASSUME StockInv, NEW b \in Balances, NEW k, NEW h,
           \A a \in IdsAt(b) : k[a] = Keeps(a) /\ h[a] = Gone(a)
    PROVE  /\ stock[b].allocated = SumFunctionOnSet(k, IdsAt(b))
           /\ stock[b].onHand = Stocked[b] + Corrected(b) - SumFunctionOnSet(h, IdsAt(b))
           /\ IntegersOn(k, IdsAt(b))
  <1>1. PICK ids : ids = IdsAt(b)
    OBVIOUS
  <1>2. IsFiniteSet(ids) /\ ids \subseteq AllocationIds
    BY <1>1, AllocationIdsFinite, FS_Subset DEF IdsAt
  <1>3. \A a \in ids : /\ Entries(a, allocations[a].quantity, "allocated") = k[a]
                       /\ Entries(a, allocations[a].quantity, "onHand") = -h[a]
                       /\ k[a] \in Int /\ h[a] \in Int
    <2> SUFFICES ASSUME NEW a \in ids
                 PROVE  /\ Entries(a, allocations[a].quantity, "allocated") = k[a]
                        /\ Entries(a, allocations[a].quantity, "onHand") = -h[a]
                        /\ k[a] \in Int /\ h[a] \in Int
      OBVIOUS
    <2>1. a \in AllocationIds /\ k[a] = Keeps(a) /\ h[a] = Gone(a)
      BY <1>1, <1>2
    <2>2. PICK q \in Int : q = allocations[a].quantity
      BY <2>1 DEF StockInv, QuantitiesKept
    <2>3. Entries(a, q, "allocated") = Keeps(a) /\ Entries(a, q, "onHand") = -Gone(a)
      BY <2>1, <2>2, EntriesMean
    <2>4. Keeps(a) \in Int /\ Gone(a) \in Int
      BY <2>2 DEF Keeps, Gone, Adds
    <2> QED
      BY <2>1, <2>2, <2>3, <2>4
  <1>4. /\ stock[b].allocated = Total(posted, b, "allocated")
        /\ stock[b].onHand = Stocked[b] + Total(posted, b, "onHand")
        /\ Stocked[b] \in Int
    BY QuantitiesAssumption DEF StockInv, LedgerKept, Inventory
  <1>5. stock[b].allocated = SumFunctionOnSet(k, ids)
    <2>1. PICK f : f = DeltasOf(posted, "allocated")
      OBVIOUS
    <2>2. /\ Total(posted, b, "allocated") = SumFunctionOnSet(f, AdjustedAt(b)) + SumFunctionOnSet(k, IdsAt(b))
          /\ IsFiniteSet(AdjustedAt(b))
      BY <1>1, <1>3, <2>1, TotalIs
    <2>3. \A p \in AdjustedAt(b) : f[p] = 0
      <3> SUFFICES ASSUME NEW p \in AdjustedAt(b) PROVE f[p] = 0
        OBVIOUS
      <3>1. p \in posted /\ p.type = "ADJUSTMENT"
        BY DEF AdjustedAt
      <3>2. PICK c \in Corrections : p = AdjustPosting(c)
        BY <3>1, ShipmentsKnown DEF StockInv
      <3>3. p.delta = OnHand(c.change)
        BY <3>2, AdjustPostingFields
      <3>4. p.delta["allocated"] = 0
        BY <3>3 DEF OnHand
      <3> QED
        BY <2>1, <3>1, <3>4 DEF DeltasOf
    <2>4. PICK A : A = AdjustedAt(b)
      OBVIOUS
    <2>5. SumFunctionOnSet(f, A) = 0
      BY <2>2, <2>3, <2>4, SumOfZeros
    <2>6. SumFunctionOnSet(k, ids) \in Int
      BY <1>2, <1>3, SumIsInteger DEF IntegersOn
    <2> QED
      BY <1>1, <1>4, <2>2, <2>4, <2>5, <2>6
  <1>6. stock[b].onHand = Stocked[b] + Corrected(b) - SumFunctionOnSet(h, ids)
    <2>1. PICK f : f = DeltasOf(posted, "onHand")
      OBVIOUS
    <2>2. PICK g : g = [a \in ids |-> -h[a]]
      OBVIOUS
    <2>3. \A a \in IdsAt(b) : g[a] = Entries(a, allocations[a].quantity, "onHand")
      BY <1>1, <1>3, <2>2
    <2>4. /\ Total(posted, b, "onHand") = SumFunctionOnSet(f, AdjustedAt(b)) + SumFunctionOnSet(g, IdsAt(b))
          /\ IsFiniteSet(AdjustedAt(b)) /\ IntegersOn(f, AdjustedAt(b))
      BY <2>1, <2>3, TotalIs
    <2>5. SumFunctionOnSet(g, ids) = -SumFunctionOnSet(h, ids)
      BY <1>2, <1>3, <2>2, SumOfOpposites DEF IntegersOn
    <2>6. Corrected(b) = SumFunctionOnSet(f, AdjustedAt(b))
      BY <2>1 DEF Corrected, AdjustedAt, DeltasOf
    <2>7. PICK A : A = AdjustedAt(b)
      OBVIOUS
    <2>8. SumFunctionOnSet(f, A) \in Int /\ SumFunctionOnSet(h, ids) \in Int
      BY <1>2, <1>3, <2>4, <2>7, SumIsInteger DEF IntegersOn
    <2> QED
      BY <1>1, <1>4, <2>4, <2>5, <2>6, <2>7, <2>8
  <1> QED
    BY <1>1, <1>3, <1>5, <1>6 DEF IntegersOn

\* What the active allocations promise is among what is reserved.
LEMMA ReservationsKept == StockInv => ReservationsAreBacked
  <1> SUFFICES ASSUME StockInv, NEW b \in Balances
               PROVE  stock[b].allocated >= QuantityWith(IdsAt(b), {"ACTIVE"})
    BY DEF ReservationsAreBacked
  <1>1. PICK ids \in SUBSET AllocationIds : ids = IdsAt(b)
    BY DEF IdsAt
  <1>2. PICK k : k = [a \in AllocationIds |-> Keeps(a)]
    OBVIOUS
  <1>3. PICK h : h = [a \in AllocationIds |-> Gone(a)]
    OBVIOUS
  <1>4. PICK g : g = [a \in AllocationIds |-> Adds(allocations[a].status = "ACTIVE", allocations[a].quantity)]
    OBVIOUS
  <1>5. PICK wanted : wanted = {"ACTIVE"}
    OBVIOUS
  <1>6. QuantityWith(ids, wanted) = SumFunctionOnSet(g, ids)
    <2>1. \A a \in ids : g[a] = IF allocations[a].status \in wanted THEN allocations[a].quantity ELSE 0
      BY <1>4, <1>5 DEF Adds
    <2> QED
      BY <2>1, WantedQuantity DEF StockInv
  <1>7. stock[b].allocated = SumFunctionOnSet(k, ids) /\ IntegersOn(k, ids)
    BY <1>1, <1>2, <1>3, StockHeld
  <1>8. \A a \in ids : g[a] \in Int /\ g[a] <= k[a]
    BY <1>2, <1>4 DEF Keeps, Adds, StockInv, QuantitiesKept
  <1>9. SumFunctionOnSet(g, ids) <= SumFunctionOnSet(k, ids)
    <2>1. IsFiniteSet(ids)
      BY AllocationIdsFinite, FS_Subset
    <2> QED
      BY <1>7, <1>8, <2>1, SumsCompare DEF IntegersOn
  <1>10. SumFunctionOnSet(g, ids) \in Int /\ SumFunctionOnSet(k, ids) \in Int
    <2>1. IsFiniteSet(ids)
      BY AllocationIdsFinite, FS_Subset
    <2> QED
      BY <1>7, <1>8, <2>1, SumIsInteger DEF IntegersOn
  <1> QED
    BY <1>1, <1>5, <1>6, <1>7, <1>9, <1>10

\* Where nothing was shipped again after a void, it is all that is reserved, and what is gone was shipped.
LEMMA StockTells == StockInv /\ SalesInv => StockFollowsAllocations
  <1> SUFFICES ASSUME StockInv, SalesInv, NEW b \in Balances,
                      \A o \in Orders : Reshipped(o) => IdsOf(o) \cap IdsAt(b) = {}
               PROVE  /\ stock[b].allocated = QuantityWith(IdsAt(b), {"ACTIVE"})
                      /\ stock[b].onHand = Stocked[b] + Corrected(b) - QuantityWith(IdsAt(b), {"FULFILLED"})
    BY DEF StockFollowsAllocations
  <1>1. PICK ids \in SUBSET AllocationIds : ids = IdsAt(b)
    BY DEF IdsAt
  <1>2. \A a \in ids : allocations[a].status = "FULFILLED" => ~Voided(OrderOf(a))
    <2> SUFFICES ASSUME NEW a \in ids, allocations[a].status = "FULFILLED", Voided(OrderOf(a)) PROVE FALSE
      OBVIOUS
    <2>1. OrderOf(a) \in Orders /\ a \in IdsOf(OrderOf(a))
      BY OrderOfIs
    <2>2. status[OrderOf(a)] \in Shipped
      BY <2>1 DEF SalesInv, OrderSound
    <2>3. Reshipped(OrderOf(a))
      BY <2>2 DEF Reshipped, Shipped, Voided
    <2> QED
      BY <1>1, <2>1, <2>3
  <1>3. PICK k : k = [a \in AllocationIds |-> Keeps(a)]
    OBVIOUS
  <1>4. PICK h : h = [a \in AllocationIds |-> Gone(a)]
    OBVIOUS
  <1>5. PICK active : active = {"ACTIVE"}
    OBVIOUS
  <1>6. PICK fulfilled : fulfilled = {"FULFILLED"}
    OBVIOUS
  <1>7. QuantityWith(ids, active) = SumFunctionOnSet(k, ids)
    <2>1. \A a \in ids : k[a] = IF allocations[a].status \in active THEN allocations[a].quantity ELSE 0
      BY <1>2, <1>3, <1>5 DEF Keeps, Adds
    <2> QED
      BY <2>1, WantedQuantity DEF StockInv
  <1>8. QuantityWith(ids, fulfilled) = SumFunctionOnSet(h, ids)
    <2>1. \A a \in ids : h[a] = IF allocations[a].status \in fulfilled THEN allocations[a].quantity ELSE 0
      BY <1>2, <1>4, <1>6 DEF Gone, Adds
    <2> QED
      BY <2>1, WantedQuantity DEF StockInv
  <1>9. /\ stock[b].allocated = SumFunctionOnSet(k, ids)
        /\ stock[b].onHand = Stocked[b] + Corrected(b) - SumFunctionOnSet(h, ids)
    BY <1>1, <1>3, <1>4, StockHeld
  <1> QED
    BY <1>1, <1>5, <1>6, <1>7, <1>8, <1>9

----------------------------------------------------------------------------
(* The theorems.                                                           *)

\* Status and allocations of an order, rows of two tables that four services write, go together: the inductive
\* invariant.
THEOREM SalesInvariant == Spec => []SalesInv
  BY InitSound, NextSound, PTL DEF Spec

\* Packers who finish the tasks of an order in any order (packing.service.ts complete) never leave a fully packed order
\* in an earlier state.
THEOREM LastPackerAlwaysPacksOrder == Spec => []LastPackerPacksOrder
  <1>1. SalesInv => LastPackerPacksOrder
    BY DEF SalesInv, OrderSound, LastPackerPacksOrder
  <1> QED
    BY <1>1, SalesInvariant, PTL

\* No late pick or pack task revives an order that was cancelled or has shipped.
THEOREM LateTasksAlwaysChangeNothing == Spec => LateTasksChangeNothing
  <1>1. SalesInv /\ [Next]_vars =>
            [\A o \in Orders :
                status[o] \in {"CANCELLED", "SHIPPED", "DELIVERED", "CLOSED", "RETURNED"} =>
                    \/ status'[o] = status[o]
                    \/ status'[o] \in validTransitions[status[o]]
                    \/ shipments[o].status = "POSTED" /\ shipments'[o].status = "VOIDED"]_vars
    BY EndedStays DEF Shipped
  <1> QED
    BY <1>1, SalesInvariant, PTL DEF Spec, LateTasksChangeNothing

\* The rows of stock are what was stocked and the totals of the movements, and which movements there are follows from
\* the statuses of the allocations and of the shipments: the inductive invariant.
THEOREM StockInvariant == Spec => [](StockInv /\ SalesInv)
  <1>1. Init => StockInv /\ SalesInv
    BY InitStock, InitSound
  <1>2. (StockInv /\ SalesInv) /\ [Next]_vars => (StockInv /\ SalesInv)'
    BY NextStock, NextSound
  <1> QED
    BY <1>1, <1>2, PTL DEF Spec

\* Every item of an order is reserved in full from allocation (sales-orders.service.ts) to packing and fulfilled in full
\* from shipping on, and nothing is reserved before or after a cancellation.
THEOREM AllocationsAlwaysFollowStatus == Spec => []AllocationsFollowStatus
  BY StatusTells, StockInvariant, PTL

\* What active allocations promise at a balance is always reserved there, whatever other orders, voids and corrections
\* do.
THEOREM ReservationsAlwaysBacked == Spec => []ReservationsAreBacked
  BY ReservationsKept, StockInvariant, PTL

\* At balances no reshipped order had stock of, exactly that is reserved, and what is gone from the shelf was shipped or
\* corrected (inventory-posting.service.ts posts each movement once).
THEOREM StockAlwaysFollowsAllocations == Spec => []StockFollowsAllocations
  BY StockTells, StockInvariant, PTL
=============================================================================
