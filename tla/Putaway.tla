------------------------------- MODULE Putaway -------------------------------
(***************************************************************************)
(* PutawayService beside PurchaseReceiving: every receipt line that        *)
(* accepted goods is a task to move them to a bin.                         *)
(*                                                                         *)
(* claim is one serializable transaction.  complete and exception are not: *)
(* complete reads the task, then moves the stock in a transaction of its   *)
(* own (StockService.transfer), then marks the task; exception reads the   *)
(* task, then flags it.  Handlers interleave between those steps, die      *)
(* between them, and the operators try again.                              *)
(***************************************************************************)
EXTENDS PurchaseReceiving

CONSTANTS
    BinOrder,      \* the places of the warehouse in the order transfer takes from them
    Operators,     \* users who put away
    NoOperator,    \* the null claimedById
    Handlers,      \* requests that may be under way at once
    Corrections    \* adjustments others make: [balance, change, client]

Places == Bins \cup {NoBin}

ASSUME PlacesAssumption ==
    /\ NoBin \notin Bins
    /\ BinOrder \in Seq(Places) /\ ToSet(BinOrder) = Places
    /\ \A b \in Balances : b[2] \in Places /\ b = At(b[1], b[2])
    /\ NoOperator \notin Operators
    /\ Corrections \subseteq [balance : Balances, change : Int, client : ClientKeys]

VARIABLES
    tasks,         \* tasks[l]: the task columns of line l, which exists from its receipt on
    handlers       \* handlers[h]: what the request has read and does next

vars == <<status, receivedQty, receipts, stock, posted, tasks, handlers>>

NewTask == [status |-> "READY", claimedBy |-> NoOperator, destination |-> NoBin]

Idle == [step |-> "none"]

Tasks == [status : {"READY", "CLAIMED", "COMPLETED", "EXCEPTION"},
          claimedBy : Operators \cup {NoOperator}, destination : Places]

Requests == [step : {"move", "mark"}, line : LineIds, user : Operators, bin : Bins]
Flags    == [step : {"flag"}, line : LineIds]

Init ==
    /\ ReceivingInit
    /\ tasks = [l \in LineIds |-> NewTask]
    /\ handlers = [h \in Handlers |-> Idle]

\* The lines with goods to put away.
Lines ==
    {l \in LineIds : LET lines == receipts[l[1]].lines IN l[2] \in DOMAIN lines /\ lines[l[2]].accepted > 0}

Quantity(l) == receipts[l[1]].lines[l[2]].accepted
Source(l)   == receipts[l[1]].place

----------------------------------------------------------------------------

Claim(l, u) ==
    /\ l \in Lines
    /\ tasks[l].status = "READY"
    /\ tasks' = [tasks EXCEPT ![l] = [@ EXCEPT !.status = "CLAIMED", !.claimedBy = u]]
    /\ UNCHANGED <<receivingVars, inventoryVars, handlers>>

\* complete, first step.  A transfer from a bin to itself is refused before anything is read.
BeginComplete(h, l, u, bin) ==
    /\ handlers[h] = Idle
    /\ l \in Lines
    /\ tasks[l].status = "CLAIMED" /\ tasks[l].claimedBy = u
    /\ bin # Source(l)
    /\ handlers' = [handlers EXCEPT ![h] = [step |-> "move", line |-> l, user |-> u, bin |-> bin]]
    /\ UNCHANGED <<receivingVars, inventoryVars, tasks>>

----------------------------------------------------------------------------
(* StockService.transfer as complete calls it.                             *)

\* What if both movements of a round had the same key?
BugPutawayKey(kind, request, n) == Key("TRANSFER_OUT", request.line, n)

PutawayKey(kind, request, n) == Key(kind, request.line, n)

\* A receipt outside the bins names no source bin, and the query then takes any bin's stock.
PlacesOf(l) == IF Source(l) = NoBin THEN BinOrder ELSE <<Source(l)>>

\* What the query reads of a row; it leaves out the rows that offer nothing.
Offer(b) == [balance |-> b, available |-> IF stock[b].available > 0 THEN stock[b].available ELSE 0]

SourcesOf(l) == [n \in DOMAIN PlacesOf(l) |-> Offer(At(ProductOf[l[2]], PlacesOf(l)[n]))]

AddOffer(sum, source) == sum + source.available

TotalAvailable(sources) == FoldLeft(AddOffer, 0, sources)

\* One round of the loop: out of the source, into the destination, what the source had when read.
MoveFrom(move, source) ==
    LET request == move.request
        q    == Lesser(source.available, move.remaining)
        to   == At(ProductOf[request.line[2]], request.bin)
        out  == Posting(source.balance, PutawayKey("TRANSFER_OUT", request, move.index), "TRANSFER_OUT",
                        q, OnHand(-q), NoKey)
        into == Posting(to, PutawayKey("TRANSFER_IN", request, move.index), "TRANSFER_IN",
                        q, OnHand(q), NoKey)
    IN  IF q <= 0 THEN move
        ELSE [request |-> request, inv |-> PostAll(move.inv, <<out, into>>),
              remaining |-> move.remaining - q, index |-> move.index + 1]

Move(request) ==
    FoldLeft(MoveFrom,
             [request |-> request, inv |-> Inventory, remaining |-> Quantity(request.line), index |-> 0],
             SourcesOf(request.line))

MovedBefore(request) ==
    \E p \in posted : p.key \in {PutawayKey(kind, request, 0) : kind \in {"TRANSFER_OUT", "TRANSFER_IN"}}

\* What if complete went on when the transfer was refused?
BugMoveStockGoesOn(h) ==
    LET request == handlers[h]
        enough  == TotalAvailable(SourcesOf(request.line)) >= Quantity(request.line)
    IN  /\ request.step = "move"
        /\ IF enough /\ ~MovedBefore(request) THEN Posts(Move(request).inv) ELSE UNCHANGED inventoryVars
        /\ handlers' = [handlers EXCEPT ![h].step = "mark"]
        /\ UNCHANGED <<receivingVars, tasks>>

\* complete, second step: moved now, moved by an earlier attempt, or refused for lack of stock.
MoveStock(h) ==
    LET request == handlers[h]
        enough  == TotalAvailable(SourcesOf(request.line)) >= Quantity(request.line)
    IN  /\ request.step = "move"
        /\ \/ /\ MovedBefore(request)
              /\ handlers' = [handlers EXCEPT ![h].step = "mark"]
              /\ UNCHANGED inventoryVars
           \/ /\ ~MovedBefore(request) /\ enough
              /\ Posts(Move(request).inv)
              /\ handlers' = [handlers EXCEPT ![h].step = "mark"]
           \/ /\ ~MovedBefore(request) /\ ~enough
              /\ handlers' = [handlers EXCEPT ![h] = Idle]
              /\ UNCHANGED inventoryVars
        /\ UNCHANGED <<receivingVars, tasks>>

----------------------------------------------------------------------------

\* complete, last step: the update matches nothing when the task changed meanwhile.
MarkCompleted(h) ==
    LET request == handlers[h]
        l       == request.line
    IN  /\ request.step = "mark"
        /\ tasks' = IF tasks[l].status = "CLAIMED" /\ tasks[l].claimedBy = request.user
                    THEN [tasks EXCEPT ![l].status = "COMPLETED", ![l].destination = request.bin]
                    ELSE tasks
        /\ handlers' = [handlers EXCEPT ![h] = Idle]
        /\ UNCHANGED <<receivingVars, inventoryVars>>

BeginException(h, l) ==
    /\ handlers[h] = Idle
    /\ l \in Lines
    /\ tasks[l].status \in {"READY", "CLAIMED"}
    /\ handlers' = [handlers EXCEPT ![h] = [step |-> "flag", line |-> l]]
    /\ UNCHANGED <<receivingVars, inventoryVars, tasks>>

\* exception, last step: whatever the task has become.
Flag(h) ==
    /\ handlers[h].step = "flag"
    /\ tasks' = [tasks EXCEPT ![handlers[h].line].status = "EXCEPTION"]
    /\ handlers' = [handlers EXCEPT ![h] = Idle]
    /\ UNCHANGED <<receivingVars, inventoryVars>>

\* The process dies, or the connection of a step is lost.
Crash(h) ==
    /\ handlers[h] # Idle
    /\ handlers' = [handlers EXCEPT ![h] = Idle]
    /\ UNCHANGED <<receivingVars, inventoryVars, tasks>>

\* StockService.adjust, by somebody else.
Correct(c) ==
    /\ ~Taken(posted, AdjustKey(c))
    /\ Posts(OneMore(Inventory, AdjustPosting(c)))
    /\ UNCHANGED <<receivingVars, tasks, handlers>>

Next ==
    \/ ReceivingNext /\ UNCHANGED <<tasks, handlers>>
    \/ \E l \in LineIds, u \in Operators : Claim(l, u)
    \/ \E h \in Handlers, l \in LineIds, u \in Operators, bin \in Bins : BeginComplete(h, l, u, bin)
    \/ \E h \in Handlers, l \in LineIds : BeginException(h, l)
    \/ \E h \in Handlers : MoveStock(h) \/ MarkCompleted(h) \/ Flag(h) \/ Crash(h)
    \/ \E c \in Corrections : Correct(c)

Spec == Init /\ [][Next]_vars

----------------------------------------------------------------------------
(* Properties.                                                             *)

\* The rows hold what their tables allow; a task that was completed had its operator.
TypeOK ==
    /\ status \in [PurchaseOrders -> Statuses]
    /\ receivedQty \in [Items -> Nat]
    /\ \A key \in ReceiptKeys : /\ receipts[key].place \in Places
                                /\ \A i \in DOMAIN receipts[key].lines : receipts[key].lines[i] \in Counts
    /\ stock \in [Balances -> Quantities]
    /\ posted \subseteq Postings
    /\ tasks \in [LineIds -> Tasks]
    /\ \A l \in LineIds : tasks[l].status \in {"CLAIMED", "COMPLETED"} => tasks[l].claimedBy # NoOperator
    /\ \A h \in Handlers : handlers[h] \in {Idle} \cup Requests \cup Flags

\* The movements a task's transfer posted, one way.
MovementsOf(l, type) == {p \in posted : p.type = type /\ p.key.client = l}

QuantityOf(movements) == SumFunctionOnSet([p \in movements |-> p.quantity], movements)

\* What is on hand of a product, wherever it is.
HeldOf(product) == SumFunctionOnSet([place \in Places |-> stock[At(product, place)].onHand], Places)

\* What the receipts accepted of a product.
AcceptedOf(product) ==
    LET items == {i \in Items : ProductOf[i] = product}
    IN  SumFunctionOnSet([i \in items |-> Accepted(i)], items)

\* What corrections changed of a product.
CorrectedOf(product) ==
    LET corrections == {p \in posted : p.type = "ADJUSTMENT" /\ p.balance[1] = product}
    IN  SumFunctionOnSet([p \in corrections |-> p.delta.onHand], corrections)

\* "Putaway MUST move or assign stock to a confirmed destination without duplicating the receipt
\* effect" (SRS INB-04): with handlers that race, die and are repeated, what is on hand of a product
\* is what receipts accepted and corrections changed, no more and no less.
PutawayCreatesNoStock ==
    \A product \in {ProductOf[i] : i \in Items} : HeldOf(product) = AcceptedOf(product) + CorrectedOf(product)

\* A line's goods are moved once and whole however often its completion is tried, and a task says
\* completed only of goods that were moved.
GoodsMoveOnce ==
    \A l \in Lines :
        /\ QuantityOf(MovementsOf(l, "TRANSFER_IN")) \in {0, Quantity(l)}
        /\ QuantityOf(MovementsOf(l, "TRANSFER_OUT")) = QuantityOf(MovementsOf(l, "TRANSFER_IN"))
        /\ tasks[l].status = "COMPLETED" => MovementsOf(l, "TRANSFER_IN") # {}

=============================================================================
