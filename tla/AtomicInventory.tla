--------------------------- MODULE AtomicInventory ---------------------------
(***************************************************************************)
(* What the inventory promises its clients: a command takes effect as a    *)
(* whole, in one step, against the stock of that moment, and once however  *)
(* often it is sent.  There are no handlers, snapshots, versions, attempts *)
(* or crashes here, and the ledger is the set of the postings made.        *)
(***************************************************************************)
EXTENDS InventoryCommands, InventoryBook

VARIABLES
    stock,    \* stock[b]: the quantities of balance b
    book      \* the postings made so far

\* The pairs of a transfer, one for each of its legs: legs[n].quantity from the source at legs[n].at.
Pairs(c, legs) ==
    [j \in 1..(2 * Len(legs)) |->
        LET n == (j + 1) \div 2
        IN  IF j % 2 = 1 THEN TransferOut(c, c.sources[legs[n].at], legs[n].quantity, n - 1)
            ELSE TransferIn(c, legs[n].quantity, n - 1)]

Execute(postings) ==
    LET end == PostAll([stock |-> stock, posted |-> book, ok |-> TRUE], postings)
    IN  end.ok /\ stock' = end.stock /\ book' = end.posted

ExecuteReversal(c) ==
    \E original \in book :
        /\ original.key = c.target /\ original.type = "ADJUSTMENT"
        /\ ~ReversedIn(book, c.target)
        /\ Execute(<<ReversalPosting(c, [posting |-> original])>>)

\* How a transfer splits its quantity over the sources is not promised, only that it is all moved,
\* from no source twice.
ExecuteTransfer(c) ==
    /\ ~Taken(book, TransferIn(c, c.quantity, 0).key)
    /\ \E n \in 1..Len(c.sources) :
       \E legs \in [1..n -> [at : DOMAIN c.sources, quantity : 1..c.quantity]] :
        /\ \A i, j \in 1..n : i < j => legs[i].at < legs[j].at
        /\ SumFunctionOnSet([i \in 1..n |-> legs[i].quantity], 1..n) = c.quantity
        /\ Execute(Pairs(c, legs))

Init == stock = [b \in Balances |-> ZERO] /\ book = {}

Next ==
    \E c \in Commands :
        \/ c.op = "ADJUST" /\ Execute(<<AdjustPosting(c)>>)
        \/ c.op = "REVERSE" /\ ExecuteReversal(c)
        \/ c.op = "TRANSFER" /\ ExecuteTransfer(c)
        \/ c.op = "DOCUMENT" /\ Execute(c.postings)

Spec == Init /\ [][Next]_<<stock, book>>
=============================================================================
