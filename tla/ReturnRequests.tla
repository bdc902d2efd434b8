--------------------------- MODULE ReturnRequests ---------------------------
(***************************************************************************)
(* ReturnsService: a customer's return from its creation to the posting    *)
(* that restocks, discards or holds the goods.  complete is a serializable *)
(* transaction over the request row and the inventory, hence one action;   *)
(* create and approve are single statements whose reads decide nothing     *)
(* that can change.  A completion whose key has a movement already answers *)
(* with the request as it stands and is no action.                         *)
(***************************************************************************)
EXTENDS InventoryBook

CONSTANTS
    Returns,         \* return request ids
    ReturnQuantity,  \* ReturnQuantity[r]: the quantity asked for
    OrderLines,      \* OrderLines[r]: the balances its order's items have in the return's warehouse
    ReturnKeys,      \* idempotency keys of completions; no prefix is added to them
    NoDisposition,   \* the null disposition
    MaxApprovals,    \* bound: decisions on one request
    OpeningStock     \* the StockLevel rows the behaviour starts with

\* StockLevel_available_check.
AvailableFollows(q) == q.available = q.onHand - q.allocated - q.hold

ASSUME ReturnsAssumption ==
    /\ MaxApprovals \in Nat
    /\ \A r \in Returns : ReturnQuantity[r] \in Int /\ OrderLines[r] \in Seq(Balances)
    /\ OpeningStock \in [Balances -> Quantities]
    /\ \A b \in Balances : AvailableFollows(OpeningStock[b])

VARIABLES
    requests,      \* requests[r]: the ReturnRequest row, or NoRequest
    decisions,     \* history: decisions[r] counts the approvals of r, not its rejections
    completions,   \* history: [request, key, disposition] of every completion that posted
    stock,         \* the StockLevel rows
    posted         \* the StockMovement rows

returnVars    == <<requests, decisions, completions>>
inventoryVars == <<stock, posted>>

Dispositions   == {"RESTOCK", "DISCARD", "REWORK"}
ReturnStatuses == {"OPEN", "APPROVED", "COMPLETED", "REJECTED"}

Requests == [status : ReturnStatuses, disposition : Dispositions \cup {NoDisposition}]

NoRequest == [status |-> "NONE"]

ReturnsInit ==
    /\ requests = [r \in Returns |-> NoRequest]
    /\ decisions = [r \in Returns |-> 0]
    /\ completions = {}
    /\ stock = OpeningStock
    /\ posted = {}

Inventory == [stock |-> stock, posted |-> posted, ok |-> TRUE]

Posts(inv) == inv.ok /\ stock' = inv.stock /\ posted' = inv.posted

----------------------------------------------------------------------------

CreateReturn(r) ==
    /\ requests[r] = NoRequest
    /\ ReturnQuantity[r] > 0
    /\ requests' = [requests EXCEPT ![r] = [status |-> "OPEN", disposition |-> NoDisposition]]
    /\ UNCHANGED <<decisions, completions, inventoryVars>>

\* approve, which asks for no status: also a rejected or a completed request is decided again.
ApproveReturn(r, approved) ==
    /\ requests[r] # NoRequest
    /\ decisions[r] < MaxApprovals
    /\ requests' = [requests EXCEPT ![r].status = IF approved THEN "APPROVED" ELSE "REJECTED"]
    /\ decisions' = [decisions EXCEPT ![r] = IF approved THEN @ + 1 ELSE @]
    /\ UNCHANGED <<completions, inventoryVars>>

\* What each disposition posts, always on the first item of the order.
ReturnDelta(q, disposition) ==
    CASE disposition = "RESTOCK" -> OnHand(q)
      [] disposition = "DISCARD" -> OnHand(-q)
      [] disposition = "REWORK"  -> [onHand |-> 0, allocated |-> 0, hold |-> q]

ReturnPosting(r, key, disposition) ==
    Posting(Head(OrderLines[r]), Key("RETURN", key, 0),
            IF disposition = "RESTOCK" THEN "RETURN" ELSE "ADJUSTMENT",
            ReturnQuantity[r], ReturnDelta(ReturnQuantity[r], disposition), NoKey)

\* What if complete did not look at the status?
BugCompleteAnyStatus(r, key, disposition) ==
    /\ requests[r].status # "NONE"
    /\ OrderLines[r] # <<>>
    /\ ~Taken(posted, Key("RETURN", key, 0))
    /\ Posts(OneMore(Inventory, ReturnPosting(r, key, disposition)))
    /\ requests' = [requests EXCEPT ![r] = [status |-> "COMPLETED", disposition |-> disposition]]
    /\ completions' = completions \cup {[request |-> r, key |-> key, disposition |-> disposition]}
    /\ UNCHANGED decisions

\* complete: the whole of it is rolled back when the posting is refused.
CompleteReturn(r, key, disposition) ==
    /\ requests[r].status = "APPROVED"
    /\ OrderLines[r] # <<>>
    /\ ~Taken(posted, Key("RETURN", key, 0))
    /\ Posts(OneMore(Inventory, ReturnPosting(r, key, disposition)))
    /\ requests' = [requests EXCEPT ![r] = [status |-> "COMPLETED", disposition |-> disposition]]
    /\ completions' = completions \cup {[request |-> r, key |-> key, disposition |-> disposition]}
    /\ UNCHANGED decisions

ReturnsNext ==
    \/ \E r \in Returns : CreateReturn(r)
    \/ \E r \in Returns, approved \in BOOLEAN : ApproveReturn(r, approved)
    \/ \E r \in Returns, key \in ReturnKeys, d \in Dispositions : CompleteReturn(r, key, d)

----------------------------------------------------------------------------
(* Properties.                                                             *)

CompletionsOf(r) == {c \in completions : c.request = r}

\* approve guards nothing, so a return can be completed again; what holds is that each completion
\* has an approval of its own, that a key completes one request once, and that every completion,
\* and nothing else, is in the ledger with the delta of its disposition.
CompletionsFollowApprovals ==
    /\ \A r \in Returns : /\ Cardinality(CompletionsOf(r)) <= decisions[r]
                          /\ requests[r].status = "COMPLETED" =>
                                \E c \in CompletionsOf(r) : c.disposition = requests[r].disposition
    /\ {p \in posted : p.key.kind = "RETURN"} =
           {ReturnPosting(c.request, c.key, c.disposition) : c \in completions}
    /\ \A c, d \in completions : c.key = d.key => c = d
=============================================================================
