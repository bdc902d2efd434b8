----------------------------- MODULE Workbench -----------------------------
(***************************************************************************)
(* The pages people work with: the task pages, the order pages and the     *)
(* receipt forms, each a list of buttons that depends on the status it     *)
(* shows, over the routes and services that answer them.  Two users work   *)
(* on one document through views that may be out of date.                  *)
(*                                                                         *)
(* RemoteCalls stands for utils/api.ts, which WebClient shows to implement *)
(* it.  What a service refuses for another reason than the status, stock   *)
(* or permissions or the warehouse, it may refuse at any time.             *)
(***************************************************************************)
EXTENDS Naturals, FiniteSets

CONSTANTS
    Users,
    Nobody,
    Commands,        \* requests that change something; one is made once
    MaxForms      \* bound: receipt forms opened

ASSUME NobodyAssumption == Nobody \notin Users

VARIABLES
    doc,      \* the document: its kind and status, who holds the task, the receipts posted
    pages,    \* pages[u]: what the page of user u shows
    clicks,   \* clicks[c]: the click that made call c
    forms,    \* how many receipt forms were opened
    remote    \* see RemoteCalls

workbenchVars == <<doc, pages, clicks, forms, remote>>

Api == INSTANCE RemoteCalls WITH Calls <- Commands

----------------------------------------------------------------------------
(* What the pages offer at a status.  A button is named for the handler or,*)
(* on the order pages, for the status it asks for.                         *)

pickingPage == [READY |-> {"claim"}, CLAIMED |-> {"confirm", "short"}]

packingPage == [READY |-> {"claim"}, CLAIMED |-> {"complete", "exception"}]

putawayPage == [READY |-> {"claim"}, CLAIMED |-> {"complete", "exception"}]

shipmentPage == [READY |-> {"post"}, POSTED |-> {"void"}]

returnsPage == [OPEN |-> {"approve", "reject"}, APPROVED |-> {"complete"}]

\* The transfer form of the stock page, over whatever stock is listed.
stockPage == [LISTED |-> {"transfer"}]

PurchaseOrderDetail ==
    [DRAFT              |-> {"PENDING_APPROVAL", "CANCELLED"},
     PENDING_APPROVAL   |-> {"APPROVED", "CANCELLED"},
     APPROVED           |-> {"SENT", "CANCELLED"},
     SENT               |-> {"receive", "CANCELLED"},
     PARTIALLY_RECEIVED |-> {"receive"}]

\* What if an order could be cancelled until it arrives?
BugSalesOrderDetail ==
    [DRAFT     |-> {"CONFIRMED", "CANCELLED"},
     CONFIRMED |-> {"ALLOCATED", "CANCELLED"},
     ALLOCATED |-> {"PICKING", "CANCELLED"},
     PICKING   |-> {"PICKED", "CANCELLED"},
     PICKED    |-> {"PACKED", "CANCELLED"},
     PACKED    |-> {"SHIPPED", "CANCELLED"},
     SHIPPED   |-> {"DELIVERED", "CANCELLED"},
     DELIVERED |-> {"CLOSED", "RETURNED"}]

SalesOrderDetail ==
    [DRAFT     |-> {"CONFIRMED", "CANCELLED"},
     CONFIRMED |-> {"ALLOCATED", "CANCELLED"},
     ALLOCATED |-> {"PICKING", "CANCELLED"},
     PICKING   |-> {"PICKED", "CANCELLED"},
     PICKED    |-> {"PACKED"},
     PACKED    |-> {"SHIPPED"},
     SHIPPED   |-> {"DELIVERED"},
     DELIVERED |-> {"CLOSED", "RETURNED"}]

Buttons ==
    [picking |-> pickingPage, packing |-> packingPage, putaway |-> putawayPage, shipment |-> shipmentPage,
     return |-> returnsPage, stock |-> stockPage, purchaseOrder |-> PurchaseOrderDetail, salesOrder |-> SalesOrderDetail]

Offers(kind, view) == IF view \in DOMAIN Buttons[kind] THEN Buttons[kind][view] ELSE {}

(* What the handlers send: a request with an Idempotency-Key, one without, or nothing. *)

pickingHandlers == [claim |-> "plain", confirm |-> "plain", short |-> "plain"]

packingHandlers == [claim |-> "plain", complete |-> "plain", exception |-> "plain"]

\* Nothing is completed without a bin, and the bins are loaded from a route that does not exist.
putawayHandlers == [claim |-> "plain", complete |-> "nothing", exception |-> "plain"]

shipmentHandlers == [post |-> "keyed", void |-> "keyed"]

returnsHandlers == [approve |-> "plain", reject |-> "plain", complete |-> "plain"]

stockHandlers == [transfer |-> "plain"]

Handlers ==
    [picking |-> pickingHandlers, packing |-> packingHandlers, putaway |-> putawayHandlers,
     shipment |-> shipmentHandlers, return |-> returnsHandlers, stock |-> stockHandlers]

\* The order pages ask for a status without a key, the receipt form posts with one.
SentAs(kind, button) ==
    IF kind \in DOMAIN Handlers THEN Handlers[kind][button] ELSE IF button = "receive" THEN "keyed" ELSE "plain"

----------------------------------------------------------------------------
(* What the routes require and the services accept: <<from, to>>           *)

\* Routes that call requireIdempotencyKey.
NeedKey ==
    {<<"shipment", "post">>, <<"shipment", "void">>, <<"return", "complete">>, <<"stock", "transfer">>,
     <<"purchaseOrder", "receive">>}

PickingService ==
    [claim |-> {<<"READY", "CLAIMED">>}, confirm |-> {<<"CLAIMED", "PICKED">>}, short |-> {<<"CLAIMED", "SHORTED">>}]

PackingService ==
    [claim     |-> {<<"READY", "CLAIMED">>}, complete |-> {<<"CLAIMED", "PACKED">>},
     exception |-> {<<"CLAIMED", "EXCEPTION">>}]

PutawayService ==
    [claim     |-> {<<"READY", "CLAIMED">>}, complete |-> {<<"CLAIMED", "COMPLETED">>},
     exception |-> {<<"READY", "EXCEPTION">>, <<"CLAIMED", "EXCEPTION">>}]

\* READY is an order that is PACKED, POSTED one that has been shipped.
ShipmentService == [post |-> {<<"READY", "POSTED">>}, void |-> {<<"POSTED", "READY">>}]

ReturnStatuses == {"OPEN", "APPROVED", "REJECTED", "COMPLETED"}

\* A decision looks at no status.
ReturnsService ==
    [approve  |-> ReturnStatuses \X {"APPROVED"}, reject |-> ReturnStatuses \X {"REJECTED"},
     complete |-> {<<"APPROVED", "COMPLETED">>}]

StockService == [transfer |-> {<<"LISTED", "LISTED">>}]

PurchaseOrderService ==
    [PENDING_APPROVAL |-> {<<"DRAFT", "PENDING_APPROVAL">>},
     APPROVED         |-> {<<"PENDING_APPROVAL", "APPROVED">>},
     SENT             |-> {<<"APPROVED", "SENT">>},
     CANCELLED        |-> {"DRAFT", "PENDING_APPROVAL", "APPROVED", "SENT"} \X {"CANCELLED"},
     receive          |-> {"SENT", "PARTIALLY_RECEIVED"} \X {"PARTIALLY_RECEIVED", "RECEIVED"}]

\* What if a packed order could go back to picking?
BugSalesOrderService ==
    [CONFIRMED |-> {<<"DRAFT", "CONFIRMED">>},
     ALLOCATED |-> {<<"CONFIRMED", "ALLOCATED">>},
     PICKING   |-> {<<"ALLOCATED", "PICKING">>, <<"PACKED", "PICKING">>},
     PICKED    |-> {<<"PICKING", "PICKED">>},
     PACKED    |-> {<<"PICKED", "PACKED">>},
     SHIPPED   |-> {<<"PACKED", "SHIPPED">>},
     DELIVERED |-> {<<"SHIPPED", "DELIVERED">>},
     CLOSED    |-> {<<"DELIVERED", "CLOSED">>},
     RETURNED  |-> {<<"DELIVERED", "RETURNED">>},
     CANCELLED |-> {"DRAFT", "CONFIRMED", "ALLOCATED", "PICKING", "PICKED", "PACKED"} \X {"CANCELLED"}]

SalesOrderService ==
    [CONFIRMED |-> {<<"DRAFT", "CONFIRMED">>},
     ALLOCATED |-> {<<"CONFIRMED", "ALLOCATED">>},
     PICKING   |-> {<<"ALLOCATED", "PICKING">>},
     PICKED    |-> {<<"PICKING", "PICKED">>},
     PACKED    |-> {<<"PICKED", "PACKED">>},
     SHIPPED   |-> {<<"PACKED", "SHIPPED">>},
     DELIVERED |-> {<<"SHIPPED", "DELIVERED">>},
     CLOSED    |-> {<<"DELIVERED", "CLOSED">>},
     RETURNED  |-> {<<"DELIVERED", "RETURNED">>},
     CANCELLED |-> {"DRAFT", "CONFIRMED", "ALLOCATED", "PICKING", "PICKED", "PACKED"} \X {"CANCELLED"}]

Services ==
    [picking |-> PickingService, packing |-> PackingService, putaway |-> PutawayService, shipment |-> ShipmentService,
     return |-> ReturnsService, stock |-> StockService, purchaseOrder |-> PurchaseOrderService, salesOrder |-> SalesOrderService]

Moves(kind) == UNION {Services[kind][button] : button \in DOMAIN Services[kind]}

Statuses(kind) == {move[1] : move \in Moves(kind)} \cup {move[2] : move \in Moves(kind)}

\* Commands that only the operator who claimed the task may give.
HolderOnly ==
    {<<"picking", "confirm">>, <<"picking", "short">>, <<"packing", "complete">>, <<"packing", "exception">>,
     <<"putaway", "complete">>}

IsReceipt(click) == click.button = "receive"

\* The moves the service makes for a click that the status and the holder allow.
Accepted(click) ==
    {move \in Services[doc.kind][click.button] :
        /\ move[1] = doc.status
        /\ <<doc.kind, click.button>> \in NeedKey => SentAs(doc.kind, click.button) = "keyed"
        /\ <<doc.kind, click.button>> \in HolderOnly => doc.holder = click.user}

\* Answered with success though nothing is left to do: the status asked for, a task claimed by its holder,
\* a receipt whose key is posted.
Repeats(click) ==
    \/ doc.kind \in {"purchaseOrder", "salesOrder"} /\ click.button = doc.status
    \/ click.button = "claim" /\ doc.status = "CLAIMED" /\ doc.holder = click.user
    \/ IsReceipt(click) /\ \E receipt \in doc.receipts : receipt.key = click.key

----------------------------------------------------------------------------

\* The lists of shipments holds only what can be shipped.
Fetched == IF doc.kind = "shipment" /\ doc.status # "READY" THEN "gone" ELSE doc.status

\* fetch: the answer of a GET that is not shown yet.  form: the receipt form that is open, 0 for none.
BlankPage == [view |-> "blank", fetch |-> "none", form |-> 0, saving |-> FALSE]

NoKey == <<>>

NoClick == [user |-> Nobody, button |-> "none", seen |-> "none", form |-> 0, key |-> NoKey, answer |-> "none"]

WorkbenchInit ==
    /\ doc \in UNION {[kind : {kind}, status : Statuses(kind), holder : Users \cup {Nobody}, receipts : {{}}] :
                         kind \in DOMAIN Services}
    /\ doc.holder # Nobody <=> doc.kind \in {"picking", "packing", "putaway"} /\ doc.status # "READY"
    /\ pages = [u \in Users |-> BlankPage]
    /\ clicks = [c \in Commands |-> NoClick]
    /\ forms = 0
    /\ Api!Init

----------------------------------------------------------------------------
(* The pages                                                               *)

\* The server answers a GET: of openDetail, of refreshSelected, or of a list that SWR loads or revalidates,
\* at any time and after every command that succeeded.  One that fails leaves the page as it was.
Read(u) ==
    /\ pages[u].fetch # Fetched
    /\ pages' = [pages EXCEPT ![u].fetch = Fetched]
    /\ UNCHANGED <<doc, clicks, forms, remote>>

Show(u) ==
    /\ pages[u].fetch # "none"
    /\ pages' = [pages EXCEPT ![u].view = pages[u].fetch, ![u].fetch = "none"]
    /\ UNCHANGED <<doc, clicks, forms, remote>>

Request(u, c, button, key) ==
    /\ Api!Start(c)
    /\ clicks' = [clicks EXCEPT ![c] = [user |-> u, button |-> button, seen |-> pages[u].view,
                                        form |-> pages[u].form, key |-> key, answer |-> "none"]]

\* A button that sends its request at once; it is not disabled while the request is under way.
Click(u, c) ==
    \E button \in Offers(doc.kind, pages[u].view) \ {"receive"} :
        /\ SentAs(doc.kind, button) # "nothing"
        /\ Request(u, c, button, IF SentAs(doc.kind, button) = "keyed" THEN <<"call", c>> ELSE NoKey)
        /\ UNCHANGED <<doc, pages, forms>>

OpenReceiptForm(u) ==
    /\ "receive" \in Offers(doc.kind, pages[u].view) /\ pages[u].form = 0 /\ forms < MaxForms
    /\ forms' = forms + 1
    /\ pages' = [pages EXCEPT ![u].form = forms + 1, ![u].saving = FALSE]
    /\ UNCHANGED <<doc, clicks, remote>>

\* The overlay closes the form even while it is saving.
CloseForm(u) ==
    /\ pages[u].form # 0
    /\ pages' = [pages EXCEPT ![u].form = 0, ![u].saving = FALSE]
    /\ UNCHANGED <<doc, clicks, forms, remote>>

\* What if the form made its key when it is submitted, as the receiving page does?
BugReceiptKey(u, c) == <<"call", c>>

\* GoodsReceiptForm makes its key when it is opened.
ReceiptKey(u, c) == <<"form", pages[u].form>>

submit(u, c) ==
    /\ pages[u].form # 0 /\ ~pages[u].saving
    /\ Request(u, c, "receive", ReceiptKey(u, c))
    /\ pages' = [pages EXCEPT ![u].saving = TRUE]
    /\ UNCHANGED <<doc, forms>>

----------------------------------------------------------------------------
(* The server                                                              *)

\* An answer that nobody waits for is lost.
Tells(c, answer) ==
    clicks' = [clicks EXCEPT ![c] = IF remote[c].state = "open" THEN [@ EXCEPT !.answer = answer] ELSE NoClick]

\* What the service of the putaway tasks does in two statements.
IsException(click) == doc.kind = "putaway" /\ click.button = "exception"

\* A request whose page has stopped waiting is served like any other.
Serve(c) ==
    LET click == clicks[c]
    IN  /\ click.answer = "none" /\ click # NoClick /\ ~IsException(click)
        /\ Api!Apply(c)
        /\ Tells(c, "ok")
        /\ IF Repeats(click) THEN UNCHANGED doc
           ELSE \E move \in Accepted(click) :
                    doc' = [doc EXCEPT !.status = move[2],
                                       !.holder = IF click.button = "claim" THEN click.user ELSE @,
                                       !.receipts = IF IsReceipt(click)
                                                    THEN @ \cup {[key |-> click.key, form |-> click.form]} ELSE @]
        /\ UNCHANGED <<pages, forms>>

\* exception reads whether the task is still to be put away, and then updates it by its id alone.
FindTask(c) ==
    /\ clicks[c] # NoClick /\ clicks[c].answer = "none" /\ IsException(clicks[c]) /\ Accepted(clicks[c]) # {}
    /\ clicks' = [clicks EXCEPT ![c].answer = "found"]
    /\ UNCHANGED <<doc, pages, forms, remote>>

FlagTask(c) ==
    /\ clicks[c].answer = "found"
    /\ Api!Apply(c)
    /\ Tells(c, "ok")
    /\ doc' = [doc EXCEPT !.status = "EXCEPTION"]
    /\ UNCHANGED <<pages, forms>>

Rejects(c) ==
    /\ remote[c].state \in {"open", "failed"} /\ clicks[c].answer \in {"none", "found"} /\ clicks[c] # NoClick
    /\ Tells(c, "refused")
    /\ UNCHANGED <<doc, pages, forms, remote>>

\* Moves made by other pages and callers: the last pack task, a shipment and its void move an order, and callers
\* that are no page complete a putaway task.
ElsewhereMoves(kind) ==
    CASE kind = "salesOrder" -> {<<"PACKED", "SHIPPED">>}
              \cup {"ALLOCATED", "PICKING", "PICKED", "SHIPPED", "DELIVERED", "CLOSED", "RETURNED"} \X {"PACKED"}
      [] kind = "shipment"   -> {<<"READY", "POSTED">>, <<"POSTED", "READY">>}
      [] kind = "putaway"    -> {<<"CLAIMED", "COMPLETED">>}
      [] OTHER               -> {}

Elsewhere ==
    /\ \E move \in ElsewhereMoves(doc.kind) : doc.status = move[1] /\ doc' = [doc EXCEPT !.status = move[2]]
    /\ UNCHANGED <<pages, clicks, forms, remote>>

----------------------------------------------------------------------------
(* The answers                                                             *)

\* A page that was told of success reads the document again; the form that is open is closed.
ShowSuccess(c) ==
    LET u == clicks[c].user
    IN  /\ clicks[c].answer = "ok" /\ Api!Resolve(c)
        /\ pages' = IF IsReceipt(clicks[c]) THEN [pages EXCEPT ![u].form = 0, ![u].saving = FALSE] ELSE pages
        /\ clicks' = [clicks EXCEPT ![c] = NoClick]
        /\ UNCHANGED <<doc, forms>>

\* Refused, timed out, or the session has expired: the page shows an error and stays as it was.
ShowError(c) ==
    LET u == clicks[c].user
    IN  /\ Api!Fail(c)
        /\ pages' = [pages EXCEPT ![u].saving = @ /\ ~(IsReceipt(clicks[c]) /\ clicks[c].form = pages[u].form)]
        /\ clicks' = [clicks EXCEPT ![c] = IF @.answer \in {"none", "found"} THEN @ ELSE NoClick]
        /\ UNCHANGED <<doc, forms>>

----------------------------------------------------------------------------

WorkbenchNext ==
    \/ \E u \in Users :
          \/ Read(u) \/ Show(u) \/ OpenReceiptForm(u) \/ CloseForm(u)
          \/ \E c \in Commands : Click(u, c) \/ submit(u, c)
    \/ \E c \in Commands : Serve(c) \/ FindTask(c) \/ FlagTask(c) \/ Rejects(c) \/ ShowSuccess(c) \/ ShowError(c)
    \/ Elsewhere

WorkbenchSpec == WorkbenchInit /\ [][WorkbenchNext]_workbenchVars

----------------------------------------------------------------------------
(* Properties                                                              *)

\* Cancelling is offered at several statuses and meant at each; a receipt adds to those before it; and the
\* decision on a return is the one command that looks at no status.
Unconditional == {"CANCELLED", "receive", "approve", "reject"}

\* A double click, a second user, a page that is out of date or a request that is served long after its
\* page has given it up: a click moves the document only from the status that was shown to its user.  One click may
\* do more, because PutawayService.exception looks at the status before it writes and not when it writes: a task that
\* was still to be put away when it looked may be completed by the time it is flagged.
StaleClicksAreSafe ==
    [][\A c \in Commands :
           remote'[c].applied > remote[c].applied /\ doc'.status # doc.status /\ clicks[c].button \notin Unconditional
           => \/ clicks[c].seen = doc.status
              \/ clicks[c].answer = "found" /\ doc.status = "COMPLETED"]_workbenchVars

\* One receipt form posts one receipt, however often it is submitted again after an error and whichever of
\* its requests are served late.
FormPostsOnce ==
    \A r1, r2 \in doc.receipts : doc.kind = "purchaseOrder" /\ r1.form = r2.form => r1 = r2

\* COMPLETE of the putaway page never sends a request; COMPLETE of the returns page and the transfer form of
\* the stock page never send the key that their routes require.
DeadButtons == {<<"putaway", "complete">>, <<"return", "complete">>, <<"stock", "transfer">>}

\* Page, route and service agree: a button shown for the present status, to the one who may use it, sends
\* what the route asks for and asks for what the service does at this status.
NoDeadButton ==
    \A u \in Users :
        pages[u].view = doc.status /\ doc.holder \in {u, Nobody} =>
            \A button \in Offers(doc.kind, pages[u].view) :
                \/ <<doc.kind, button>> \in DeadButtons
                \/ /\ SentAs(doc.kind, button) # "nothing"
                   /\ Accepted([NoClick EXCEPT !.user = u, !.button = button]) # {}
=============================================================================
