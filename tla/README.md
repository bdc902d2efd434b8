# Stokku in TLA+

Stokku is a warehouse management system: an Express API over PostgreSQL (through Prisma), a Next.js
client and shared packages. This directory models what is hard to get right in it: stock quantities
and their ledger under concurrent commands, the documents that move stock (sales orders, purchase
orders, putaway, returns, reconciliations), the outbox that sends email, sessions and accounts of
users, who may do what, the records all of these name, and the browser client that calls the API and
repeats itself. The modules are translated from the TypeScript and SQL under `src/`; `PROJECT.json`
maps every definition to the lines it models.

## 1. Inventory of the system

| Component | State | Operations | Talks to |
|---|---|---|---|
| Inventory posting (`modules/inventory/inventory-posting.service.ts`) | `StockLevel` rows (onHand, allocated, hold, available, version), append-only `StockMovement` rows with a unique idempotency key | `withInventoryTransaction`, `ensureBalance`, `post`, `receive`, `adjust`, `reverse`, `reconcile` | called by every component that moves stock |
| Stock commands (`modules/stock`) | none of its own | `adjust`, `reverseAdjustment`, `transfer` | posting |
| Allocation (`inventory-allocation.service.ts`) | `InventoryAllocation` rows (quantity, status, execution status, claim) | `allocateSalesOrder`, `releaseSalesOrder`, `shipSalesOrder` | posting; called by sales orders and shipment |
| Sales orders (`modules/sales-orders`) | `SalesOrder.status`, items | `create`, `updateStatus` | allocation |
| Picking, packing (`modules/picking`, `modules/packing`) | execution status, claim and quantities of the allocations | claim, confirm, short; claim, complete, exception | write the order's status too |
| Shipment (`modules/shipment`) | `Shipment` row, one per order | `ship`, `voidShipment` | allocation, posting, order |
| Purchase orders (`modules/purchase-orders`) | order status, received quantities, `GoodsReceipt` rows and lines | `create`, `updateStatus`, `receive` | posting |
| Putaway (`modules/putaway`) | task status, claim and destination of receipt lines | claim, complete, exception | `StockService.transfer` |
| Returns (`modules/returns`) | `ReturnRequest` rows | create, approve, complete | posting |
| Reconciliation (`modules/reconciliation`) | runs, discrepancies, a document number | create, start, resolve, complete, cancel | posting, document sequence |
| Email outbox (`modules/auth/email-outbox.service.ts`) | `EmailOutboxMessage` rows, a per-process batch flag | enqueue, `processBatch` (timer in `server.ts`) | email provider |
| Auth (`modules/auth/auth.service.ts`) | users, refresh sessions, reset and verification tokens | register, verify, login, refresh, logout, password operations | outbox |
| Users, roles, assignments (`modules/users`, `modules/roles`, `middleware/rbac.ts`, `warehouseScope.ts`) | memberships, custom roles and permissions, warehouse assignments, archived warehouses | `updateRole`, `deactivate`, `replace`, role create, update, delete; the checks in front of every route | every route |
| Target authorization (`target-authorization`, `packages/domain`) | none: decides on rows of the present database | `authorize`, `evaluateRoleAssignment`, the probe | rows of users, roles, assignments |
| Master data (`modules/products`, `categories`, `suppliers`, `customers`, `warehouses`) | products with variants and supplier links, categories, suppliers, customers, warehouses, zones, bins | create, update, delete or deactivate | named by orders and stock commands |
| Web API client (`apps/web/utils/api.ts`, `_app.tsx`) | the access token of a tab, the shared refresh, the refresh cookie of the browser | `request`, `refreshAccessToken`, restore, login, logout | auth routes; every page |
| Web pages (`apps/web/pages`) | a list as last read, an open form and its key | buttons by status, forms | the API client |
| Settings, dashboard, reports, cycle counts | records | create, read, update | |

What is hard, per component, and what makes it correct:

- **Posting**: read-compute-write of a row under SERIALIZABLE with a version guard, three attempts,
  unique keys as the only protection against repeated requests. Correct when the row is always the
  end of its chain of movements, nothing goes below zero, a key is posted once, a movement is
  reversed once, a command happens whole or not at all, and an answered success means that something was
  posted under the command's key.
- **Orders, allocation, picking, packing, shipment**: four services write the status of one order and
  the rows of its allocations. Correct when status, allocations and reserved stock always agree,
  whatever the order of the calls; when the last packer packs the order; when late tasks change
  nothing.
- **Receiving and putaway**: repeated partial receipts; a completion in three steps that are not one
  transaction. Correct when received quantities are what receipts accepted, the order's status
  follows them, and the goods of a line are moved once.
- **Returns**: `approve` looks at no status, `complete` looks at the status before it looks for its
  key. Correct when a return is completed no more often than it was approved, once under a key, and
  its posting is the one of its disposition.
- **Reconciliation**: compares rows with movements while stock is posted; `complete` and `cancel` read
  the status in one statement and write it in another. Correct when a run finds exactly what differs,
  a discrepancy is resolved once and is then gone, a completed run leaves none unresolved and an ended
  run stays ended.
- **Outbox**: workers that die, stall and come back late; at-least-once calls of the provider.
  Correct when calls are bounded, results are true and final, and no message is forgotten.
- **Auth**: handlers that read, hash for a while and write, at READ COMMITTED; statements that revoke
  many sessions while others are created. Correct when rotation never forks a family, a reset token
  works once, an alarm has a reason and nothing revoked revives.
- **Users, roles, assignments**: every check is on rows read some statements before the write, while
  other administrators write them. Correct when the organization keeps its founder as owner, other owners
  are not removed by role commands, and authority lost before a request begins gives nothing in it.
- **Target authorization**: a second implementation of the same decisions, from other rows and tables.
  Correct when it differs from the present one only where that is known and meant.
- **Master data**: products are written by several READ COMMITTED statements, and ids of callers are
  checked before they are written. Correct when nothing crosses organizations, the later of two
  crossing lists wins for what it found, new orders name what was active and a form creates one record.
- **Web client**: several calls of a tab meet an expired token at once, several tabs share one cookie,
  the server works on after the client has stopped waiting. Correct when a call ends as far as its timers reach, is applied at
  most once and is reported truthfully, and a tab never takes the cookie from itself.
- **Web pages**: buttons over lists that are out of date, forms submitted again. Correct when a stale
  click changes nothing, a form posts once, and what a page offers is what routes and services accept.

`PROJECT.json` lists every hazard at its line with the properties that would catch it.

## 2. Modules

```
StockPosting ── InventoryCommands ── InventoryPosting ── MCInventoryPosting
     │                 └──────────── AtomicInventory ────────┘ (INSTANCE)
     │                                     │                InventoryPosting_proofs
     └── InventoryBook ────────────────────┘
             ├── SalesFulfillment ── MCSalesFulfillment, SalesFulfillment_proofs
             ├── PurchaseReceiving ── Putaway ── MCPutaway, Putaway_proofs
             └── ReturnRequests ── Reconciliation ── MCReconciliation, Reconciliation_proofs
EmailOutbox ── MCEmailOutbox
     └──────── AuthSessions_proofs (the proofs of both)
AuthSessions ── MCAuthSessions, AuthSessions_proofs
Rbac ── Accounts ── TargetAuthorization ── MCAccounts, Accounts_proofs
RemoteCalls ── WebClient (implements it, INSTANCE) ── WebClient_proofs
     └──────── Workbench (uses it, INSTANCE) ── WebClient_proofs
Catalog ── CatalogHistory ── MCCatalog ── MCPages (with Workbench)
                  └───────── Accounts_proofs
FoldTheorems ── used by InventoryPosting_proofs, SalesFulfillment_proofs, Reconciliation_proofs, Putaway_proofs
```

| Module | What it models |
|---|---|
| `StockPosting` | Quantities, deltas, keys and postings; `post` on an inventory of rows and movements (`CanPost`, `Post`), and what `receive`, `adjust`, `reverse` and allocation post. Pure. |
| `InventoryCommands` | The commands a client can send and the postings each is made of. |
| `InventoryPosting` | Request handlers as concurrent SERIALIZABLE transactions: snapshot, own view, postings one at a time, commit or conflict, attempts, crashes. |
| `InventoryBook` | The inventory as one atomic command sees it: quantities and the set of postings made. |
| `AtomicInventory` | The abstract specification: every command is one step. `InventoryPosting` implements it (`CommandsAreAtomic`). |
| `SalesFulfillment` | `SalesOrderService.updateStatus`, picking, packing, shipment and void, over `InventoryBook`. |
| `PurchaseReceiving` | `PurchaseOrderService.updateStatus` and `receive`; it has `ReceivingNext`, which `Putaway` composes. |
| `Putaway` | Putaway tasks on the receipts of `PurchaseReceiving`: `complete` as read, transfer, write-back, with handlers that race and die. |
| `ReturnRequests` | `ReturnsService`: create, approve, complete with the posting of each disposition; it has `ReturnsNext`, which `Reconciliation` composes. |
| `Reconciliation` | Runs, discrepancies and their resolutions beside the returns, `complete` and `cancel` in their two statements, and the two reads of the report. |
| `EmailOutbox` | The outbox table and the workers' batches, statement by statement. |
| `AuthSessions` | One user's account, refresh sessions and reset tokens, and the requests of `AuthService` (and `UserService.deactivate`) that work on them, statement by statement. |
| `Rbac` | The role hierarchy, the permissions of the system roles and the comparisons built on them. Pure. |
| `Accounts` | The people of one organization: registration and verification, role changes, deactivation, custom roles, warehouse assignments and archival, each request read by read. |
| `TargetAuthorization` | The decision functions of `packages/domain` and what the adapter reads for them, beside what the present middleware says of the same rows. |
| `RemoteCalls` | The abstract specification of the API client: what `api.get` and its siblings promise a page. |
| `WebClient` | Tabs, their access tokens and shared refreshes, the cookie, the session rows, and calls that expire, retry, time out or get lost. Implements `RemoteCalls` (`CallsKeepTheirPromise`). |
| `Workbench` | The pages of orders and tasks: what they offer, what a click sends, and what the services accept, over `RemoteCalls`. |
| `Catalog` | Master data, the orders and stock commands that name it, and the forms that create it. |
| `CatalogHistory` | `Catalog` with what was there when a call was sent and what was active since, which no code keeps, for the two properties that speak of it. |
| `FoldTheorems` | No part of the system: what `FoldLeft`, `SumFunctionOnSet` and `SetToSeq` of the community modules compute, for the proofs. |

How state and actions correspond to the code:

- A `StockLevel` row is `[quantities, version]`, a `StockMovement` the posting with its before and
  after snapshots (`InventoryPosting`) or just the posting (`InventoryBook`). An idempotency key is a
  record `[kind, client, n]`: the prefix the services put before the client's key, the client's key
  or row id, and the number of the leg. The code keeps kinds apart by prefixes only as long as clients
  send no key that looks prefixed: an adjustment's correlation id is the raw client key, where a transfer's is
  `TRANSFER:<key>` (`stock.service.ts:157`, `:199-202`), and the keys of returns have no prefix
  (`returns.service.ts:147`, `:205`). The models take kinds as distinct, so what they show is for clients whose
  keys do not collide in this way; section 5 says what happens otherwise.
- In `InventoryPosting` a transaction's reads see its snapshot plus its own writes. PostgreSQL
  refuses a commit when a row the transaction updated was changed since the snapshot, when a key it
  inserted was taken, or when it cannot prove the transaction serializable: `Commit` requires the
  first two and `Conflict` is always possible instead. The model does **not** assume that
  serializability itself prevents anything: reads of rows that are not written are not validated,
  so what is shown holds by the version guard and the unique index alone.
- In `SalesFulfillment`, `PurchaseReceiving`, `ReturnRequests.CompleteReturn` and
  `Reconciliation.StartRun` and `ResolveDiscrepancy` an operation is one action. Each of them runs inside
  `withInventoryTransaction`, and these operations do rely on SERIALIZABLE (the count of unpacked
  tasks in `packing.complete` is a read that nothing else guards), so atomicity is PostgreSQL's
  promise there: that two packers count at once, neither seeing what the other is about to write, is
  excluded by it and not explored here. `InventoryPosting` is what justifies using the posting service as one step.
- In `Putaway`, `complete` and `exception` are not transactions, and every statement is a step. The
  same goes for the report and for `complete` (status, count of what is unresolved, update) and `cancel` of
  `Reconciliation`.
- In `EmailOutbox` every statement is an action, at READ COMMITTED, and guards are those of the
  `WHERE` clauses at the moment of the update.
- In `AuthSessions` a request is a record of what it has read and does next. A statement that updates
  the rows of a user or a family is two steps, since at READ COMMITTED it works on the rows it
  matched when it began and checks each of them again before it writes: rows created in between
  escape it. Rows updated in a transaction stay locked until its end (`AccountLocked`,
  `TokensLocked`). No WHERE clause matches rows of two users, so one user is modelled. Time is three
  actions: the end of a grace period, of a session and of a token.
- In `Accounts` a request is a record too, and each read that a check rests on is a step: the
  membership in the middleware, the actor, the target, the assignments, then the write. Users other
  than the founder are inserted by nothing under `src/` (only tests and operators do), so `Provision`
  is external. `held`, every role each user had while a request is served, is history. `updateRole` compares the
  actor with the new role and asks of the target only whether it is an owner, so that is what its check is here.
- In `WebClient` the code between two awaits is one step; the server serves a request at any time, or
  never, also after the client has stopped waiting (`strays`). The headers of an answer and its body arrive
  separately, since the timer of `fetchWithTimeout` is cleared when the headers come (`api.ts:38`): a call or a
  refresh can time out before them only, and the body may break off or never end. A 204, which has no body, is read
  like the rest. In `Workbench` and `Catalog` a request is served in one step where its transaction is serializable
  or its update conditional, and statement by statement where it is not, the exception of a putaway task
  (`FindTask`, `FlagTask`) among the latter.
- In `TargetAuthorization` the system roles have the permissions that guard a modelled route or are known to both
  models, and `dashboard.read`, which every system role has in the code and the target does not know: that is why the
  target refuses whoever has been assigned one (`UNKNOWN_PERMISSION_GRANT`).
- Replays answered without any write are not actions in the document modules; in `InventoryPosting`
  they are, since what they answer is the question there.

Operators whose name begins with `Bug` are plausible mistakes at the definition that follows them. No
specification uses them; `PROJECT.json` says which property each one breaks.

## 3. Runs

| Run | Bounds | Shows |
|---|---|---|
| `inventory_posting` | one product, two balances, six commands, each sent any number of times (a two-line receipt, a reservation, an adjustment, two reversals of it, a transfer that may use its destination as a source), two handlers, two attempts, fair handlers | the ledger explains the stock, nothing goes negative, a movement is reversed once, transfers conserve, and the concurrent system implements `AtomicInventory`: a command happens once and whole, and an answered success means that its key was posted, by this command or an earlier one with the key; every command ends |
| `sales_fulfillment` | two orders that compete for the same two balances, two operators, two shipment keys, one correction | status, allocations and stock agree; the last packer packs; late tasks change nothing |
| `sales_reshipped` (violation) | as above | a voided order shipped again through its status is delivered without stock relieved |
| `putaway` | one order of two units, two receipts, three bins, two operators, two handlers, one correction | received quantities and status follow the receipts; putaway creates no stock and moves the goods of a line once |
| `reconciliation` | one return decided at most twice, two completion keys, two runs over one or both of two balances, one of which differs from its ledger, two requests | completions follow approvals, runs find exactly what differs, resolutions post once, completed runs are resolved, ended runs stay ended |
| `reconciliation_repaired` (violation) | as above | a balance repaired by ADJUST_STORED still differs from its ledger |
| `email_outbox` | two messages, two workers, two attempts, batches of two, two crashes, fair timers | calls bounded, results true, final and recorded by the worker that holds the claim, nothing forgotten |
| `auth_sessions` | two requests at a time, three sessions, one reset token, two passwords | families never fork, alarms are true, tokens are spent once, revoked stays revoked |
| `access` | a founder and two users, two requests at a time and in all, three roles to give, one custom role with one of two permission sets, two warehouses | the founder keeps the organization; roles, permissions, scopes and deactivations come from those above or holding them during the request itself; the target authorization differs from the present one where it is known to |
| `owner_removed` (violation) | as above | an owner made between the read and the write of a role change is removed by it |
| `web` | two tabs, two calls, three sessions, fair timers | a tab never races itself, calls end or wait for a body, and the client implements `RemoteCalls` |
| `pages` | the catalog: one product, variant, category, customer and two suppliers of one's own, one each of another organization, two calls that cross, one form; the workbench: the pages, two users, two requests, two receipt forms | nothing crosses organizations and nothing of the other one changes, later lists win, new orders name live records, a form creates one record; stale clicks are safe but for a putaway exception, a receipt form posts once, and no button is dead but those listed in section 5 |

`pages` explores `Catalog` while `Workbench` has not begun and `Workbench` while `Catalog` has not: the two share no
variable, so a step of one is what it is wherever the other stands, and every property is about one of them.
`inventory_posting` has no key that two different requests use; what is proved in section 4 holds for any set of commands,
such ones among them.

Why the bounds are enough. Every conflict in the posting service is between two transactions, so two
handlers reach each of them, and two attempts reach a retry after a conflict and the end of the retries; the code's
third attempt is one more retry, and what is proved holds for any number. A transfer has at most as many legs as sources, and two
sources give a partial leg, a full leg and a leg that goes back to its own row. Two orders and two
balances give one order split over balances and one refused. Two receipts of one item give partial,
completing and excessive receipts. Two approvals give a completed return that is completed again. Two
runs give one that resolves what the other has found too, and two requests a completion and a
cancellation of one run, or a report around a posting. Two outbox workers give a late worker and the
one that took its message, and two attempts give a last one. `MaxCrashes` bounds deaths only to keep
the outbox finite and to make its liveness meaningful; `maxAttempts` (the code's 5) and `batchSize`
(10) are reduced. Three sessions are what a fork takes (a session and two successors), and two
requests are what each race of the auth code and of the administration is between; the proofs say
the same of any number of either. A role change needs a second one to make its target an owner, which is
`owner_removed`. Two calls in one tab share a refresh, the other tab takes the cookie
from both, and three sessions are a login and two rotations. A page's mistake needs a view, a document
and the request between them; the second user makes the view stale. Quantities are whole numbers: the
code uses exact decimals and only adds, subtracts and compares.

`CHECK_DEADLOCK FALSE` stands in the runs `sales_fulfillment`, `sales_reshipped`, `putaway`,
`reconciliation`, `reconciliation_repaired`, `access`, `owner_removed`, `web` and `pages`: orders, tasks, runs and calls come to an end there, and
a bounded supply of keys, receipts and requests leaves nothing to do then.

The type invariants (`TypeOK` of each module) and the inductive invariants of section 4 are in no
standing run. `InventoryInv`, `OutboxInv`, `SessionsInv`, `AccountsInv`, `ReconciliationInv`, `DriftInv`,
`SalesInv`, `StockInv`, `PutawayInv`, `CallsInv`, `RaceInv`, `WorkbenchInv`, `CatalogInv`, `HistoryInv` and `FormsInv` were checked with TLC on the bounds above, and a reader who wants
to see one again adds it to the cfg of a module that extends the MC and the proof module (`RaceInv` with the
sessions it quantifies over bounded, and any operator for the constant `Op` of `FoldTheorems`). `RefinementInv` and
`ConservationInv` quantify over all sequences of legs, which TLC cannot enumerate; what they are for is checked by the run.

### Fairness

`inventory_posting` assumes weak fairness of each handler's own steps (`HandlerGoesOn`): a Node.js request that was
started runs on, its transaction answers, and `Commit` or `Conflict` follows. Arrival of requests and
crashes are not fair. `EveryCommandEnds` therefore rests on the attempt counter, not on luck: a handler
that met conflicts for ever would violate it. `email_outbox` assumes weak fairness of each worker's
batch steps, since `server.ts` starts a batch every few seconds while the process lives (and a
restarted process does so again), and of the two clocks: a retry time is reached and a claim gets old.
Nothing assumes that the provider accepts or that processes do not die. `web` assumes weak fairness of
the timers of a tab alone: that of a call and that of a refresh, which run until the headers come, and the pause before
the second attempt of a refresh. Whether the server ever serves or answers anything is left open, and so is whether a
body that has begun ever ends. `CallsSettle` rests on the timers and on the bound on attempts, and says that a call that
does not end is reading a body, its own or that of the refresh it waits for.

## 4. Proofs

| Module | Theorems |
|---|---|
| `InventoryPosting_proofs` | `InventoryInvariant`, and from it `TypeCorrect`, `LedgerAlwaysExplainsStock`, `StockAlwaysSound`, `KeysAlwaysPostedOnce`, `AlwaysReversedOnce`, `LedgerAlwaysGrows`; `RefinementInvariant`, and from it `CommandsAlwaysAtomic` and `ImplementsAtomicInventory`; `ConservationInvariant`, and from it `TransfersAlwaysConserveStock`; for any balances, keys, commands, number of handlers and attempts |
| `AuthSessions_proofs`, second part, on `EmailOutbox` | `OutboxInvariant`, `OutboxTypeCorrect`, `RetriesAlwaysBounded`, `ResultsAlwaysTrue`, for any number of messages, workers, attempts and crashes |
| `AuthSessions_proofs` | `SessionsInvariant`, `SessionsTypeCorrect`, `FamiliesAlwaysUnforked`, `TokensAlwaysSpentOnce`, `AlarmsAlwaysTrue`, `RevokedAlwaysStaysRevoked`, for any number of requests, passwords, sessions and tokens |
| `Accounts_proofs` | `AccountsInvariant`, `AccountsTypeCorrect`, `FounderAlwaysKeepsOrganization`, `AuthorityAlwaysFlowsDown`, and over `TargetAuthorization` `TargetAlwaysDiffersAsKnown`, for any users, warehouses, custom roles, permission sets and number of requests |
| `Accounts_proofs`, second part, on `Catalog` and `CatalogHistory` | `CatalogInvariant`, `RecordsAlwaysStayInOrganization`, `LaterListsAlwaysWin`, `NewOrdersAlwaysNameLiveRecords`, `FormsAlwaysCreateOne`, for any records, organizations, requests, forms and number of calls |
| `Reconciliation_proofs` | `ReconciliationInvariant`, `CompletionsAlwaysFollowApprovals`, `AdjustmentsAlwaysAccounted`, `CompletedRunsAlwaysResolved`, `EndedRunsAlwaysStayEnded`; `DriftInvariant`, and from it `RowsAlwaysMoveWithLedger` and `DiscrepanciesAlwaysShowDrift`; for any returns, keys, runs, balances and number of requests |
| `SalesFulfillment_proofs` | `SalesInvariant`, `LastPackerAlwaysPacksOrder`, `LateTasksAlwaysChangeNothing`; `StockInvariant`, and from it `AllocationsAlwaysFollowStatus`, `ReservationsAlwaysBacked` and `StockAlwaysFollowsAllocations`; for any orders, items, balances, operators and keys |
| `Putaway_proofs` | `PutawayInvariant`, `PutawayTypeCorrect`, `OrdersAlwaysFollowReceipts`, `PutawayNeverCreatesStock`, `GoodsAlwaysMoveOnce`, for any orders, items, bins, receipts, operators, requests and corrections |
| `WebClient_proofs` | `CallsInvariant`, `ClientImplementsRemoteCalls`; `RaceInvariant`, and from it `TabsNeverRaceThemselves`; for any tabs, calls, sessions and number of refreshes |
| `WebClient_proofs`, second part, on `Workbench` | `WorkbenchInvariant`, `FormsAlwaysPostOnce`, `ButtonsAlwaysLive`, `StaleClicksAlwaysSafe`, for any users, requests and forms |
| `FoldTheorems` | lemmas only: `FoldLeft` over a sequence step by step, and sums over a finite set (one more, one changed, unions, families, opposites) |

Assumptions: those named in the modules (`NoKey`, `NoCommand` and `NoResolution` differ from what they
stand beside, attempts are at least one, commands have one of the four forms, the outbox constants are
positive, the bounds of `AuthSessions`, `Accounts` and `ReturnRequests` are naturals, the first
password is one, the founder is a user, the roles asked for and the resolutions chosen exist). Sales orders are
finite in number, an item is of one order and stands there once, ordered and stocked quantities are naturals, a
balance is a candidate of an item once (`findMany` returns a row once), and client keys include the ids that
services put in their keys. Opening rows and the opening ledger have integer quantities and an `available` that
follows from the others (generated so by the posting service), and a run covers balances there are. Purchase orders,
receipts and bins are finite in number, an order has items, an item is of one order and at least one of it is ordered
(the request schema demands both), the places a transfer may take from are the bins and the null bin, a balance is of a
product at one of them, and nobody is the null operator. In the client
the starter of a refresh is a call or a tab and not both. In the catalog null and a missing field are no id and
no name, what belongs together at first is of one organization, and the party of an order that is asked for is an id of
suppliers or of customers (`RequestsAssumption`: the lookup is in one table). Every one of them is evaluated by TLC in the runs.

**Inventory.** None of the properties is inductive: a commit installs rows that were computed long
before. `InventoryInv` says of every handler what the properties say of the database: its view is
sound (`Sound`: rows are ends of chains, quantities non-negative, keys and reversals distinct,
a reversal is beside its original), and its view and the database `Agree` on the movements its
snapshot counted. A step on the view preserves `Sound` (`PostSound`, one lemma per conjunct). At
`Commit`, for a balance the transaction touched, `RowsUnchanged` says the version is still the
snapshot's; a version is the length of its chain, so the database has exactly the agreed movements
there and the view extends them (`MergedBalance`, `MergedExtends`). Untouched balances keep the
database's rows. Keys of the merged ledger are distinct because new ones are free (`KeysFree`).
Reversals are distinct because a reversal is on the balance of its original
(`ReversalsBesideOriginals`): two transactions that reverse one movement touch one row. That is why
the missing unique index on `reversalOfId` does no harm, and the proof needs no serializability.

**Inventory: the refinement.** `RefinementInv` adds to `InventoryInv` what each handler's view is: what its command
makes of its snapshot, as far as it has come (`Explained`). Until the first posting the view is the
snapshot; in the middle of a document it is the snapshot with the first postings, in the loop over the
sources of a transfer the legs posted so far are legs of distinct sources that, with what remains, make
up the request. When the work is done, the abstract command is enabled in the snapshot and has this
result, replays included. `Commit` then carries it over from the snapshot to the database: the rows the
transaction touched are the snapshot's still, and its keys are free, so the same postings can be made of
the database and have the effect there that they had on the snapshot. An abstract transfer chooses its
sources itself, which is why reads of rows that are not written do not have to be validated. Every other
step changes neither rows, postings nor answers and is a stutter.

**Inventory: conservation.** A transfer's legs are posted by one command, so under a key of a client the book
has all legs of one transfer or none (`TransfersWhole`): a commit of that transfer finds the keys free and
adds them all, and no other command has keys of that kind. The ledger has one movement for each posting
of the book, since keys are distinct, so its sums are the sums of the legs: what each leg takes
out it brings in (`SumOfOpposites`), and together it is the quantity asked for.

**Outbox.** `OutboxInv` adds to the type invariant that the calls made plus the batches about to call
(`Trying`) never exceed the attempts claimed (`CallsAreCounted`), and that a batch which still holds its
message knows its number of attempts (`BatchesAreCurrent`). The first gives the bound on calls, the
second that a worker whose claim the row still carries is at the attempt the row counts. `ResultsAreTrue` follows step by
step: the updates to SENT, PENDING and FAILED all ask whether the row is still locked by the worker, so one that comes
late finds no row, and a recovery asks whether the claim is stale. The proof of `Claim` is the interesting one: the number
of trying batches grows by one and so do the attempts (`TryingStep`, with the cardinality of a finite set).

**Sessions.** `SessionsInv` says of every request at work what its next write relies on
(`RequestSound`): the tokens it holds are still unused, the one it spends among them, and the family it
is about to revoke has a session that was over. No two transactions hold one token. Then a token
that is spent was unused, is used afterwards, and is in no other request's hands; a rotation finds its
session live, which makes it the only live one of its family, and replaces it; and an alarm in progress
stays justified because a session that is over stays so (`Later`). Every step either changes one request
(`GoesSound`, with `Fits` for what the request must be) or changes rows and ends one.

**Accounts.** What a request writes was allowed by rows that may have changed since, so the properties
speak of what actor and target *were*, but only while this request was served: `held` has every role each user had since
the request began, and is emptied when it ends, so a demotion before it counts. `AccountsInv` says of every request at
work, by the step it is at (`RequestSound`), that the actor held during it the role the request goes by, that this role
may give what is asked for, that a role change was read on a target that was no owner, and that a scope or a
deactivation was read on one below the actor; and that the target is not the founder where the founder is protected. A
read establishes its part, other requests' writes keep it because `held` only grows while a request is served and the
founder stays owner, and the writes use it. `TargetDiffersAsKnown` rests on one more part: a user row and the membership
name one role, although two tables hold it and one implementation reads the one, the other the other. The two
hierarchies order the roles alike, what the target's tables and the present ones allow is compared role by role, and a
warehouse in the target's scope is one the user is assigned to.

**Reconciliation.** `ReturnsInv` adds to `CompletionsFollowApprovals` that an APPROVED return has an
approval that no completion has used: `approve` makes it true, since the number of completions never exceeds the
approvals, and `complete` uses it up. `RunsInv` gives the form of a run's row, says that one which has not started
has found nothing, and that `resolvedCount` counts. `PostingsInv` ties the postings to the set
`Adjusted` of what was resolved by a posting, with its cardinality for the document numbers: a key
that names a discrepancy is free while the discrepancy is unresolved, so the posting is new, and the
set grows by one.

**Reconciliation: rows and ledger.** `DriftInv` says that every row is its opening row with the sums of the posted
deltas of its balance added (`LedgerInv`); `LedgerTotals` adds the same sums to the opening ledger, so
row and ledger differ at any time by what they differed at the opening, whatever was posted, and a run
finds exactly that. `available` is computed anew from the other sums on both sides, so the proof needs
that it follows from them at the opening. The report reads rows and movements in two statements; it has
counted the postings at the first one, and since postings are only ever added, an equal count at
the second means that nothing was posted in between and the two reads belong together (`ReadsPast`).

**Sales orders.** `LastPackerPacksOrder` is not inductive: nothing in it says that the status of an order
with active allocations is one that packing may overwrite. `SalesInv` says it (`OrderSound`): active
allocations mean a status from ALLOCATED to PACKED, fulfilled ones a status from SHIPPED on, and all
tasks packed mean PACKED. Four services write both tables: the transition table leaves PACKED only for
SHIPPED and CANCELLED, which end the active allocations in the same transaction (`Transitions`,
`ActiveBecomeKeeps`); an order gets new allocations only from CONFIRMED, where it has none
(`AllocateKeeps`); the task that is packed last packs the order (`TaskKeeps`); and a void brings
allocations and status back together (`VoidShipmentKeeps`). A step on one order leaves the others alone
because an item, and with it an allocation, is of one order (`OneOrder`). That a task needs an active
allocation then keeps late tasks off orders that shipped or were cancelled.

**Sales orders: stock.** `StockInv` adds the quantities. Rows are the opening rows with the totals of the postings
(`LedgerKept`); which postings exist follows from the statuses of the allocations, and under which key a
shipment was voided from that of the shipment (`Booked`); every posting is a correction or one of the four of an
allocation (`PostingsKnown`); and an order that is reserving or shipped has allocated what was ordered, item by item
(`Progress`). `allocateSalesOrder` is two nested folds, over items and over candidates: `FoldTheorems` says
what each of them keeps, and that a fold which succeeds has given every item its quantity. The sum of all
deltas splits into the corrections and one family per allocation (`SumOfFamily`), and each family adds up to
what its status says, reserved, released, shipped or shipped and returned. That is `StockFollowsAllocations`,
and `ReservationsAreBacked` because no allocation takes more from what is reserved at its balance than it gave
(`StockHeld`).

**Receiving and putaway.** `GoodsMoveOnce` is not inductive: a request that is about to mark its task has read nothing
that says its goods were moved, and the task may be a new one. `PutawayInv` says of every line that its goods were
moved whole, with a posting under the first key of its transfer, or not at all (`Moved`, `Unmoved`); that whoever is at
the last step of a completion, and every completed task, is about a line that was moved (`TasksSound`); and
of every posting what its key says it was made for (`Known`). The loop of `transfer` is a fold over the sources as they were
read (`RoundSound`): what the legs made so far have moved and what remains are the quantity, the legs have the numbers
before the next one, and each pair of legs takes from one balance of the product what it gives to another, so what
is on hand stays (`MoveFromKeeps`). When the sources offer enough, nothing remains at the end (`MoveMovesAll`). The first
key is free or taken with the whole transfer, which is why a completion that is repeated, or raced by another, moves
nothing. A receipt posts once for every line it accepted goods on (`ReceiptPosts`), under keys no other receipt
has, and what that adds to the stock of a product it adds to what its items received. The status of an order
follows from the rest: a request never asks for a receiving status nor leaves one (`Transitions`), and a receipt derives
it from quantities that only grow and never beyond what was ordered (`ReceiptKeepsReceived`).

**Web client.** `CallsInv` gives what a call must be for its next step to be one of `RemoteCalls`: while it
is on its way or waits for a refresh it was not applied, an answer that came tells whether it was, and a
request left behind by a timeout or a reload (`adrift`) belongs to a call that has failed and was not applied.
`OneCall`, `SentAgain` and `SessionEnds` take steps of the client to steps of the abstract calls: serving is `Apply`, an
answer `Resolve` or `Fail`, the end of a session `Expire`, which takes all the calls of a tab that waited for
its refresh at once, and refreshes, logins and repetitions are stutters.

**Web client: races.** Two refreshes of one tab with one token would be two at once, or a second one with a token that
the first has spent. `RaceInv` excludes the first with `Promised`: a refresh under way is the one its tab
waits for. The second needs the way a token takes through the browser. A session that an answer under way
brings is `Fresh`: live, not in the cookie, presented by nobody, and brought by that answer alone
(`Brought`). A token that a refresh of the tab has spent (`Spent`) is not in the cookie unless the answer that
replaces it is still to come, and no refresh of the tab presents it. Three lemmas carry most steps: refreshes
end and answers set or clear the cookie (`Settles`), a refresh is sent with the token of the cookie
(`Presents`), or the server inserts a session that an answer will bring (`BroughtBySession`).

**Pages.** `WorkbenchInv` says of every click under way that its page offered it at the status its user was shown
(`SoundClicks`) and that its request was applied at most once (`SoundRemote`), of every page that a putaway task it
saw claimed is not READY (`SoundPages`), and of the document that a claimed task has a holder and a receipt bears the
key of its form (`SoundDocument`). The rest is about the tables of the pages,
page by page: a button that means one status is offered at that status only and its service moves the
document from no other (`OffersNameStatus`), it sends what its route asks for (`RequestsFitRoutes`), and its service accepts
it there. The putaway page is the exception: it offers the exception of a CLAIMED task, which its service
also takes from READY; a task never becomes READY again, so nobody who was shown it CLAIMED finds it READY (`Past`). Between
the look of its service and its write (`found`) the task can be completed, which `StaleClicksAreSafe` excepts by name.
Every request of a form bears the form's key, and a key that is taken posts nothing, so a form posts once.

**Master data.** `CatalogInv` says of every call, by the step it is at, what the statements before have established
(`Checked`): the ids it carries are of the callers' organization, the variants it has listed are variants of its product,
what an order names was found in the organization's tables. Other calls' steps keep this because organizations of ids never
change and a variant, once of a product, stays there (`VariantsKept`, `CheckedStays`); a write of checked ids keeps
the tables apart. `HistoryInv` is about time: every link was made at first or by a call that is done (`Settled`), so a
call that is still under way when this one reads has made none of the links this one found when it was sent, and what
was there when a call was sent and is there still is among what it has read (`Remembers`); `OthersRemember` keeps that while
other calls write. An update then deletes and archives all of it but what it lists, which is
`LaterListsWin`; that only the update itself ends it is a lemma of its own (`OnlyUpdatesEnd`). That the other
organization is untouched (`ForeignStands`) is one conjunct of `CatalogInv` per table, in every field: each write is of a
record that a statement before it has found in the callers' organization. `FormsInv` says that a
form's name is fixed while its calls are under way and that a record which still counts as the form's has that name: a
second create finds the name taken. A record that is renamed no longer counts (its `form` is null from then on), and
indeed it no longer stands in the way of the form's repetition.

**Folds and sums.** The library's induction theorems take an operator, which the provers cannot instantiate.
`FoldTheorems` states induction of sets instead: a set with zero and the successor of each member contains the
naturals, one with the empty set and every extension of a member contains the finite sets. What a fold does is then
proved for a constant operator `Op`, and a module that folds an operator of its own instantiates
`FoldTheorems` with it.

Every safety invariant and action property that a passing run checks is proved. Only model-checked: all liveness
(`EveryCommandEnds`, `CallsSettle` and that of the outbox), since liveness under fairness and ENABLED are out of the
prover's reach; and the findings of `sales_reshipped`, `reconciliation_repaired` and `owner_removed`, which TLC shows by
behaviours.

## 5. Disagreements with the documents

Shown by a violation run and quoted in `PROJECT.json`:

1. After a void, `updateStatus` to SHIPPED finds the shipment keys already posted, relieves no stock and
   goes on to DELIVERED (`shipment.service.ts:145`): run `sales_reshipped`.
2. ADJUST_STORED posts the recorded difference, and a posting moves row and ledger alike, so the difference between them
   stays (`reconciliation.service.ts:280`, `Database.md:140-141`); a second run finds and may post it again: run
   `reconciliation_repaired`. `RowsAlwaysMoveWithLedger` proves that no posting ever repairs a row.
3. `updateRole` asks whether its target is an owner when it reads it and writes later, so an owner made in between is
   removed (`users.service.ts:54`, `SRS.md:29-31`, `Testing.md:35-36`): run `owner_removed`.

The models follow the code in the rest, which no run argues about. Inventory, orders and tasks:

4. A key reused with a different request is answered with the result of the old one
   (`stock.service.ts:124`), where `docs/API.md:103-104` says it is rejected: an answered success is then true of the
   key and not of the request. A client key that looks like one the services make is taken for it: a transfer under
   the key `PUTAWAY:<task>:<receipt>`, or an adjustment under `TRANSFER:<key>`, makes the later putaway or transfer a
   duplicate that moves nothing (`stock.service.ts:157`, `:199-202`); keys of returns are raw as well.
5. A putaway task can be completed with a destination its goods did not go to
   (`putaway.service.ts:128`, `SRS.md:64`), and its exception reads the status and then updates by id, so a completion in
   between becomes EXCEPTION (`putaway.service.ts:134-138`). A task without a source bin moves goods of other bins
   (`stock.service.ts:226`, `UX.md:63`).
6. A completed return can be approved and completed again (`returns.service.ts:102`), and the repetition
   of a completion that succeeded is refused, because the status is looked at before the key (`:133`).
7. A cancelled run may be completed and a completed one cancelled by a request that read the status
   before (`reconciliation.service.ts:350`).
8. Cycle counts: the Prisma schema has no such model, so every operation fails.

Outbox, sessions and accounts:

9. A worker that dies during the last attempt leaves its message PENDING for ever
   (`email-outbox.service.ts:81`, ADR-0008:22-24).
10. A login with a legacy hash writes it back over a password changed meanwhile
    (`auth.service.ts:169`), where ADR-0011:42-44 says the upgrade changes no authentication result.
11. ADR-0012:30 lists account deactivation among what revokes sessions, and `users.service.ts:98` only
    clears `isActive` (the sessions stay live and are refused while it is false). The access token of a
    refresh names the old session id (`auth.service.ts:248`).
12. `updateRole` compares the actor with the new role and never with the target, so an administrator can demote another
    one (ADR-0003, SRS AUTH-07), and an owner can make owners. Crossing replacements of a user's assignments can leave their union. A
    role's permissions are deleted and created in two statements without a transaction
    (`roles.service.ts:82-92`).
13. The target authorization reads the grants of an assigned role unfiltered (`prisma-authorization-adapter.ts:119`), where
    rule 6 of `docs/gate-5-authorization-adapter-parity.md` says unknown ones are filtered, as ADR-0027 admits: whoever has
    been assigned a system role is refused. It allows ADMIN `inventory.adjust.request`, which the present tables do
    not, and scenario 1 of ADR-0017 is answered differently. `evaluateRoleAssignment` has no question like the present
    route's `user.manage` (`users.routes.ts:11`): it would let an INVENTORY_MANAGER give CASHIER or VIEWER, which the present
    route answers with 403. `TargetDiffersAsKnown` says all but the last exactly, and of role assignments speaks of those
    who pass that route.

Web client and pages:

14. The timer of a request is cleared when the headers come (`api.ts:38`): a body that stalls leaves its call, and every
    call that waits for that refresh, pending for ever. Logout of the sidebar forgets the token and never calls `/auth/logout` (ADR-0012:30,
    `deployment-zero-cost.md:132`); a refresh under way during a logout or a login as somebody else sets
    the former user's token; a refresh refused for want of a cookie clears the one another tab's login
    has just set (`auth.routes.ts:50-51`). `/auth/verify-email` is missing from the public paths.
15. `receiving.tsx:113` makes a new key for every submission, so an answer that was lost can lead to a second partial receipt
    (`SRS.md:49-51`); the form of `purchase-orders.tsx` keeps its key, and `FormPostsOnce` is about that one.
16. COMPLETE of the returns page and the transfer form of the stock page never send the key their routes
    require, and COMPLETE of the putaway page sends nothing (`DeadButtons`). The shipments list has no
    posted shipments, so VOID is out of reach; the putaway page loads bins from a route there is not.
17. A late cancellation can cancel a PICKED or PACKED order, and a late decision on a return overrides
    another (`Unconditional`).

Master data:

18. `createBin` can never succeed (its schema requires a `name` that the table has not), a blank SKU is stored
    as the empty string so that a second one is refused, the loser of a race for a SKU or a slug gets
    500 and not 409, a deactivated product is still taken by stock commands, receipts and returns
    (`products.tsx:126`), inactive suppliers and customers cannot be reactivated, `isActive: true` leaves the status
    DISCONTINUED, a category can be deleted while a product gets it (`categories.service.ts:47`), and
    forms of suppliers, customers and orders have no key, so a repetition makes a second record. Two updates of one product
    whose new supplier lists share nothing may both succeed and leave the union of their lists: each replaces what
    it found, which is what `LaterListsWin` says, and not what the other adds (`products.service.ts:188-190`). An order
    whose transaction began before a deactivation is stored after it.

## 6. What is not modelled

- **Cycle counts**: their table is missing from the schema, so no operation succeeds.
- **Settings, dashboard, reports**: one record without readers, and pure reads.
- **HTTP platform**: headers, rate limits, error texts; the order of the checks in front of a route is in the
  models that use the route. `middleware/audit.ts` has no caller.
- **Other web pages** (registration, password and verification pages, receiving, users, settings,
  reports): forms that make one call each, whose server side is modelled, and pages that only show.
- **Email provider and templates**: an external service that accepts or refuses, and wording.
- Prices, reasons, notes, names and audit rows are left out everywhere; updates of suppliers and
  customers change nothing else.

## 7. Plan

Done, in this order: posting core and its abstract specification; its inductive invariant; sales
fulfilment; receiving and putaway; the outbox and its invariant; auth sessions and their invariant;
returns and reconciliation; accounts and both authorizations; the web client with its abstract
specification and the pages over it; master data; the invariants of accounts, reconciliation, sales orders
and the web client, the last with its refinement; what folds and sums compute, and with it the refinement of
`AtomicInventory`, the conservation of transfers and the stock of sales orders and reconciliations; races of a tab;
both authorizations compared; receiving and putaway; the pages; master data with its histories and forms.

Next:

1. The receiving page and the account pages over `RemoteCalls`, with the keys they do or do not keep.
2. Cycle counts, once their table exists.
