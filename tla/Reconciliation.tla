--------------------------- MODULE Reconciliation ---------------------------
(***************************************************************************)
(* ReconciliationService beside the returns: runs that compare every       *)
(* StockLevel row with the sum of its movements, the discrepancies they    *)
(* record and what is done about each, and the read-only report of         *)
(* InventoryPostingService.reconcile.                                      *)
(*                                                                         *)
(* start and resolveDiscrepancy are serializable transactions, hence one   *)
(* action each.  complete and cancel are not: they read the status in one  *)
(* statement, complete counts in another, and the last one writes.  The    *)
(* report reads rows and movements in two statements, in either order,     *)
(* without a common snapshot.                                              *)
(*                                                                         *)
(* Rows and ledger differ only where something outside the program wrote   *)
(* one of them: a difference is there when the behaviour starts.           *)
(***************************************************************************)
EXTENDS ReturnRequests

CONSTANTS
    Runs,           \* reconciliation run ids
    Scopes,         \* the balances a run may cover: of one warehouse, or all
    OpeningLedger,  \* OpeningLedger[b]: the sums of the movements the behaviour starts with
    NoResolution,   \* the null resolution
    Chosen,         \* the resolutions the users of a behaviour choose among
    Handlers        \* complete, cancel and report requests that may be under way at once

VARIABLES
    runs,           \* runs[r]: the run's row with its discrepancies, or NoRun
    lastNumber,     \* DocumentSequence.lastNumber of the RECONCILIATION documents
    handlers        \* handlers[h]: what the request has read and does next

reconciliationVars == <<runs, lastNumber, handlers>>
vars == <<requests, decisions, completions, stock, posted, runs, lastNumber, handlers>>

RunStatuses == {"PENDING", "IN_PROGRESS", "COMPLETED", "CANCELLED"}
Resolutions == {"ADJUST_STORED", "ADJUST_LEDGER", "INVESTIGATE", "IGNORE"}

ASSUME ChosenAssumption == Chosen \subseteq Resolutions
ASSUME NoResolutionAssumption == NoResolution \notin Resolutions

\* A run covers balances there are, and available is computed from the other sums.
ASSUME LedgerAssumption ==
    /\ Scopes \subseteq SUBSET Balances
    /\ OpeningLedger \in [Balances -> Quantities]
    /\ \A b \in Balances : AvailableFollows(OpeningLedger[b])

Discrepancies == [stored : Quantities, ledger : Quantities, resolution : Resolutions \cup {NoResolution}]

\* found: a function from the balances that differ to their discrepancies.
RunRow(status, scope, found) ==
    [status |-> status, scope |-> scope, found |-> found, resolvedCount |-> 0]

NoRun == RunRow("NONE", {}, <<>>)
Idle  == [step |-> "none"]

Init ==
    /\ ReturnsInit
    /\ runs = [r \in Runs |-> NoRun]
    /\ lastNumber = 0
    /\ handlers = [h \in Handlers |-> Idle]

----------------------------------------------------------------------------
(* What the ledger says of a balance.                                      *)

\* What the movements of a balance add up to in one of its quantities.
SumOf(movements, b, field) ==
    SumFunctionOnSet([p \in movements |-> p.delta[field]], {p \in movements : p.balance = b})

DeltaSums(movements, b) ==
    [onHand |-> SumOf(movements, b, "onHand"), allocated |-> SumOf(movements, b, "allocated"),
     hold |-> SumOf(movements, b, "hold")]

\* The sums of the deltas, with available computed from them.
LedgerTotals(movements, b) == After(OpeningLedger[b], DeltaSums(movements, b))

\* What if the comparison looked at what is on hand alone?
BugMatchesOnHand(row, totals) == row.onHand = totals.onHand

Matches(row, totals) == row = totals

Differing(rows, movements, scope) == {b \in scope : ~Matches(rows[b], LedgerTotals(movements, b))}

Difference(from, to) ==
    [onHand |-> to.onHand - from.onHand, allocated |-> to.allocated - from.allocated,
     hold |-> to.hold - from.hold]

----------------------------------------------------------------------------

CreateRun(r, scope) ==
    /\ runs[r] = NoRun
    /\ runs' = [runs EXCEPT ![r] = RunRow("PENDING", scope, <<>>)]
    /\ UNCHANGED <<returnVars, inventoryVars, lastNumber, handlers>>

\* What if a cancelled run could be started?
BugStartCancelled(r) ==
    /\ runs[r].status \in {"PENDING", "CANCELLED"}
    /\ runs' = [runs EXCEPT ![r] = RunRow("IN_PROGRESS", @.scope,
                  [b \in Differing(stock, posted, @.scope) |->
                      [stored |-> stock[b], ledger |-> LedgerTotals(posted, b),
                       resolution |-> NoResolution]])]
    /\ UNCHANGED <<returnVars, inventoryVars, lastNumber, handlers>>

StartRun(r) ==
    /\ runs[r].status = "PENDING"
    /\ runs' = [runs EXCEPT ![r] = RunRow("IN_PROGRESS", @.scope,
                  [b \in Differing(stock, posted, @.scope) |->
                      [stored |-> stock[b], ledger |-> LedgerTotals(posted, b),
                       resolution |-> NoResolution]])]
    /\ UNCHANGED <<returnVars, inventoryVars, lastNumber, handlers>>

\* The compensating posting of ADJUST_STORED: the difference the run recorded, not today's.
AdjustmentKey(r, b) == Key("RECONCILIATION", <<r, b>>, 0)

Adjustment(r, b) ==
    LET found == runs[r].found[b]
        delta == Difference(found.stored, found.ledger)
    IN  Posting(b, AdjustmentKey(r, b), "ADJUSTMENT",
                Abs(delta.onHand) + Abs(delta.allocated) + Abs(delta.hold), delta, NoKey)

Resolved(found) == {b \in DOMAIN found : found[b].resolution # NoResolution}

\* DocumentSequenceService.next, inside the caller's transaction.
NextNumber == lastNumber' = lastNumber + 1

\* The number is drawn and the adjustment posted only for a difference in a delta; a row whose
\* available alone is wrong is resolved without them.
MarkResolved(r, b, resolution) ==
    runs' = [runs EXCEPT ![r].found[b].resolution = resolution,
                         ![r].resolvedCount = Cardinality(Resolved(runs[r].found) \cup {b})]

\* What if a discrepancy could be resolved again?
BugResolveAgain(r, b, resolution) ==
    /\ runs[r].status = "IN_PROGRESS"
    /\ b \in DOMAIN runs[r].found
    /\ MarkResolved(r, b, resolution)
    /\ IF resolution = "ADJUST_STORED" /\ Adjustment(r, b).quantity # 0
       THEN /\ Posts(OneMore(Inventory, Adjustment(r, b)))
            /\ NextNumber
       ELSE UNCHANGED <<inventoryVars, lastNumber>>
    /\ UNCHANGED <<returnVars, handlers>>

\* ADJUST_LEDGER, INVESTIGATE and IGNORE change nothing but the discrepancy.
ResolveDiscrepancy(r, b, resolution) ==
    /\ runs[r].status = "IN_PROGRESS"
    /\ b \in DOMAIN runs[r].found
    /\ runs[r].found[b].resolution = NoResolution
    /\ MarkResolved(r, b, resolution)
    /\ IF resolution = "ADJUST_STORED" /\ Adjustment(r, b).quantity # 0
       THEN /\ Posts(OneMore(Inventory, Adjustment(r, b)))
            /\ NextNumber
       ELSE UNCHANGED <<inventoryVars, lastNumber>>
    /\ UNCHANGED <<returnVars, handlers>>

----------------------------------------------------------------------------
(* complete and cancel.                                                    *)

Handle(h, step) ==
    /\ handlers' = [handlers EXCEPT ![h] = step]
    /\ UNCHANGED <<returnVars, inventoryVars, lastNumber>>

BeginComplete(h, r) ==
    /\ handlers[h] = Idle
    /\ runs[r].status = "IN_PROGRESS"
    /\ Handle(h, [step |-> "complete", run |-> r])
    /\ UNCHANGED runs

\* What if complete did not count the unresolved discrepancies?
BugCountUnresolvedNever(h) ==
    /\ handlers[h].step = "complete"
    /\ Handle(h, [step |-> "write", run |-> handlers[h].run])
    /\ UNCHANGED runs

\* The count, which refuses the completion unless it is zero.
CountUnresolved(h) ==
    /\ handlers[h].step = "complete"
    /\ LET r == handlers[h].run
       IN  \/ /\ Resolved(runs[r].found) = DOMAIN runs[r].found
              /\ Handle(h, [step |-> "write", run |-> r])
           \/ /\ Resolved(runs[r].found) # DOMAIN runs[r].found
              /\ Handle(h, Idle)
    /\ UNCHANGED runs

\* Neither the status nor the count is looked at again.
FinishComplete(h) ==
    /\ handlers[h].step = "write"
    /\ runs' = [runs EXCEPT ![handlers[h].run].status = "COMPLETED"]
    /\ Handle(h, Idle)

BeginCancel(h, r) ==
    /\ handlers[h] = Idle
    /\ runs[r] # NoRun /\ runs[r].status # "COMPLETED"
    /\ Handle(h, [step |-> "cancel", run |-> r])
    /\ UNCHANGED runs

FinishCancel(h) ==
    /\ handlers[h].step = "cancel"
    /\ runs' = [runs EXCEPT ![handlers[h].run].status = "CANCELLED"]
    /\ Handle(h, Idle)

----------------------------------------------------------------------------
(* InventoryPostingService.reconcile.                                      *)

\* The first of its two reads: of the rows, or of the movements.  at, which counts the movements
\* there are, is history.
BeginReport(h, first) ==
    /\ handlers[h] = Idle
    /\ Handle(h, [step |-> "report", first |-> first, read |-> IF first = "rows" THEN stock ELSE posted,
                  at |-> Cardinality(posted)])
    /\ UNCHANGED runs

\* What it answers when the second read is made now.
ReportOf(h) ==
    LET request   == handlers[h]
        rows      == IF request.first = "rows" THEN request.read ELSE stock
        movements == IF request.first = "movements" THEN request.read ELSE posted
    IN  Differing(rows, movements, Balances)

FinishReport(h) ==
    /\ handlers[h].step = "report"
    /\ Handle(h, Idle)
    /\ UNCHANGED runs

ReconciliationNext ==
    \/ \E r \in Runs, scope \in Scopes : CreateRun(r, scope)
    \/ \E r \in Runs : StartRun(r)
    \/ \E r \in Runs, b \in Balances, resolution \in Chosen : ResolveDiscrepancy(r, b, resolution)
    \/ \E h \in Handlers, r \in Runs : BeginComplete(h, r) \/ BeginCancel(h, r)
    \/ \E h \in Handlers, first \in {"rows", "movements"} : BeginReport(h, first)
    \/ \E h \in Handlers : CountUnresolved(h) \/ FinishComplete(h) \/ FinishCancel(h) \/ FinishReport(h)

Next ==
    \/ ReturnsNext /\ UNCHANGED reconciliationVars
    \/ ReconciliationNext

Spec == Init /\ [][Next]_vars

----------------------------------------------------------------------------
(* Properties.                                                             *)

\* The rows hold what their tables allow; a completed return says what became of its goods.
TypeOK ==
    /\ \A r \in Returns : requests[r] \in {NoRequest} \cup Requests
    /\ \A r \in Returns : requests[r].status = "COMPLETED" => requests[r].disposition # NoDisposition
    /\ stock \in [Balances -> Quantities]
    /\ posted \subseteq Postings
    /\ \A r \in Runs : /\ runs[r].status \in RunStatuses \cup {"NONE"}
                       /\ DOMAIN runs[r].found \subseteq runs[r].scope
                       /\ \A b \in DOMAIN runs[r].found : runs[r].found[b] \in Discrepancies
                       /\ runs[r].resolvedCount = Cardinality(Resolved(runs[r].found))
    /\ lastNumber \in Nat

\* The balances that differ when the behaviour starts.
Drifted == {b \in Balances : OpeningStock[b] # OpeningLedger[b]}

\* A run sees rows and movements of one moment: whatever is posted around it, it records exactly
\* the balances that differ, each with its true difference; and so does a report during whose two
\* reads nothing was posted.  Both find it again after ADJUST_STORED, see AdjustedRowsMatchLedger.
DiscrepanciesShowDrift ==
    /\ \A r \in Runs : runs[r].status \in {"IN_PROGRESS", "COMPLETED"} =>
          /\ DOMAIN runs[r].found = Drifted \cap runs[r].scope
          /\ \A b \in DOMAIN runs[r].found :
                Difference(runs[r].found[b].ledger, runs[r].found[b].stored) =
                    Difference(OpeningLedger[b], OpeningStock[b])
    /\ \A h \in Handlers :
          handlers[h].step = "report" /\ handlers[h].at = Cardinality(posted) => ReportOf(h) = Drifted

\* The discrepancies that were resolved by a posting.
Adjusted == {x \in Runs \X Balances :
                /\ x[2] \in DOMAIN runs[x[1]].found
                /\ runs[x[1]].found[x[2]].resolution = "ADJUST_STORED"
                /\ Adjustment(x[1], x[2]).quantity # 0}

\* The compensating postings are those of the discrepancies resolved by ADJUST_STORED, once each and
\* by the difference recorded, and every one has a document number of its own.
AdjustmentsAreAccounted ==
    /\ {p \in posted : p.key.kind = "RECONCILIATION"} = {Adjustment(x[1], x[2]) : x \in Adjusted}
    /\ lastNumber = Cardinality(Adjusted)

\* However completions, cancellations and resolutions interleave, a completed run leaves no
\* discrepancy unresolved ("discrepancies remain unresolved", complete's refusal).
CompletedRunsAreResolved ==
    \A r \in Runs : runs[r].status = "COMPLETED" =>
        /\ Resolved(runs[r].found) = DOMAIN runs[r].found
        /\ runs[r].resolvedCount = Cardinality(DOMAIN runs[r].found)

\* complete and cancel write the status they decided on some time ago, so a cancelled run may yet be
\* completed and a completed one cancelled; but an ended run never goes on, and what it found and
\* what was decided of it stays.
EndedRunsStayEnded ==
    [][\A r \in Runs : runs[r].status \in {"COMPLETED", "CANCELLED"} =>
          /\ runs'[r].status \in {"COMPLETED", "CANCELLED"}
          /\ runs'[r].found = runs[r].found]_vars

\* "Commands write both in one transaction" (ADR 0005): no operation moves a row without its ledger
\* or the ledger without its row, so the difference between them is what it was at the beginning.
\* That includes ADJUST_STORED, which is why it repairs nothing.
RowsMoveWithLedger ==
    \A b \in Balances : Difference(LedgerTotals(posted, b), stock[b]) =
                            Difference(OpeningLedger[b], OpeningStock[b])

\* What ADJUST_STORED is for: "Adjust stored balance to match ledger" (reconciliation.service.ts:280).  A balance
\* whose discrepancy was resolved so agrees with its ledger.  The code's posting moves both by the difference.
AdjustedRowsMatchLedger == \A x \in Adjusted : Matches(stock[x[2]], LedgerTotals(posted, x[2]))

=============================================================================
