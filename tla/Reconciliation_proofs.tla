------------------------ MODULE Reconciliation_proofs ------------------------
(***************************************************************************)
(* Proofs about Reconciliation and the returns it runs beside, for any     *)
(* returns, runs, balances and number of requests at work: which postings  *)
(* are made, what they add up to and which runs end how.                   *)
(***************************************************************************)
EXTENDS Reconciliation, FoldTheorems, TLAPS

\* The form of a run's row and of its discrepancies.
IsRun(run) ==
    /\ run = [status |-> run.status, scope |-> run.scope, found |-> run.found, resolvedCount |-> run.resolvedCount]
    /\ run.found = [b \in DOMAIN run.found |-> run.found[b]]
    /\ \A b \in DOMAIN run.found :
          run.found[b] = [stored |-> run.found[b].stored, ledger |-> run.found[b].ledger,
                          resolution |-> run.found[b].resolution]

\* Before a run starts it has found nothing, and it counts what is resolved.
RunSound(r) ==
    /\ IsRun(runs[r])
    /\ runs[r].status \in {"NONE", "PENDING"} => DOMAIN runs[r].found = {}
    /\ runs[r].resolvedCount = Cardinality(Resolved(runs[r].found))

RunsInv ==
    /\ runs = [r \in Runs |-> runs[r]]
    /\ \A r \in Runs : RunSound(r)
    /\ CompletedRunsAreResolved

\* The rows of returns have their form; an approved return has an approval that no completion has used.
ReturnsInv ==
    /\ requests \in [Returns -> {NoRequest} \cup Requests]
    /\ decisions \in [Returns -> Nat]
    /\ completions \in SUBSET [request : Returns, key : ReturnKeys, disposition : Dispositions]
    /\ IsFiniteSet(completions)
    /\ \A r \in Returns : requests[r].status = "APPROVED" => Cardinality(CompletionsOf(r)) < decisions[r]
    /\ CompletionsFollowApprovals

PostingsInv == IsFiniteSet(Adjusted) /\ AdjustmentsAreAccounted

RowsInv == RunsInv /\ ReturnsInv /\ PostingsInv

\* A run that goes on, of which a completion counted nothing left to resolve.
GoesOn(run)  == run.status \notin {"NONE", "PENDING"}
Counted(run) == GoesOn(run) /\ Resolved(run.found) = DOMAIN run.found

\* What a completion has found out of its run, when it read the status and when it counted, still holds.
CountSound(w) ==
    w.run \in Runs => /\ w.step = "complete" => GoesOn(runs[w.run])
                      /\ w.step = "write" => Counted(runs[w.run])

CountsInv ==
    /\ DOMAIN handlers = Handlers
    /\ \A h \in Handlers : CountSound(handlers[h])

ReconciliationInv == RowsInv /\ CountsInv

----------------------------------------------------------------------------
(* Postings.                                                               *)

\* A posting under a new key is added to the ledger.
LEMMA PostsNew ==
    ASSUME NEW p, ~Taken(posted, p.key), Posts(OneMore(Inventory, p))
    PROVE  posted' = posted \cup {p}
  BY DEF Posts, OneMore, Inventory

\* Discrepancies that stay as they are keep their postings.
LEMMA AdjustedSame ==
    ASSUME \A r \in Runs : runs'[r].found = runs[r].found
    PROVE  /\ Adjusted' = Adjusted
           /\ \A x \in Adjusted : Adjustment(x[1], x[2])' = Adjustment(x[1], x[2])
  BY DEF Adjusted, Adjustment, AdjustmentKey

\* Steps that post nothing of a reconciliation and touch no discrepancy.
LEMMA PostingsStay ==
    ASSUME PostingsInv, \A r \in Runs : runs'[r].found = runs[r].found, lastNumber' = lastNumber,
           {p \in posted' : p.key.kind = "RECONCILIATION"} = {p \in posted : p.key.kind = "RECONCILIATION"}
    PROVE  PostingsInv'
  <1>1. Adjusted' = Adjusted /\ \A x \in Adjusted : Adjustment(x[1], x[2])' = Adjustment(x[1], x[2])
    BY AdjustedSame
  <1>2. {Adjustment(x[1], x[2]) : x \in Adjusted}' = {Adjustment(x[1], x[2]) : x \in Adjusted}
    BY <1>1
  <1> QED
    BY <1>1, <1>2 DEF PostingsInv, AdjustmentsAreAccounted

\* Steps that post nothing of a return and touch no return.
LEMMA ReturnsStay ==
    ASSUME ReturnsInv, UNCHANGED returnVars,
           {p \in posted' : p.key.kind = "RETURN"} = {p \in posted : p.key.kind = "RETURN"}
    PROVE  ReturnsInv'
  BY DEF ReturnsInv, returnVars, CompletionsFollowApprovals, CompletionsOf

\* Steps that touch no run.
LEMMA RunsStay ==
    ASSUME RunsInv, runs' = runs
    PROVE  RunsInv' /\ \A r \in Runs : runs'[r].found = runs[r].found
  BY DEF RunsInv, RunSound, CompletedRunsAreResolved, Resolved

----------------------------------------------------------------------------
(* Returns.                                                                *)

LEMMA CreateReturnKeeps ==
    ASSUME ReturnsInv, NEW r \in Returns, CreateReturn(r)
    PROVE  ReturnsInv'
  <1> DEFINE row == [status |-> "OPEN", disposition |-> NoDisposition]
  <1>1. row \in Requests
    BY DEF Requests, ReturnStatuses
  <1>2. /\ requests' \in [Returns -> {NoRequest} \cup Requests] /\ requests'[r].status = "OPEN"
        /\ \A s \in Returns \ {r} : requests'[s] = requests[s]
    BY <1>1 DEF ReturnsInv, CreateReturn
  <1>3. UNCHANGED <<decisions, completions, posted>>
    BY DEF CreateReturn, inventoryVars
  <1>4. \A s \in Returns : CompletionsOf(s)' = CompletionsOf(s)
    BY <1>3 DEF CompletionsOf
  <1>5. \A s \in Returns : /\ Cardinality(CompletionsOf(s)') <= decisions'[s]
                           /\ requests'[s].status = "APPROVED" => Cardinality(CompletionsOf(s)') < decisions'[s]
    BY <1>2, <1>3, <1>4 DEF ReturnsInv, CompletionsFollowApprovals
  <1>6. \A s \in Returns : requests'[s].status = "COMPLETED" =>
            \E c \in CompletionsOf(s)' : c.disposition = requests'[s].disposition
    BY <1>2, <1>4 DEF ReturnsInv, CompletionsFollowApprovals
  <1>7. CompletionsFollowApprovals'
    BY <1>3, <1>5, <1>6 DEF ReturnsInv, CompletionsFollowApprovals
  <1> QED
    BY <1>2, <1>3, <1>5, <1>7 DEF ReturnsInv

LEMMA ApproveReturnKeeps ==
    ASSUME ReturnsInv, NEW r \in Returns, NEW approved \in BOOLEAN, ApproveReturn(r, approved)
    PROVE  ReturnsInv'
  <1> DEFINE status == IF approved THEN "APPROVED" ELSE "REJECTED"
             row    == [requests[r] EXCEPT !.status = status]
  <1>1. requests[r] \in Requests
    BY DEF ReturnsInv, ApproveReturn
  <1>2. row \in Requests /\ row.status = status
    BY <1>1 DEF Requests, ReturnStatuses
  <1>3. /\ requests' \in [Returns -> {NoRequest} \cup Requests] /\ requests'[r].status = status
        /\ \A s \in Returns \ {r} : requests'[s] = requests[s]
    BY <1>2 DEF ReturnsInv, ApproveReturn
  <1>4. UNCHANGED <<completions, posted>>
    BY DEF ApproveReturn, inventoryVars
  <1>5. /\ decisions' \in [Returns -> Nat] /\ decisions'[r] = IF approved THEN decisions[r] + 1 ELSE decisions[r]
        /\ \A s \in Returns \ {r} : decisions'[s] = decisions[s]
    BY DEF ReturnsInv, ApproveReturn
  <1>6. \A s \in Returns : CompletionsOf(s)' = CompletionsOf(s) /\ Cardinality(CompletionsOf(s)) \in Nat
    <2>1. \A s \in Returns : CompletionsOf(s) \subseteq completions
      BY DEF CompletionsOf
    <2> QED
      BY <1>4, <2>1, FS_Subset, FS_CardinalityType DEF ReturnsInv, CompletionsOf
  <1>7. \A s \in Returns : /\ Cardinality(CompletionsOf(s)') <= decisions'[s]
                           /\ requests'[s].status = "APPROVED" => Cardinality(CompletionsOf(s)') < decisions'[s]
    BY <1>3, <1>5, <1>6 DEF ReturnsInv, CompletionsFollowApprovals
  <1>8. \A s \in Returns : requests'[s].status = "COMPLETED" =>
            \E c \in CompletionsOf(s)' : c.disposition = requests'[s].disposition
    BY <1>3, <1>6 DEF ReturnsInv, CompletionsFollowApprovals
  <1>9. CompletionsFollowApprovals'
    BY <1>4, <1>7, <1>8 DEF ReturnsInv, CompletionsFollowApprovals
  <1> QED
    BY <1>3, <1>4, <1>5, <1>7, <1>9 DEF ReturnsInv

\* A completion uses an approval and posts under a key that no completion has used.
LEMMA CompleteReturnKeeps ==
    ASSUME ReturnsInv, NEW r \in Returns, NEW key \in ReturnKeys, NEW d \in Dispositions,
           CompleteReturn(r, key, d)
    PROVE  /\ ReturnsInv'
           /\ {p \in posted' : p.key.kind = "RECONCILIATION"} = {p \in posted : p.key.kind = "RECONCILIATION"}
  <1> DEFINE p   == ReturnPosting(r, key, d)
             new == [request |-> r, key |-> key, disposition |-> d]
             row == [status |-> "COMPLETED", disposition |-> d]
  <1>1. p.key = Key("RETURN", key, 0) /\ p.key.kind = "RETURN" /\ p.key.client = key
    BY DEF ReturnPosting, Posting, Key
  <1>2. posted' = posted \cup {p}
    BY <1>1, PostsNew DEF CompleteReturn
  <1>3. row \in Requests
    BY DEF Requests, ReturnStatuses
  <1>4. /\ requests' \in [Returns -> {NoRequest} \cup Requests] /\ requests'[r] = row
        /\ \A s \in Returns \ {r} : requests'[s] = requests[s]
        /\ decisions' = decisions /\ completions' = completions \cup {new}
    BY <1>3 DEF ReturnsInv, CompleteReturn
  <1>5. ASSUME NEW c \in completions
        PROVE  c.key # key /\ ReturnPosting(c.request, c.key, c.disposition) \in posted
    <2>1. ReturnPosting(c.request, c.key, c.disposition) \in posted
      BY DEF ReturnsInv, CompletionsFollowApprovals
    <2>2. ReturnPosting(c.request, c.key, c.disposition).key = Key("RETURN", c.key, 0)
      BY DEF ReturnPosting, Posting
    <2> QED
      BY <2>1, <2>2 DEF CompleteReturn, Taken
  <1>6. new \notin completions /\ new.key = key /\ new.request = r /\ new.disposition = d
    BY <1>5
  <1>7. /\ completions' \in SUBSET [request : Returns, key : ReturnKeys, disposition : Dispositions]
        /\ IsFiniteSet(completions')
    <2>1. new \in [request : Returns, key : ReturnKeys, disposition : Dispositions]
      OBVIOUS
    <2>2. /\ completions \in SUBSET [request : Returns, key : ReturnKeys, disposition : Dispositions]
          /\ IsFiniteSet(completions)
      BY DEF ReturnsInv
    <2> HIDE DEF new
    <2>3. IsFiniteSet(completions \cup {new})
      BY <2>2, FS_AddElement
    <2> QED
      BY <1>4, <2>1, <2>2, <2>3
  <1> HIDE DEF new
  <1>8. CompletionsOf(r)' = CompletionsOf(r) \cup {new} /\ new \notin CompletionsOf(r)
    BY <1>4, <1>6 DEF CompletionsOf
  <1>9. \A s \in Returns \ {r} : CompletionsOf(s)' = CompletionsOf(s)
    BY <1>4, <1>6 DEF CompletionsOf
  <1>10. IsFiniteSet(CompletionsOf(r)) /\ Cardinality(CompletionsOf(r)) \in Nat
    <2>1. CompletionsOf(r) \subseteq completions
      BY DEF CompletionsOf
    <2> QED
      BY <2>1, FS_Subset, FS_CardinalityType DEF ReturnsInv
  <1>11. Cardinality(CompletionsOf(r)') = Cardinality(CompletionsOf(r)) + 1
    BY <1>8, <1>10, FS_AddElement
  <1>12. Cardinality(CompletionsOf(r)) < decisions[r] /\ decisions[r] \in Nat
    BY DEF ReturnsInv, CompleteReturn
  <1>13. \A s \in Returns : /\ Cardinality(CompletionsOf(s)') <= decisions'[s]
                            /\ requests'[s].status = "APPROVED" => Cardinality(CompletionsOf(s)') < decisions'[s]
    <2>1. Cardinality(CompletionsOf(r)') <= decisions'[r] /\ requests'[r].status # "APPROVED"
      BY <1>4, <1>10, <1>11, <1>12
    <2> QED
      BY <1>4, <1>9, <2>1 DEF ReturnsInv, CompletionsFollowApprovals
  <1>14. \A s \in Returns : requests'[s].status = "COMPLETED" =>
             \E c \in CompletionsOf(s)' : c.disposition = requests'[s].disposition
    <2>1. new \in CompletionsOf(r)' /\ new.disposition = requests'[r].disposition
      BY <1>4, <1>6, <1>8
    <2> QED
      BY <1>4, <1>9, <2>1 DEF ReturnsInv, CompletionsFollowApprovals
  <1>15. {q \in posted' : q.key.kind = "RETURN"} =
             {ReturnPosting(c.request, c.key, c.disposition) : c \in completions'}
    <2>1. ReturnPosting(new.request, new.key, new.disposition) = p
      BY <1>6
    <2>2. {ReturnPosting(c.request, c.key, c.disposition) : c \in completions'} =
              {ReturnPosting(c.request, c.key, c.disposition) : c \in completions} \cup {p}
      BY <1>4, <2>1
    <2>3. {q \in posted' : q.key.kind = "RETURN"} = {q \in posted : q.key.kind = "RETURN"} \cup {p}
      BY <1>1, <1>2
    <2>4. {q \in posted : q.key.kind = "RETURN"} =
              {ReturnPosting(c.request, c.key, c.disposition) : c \in completions}
      BY DEF ReturnsInv, CompletionsFollowApprovals
    <2> QED
      BY <2>2, <2>3, <2>4
  <1>16. \A c1, c2 \in completions' : c1.key = c2.key => c1 = c2
    BY <1>4, <1>5, <1>6 DEF ReturnsInv, CompletionsFollowApprovals
  <1>17. CompletionsFollowApprovals'
    BY <1>13, <1>14, <1>15, <1>16 DEF CompletionsFollowApprovals, ReturnPosting, ReturnDelta, Posting, Key
  <1>18. ReturnsInv'
    BY <1>4, <1>7, <1>13, <1>17 DEF ReturnsInv
  <1> QED
    BY <1>1, <1>2, <1>18

----------------------------------------------------------------------------
(* Runs.                                                                   *)

\* A step that writes one run's row.
LEMMA RunChanges ==
    ASSUME RunsInv, NEW r \in Runs, NEW run, runs' = [runs EXCEPT ![r] = run], IsRun(run),
           run.status \in {"NONE", "PENDING"} => DOMAIN run.found = {},
           run.resolvedCount = Cardinality(Resolved(run.found)),
           run.status = "COMPLETED" => Resolved(run.found) = DOMAIN run.found
    PROVE  RunsInv'
  <1>1. runs' = [s \in Runs |-> runs'[s]] /\ runs'[r] = run /\ \A s \in Runs \ {r} : runs'[s] = runs[s]
    BY DEF RunsInv
  <1>2. ASSUME NEW s \in Runs
        PROVE  RunSound(s)'
    <2>1. CASE s = r
      BY <1>1, <2>1 DEF RunSound, Resolved, IsRun
    <2>2. CASE s # r
      <3>1. runs'[s] = runs[s] /\ RunSound(s)
        BY <1>1, <2>2 DEF RunsInv
      <3> QED
        BY <3>1 DEF RunSound, Resolved, IsRun
    <2> QED
      BY <2>1, <2>2
  <1>3. CompletedRunsAreResolved'
    BY <1>1 DEF RunsInv, CompletedRunsAreResolved, Resolved
  <1> QED
    BY <1>1, <1>2, <1>3 DEF RunsInv

\* A run that is written without its discrepancies.
LEMMA StatusKeeps ==
    ASSUME RunsInv, NEW r \in Runs, NEW status, status \in {"COMPLETED", "CANCELLED"},
           runs' = [runs EXCEPT ![r].status = status],
           status = "COMPLETED" => Resolved(runs[r].found) = DOMAIN runs[r].found
    PROVE  RunsInv' /\ \A s \in Runs : runs'[s].found = runs[s].found
  <1> DEFINE run == [status |-> status, scope |-> runs[r].scope, found |-> runs[r].found,
                     resolvedCount |-> runs[r].resolvedCount]
  <1>1. IsRun(runs[r]) /\ runs[r].resolvedCount = Cardinality(Resolved(runs[r].found))
    BY DEF RunsInv, RunSound
  <1>2. [runs[r] EXCEPT !.status = status] = run
    BY <1>1 DEF IsRun
  <1>3. runs' = [runs EXCEPT ![r] = run]
    BY <1>2
  <1>4. /\ run.status = status /\ run.scope = runs[r].scope /\ run.found = runs[r].found
        /\ run.resolvedCount = runs[r].resolvedCount
        /\ run = [status |-> run.status, scope |-> run.scope, found |-> run.found,
                  resolvedCount |-> run.resolvedCount]
    OBVIOUS
  <1> HIDE DEF run
  <1>5. IsRun(run)
    BY <1>1, <1>4 DEF IsRun
  <1>6. RunsInv'
    BY <1>1, <1>3, <1>4, <1>5, RunChanges
  <1> QED
    BY <1>3, <1>4, <1>6 DEF RunsInv

LEMMA CreateRunKeeps ==
    ASSUME RunsInv, NEW r \in Runs, NEW scope \in Scopes, CreateRun(r, scope)
    PROVE  RunsInv' /\ \A s \in Runs : runs'[s].found = runs[s].found
  <1> DEFINE run == RunRow("PENDING", scope, <<>>)
  <1>1. /\ run.status = "PENDING" /\ run.found = <<>> /\ run.resolvedCount = 0 /\ DOMAIN run.found = {}
        /\ run = [status |-> run.status, scope |-> run.scope, found |-> run.found,
                  resolvedCount |-> run.resolvedCount]
    BY DEF RunRow
  <1>2. Resolved(run.found) = {} /\ Cardinality({}) = 0
    BY <1>1, FS_EmptySet DEF Resolved
  <1>3. IsRun(run)
    BY <1>1 DEF IsRun
  <1>4. runs[r].found = <<>>
    BY DEF CreateRun, NoRun, RunRow
  <1>5. runs' = [runs EXCEPT ![r] = run]
    BY DEF CreateRun
  <1> HIDE DEF run
  <1>6. RunsInv'
    BY <1>1, <1>2, <1>3, <1>5, RunChanges
  <1> QED
    BY <1>1, <1>4, <1>5, <1>6 DEF RunsInv

\* A run that starts resolves nothing, so it posts nothing.
LEMMA StartRunKeeps ==
    ASSUME RunsInv, PostingsInv, NEW r \in Runs, StartRun(r)
    PROVE  RunsInv' /\ PostingsInv'
  <1> DEFINE found == [b \in Differing(stock, posted, runs[r].scope) |->
                          [stored |-> stock[b], ledger |-> LedgerTotals(posted, b), resolution |-> NoResolution]]
             run   == RunRow("IN_PROGRESS", runs[r].scope, found)
  <1>1. /\ run.status = "IN_PROGRESS" /\ run.found = found /\ run.resolvedCount = 0
        /\ run = [status |-> run.status, scope |-> run.scope, found |-> run.found,
                  resolvedCount |-> run.resolvedCount]
    BY DEF RunRow
  <1>2. /\ \A b \in DOMAIN found : /\ found[b].resolution = NoResolution
                                   /\ found[b] = [stored |-> found[b].stored, ledger |-> found[b].ledger,
                                                  resolution |-> found[b].resolution]
        /\ found = [b \in DOMAIN found |-> found[b]]
    OBVIOUS
  <1>3. runs' = [runs EXCEPT ![r] = run]
    BY DEF StartRun
  <1>4. UNCHANGED <<posted, lastNumber>>
    BY DEF StartRun, inventoryVars
  <1> HIDE DEF found, run
  <1>5. Resolved(run.found) = {} /\ Cardinality({}) = 0
    BY <1>1, <1>2, FS_EmptySet DEF Resolved
  <1>6. RunsInv'
    BY <1>1, <1>2, <1>3, <1>5, RunChanges DEF IsRun
  <1>7. DOMAIN runs[r].found = {}
    BY DEF RunsInv, RunSound, StartRun
  <1>8. runs'[r] = run /\ \A s \in Runs \ {r} : runs'[s] = runs[s]
    BY <1>3 DEF RunsInv
  <1>9. NoResolution # "ADJUST_STORED"
    BY NoResolutionAssumption DEF Resolutions
  <1>10. Adjusted' = Adjusted
    <2>1. \A x \in Adjusted : x[1] # r
      BY <1>7 DEF Adjusted
    <2>2. \A x \in Adjusted' : x[1] # r
      BY <1>1, <1>2, <1>8, <1>9 DEF Adjusted
    <2>3. \A x \in Runs \X Balances : x[1] # r => (x \in Adjusted' <=> x \in Adjusted)
      BY <1>8 DEF Adjusted, Adjustment, AdjustmentKey
    <2>4. Adjusted \subseteq Runs \X Balances /\ Adjusted' \subseteq Runs \X Balances
      BY DEF Adjusted
    <2> QED
      BY <2>1, <2>2, <2>3, <2>4
  <1>11. \A x \in Adjusted : Adjustment(x[1], x[2])' = Adjustment(x[1], x[2])
    <2>1. \A x \in Adjusted : x[1] \in Runs \ {r}
      BY <1>7 DEF Adjusted
    <2> QED
      BY <1>8, <2>1 DEF Adjustment, AdjustmentKey
  <1>12. {Adjustment(x[1], x[2]) : x \in Adjusted}' = {Adjustment(x[1], x[2]) : x \in Adjusted}
    BY <1>10, <1>11
  <1>13. PostingsInv'
    BY <1>4, <1>10, <1>12 DEF PostingsInv, AdjustmentsAreAccounted
  <1> QED
    BY <1>6, <1>13

\* Writing both columns of a run's row.
LEMMA FoundAndCount ==
    ASSUME NEW run, NEW found, NEW count,
           run = [status |-> run.status, scope |-> run.scope, found |-> run.found, resolvedCount |-> run.resolvedCount]
    PROVE  [[run EXCEPT !.found = found] EXCEPT !.resolvedCount = count] =
               [status |-> run.status, scope |-> run.scope, found |-> found, resolvedCount |-> count]
  <1> DEFINE first == [run EXCEPT !.found = found]
  <1>1. first = [status |-> run.status, scope |-> run.scope, found |-> found, resolvedCount |-> run.resolvedCount]
    OBVIOUS
  <1> HIDE DEF first
  <1>2. [first EXCEPT !.resolvedCount = count] =
            [status |-> run.status, scope |-> run.scope, found |-> found, resolvedCount |-> count]
    BY <1>1
  <1> QED
    BY <1>2, Zenon DEF first

\* The row of a run whose discrepancy of balance b is resolved.
ResolvedRow(run, b, resolution) ==
    [status |-> run.status, scope |-> run.scope,
     found |-> [c \in DOMAIN run.found |->
                   IF c = b THEN [stored |-> run.found[b].stored, ledger |-> run.found[b].ledger,
                                  resolution |-> resolution]
                   ELSE run.found[c]],
     resolvedCount |-> Cardinality(Resolved(run.found) \cup {b})]

\* What resolveDiscrepancy writes to its run.
LEMMA ResolvedRun ==
    ASSUME RunsInv, NEW r \in Runs, NEW b \in Balances, NEW resolution \in Chosen,
           ResolveDiscrepancy(r, b, resolution)
    PROVE  runs' = [runs EXCEPT ![r] = ResolvedRow(runs[r], b, resolution)]
  <1> DEFINE old   == runs[r].found
             entry == [stored |-> old[b].stored, ledger |-> old[b].ledger, resolution |-> resolution]
             found == [c \in DOMAIN old |-> IF c = b THEN entry ELSE old[c]]
             count == Cardinality(Resolved(old) \cup {b})
             run   == [status |-> runs[r].status, scope |-> runs[r].scope, found |-> found, resolvedCount |-> count]
  <1>1. IsRun(runs[r]) /\ b \in DOMAIN old
    BY DEF RunsInv, RunSound, ResolveDiscrepancy
  <1>2. [old[b] EXCEPT !.resolution = resolution] = entry
    <2>1. old[b] = [stored |-> old[b].stored, ledger |-> old[b].ledger, resolution |-> old[b].resolution]
      BY <1>1 DEF IsRun
    <2> HIDE DEF old
    <2> QED
      BY <2>1
  <1>3. [old EXCEPT ![b] = entry] = found
    BY <1>1 DEF IsRun
  <1>4. [[runs[r] EXCEPT !.found = found] EXCEPT !.resolvedCount = count] = run
    <2>1. runs[r] = [status |-> runs[r].status, scope |-> runs[r].scope, found |-> runs[r].found,
                     resolvedCount |-> runs[r].resolvedCount]
      BY <1>1, Zenon DEF IsRun
    <2> HIDE DEF found, count
    <2> QED
      BY <2>1, FoundAndCount, Zenon
  <1>5. runs' = [[runs EXCEPT ![r] = [runs[r] EXCEPT !.found = [old EXCEPT ![b] = [old[b] EXCEPT !.resolution = resolution]]]]
                      EXCEPT ![r] = [@ EXCEPT !.resolvedCount = count]]
    BY DEF ResolveDiscrepancy, MarkResolved
  <1> QED
    BY <1>2, <1>3, <1>4, <1>5 DEF ResolvedRow

\* Discrepancies are resolved one by one and only once, so the posting of each is new.
LEMMA ResolveKeeps ==
    ASSUME RunsInv, PostingsInv, NEW r \in Runs, NEW b \in Balances, NEW resolution \in Chosen,
           ResolveDiscrepancy(r, b, resolution)
    PROVE  /\ RunsInv' /\ PostingsInv'
           /\ {p \in posted' : p.key.kind = "RETURN"} = {p \in posted : p.key.kind = "RETURN"}
  <1> DEFINE old   == runs[r].found
             entry == [stored |-> old[b].stored, ledger |-> old[b].ledger, resolution |-> resolution]
             found == [c \in DOMAIN old |-> IF c = b THEN entry ELSE old[c]]
             count == Cardinality(Resolved(old) \cup {b})
             run   == [status |-> runs[r].status, scope |-> runs[r].scope, found |-> found, resolvedCount |-> count]
             p     == Adjustment(r, b)
  <1>1. /\ IsRun(runs[r]) /\ b \in DOMAIN old /\ old[b].resolution = NoResolution
        /\ runs[r].status = "IN_PROGRESS" /\ resolution # NoResolution
    BY ChosenAssumption, NoResolutionAssumption DEF RunsInv, RunSound, ResolveDiscrepancy
  <1>2. runs' = [runs EXCEPT ![r] = run]
    BY ResolvedRun DEF ResolvedRow
  <1>3. /\ run.status = "IN_PROGRESS" /\ run.found = found /\ run.resolvedCount = count
        /\ run = [status |-> run.status, scope |-> run.scope, found |-> run.found,
                  resolvedCount |-> run.resolvedCount]
    BY <1>1
  <1>4. /\ DOMAIN found = DOMAIN old /\ found = [c \in DOMAIN found |-> found[c]]
        /\ found[b] = entry /\ \A c \in DOMAIN found : c # b => found[c] = old[c]
        /\ entry.stored = old[b].stored /\ entry.ledger = old[b].ledger /\ entry.resolution = resolution
        /\ entry = [stored |-> entry.stored, ledger |-> entry.ledger, resolution |-> entry.resolution]
    BY <1>1
  <1> HIDE DEF entry, found, count, run
  <1>5. Resolved(found) = Resolved(old) \cup {b}
    BY <1>1, <1>4 DEF Resolved
  <1>6. IsRun(run)
    BY <1>1, <1>3, <1>4 DEF IsRun
  <1>7. run.resolvedCount = Cardinality(Resolved(run.found))
    BY <1>3, <1>5 DEF count
  <1>8. RunsInv'
    BY <1>2, <1>3, <1>6, <1>7, RunChanges
  <1>9. runs'[r].found = found /\ \A s \in Runs \ {r} : runs'[s] = runs[s]
    BY <1>2, <1>3 DEF RunsInv
  <1>10. \A x \in Runs \X Balances : x[2] \in DOMAIN runs[x[1]].found => Adjustment(x[1], x[2])' = Adjustment(x[1], x[2])
    BY <1>1, <1>4, <1>9 DEF Adjustment, AdjustmentKey
  <1>11. \A x \in Runs \X Balances : x # <<r, b>> => (x \in Adjusted' <=> x \in Adjusted)
    BY <1>1, <1>4, <1>9, <1>10 DEF Adjusted
  <1>12. <<r, b>> \notin Adjusted /\ <<r, b>> \in Runs \X Balances
    BY <1>1, NoResolutionAssumption DEF Adjusted, Resolutions
  <1>13. <<r, b>> \in Adjusted' <=> resolution = "ADJUST_STORED" /\ p.quantity # 0
    BY <1>1, <1>4, <1>9, <1>10, <1>12 DEF Adjusted
  <1>14. Adjusted \subseteq Runs \X Balances /\ Adjusted' \subseteq Runs \X Balances
    BY DEF Adjusted
  <1>15. \A x \in Adjusted : Adjustment(x[1], x[2])' = Adjustment(x[1], x[2])
    BY <1>10 DEF Adjusted
  <1>16. \A x \in Runs \X Balances : Adjustment(x[1], x[2]).key = Key("RECONCILIATION", <<x[1], x[2]>>, 0)
    BY DEF Adjustment, AdjustmentKey, Posting
  <1>17. p.key.kind = "RECONCILIATION"
    BY DEF Adjustment, AdjustmentKey, Posting, Key
  <1> HIDE DEF p
  <1>18. CASE resolution = "ADJUST_STORED" /\ p.quantity # 0
    <2>1. ~Taken(posted, p.key)
      <3>1. SUFFICES ASSUME NEW q \in posted, q.key = p.key
                     PROVE  FALSE
        BY DEF Taken
      <3>2. PICK x \in Adjusted : q = Adjustment(x[1], x[2])
        BY <1>17, <3>1 DEF PostingsInv, AdjustmentsAreAccounted
      <3>3. x \in Runs \X Balances /\ p.key = Key("RECONCILIATION", <<r, b>>, 0)
        BY <1>14, <1>16, <1>12 DEF p
      <3>4. <<x[1], x[2]>> = <<r, b>>
        <4>1. Key("RECONCILIATION", <<x[1], x[2]>>, 0) = Key("RECONCILIATION", <<r, b>>, 0)
          BY <1>16, <3>1, <3>2, <3>3
        <4>2. \A c : Key("RECONCILIATION", c, 0).client = c
          BY DEF Key
        <4> QED
          BY <4>1, <4>2
      <3>5. x = <<r, b>>
        BY <3>3, <3>4
      <3> QED
        BY <1>12, <3>5
    <2>2. posted' = posted \cup {p} /\ lastNumber' = lastNumber + 1
      <3>1. Posts(OneMore(Inventory, p)) /\ lastNumber' = lastNumber + 1
        BY <1>18 DEF ResolveDiscrepancy, NextNumber, p
      <3> QED
        BY <2>1, <3>1, PostsNew
    <2>3. Adjusted' = Adjusted \cup {<<r, b>>}
      BY <1>11, <1>12, <1>13, <1>14, <1>18
    <2>4. IsFiniteSet(Adjusted') /\ Cardinality(Adjusted') = Cardinality(Adjusted) + 1
      BY <1>12, <2>3, FS_AddElement DEF PostingsInv
    <2>5. Adjustment(r, b)' = p
      BY <1>1, <1>10, <1>12 DEF p
    <2>6. {Adjustment(x[1], x[2]) : x \in Adjusted}' = {Adjustment(x[1], x[2]) : x \in Adjusted} \cup {p}
      <3>1. {Adjustment(x[1], x[2]) : x \in Adjusted}' =
                {Adjustment(x[1], x[2])' : x \in Adjusted \cup {<<r, b>>}}
        BY <2>3
      <3>2. \A x \in {<<r, b>>} : Adjustment(x[1], x[2])' = p
        BY <2>5
      <3> HIDE DEF Adjusted
      <3> QED
        BY <1>15, <3>1, <3>2
    <2>7. {q \in posted' : q.key.kind = "RECONCILIATION"} = {q \in posted : q.key.kind = "RECONCILIATION"} \cup {p}
      BY <1>17, <2>2
    <2>8. PostingsInv'
      BY <2>2, <2>4, <2>6, <2>7 DEF PostingsInv, AdjustmentsAreAccounted
    <2> QED
      BY <1>8, <1>17, <2>2, <2>8
  <1>19. CASE ~(resolution = "ADJUST_STORED" /\ p.quantity # 0)
    <2>1. UNCHANGED <<posted, lastNumber>>
      BY <1>19 DEF ResolveDiscrepancy, inventoryVars, p
    <2>2. Adjusted' = Adjusted
      BY <1>11, <1>12, <1>13, <1>14, <1>19
    <2>3. {Adjustment(x[1], x[2]) : x \in Adjusted}' = {Adjustment(x[1], x[2]) : x \in Adjusted}
      BY <1>15, <2>2
    <2>4. PostingsInv'
      BY <2>1, <2>2, <2>3 DEF PostingsInv, AdjustmentsAreAccounted
    <2> QED
      BY <1>8, <2>1, <2>4
  <1> QED
    BY <1>18, <1>19

----------------------------------------------------------------------------
(* complete, cancel and the report.                                        *)

\* A request of no run writes nothing.
LEMMA FinishKeeps ==
    ASSUME RunsInv, CountsInv, NEW h \in Handlers, FinishComplete(h) \/ FinishCancel(h)
    PROVE  RunsInv' /\ \A r \in Runs : runs'[r].found = runs[r].found
  <1> DEFINE r == handlers[h].run
  <1>1. CASE r \in Runs
    <2>1. CASE FinishComplete(h)
      <3>1. Resolved(runs[r].found) = DOMAIN runs[r].found /\ runs' = [runs EXCEPT ![r].status = "COMPLETED"]
        BY <1>1, <2>1 DEF FinishComplete, CountsInv, CountSound, Counted
      <3> QED
        BY <1>1, <3>1, StatusKeeps
    <2> QED
      BY <1>1, <2>1, StatusKeeps DEF FinishCancel
  <1>2. CASE r \notin Runs
    <2>1. \A status : [runs EXCEPT ![r].status = status] = runs
      BY <1>2 DEF RunsInv
    <2> QED
      BY <2>1, RunsStay DEF FinishComplete, FinishCancel
  <1> QED
    BY <1>1, <1>2

LEMMA InitRows == Init => RowsInv
  <1> SUFFICES ASSUME Init
               PROVE  RowsInv
    OBVIOUS
  <1>1. Cardinality({}) = 0 /\ IsFiniteSet({})
    BY FS_EmptySet
  <1>2. /\ requests = [r \in Returns |-> NoRequest] /\ decisions = [r \in Returns |-> 0]
        /\ completions = {} /\ posted = {} /\ runs = [r \in Runs |-> NoRun] /\ lastNumber = 0
    BY DEF Init, ReturnsInit
  <1>3. /\ NoRun.status = "NONE" /\ NoRun.resolvedCount = 0 /\ NoRun.found = <<>> /\ DOMAIN NoRun.found = {}
        /\ NoRun = [status |-> NoRun.status, scope |-> NoRun.scope, found |-> NoRun.found,
                    resolvedCount |-> NoRun.resolvedCount]
    BY DEF NoRun, RunRow
  <1> HIDE DEF NoRun
  <1>4. RunsInv
    <2>1. ASSUME NEW r \in Runs
          PROVE  RunSound(r) /\ runs[r].status # "COMPLETED"
      <3>1. runs[r] = NoRun
        BY <1>2
      <3>2. IsRun(NoRun)
        BY <1>3 DEF IsRun
      <3>3. Resolved(NoRun.found) = {}
        BY <1>3 DEF Resolved
      <3> QED
        BY <1>1, <1>3, <3>1, <3>2, <3>3 DEF RunSound
    <2> QED
      BY <1>2, <2>1 DEF RunsInv, CompletedRunsAreResolved
  <1>5. ReturnsInv
    <2>1. \A r \in Returns : CompletionsOf(r) = {}
      BY <1>2 DEF CompletionsOf
    <2>2. \A r \in Returns : requests[r].status = "NONE"
      BY <1>2 DEF NoRequest
    <2>3. CompletionsFollowApprovals
      BY <1>1, <1>2, <2>1, <2>2 DEF CompletionsFollowApprovals
    <2> QED
      BY <1>1, <1>2, <2>2, <2>3 DEF ReturnsInv
  <1>6. PostingsInv
    <2>1. Adjusted = {}
      BY <1>2, <1>3 DEF Adjusted
    <2> QED
      BY <1>1, <1>2, <2>1 DEF PostingsInv, AdjustmentsAreAccounted
  <1> QED
    BY <1>4, <1>5, <1>6 DEF RowsInv

LEMMA ReturnsNextKeeps ==
    ASSUME RowsInv, ReturnsNext, UNCHANGED reconciliationVars
    PROVE  RowsInv'
  <1>1. runs' = runs /\ lastNumber' = lastNumber
    BY DEF reconciliationVars
  <1>2. RunsInv' /\ \A r \in Runs : runs'[r].found = runs[r].found
    BY <1>1, RunsStay DEF RowsInv
  <1>3. ASSUME NEW r \in Returns,
               CreateReturn(r) \/ ApproveReturn(r, TRUE) \/ ApproveReturn(r, FALSE)
        PROVE  ReturnsInv' /\ posted' = posted
    BY <1>3, CreateReturnKeeps, ApproveReturnKeeps DEF RowsInv, CreateReturn, ApproveReturn, inventoryVars
  <1>4. ReturnsInv' /\ {p \in posted' : p.key.kind = "RECONCILIATION"} = {p \in posted : p.key.kind = "RECONCILIATION"}
    BY <1>3, CompleteReturnKeeps DEF RowsInv, ReturnsNext
  <1>5. PostingsInv'
    BY <1>1, <1>2, <1>4, PostingsStay DEF RowsInv
  <1> QED
    BY <1>2, <1>4, <1>5 DEF RowsInv

\* Every step of the reconciliation service: what it leaves alone, and what it does to the runs.
LEMMA ReconciliationNextKeeps ==
    ASSUME ReconciliationInv, ReconciliationNext
    PROVE  RowsInv'
  <1> USE DEF ReconciliationInv, RowsInv
  <1>1. ASSUME NEW r \in Runs, NEW scope \in Scopes, CreateRun(r, scope)
        PROVE  RowsInv'
    <2>1. UNCHANGED <<returnVars, posted, lastNumber>>
      BY <1>1 DEF CreateRun, inventoryVars
    <2> QED
      BY <1>1, <2>1, CreateRunKeeps, ReturnsStay, PostingsStay
  <1>2. ASSUME NEW r \in Runs, StartRun(r)
        PROVE  RowsInv'
    <2>1. UNCHANGED <<returnVars, posted>>
      BY <1>2 DEF StartRun, inventoryVars
    <2> QED
      BY <1>2, <2>1, StartRunKeeps, ReturnsStay
  <1>3. ASSUME NEW r \in Runs, NEW b \in Balances, NEW resolution \in Chosen, ResolveDiscrepancy(r, b, resolution)
        PROVE  RowsInv'
    <2>1. UNCHANGED returnVars
      BY <1>3 DEF ResolveDiscrepancy
    <2> QED
      BY <1>3, <2>1, ResolveKeeps, ReturnsStay
  <1>4. ASSUME NEW h \in Handlers, FinishComplete(h) \/ FinishCancel(h)
        PROVE  RowsInv'
    <2>1. UNCHANGED <<returnVars, posted, lastNumber>>
      BY <1>4 DEF FinishComplete, FinishCancel, Handle, inventoryVars
    <2> QED
      BY <1>4, <2>1, FinishKeeps, ReturnsStay, PostingsStay
  <1>5. ASSUME UNCHANGED <<returnVars, posted, lastNumber, runs>>
        PROVE  RowsInv'
    BY <1>5, RunsStay, ReturnsStay, PostingsStay
  <1> QED
    BY <1>1, <1>2, <1>3, <1>4, <1>5
       DEF ReconciliationNext, BeginComplete, CountUnresolved, BeginCancel, BeginReport, FinishReport, Handle, inventoryVars

----------------------------------------------------------------------------
(* What completions have found out.                                        *)

\* A run that goes on keeps going on, and one that was counted stays so: its discrepancies are neither changed back
\* nor found again.
LEMMA CountedStays ==
    ASSUME RunsInv, ReconciliationNext, NEW r \in Runs
    PROVE  /\ GoesOn(runs[r]) => GoesOn(runs'[r])
           /\ Counted(runs[r]) => Counted(runs'[r])
  <1>1. runs = [s \in Runs |-> runs[s]] /\ IsRun(runs[r])
    BY DEF RunsInv, RunSound
  <1>2. CASE runs' = runs
    BY <1>2
  <1>3. ASSUME NEW s \in Runs, NEW scope \in Scopes, CreateRun(s, scope)
        PROVE  runs'[r] = runs[r] \/ ~GoesOn(runs[r])
    <2>1. NoRun.status = "NONE"
      BY DEF NoRun, RunRow
    <2> QED
      BY <1>1, <1>3, <2>1 DEF CreateRun, GoesOn
  <1>4. ASSUME NEW s \in Runs, StartRun(s)
        PROVE  runs'[r] = runs[r] \/ ~GoesOn(runs[r])
    BY <1>1, <1>4 DEF StartRun, GoesOn
  <1>5. ASSUME NEW s \in Runs, NEW b \in Balances, NEW resolution \in Chosen, ResolveDiscrepancy(s, b, resolution)
        PROVE  /\ GoesOn(runs[r]) => GoesOn(runs'[r])
               /\ Counted(runs[r]) => Counted(runs'[r])
    <2>1. CASE s # r
      <3>1. runs'[r] = runs[r]
        BY <1>1, <1>5, <2>1 DEF ResolveDiscrepancy, MarkResolved
      <3> QED
        BY <3>1
    <2>2. CASE s = r
      <3>1. b \in DOMAIN runs[r].found /\ b \notin Resolved(runs[r].found)
        BY <1>5, <2>2 DEF ResolveDiscrepancy, Resolved
      <3>2. runs'[r].status = runs[r].status
        BY <1>1, <1>5, <2>2 DEF ResolveDiscrepancy, MarkResolved, IsRun
      <3> QED
        BY <3>1, <3>2 DEF GoesOn, Counted
    <2> QED
      BY <2>1, <2>2
  <1>6. ASSUME NEW s, NEW status \in {"COMPLETED", "CANCELLED"}, runs' = [runs EXCEPT ![s].status = status]
        PROVE  /\ GoesOn(runs[r]) => GoesOn(runs'[r])
               /\ Counted(runs[r]) => Counted(runs'[r])
    <2>1. CASE s # r
      <3>1. runs'[r] = runs[r]
        BY <1>1, <1>6, <2>1
      <3> QED
        BY <3>1
    <2>2. CASE s = r
      <3>1. runs'[r].status = status /\ runs'[r].found = runs[r].found
        BY <1>1, <1>6, <2>2 DEF IsRun
      <3> QED
        BY <3>1 DEF GoesOn, Counted
    <2> QED
      BY <2>1, <2>2
  <1>7. CASE \E h \in Handlers : FinishComplete(h) \/ FinishCancel(h)
    BY <1>6, <1>7 DEF FinishComplete, FinishCancel
  <1> QED
    BY <1>2, <1>3, <1>4, <1>5, <1>7
       DEF ReconciliationNext, BeginComplete, CountUnresolved, BeginCancel, BeginReport, FinishReport, Counted

\* A request that goes on knows what it has just read, and the others keep what they know.
LEMMA CountsKept ==
    ASSUME ReconciliationInv, [Next]_vars
    PROVE  CountsInv'
  <1>1. RunsInv /\ CountsInv
    BY DEF ReconciliationInv, RowsInv
  <1>2. \A r \in Runs : /\ GoesOn(runs[r]) => GoesOn(runs'[r])
                        /\ Counted(runs[r]) => Counted(runs'[r])
    <2>1. CASE runs' = runs
      BY <2>1
    <2> QED
      BY <1>1, <2>1, CountedStays DEF Next, reconciliationVars, vars
  <1>3. ASSUME NEW h \in Handlers, handlers'[h] = handlers[h]
        PROVE  CountSound(handlers[h])'
    BY <1>1, <1>2, <1>3 DEF CountsInv, CountSound
  <1>4. ASSUME NEW h \in Handlers, NEW w, w = handlers'[h], w.step \notin {"complete", "write"}
        PROVE  CountSound(handlers[h])'
    BY <1>4 DEF CountSound
  <1>5. ASSUME NEW h \in Handlers, NEW r \in Runs, BeginComplete(h, r), NEW g \in Handlers
        PROVE  CountSound(handlers[g])'
    <2>1. handlers' = [handlers EXCEPT ![h] = [step |-> "complete", run |-> r]] /\ GoesOn(runs'[r])
      BY <1>5 DEF BeginComplete, Handle, GoesOn
    <2>2. CASE g = h
      BY <1>1, <2>1, <2>2 DEF CountSound, CountsInv
    <2> QED
      BY <1>1, <1>3, <2>1, <2>2 DEF CountsInv
  <1>6. ASSUME NEW h \in Handlers, CountUnresolved(h), NEW g \in Handlers
        PROVE  CountSound(handlers[g])'
    <2>1. CASE handlers'[g] = handlers[g]
      BY <1>3, <2>1
    <2>2. CASE handlers'[g] # handlers[g]
      <3>1. g = h /\ DOMAIN handlers = Handlers /\ runs' = runs
        <4>1. \A w : g # h => [handlers EXCEPT ![h] = w][g] = handlers[g]
          BY <1>1 DEF CountsInv
        <4> QED
          BY <1>1, <1>6, <2>2, <4>1 DEF CountUnresolved, Handle, CountsInv
      <3>2. CASE handlers'[h] = Idle
        BY <1>4, <3>1, <3>2 DEF Idle
      <3>3. CASE /\ Resolved(runs[handlers[h].run].found) = DOMAIN runs[handlers[h].run].found
                 /\ handlers'[h] = [step |-> "write", run |-> handlers[h].run]
        <4>1. CountSound(handlers[h]) /\ handlers[h].step = "complete"
          BY <1>1, <1>6 DEF CountsInv, CountUnresolved
        <4> QED
          BY <3>1, <3>3, <4>1 DEF CountSound, Counted
      <3> QED
        BY <1>6, <3>1, <3>2, <3>3 DEF CountUnresolved, Handle
    <2> QED
      BY <2>1, <2>2
  <1>7. ASSUME NEW h \in Handlers, NEW w, w.step \notin {"complete", "write"}, handlers' = [handlers EXCEPT ![h] = w],
               NEW g \in Handlers
        PROVE  CountSound(handlers[g])'
    <2>1. CASE g = h
      BY <1>1, <1>4, <1>7, <2>1 DEF CountsInv
    <2> QED
      BY <1>1, <1>3, <1>7, <2>1 DEF CountsInv
  <1>8. ASSUME NEW h \in Handlers, NEW g \in Handlers,
               \/ \E r \in Runs : BeginCancel(h, r)
               \/ \E first \in {"rows", "movements"} : BeginReport(h, first)
               \/ FinishComplete(h) \/ FinishCancel(h) \/ FinishReport(h)
        PROVE  CountSound(handlers[g])'
    <2>1. \A r \in Runs : [step |-> "cancel", run |-> r].step = "cancel"
      OBVIOUS
    <2>2. Idle.step = "none"
      BY DEF Idle
    <2>3. CASE FinishComplete(h) \/ FinishCancel(h) \/ FinishReport(h)
      BY <1>7, <2>2, <2>3 DEF FinishComplete, FinishCancel, FinishReport, Handle
    <2>4. ASSUME NEW r \in Runs, BeginCancel(h, r) PROVE CountSound(handlers[g])'
      BY <1>7, <2>4 DEF BeginCancel, Handle
    <2>5. ASSUME NEW first \in {"rows", "movements"}, BeginReport(h, first) PROVE CountSound(handlers[g])'
      <3>1. PICK w : w = [step |-> "report", first |-> first, read |-> IF first = "rows" THEN stock ELSE posted,
                          at |-> Cardinality(posted)]
        OBVIOUS
      <3>2. w.step = "report"
        BY <3>1
      <3>3. handlers' = [handlers EXCEPT ![h] = w]
        BY <2>5, <3>1 DEF BeginReport, Handle
      <3> QED
        BY <1>7, <3>2, <3>3
    <2> QED
      BY <1>8, <2>3, <2>4, <2>5
  <1>9. CASE handlers' = handlers
    BY <1>1, <1>3, <1>9 DEF CountsInv
  <1>10. CASE ReconciliationNext /\ handlers' # handlers
    <2>1. DOMAIN handlers' = Handlers
      BY <1>1, <1>10 DEF ReconciliationNext, CreateRun, StartRun, ResolveDiscrepancy, BeginComplete, CountUnresolved,
         BeginCancel, BeginReport, FinishComplete, FinishCancel, FinishReport, Handle, CountsInv
    <2>2. \A g \in Handlers : CountSound(handlers[g])'
      BY <1>5, <1>6, <1>8, <1>10 DEF ReconciliationNext, CreateRun, StartRun, ResolveDiscrepancy
    <2> QED
      BY <2>1, <2>2 DEF CountsInv
  <1> QED
    BY <1>9, <1>10 DEF Next, reconciliationVars, vars

\* At first nothing is under way.
LEMMA InitSound == Init => ReconciliationInv
  <1>1. ASSUME Init PROVE CountsInv
    BY <1>1 DEF Init, CountsInv, CountSound, Idle
  <1> QED
    BY <1>1, InitRows DEF ReconciliationInv

LEMMA NextSound == ReconciliationInv /\ [Next]_vars => ReconciliationInv'
  <1> SUFFICES ASSUME ReconciliationInv, [Next]_vars
               PROVE  ReconciliationInv'
    OBVIOUS
  <1>1. CASE UNCHANGED vars
    <2>1. UNCHANGED <<returnVars, posted, lastNumber, runs>>
      BY <1>1 DEF vars, returnVars
    <2> QED
      BY <2>1, RunsStay, ReturnsStay, PostingsStay, CountsKept DEF ReconciliationInv, RowsInv
  <1> QED
    BY <1>1, ReturnsNextKeeps, ReconciliationNextKeeps, CountsKept DEF Next, ReconciliationInv

\* An ended run is not started, created or resolved.
LEMMA EndedStays ==
    ASSUME ReconciliationInv, [Next]_vars, NEW r \in Runs, runs[r].status \in {"COMPLETED", "CANCELLED"}
    PROVE  runs'[r].status \in {"COMPLETED", "CANCELLED"} /\ runs'[r].found = runs[r].found
  <1>1. runs = [s \in Runs |-> runs[s]] /\ IsRun(runs[r])
    BY DEF ReconciliationInv, RowsInv, RunsInv, RunSound
  <1>2. CASE runs' = runs
    BY <1>2
  <1>3. ASSUME NEW s \in Runs, NEW scope \in Scopes, CreateRun(s, scope)
        PROVE  runs'[r] = runs[r]
    <2>1. NoRun.status = "NONE"
      BY DEF NoRun, RunRow
    <2> QED
      BY <1>1, <1>3, <2>1 DEF CreateRun
  <1>4. ASSUME NEW s \in Runs, StartRun(s)
        PROVE  runs'[r] = runs[r]
    BY <1>1, <1>4 DEF StartRun
  <1>5. ASSUME NEW s \in Runs, NEW b \in Balances, NEW resolution \in Chosen, ResolveDiscrepancy(s, b, resolution)
        PROVE  runs'[r] = runs[r]
    BY <1>1, <1>5 DEF ResolveDiscrepancy, MarkResolved
  <1>6. ASSUME NEW h \in Handlers, FinishComplete(h) \/ FinishCancel(h)
        PROVE  runs'[r].status \in {"COMPLETED", "CANCELLED"} /\ runs'[r].found = runs[r].found
    <2>1. ASSUME NEW s, NEW status \in {"COMPLETED", "CANCELLED"}, runs' = [runs EXCEPT ![s].status = status]
          PROVE  runs'[r].status \in {"COMPLETED", "CANCELLED"} /\ runs'[r].found = runs[r].found
      <3>1. CASE s = r
        BY <1>1, <2>1, <3>1 DEF IsRun
      <3>2. CASE s # r
        BY <1>1, <2>1, <3>2
      <3> QED
        BY <3>1, <3>2
    <2> QED
      BY <1>2, <1>6, <2>1 DEF FinishComplete, FinishCancel
  <1> QED
    BY <1>2, <1>3, <1>4, <1>5, <1>6
       DEF Next, ReconciliationNext, reconciliationVars, vars, BeginComplete, CountUnresolved, BeginCancel, BeginReport,
           FinishReport

----------------------------------------------------------------------------
(* What the rows and the ledger add up to.                                 *)

Fields == {"onHand", "allocated", "hold"}

\* The deltas of a ledger are numbers.
Deltaed(movements) == IsFiniteSet(movements) /\ \A p \in movements : p.delta \in Deltas

\* Every row is where its opening and the deltas posted since bring it.
LedgerInv ==
    /\ Deltaed(posted)
    /\ stock = [b \in Balances |-> After(OpeningStock[b], DeltaSums(posted, b))]

\* What a run found is what differed when the behaviour started.
FoundDrift(run) ==
    /\ DOMAIN run.found = Drifted \cap run.scope
    /\ \A b \in DOMAIN run.found :
          /\ run.found[b].stored \in Quantities /\ run.found[b].ledger \in Quantities
          /\ Difference(run.found[b].ledger, run.found[b].stored) = Difference(OpeningLedger[b], OpeningStock[b])

Found(run) == run.scope \subseteq Balances /\ (run.status \in {"IN_PROGRESS", "COMPLETED"} => FoundDrift(run))

\* A request that will complete a run saw it in progress; a report that nothing was posted beside has
\* read what is still there.
Started(run) == run.status \notin {"NONE", "PENDING"} /\ FoundDrift(run)

CompletesStarted(w) ==
    /\ w.step \in {"complete", "write", "cancel"} => w.run \in Runs
    /\ w.step \in {"complete", "write"} => Started(runs[w.run])

ReadsPast(w) ==
    w.step = "report" =>
        /\ w.first \in {"rows", "movements"}
        /\ w.at \in Nat /\ w.at <= Cardinality(posted)
        /\ w.at = Cardinality(posted) => w.read = IF w.first = "rows" THEN stock ELSE posted

DriftInv ==
    /\ LedgerInv
    /\ \A r \in Runs : Found(runs[r])
    /\ handlers = [h \in Handlers |-> handlers[h]]
    /\ \A h \in Handlers : CompletesStarted(handlers[h]) /\ ReadsPast(handlers[h])

----------------------------------------------------------------------------
(* Sums of deltas.                                                         *)

\* Nothing posted adds up to nothing.
LEMMA NothingSummed ==
    ASSUME NEW none, none = {}, NEW b, NEW field
    PROVE  SumOf(none, b, field) = 0
  <1>1. {p \in none : p.balance = b} = none
    OBVIOUS
  <1>2. PICK f : f = [p \in none |-> p.delta[field]]
    OBVIOUS
  <1>3. SumOf(none, b, field) = SumFunctionOnSet(f, none)
    BY <1>1, <1>2 DEF SumOf
  <1> QED
    BY <1>3, SumOfNone

\* The sums are integers, and one posting more adds its delta to those of its balance.
LEMMA OneMoreSummed ==
    ASSUME NEW M, Deltaed(M), NEW p, p \notin M, p.delta \in Deltas, NEW b, NEW field \in Fields
    PROVE  /\ SumOf(M, b, field) \in Int
           /\ SumOf(M \cup {p}, b, field) = SumOf(M, b, field) + Adds(p.balance = b, p.delta[field])
  <1>1. PICK f : f = [q \in M |-> q.delta[field]]
    OBVIOUS
  <1>2. PICK g : g = [q \in M \cup {p} |-> q.delta[field]]
    OBVIOUS
  <1>3. PICK S : S = {q \in M : q.balance = b}
    OBVIOUS
  <1>4. PICK c : c = (p.balance = b) /\ c \in BOOLEAN
    OBVIOUS
  <1>5. \A q \in M \cup {p} : q.delta[field] \in Int
    BY DEF Deltaed, Deltas, Fields
  <1>6. IsFiniteSet(S) /\ S \subseteq M /\ p \notin S
    BY <1>3, FS_Subset DEF Deltaed
  <1>7. IntegersOn(f, S) /\ IntegersOn(g, S) /\ g[p] = p.delta[field] /\ g[p] \in Int
    BY <1>1, <1>2, <1>5, <1>6 DEF IntegersOn
  <1>8. {q \in M \cup {p} : q.balance = b} = S \cup Optionally(p, c)
    BY <1>3, <1>4 DEF Optionally
  <1>9. SumFunctionOnSet(g, S \cup Optionally(p, c)) = SumFunctionOnSet(g, S) + Adds(c, g[p])
    <2>1. IsFiniteSet(S) /\ p \notin S /\ IntegersOn(g, S) /\ c \in BOOLEAN /\ (c => g[p] \in Int)
      BY <1>4, <1>6, <1>7
    <2> QED
      BY ONLY <2>1, SumWithOption
  <1>10. \A q \in S : g[q] = f[q]
    BY <1>1, <1>2, <1>6
  <1>11. SumFunctionOnSet(g, S) = SumFunctionOnSet(f, S) /\ SumFunctionOnSet(f, S) \in Int
    BY <1>6, <1>7, <1>10, SumsAgree, SumIsInteger
  <1>12. SumOf(M, b, field) = SumFunctionOnSet(f, S)
    BY <1>1, <1>3 DEF SumOf
  <1>13. SumOf(M \cup {p}, b, field) = SumFunctionOnSet(g, S \cup Optionally(p, c))
    BY <1>2, <1>8 DEF SumOf
  <1> QED
    BY <1>4, <1>7, <1>9, <1>11, <1>12, <1>13

\* After, one quantity at a time.
Moved(q, d) == /\ q.onHand \in Int /\ q.allocated \in Int /\ q.hold \in Int
               /\ d.onHand \in Int /\ d.allocated \in Int /\ d.hold \in Int

LEMMA AfterIs ==
    ASSUME NEW q, NEW d, Moved(q, d)
    PROVE  /\ After(q, d) \in Quantities
           /\ After(q, d).onHand = q.onHand + d.onHand /\ After(q, d).allocated = q.allocated + d.allocated
           /\ After(q, d).hold = q.hold + d.hold /\ AvailableFollows(After(q, d))
  BY DEF After, Moved, Quantities, AvailableFollows

\* Rows are equal when their first three quantities are.
LEMMA SameQuantities ==
    ASSUME NEW q \in Quantities, NEW r \in Quantities, AvailableFollows(q), AvailableFollows(r),
           q.onHand = r.onHand, q.allocated = r.allocated, q.hold = r.hold
    PROVE  q = r
  BY DEF Quantities, AvailableFollows

LEMMA DeltaSumsAre ==
    ASSUME NEW M, NEW b
    PROVE  /\ DeltaSums(M, b).onHand = SumOf(M, b, "onHand")
           /\ DeltaSums(M, b).allocated = SumOf(M, b, "allocated")
           /\ DeltaSums(M, b).hold = SumOf(M, b, "hold")
  BY DEF DeltaSums

\* The sums of a ledger are integers.
LEMMA SumsAreIntegers ==
    ASSUME NEW M, Deltaed(M), NEW b, NEW field \in Fields
    PROVE  SumOf(M, b, field) \in Int
  <1>1. PICK f : f = [q \in M |-> q.delta[field]]
    OBVIOUS
  <1>2. PICK S : S = {q \in M : q.balance = b}
    OBVIOUS
  <1>3. IsFiniteSet(S) /\ S \subseteq M
    BY <1>2, FS_Subset DEF Deltaed
  <1>4. IntegersOn(f, S)
    BY <1>1, <1>3 DEF IntegersOn, Deltaed, Deltas, Fields
  <1> QED
    BY <1>1, <1>2, <1>3, <1>4, SumIsInteger DEF SumOf

LEMMA OpeningMoved ==
    ASSUME NEW M, Deltaed(M), NEW b \in Balances
    PROVE  Moved(OpeningStock[b], DeltaSums(M, b)) /\ Moved(OpeningLedger[b], DeltaSums(M, b))
  <1>1. OpeningStock[b] \in Quantities /\ OpeningLedger[b] \in Quantities
    BY ReturnsAssumption, LedgerAssumption
  <1>2. SumOf(M, b, "onHand") \in Int /\ SumOf(M, b, "allocated") \in Int /\ SumOf(M, b, "hold") \in Int
    BY SumsAreIntegers DEF Fields
  <1> QED
    BY <1>1, <1>2, DeltaSumsAre DEF Moved, Quantities

----------------------------------------------------------------------------
(* Rows and ledger.                                                        *)

\* The rows are as far from the ledger as they were at the beginning, and differ where they did.
LEMMA LedgerInvShows ==
    ASSUME LedgerInv, NEW b \in Balances
    PROVE  /\ stock[b] \in Quantities /\ LedgerTotals(posted, b) \in Quantities
           /\ Difference(LedgerTotals(posted, b), stock[b]) = Difference(OpeningLedger[b], OpeningStock[b])
           /\ Matches(stock[b], LedgerTotals(posted, b)) <=> b \notin Drifted
  <1>1. PICK d : d = DeltaSums(posted, b)
    OBVIOUS
  <1>2. PICK s : s = OpeningStock[b]
    OBVIOUS
  <1>3. PICK l : l = OpeningLedger[b]
    OBVIOUS
  <1>4. Moved(s, d) /\ Moved(l, d)
    BY <1>1, <1>2, <1>3, OpeningMoved DEF LedgerInv
  <1>5. s \in Quantities /\ l \in Quantities /\ AvailableFollows(s) /\ AvailableFollows(l)
    BY <1>2, <1>3, ReturnsAssumption, LedgerAssumption
  <1>6. stock[b] = After(s, d) /\ LedgerTotals(posted, b) = After(l, d)
    BY <1>1, <1>2, <1>3 DEF LedgerInv, LedgerTotals
  <1>7. PICK x : x = After(s, d)
    OBVIOUS
  <1>8. PICK y : y = After(l, d)
    OBVIOUS
  <1>9. /\ x \in Quantities /\ x.onHand = s.onHand + d.onHand /\ x.allocated = s.allocated + d.allocated
        /\ x.hold = s.hold + d.hold /\ AvailableFollows(x)
    BY <1>4, <1>7, AfterIs
  <1>10. /\ y \in Quantities /\ y.onHand = l.onHand + d.onHand /\ y.allocated = l.allocated + d.allocated
         /\ y.hold = l.hold + d.hold /\ AvailableFollows(y)
    BY <1>4, <1>8, AfterIs
  <1>11. /\ x.onHand - y.onHand = s.onHand - l.onHand /\ x.allocated - y.allocated = s.allocated - l.allocated
         /\ x.hold - y.hold = s.hold - l.hold
    BY <1>4, <1>9, <1>10 DEF Moved
  <1>12. Difference(y, x) = Difference(l, s)
    BY <1>11 DEF Difference
  <1>13. x = y <=> s = l
    <2>1. ASSUME x = y PROVE s = l
      <3>0. x.onHand - y.onHand = 0 /\ x.allocated - y.allocated = 0 /\ x.hold - y.hold = 0
        BY <1>9, <1>10, <2>1 DEF Quantities
      <3>1. s.onHand = l.onHand /\ s.allocated = l.allocated /\ s.hold = l.hold
        BY <1>4, <1>11, <3>0 DEF Moved
      <3> QED
        BY <1>5, <3>1, SameQuantities
    <2>2. ASSUME s = l PROVE x = y
      BY <1>7, <1>8, <2>2
    <2> QED
      BY <2>1, <2>2
  <1>14. b \in Drifted <=> s # l
    BY <1>2, <1>3 DEF Drifted
  <1> QED
    BY <1>2, <1>3, <1>6, <1>7, <1>8, <1>9, <1>10, <1>12, <1>13, <1>14 DEF Matches

LEMMA DifferingAreDrifted ==
    ASSUME LedgerInv, NEW scope \in SUBSET Balances
    PROVE  Differing(stock, posted, scope) = Drifted \cap scope
  BY LedgerInvShows DEF Differing

\* A new posting moves its row by its delta, and so does it move the sums.
LEMMA PostsKeepsLedger ==
    ASSUME LedgerInv, NEW p, p.balance \in Balances, p.delta \in Deltas, ~Taken(posted, p.key),
           Posts(OneMore(Inventory, p))
    PROVE  LedgerInv' /\ Cardinality(posted') = Cardinality(posted) + 1 /\ Cardinality(posted) \in Nat
  <1>1. posted' = posted \cup {p} /\ p \notin posted
    BY PostsNew DEF Taken
  <1>2. stock' = [stock EXCEPT ![p.balance] = After(stock[p.balance], p.delta)]
    BY DEF Posts, OneMore, Inventory
  <1>3. /\ IsFiniteSet(posted') /\ Cardinality(posted') = Cardinality(posted) + 1
        /\ Cardinality(posted) \in Nat
    BY <1>1, FS_AddElement, FS_CardinalityType DEF LedgerInv, Deltaed
  <1>4. Deltaed(posted')
    BY <1>1, <1>3 DEF LedgerInv, Deltaed
  <1>5. ASSUME NEW b \in Balances
        PROVE  stock'[b] = After(OpeningStock[b], DeltaSums(posted', b))
    <2>1. PICK d : d = DeltaSums(posted, b)
      OBVIOUS
    <2>2. PICK e : e = DeltaSums(posted', b)
      OBVIOUS
    <2>3. PICK s : s = OpeningStock[b]
      OBVIOUS
    <2>4. Moved(s, d) /\ Moved(s, e)
      BY <1>4, <2>1, <2>2, <2>3, OpeningMoved DEF LedgerInv
    <2>5. stock[b] = After(s, d) /\ stock' = [c \in Balances |-> stock'[c]]
      BY <1>2, <2>1, <2>3 DEF LedgerInv
    <2>6. /\ e.onHand = d.onHand + Adds(p.balance = b, p.delta.onHand)
          /\ e.allocated = d.allocated + Adds(p.balance = b, p.delta.allocated)
          /\ e.hold = d.hold + Adds(p.balance = b, p.delta.hold)
      <3>1. "onHand" \in Fields /\ "allocated" \in Fields /\ "hold" \in Fields
        BY DEF Fields
      <3>2. \A field \in Fields :
              SumOf(posted', b, field) = SumOf(posted, b, field) + Adds(p.balance = b, p.delta[field])
        BY <1>1, OneMoreSummed DEF LedgerInv
      <3>3. SumOf(posted', b, "onHand") = SumOf(posted, b, "onHand") + Adds(p.balance = b, p.delta["onHand"])
        BY <3>1, <3>2
      <3>4. SumOf(posted', b, "allocated") = SumOf(posted, b, "allocated") + Adds(p.balance = b, p.delta["allocated"])
        BY <3>1, <3>2
      <3>5. SumOf(posted', b, "hold") = SumOf(posted, b, "hold") + Adds(p.balance = b, p.delta["hold"])
        BY <3>1, <3>2
      <3> QED
        BY <2>1, <2>2, <3>3, <3>4, <3>5, DeltaSumsAre
    <2>7. CASE p.balance = b
      <3>1. /\ e.onHand = d.onHand + p.delta.onHand /\ e.allocated = d.allocated + p.delta.allocated
            /\ e.hold = d.hold + p.delta.hold
        BY <2>6, <2>7 DEF Adds
      <3>2. PICK delta : delta = p.delta
        OBVIOUS
      <3>3. stock'[b] = After(After(s, d), delta)
        BY <1>2, <2>5, <2>7, <3>2 DEF LedgerInv
      <3>4. PICK x : x = After(s, d)
        OBVIOUS
      <3>5. delta.onHand \in Int /\ delta.allocated \in Int /\ delta.hold \in Int
        BY <3>2 DEF Deltas
      <3>6. /\ x \in Quantities /\ x.onHand = s.onHand + d.onHand /\ x.allocated = s.allocated + d.allocated
            /\ x.hold = s.hold + d.hold
        BY <2>4, <3>4, AfterIs
      <3>7. Moved(x, delta)
        BY <3>5, <3>6 DEF Moved, Quantities
      <3>8. PICK y : y = After(x, delta)
        OBVIOUS
      <3>9. PICK z : z = After(s, e)
        OBVIOUS
      <3>10. /\ y \in Quantities /\ y.onHand = x.onHand + delta.onHand /\ y.allocated = x.allocated + delta.allocated
             /\ y.hold = x.hold + delta.hold /\ AvailableFollows(y)
        BY <3>7, <3>8, AfterIs
      <3>11. /\ z \in Quantities /\ z.onHand = s.onHand + e.onHand /\ z.allocated = s.allocated + e.allocated
             /\ z.hold = s.hold + e.hold /\ AvailableFollows(z)
        BY <2>4, <3>9, AfterIs
      <3>12. y.onHand = z.onHand /\ y.allocated = z.allocated /\ y.hold = z.hold
        BY <2>4, <3>1, <3>2, <3>5, <3>6, <3>10, <3>11 DEF Moved
      <3>13. y = z
        BY <3>10, <3>11, <3>12, SameQuantities
      <3> QED
        BY <2>2, <2>3, <3>3, <3>4, <3>8, <3>9, <3>13
    <2>8. CASE p.balance # b
      <3>1. e.onHand = d.onHand /\ e.allocated = d.allocated /\ e.hold = d.hold
        BY <2>4, <2>6, <2>8 DEF Adds, Moved
      <3>2. stock'[b] = stock[b]
        BY <1>2, <2>8 DEF LedgerInv
      <3>3. After(s, e) = After(s, d)
        BY <3>1 DEF After
      <3> QED
        BY <2>2, <2>3, <2>5, <3>2, <3>3
    <2> QED
      BY <2>7, <2>8
  <1>6. stock' = [b \in Balances |-> After(OpeningStock[b], DeltaSums(posted', b))]
    BY <1>2, <1>5 DEF LedgerInv
  <1> QED
    BY <1>3, <1>4, <1>6 DEF LedgerInv

\* Postings and rows change together, by one posting or not at all.
LedgerMoves ==
    \/ UNCHANGED <<stock, posted>>
    \/ Cardinality(posted) \in Nat /\ Cardinality(posted') = Cardinality(posted) + 1

LEMMA PostsMoves ==
    ASSUME LedgerInv, NEW p, p.balance \in Balances, p.delta \in Deltas, Posts(OneMore(Inventory, p))
    PROVE  LedgerInv' /\ LedgerMoves
  <1>1. CASE Taken(posted, p.key)
    <2>1. UNCHANGED <<stock, posted>>
      BY <1>1 DEF Posts, OneMore, Inventory
    <2> QED
      BY <2>1 DEF LedgerInv, LedgerMoves
  <1>2. CASE ~Taken(posted, p.key)
    BY <1>2, PostsKeepsLedger DEF LedgerMoves
  <1> QED
    BY <1>1, <1>2

\* What a step may make of a run's row.
RowKeeps(old, new) == Found(new) /\ (Started(old) => Started(new))

HandlersKeep ==
    /\ handlers' = [h \in Handlers |-> handlers'[h]]
    /\ \A h \in Handlers : handlers'[h] = handlers[h] \/ (CompletesStarted(handlers[h])' /\ ReadsPast(handlers[h])')

LEMMA DriftStays ==
    ASSUME DriftInv, LedgerInv', LedgerMoves, \A r \in Runs : RowKeeps(runs[r], runs'[r]), HandlersKeep
    PROVE  DriftInv'
  <1>1. \A r \in Runs : Found(runs'[r]) /\ (Started(runs[r]) => Started(runs'[r]))
    BY DEF RowKeeps
  <1>2. ASSUME NEW h \in Handlers
        PROVE  CompletesStarted(handlers[h])' /\ ReadsPast(handlers[h])'
    <2>1. CASE handlers'[h] = handlers[h]
      <3>1. PICK w : w = handlers[h] /\ w = handlers'[h]
        BY <2>1
      <3>2. CompletesStarted(w) /\ ReadsPast(w)
        BY <3>1 DEF DriftInv
      <3>3. /\ w.step \in {"complete", "write", "cancel"} => w.run \in Runs
            /\ w.step \in {"complete", "write"} => Started(runs'[w.run])
        BY <1>1, <3>2 DEF CompletesStarted
      <3>4. w.step = "report" => /\ w.first \in {"rows", "movements"}
                                 /\ w.at \in Nat /\ w.at <= Cardinality(posted')
                                 /\ w.at = Cardinality(posted') => w.read = IF w.first = "rows" THEN stock' ELSE posted'
        BY <3>2 DEF ReadsPast, LedgerMoves
      <3> QED
        BY <3>1, <3>3, <3>4 DEF CompletesStarted, ReadsPast
    <2>2. CASE handlers'[h] # handlers[h]
      BY <2>2 DEF HandlersKeep
    <2> QED
      BY <2>1, <2>2
  <1> QED
    BY <1>1, <1>2 DEF DriftInv, HandlersKeep

\* Runs and requests that no step touches.
LEMMA RowsStay ==
    ASSUME DriftInv, runs' = runs
    PROVE  \A r \in Runs : RowKeeps(runs[r], runs'[r])
  BY DEF DriftInv, RowKeeps

LEMMA HandlersStay ==
    ASSUME DriftInv, handlers' = handlers
    PROVE  HandlersKeep
  BY DEF DriftInv, HandlersKeep

\* Rows that stay.
LEMMA LedgerStays ==
    ASSUME LedgerInv, UNCHANGED inventoryVars
    PROVE  LedgerInv' /\ LedgerMoves
  BY DEF LedgerInv, LedgerMoves, inventoryVars

\* A step that writes the row of one run.
LEMMA OneRowKeeps ==
    ASSUME DriftInv, NEW r \in Runs, NEW run, runs = [s \in Runs |-> runs[s]], runs' = [runs EXCEPT ![r] = run],
           RowKeeps(runs[r], run)
    PROVE  \A s \in Runs : RowKeeps(runs[s], runs'[s])
  <1> TAKE s \in Runs
  <1>1. CASE s = r
    <2>1. runs'[s] = run
      BY <1>1
    <2> QED
      BY <1>1, <2>1
  <1>2. CASE s # r
    <2>1. runs'[s] = runs[s]
      BY <1>2
    <2> QED
      BY <2>1 DEF RowKeeps, DriftInv
  <1> QED
    BY <1>1, <1>2

\* A step of one request.
LEMMA OneHandlerKeeps ==
    ASSUME DriftInv, NEW h \in Handlers, NEW w, handlers' = [handlers EXCEPT ![h] = w],
           CompletesStarted(w)', ReadsPast(w)'
    PROVE  HandlersKeep
  <1>1. /\ handlers' = [k \in Handlers |-> handlers'[k]] /\ handlers'[h] = w
        /\ \A k \in Handlers : k # h => handlers'[k] = handlers[k]
    BY DEF DriftInv
  <1> QED
    BY <1>1 DEF HandlersKeep, CompletesStarted, ReadsPast

LEMMA IdleKeeps ==
    ASSUME DriftInv, NEW h \in Handlers, handlers' = [handlers EXCEPT ![h] = Idle]
    PROVE  HandlersKeep
  <1>1. PICK w : w = Idle
    OBVIOUS
  <1>2. w.step = "none"
    BY <1>1 DEF Idle
  <1>3. CompletesStarted(w)' /\ ReadsPast(w)'
    BY <1>2 DEF CompletesStarted, ReadsPast
  <1> QED
    BY <1>1, <1>3, OneHandlerKeeps

----------------------------------------------------------------------------
(* The actions.                                                            *)

LEMMA CompleteReturnMoves ==
    ASSUME DriftInv, NEW r \in Returns, NEW key \in ReturnKeys, NEW d \in Dispositions, CompleteReturn(r, key, d)
    PROVE  LedgerInv' /\ LedgerMoves
  <1>1. PICK p : p = ReturnPosting(r, key, d)
    OBVIOUS
  <1>2. Head(OrderLines[r]) \in Balances /\ ReturnQuantity[r] \in Int
    BY ReturnsAssumption, EmptySeq, HeadTailProperties DEF CompleteReturn
  <1>3. p.balance \in Balances
    BY <1>1, <1>2 DEF ReturnPosting, Posting
  <1>4. p.delta \in Deltas
    <2>1. p.delta = ReturnDelta(ReturnQuantity[r], d)
      BY <1>1 DEF ReturnPosting, Posting
    <2> QED
      BY <1>2, <2>1 DEF ReturnDelta, Dispositions, OnHand, Deltas
  <1>5. Posts(OneMore(Inventory, p))
    BY <1>1 DEF CompleteReturn
  <1> QED
    BY <1>3, <1>4, <1>5, PostsMoves DEF DriftInv

LEMMA CreateRunDrifts ==
    ASSUME RunsInv, DriftInv, NEW r \in Runs, NEW scope \in Scopes, CreateRun(r, scope)
    PROVE  DriftInv'
  <1>1. PICK run : run = RunRow("PENDING", scope, <<>>)
    OBVIOUS
  <1>2. run.status = "PENDING" /\ run.scope = scope /\ scope \subseteq Balances
    BY <1>1, LedgerAssumption DEF RunRow
  <1>3. runs[r].status = "NONE"
    BY DEF CreateRun, NoRun, RunRow
  <1>4. RowKeeps(runs[r], run)
    BY <1>2, <1>3 DEF RowKeeps, Found, Started
  <1>5. runs' = [runs EXCEPT ![r] = run]
    BY <1>1 DEF CreateRun
  <1>6. \A s \in Runs : RowKeeps(runs[s], runs'[s])
    BY <1>4, <1>5, OneRowKeeps DEF RunsInv
  <1>7. UNCHANGED inventoryVars /\ handlers' = handlers
    BY DEF CreateRun
  <1> QED
    BY <1>6, <1>7, LedgerStays, HandlersStay, DriftStays DEF DriftInv

LEMMA StartRunDrifts ==
    ASSUME RunsInv, DriftInv, NEW r \in Runs, StartRun(r)
    PROVE  DriftInv'
  <1>1. PICK scope : scope = runs[r].scope /\ scope \in SUBSET Balances
    BY DEF DriftInv, Found
  <1>2. PICK differing : differing = Differing(stock, posted, scope)
    OBVIOUS
  <1>3. differing = Drifted \cap scope
    BY <1>1, <1>2, DifferingAreDrifted DEF DriftInv
  <1>4. PICK found : found = [b \in differing |-> [stored |-> stock[b], ledger |-> LedgerTotals(posted, b),
                                                   resolution |-> NoResolution]]
    OBVIOUS
  <1>5. PICK run : run = RunRow("IN_PROGRESS", scope, found)
    OBVIOUS
  <1>6. run.status = "IN_PROGRESS" /\ run.scope = scope /\ run.found = found
    BY <1>5 DEF RunRow
  <1>7. DOMAIN found = Drifted \cap scope
    BY <1>3, <1>4
  <1>8. ASSUME NEW b \in DOMAIN found
        PROVE  /\ found[b].stored \in Quantities /\ found[b].ledger \in Quantities
               /\ Difference(found[b].ledger, found[b].stored) = Difference(OpeningLedger[b], OpeningStock[b])
    <2>1. found[b].stored = stock[b] /\ found[b].ledger = LedgerTotals(posted, b) /\ b \in Balances
      BY <1>1, <1>4, <1>7
    <2> QED
      BY <2>1, LedgerInvShows DEF DriftInv
  <1>9. FoundDrift(run)
    BY <1>6, <1>7, <1>8 DEF FoundDrift
  <1>10. RowKeeps(runs[r], run)
    BY <1>1, <1>6, <1>9 DEF RowKeeps, Found, Started
  <1>11. runs' = [runs EXCEPT ![r] = run]
    BY <1>1, <1>2, <1>4, <1>5 DEF StartRun
  <1>12. \A s \in Runs : RowKeeps(runs[s], runs'[s])
    BY <1>10, <1>11, OneRowKeeps DEF RunsInv
  <1>13. UNCHANGED inventoryVars /\ handlers' = handlers
    BY DEF StartRun
  <1> QED
    BY <1>12, <1>13, LedgerStays, HandlersStay, DriftStays DEF DriftInv

\* A row whose status is written alone.
LEMMA StatusDrifts ==
    ASSUME RunsInv, DriftInv, NEW r \in Runs, NEW status \in {"COMPLETED", "CANCELLED"},
           runs' = [runs EXCEPT ![r].status = status], status = "COMPLETED" => FoundDrift(runs[r])
    PROVE  \A s \in Runs : RowKeeps(runs[s], runs'[s])
  <1>1. IsRun(runs[r]) /\ Found(runs[r])
    BY DEF RunsInv, RunSound, DriftInv
  <1>2. PICK run : run = [runs[r] EXCEPT !.status = status]
    OBVIOUS
  <1>3. run.status = status /\ run.scope = runs[r].scope /\ run.found = runs[r].found
    BY <1>1, <1>2 DEF IsRun
  <1>4. runs' = [runs EXCEPT ![r] = run]
    BY <1>2
  <1>5. RowKeeps(runs[r], run)
    BY <1>1, <1>3 DEF RowKeeps, Found, Started, FoundDrift
  <1> QED
    BY <1>4, <1>5, OneRowKeeps DEF RunsInv

LEMMA FinishDrifts ==
    ASSUME RunsInv, DriftInv, NEW h \in Handlers, FinishComplete(h) \/ FinishCancel(h)
    PROVE  DriftInv'
  <1>1. PICK r : r = handlers[h].run
    OBVIOUS
  <1>2. r \in Runs /\ (handlers[h].step = "write" => FoundDrift(runs[r]))
    BY <1>1 DEF FinishComplete, FinishCancel, DriftInv, CompletesStarted, Started
  <1>3. \A s \in Runs : RowKeeps(runs[s], runs'[s])
    <2>1. CASE runs' = runs
      BY <2>1, RowsStay
    <2>2. CASE FinishComplete(h) /\ runs' # runs
      <3>1. runs' = [runs EXCEPT ![r].status = "COMPLETED"] /\ FoundDrift(runs[r])
        BY <1>1, <1>2, <2>2 DEF FinishComplete
      <3> QED
        BY <1>2, <3>1, StatusDrifts
    <2>3. CASE FinishCancel(h)
      <3>1. runs' = [runs EXCEPT ![r].status = "CANCELLED"]
        BY <1>1, <2>3 DEF FinishCancel
      <3> QED
        BY <1>2, <3>1, StatusDrifts
    <2> QED
      BY <2>1, <2>2, <2>3
  <1>4. UNCHANGED inventoryVars /\ handlers' = [handlers EXCEPT ![h] = Idle]
    BY DEF FinishComplete, FinishCancel, Handle
  <1> QED
    BY <1>3, <1>4, IdleKeeps, LedgerStays, DriftStays DEF DriftInv

LEMMA BeginDrifts ==
    ASSUME RunsInv, DriftInv, NEW h \in Handlers, NEW r \in Runs, BeginComplete(h, r) \/ BeginCancel(h, r)
    PROVE  DriftInv'
  <1>1. UNCHANGED inventoryVars /\ runs' = runs
    BY DEF BeginComplete, BeginCancel, Handle
  <1>2. PICK step \in {"complete", "cancel"} : /\ handlers' = [handlers EXCEPT ![h] = [step |-> step, run |-> r]]
                                               /\ step = "complete" => runs[r].status = "IN_PROGRESS"
    BY DEF BeginComplete, BeginCancel, Handle
  <1>3. PICK w : w = [step |-> step, run |-> r]
    OBVIOUS
  <1>4. w.step = step /\ w.run = r
    BY <1>3
  <1>5. step = "complete" => Started(runs[r])
    BY <1>2 DEF DriftInv, Found, Started
  <1>6. CompletesStarted(w)' /\ ReadsPast(w)'
    BY <1>1, <1>4, <1>5 DEF CompletesStarted, ReadsPast
  <1> QED
    BY <1>1, <1>2, <1>3, <1>6, OneHandlerKeeps, RowsStay, LedgerStays, DriftStays DEF DriftInv

LEMMA CountDrifts ==
    ASSUME DriftInv, NEW h \in Handlers, CountUnresolved(h)
    PROVE  DriftInv'
  <1>1. UNCHANGED inventoryVars /\ runs' = runs /\ handlers[h].step = "complete"
    BY DEF CountUnresolved, Handle
  <1>2. CASE handlers' = [handlers EXCEPT ![h] = Idle]
    BY <1>1, <1>2, RowsStay, IdleKeeps, LedgerStays, DriftStays DEF DriftInv
  <1>3. CASE handlers' = [handlers EXCEPT ![h] = [step |-> "write", run |-> handlers[h].run]]
    <2>1. PICK w : w = [step |-> "write", run |-> handlers[h].run]
      OBVIOUS
    <2>2. w.step = "write" /\ w.run = handlers[h].run /\ w.run \in Runs /\ Started(runs[w.run])
      BY <1>1, <2>1 DEF DriftInv, CompletesStarted
    <2>3. CompletesStarted(w)' /\ ReadsPast(w)'
      BY <1>1, <2>2 DEF CompletesStarted, ReadsPast
    <2> QED
      BY <1>1, <1>3, <2>1, <2>3, OneHandlerKeeps, RowsStay, LedgerStays, DriftStays DEF DriftInv
  <1> QED
    BY <1>2, <1>3 DEF CountUnresolved, Handle

LEMMA ReportDrifts ==
    ASSUME DriftInv, NEW h \in Handlers, NEW first \in {"rows", "movements"}, BeginReport(h, first)
    PROVE  DriftInv'
  <1>1. UNCHANGED inventoryVars /\ runs' = runs /\ UNCHANGED <<stock, posted>>
    BY DEF BeginReport, Handle, inventoryVars
  <1>2. PICK read : read = IF first = "rows" THEN stock ELSE posted
    OBVIOUS
  <1>3. PICK w : w = [step |-> "report", first |-> first, read |-> read, at |-> Cardinality(posted)]
    OBVIOUS
  <1>4. w.step = "report" /\ w.first = first /\ w.read = read /\ w.at = Cardinality(posted)
    BY <1>3
  <1>5. Cardinality(posted) \in Nat
    BY FS_CardinalityType DEF DriftInv, LedgerInv, Deltaed
  <1>6. CompletesStarted(w)' /\ ReadsPast(w)'
    BY <1>1, <1>2, <1>4, <1>5 DEF CompletesStarted, ReadsPast
  <1>7. handlers' = [handlers EXCEPT ![h] = w]
    BY <1>2, <1>3 DEF BeginReport, Handle
  <1> QED
    BY <1>1, <1>6, <1>7, OneHandlerKeeps, RowsStay, LedgerStays, DriftStays DEF DriftInv

LEMMA ResolveDrifts ==
    ASSUME RunsInv, DriftInv, NEW r \in Runs, NEW b \in Balances, NEW resolution \in Chosen,
           ResolveDiscrepancy(r, b, resolution)
    PROVE  DriftInv'
  <1>1. runs' = [runs EXCEPT ![r] = ResolvedRow(runs[r], b, resolution)]
    BY ResolvedRun
  <1>2. PICK run : run = ResolvedRow(runs[r], b, resolution)
    OBVIOUS
  <1>3. /\ Found(runs[r]) /\ FoundDrift(runs[r]) /\ runs[r].status = "IN_PROGRESS" /\ b \in DOMAIN runs[r].found
    BY DEF DriftInv, Found, ResolveDiscrepancy
  <1>4. PICK old : old = runs[r].found
    OBVIOUS
  <1>5. /\ run.status = "IN_PROGRESS" /\ run.scope = runs[r].scope /\ DOMAIN run.found = DOMAIN old
        /\ \A c \in DOMAIN old : run.found[c].stored = old[c].stored /\ run.found[c].ledger = old[c].ledger
    BY <1>2, <1>3, <1>4 DEF ResolvedRow
  <1>6. RowKeeps(runs[r], run)
    BY <1>3, <1>4, <1>5 DEF RowKeeps, Found, Started, FoundDrift
  <1>7. \A s \in Runs : RowKeeps(runs[s], runs'[s])
    BY <1>1, <1>2, <1>6, OneRowKeeps DEF RunsInv
  <1>8. PICK p : p = Adjustment(r, b)
    OBVIOUS
  <1>9. p.balance \in Balances /\ p.delta \in Deltas
    <2>1. p.balance = b /\ p.delta = Difference(old[b].stored, old[b].ledger)
      BY <1>4, <1>8 DEF Adjustment, Posting
    <2>2. old[b].stored \in Quantities /\ old[b].ledger \in Quantities
      BY <1>3, <1>4 DEF FoundDrift
    <2> QED
      BY <2>1, <2>2 DEF Difference, Quantities, Deltas
  <1>10. Posts(OneMore(Inventory, p)) \/ UNCHANGED inventoryVars
    BY <1>8 DEF ResolveDiscrepancy
  <1>11. LedgerInv' /\ LedgerMoves
    BY <1>9, <1>10, PostsMoves, LedgerStays DEF DriftInv
  <1>12. handlers' = handlers
    BY DEF ResolveDiscrepancy
  <1> QED
    BY <1>7, <1>11, <1>12, HandlersStay, DriftStays

LEMMA InitDrifts == Init => DriftInv
  <1> SUFFICES ASSUME Init
               PROVE  DriftInv
    OBVIOUS
  <1>1. stock = OpeningStock /\ posted = {} /\ runs = [r \in Runs |-> NoRun] /\ handlers = [h \in Handlers |-> Idle]
    BY DEF Init, ReturnsInit
  <1>2. Deltaed(posted)
    BY <1>1, FS_EmptySet DEF Deltaed
  <1>3. ASSUME NEW b \in Balances
        PROVE  stock[b] = After(OpeningStock[b], DeltaSums(posted, b))
    <2>1. PICK s : s = OpeningStock[b] /\ s \in Quantities /\ AvailableFollows(s)
      BY ReturnsAssumption
    <2>2. PICK d : d = DeltaSums(posted, b)
      OBVIOUS
    <2>3. d.onHand = 0 /\ d.allocated = 0 /\ d.hold = 0
      BY <1>1, <2>2, DeltaSumsAre, NothingSummed
    <2>4. Moved(s, d)
      BY <2>1, <2>3 DEF Moved, Quantities
    <2>5. PICK x : x = After(s, d)
      OBVIOUS
    <2>6. /\ x \in Quantities /\ x.onHand = s.onHand /\ x.allocated = s.allocated /\ x.hold = s.hold
          /\ AvailableFollows(x)
      BY <2>1, <2>3, <2>4, <2>5, AfterIs DEF Quantities
    <2>7. x = s
      BY <2>1, <2>6, SameQuantities
    <2> QED
      BY <1>1, <2>1, <2>2, <2>5, <2>7
  <1>4. LedgerInv
    <2>1. stock \in [Balances -> Quantities]
      BY <1>1, ReturnsAssumption
    <2> QED
      BY <1>2, <1>3, <2>1 DEF LedgerInv
  <1>5. \A r \in Runs : Found(runs[r])
    <2>1. NoRun.status = "NONE" /\ NoRun.scope = {}
      BY DEF NoRun, RunRow
    <2> QED
      BY <1>1, <2>1 DEF Found
  <1>6. /\ handlers = [h \in Handlers |-> handlers[h]]
        /\ \A h \in Handlers : CompletesStarted(handlers[h]) /\ ReadsPast(handlers[h])
    <2>1. Idle.step = "none"
      BY DEF Idle
    <2> QED
      BY <1>1, <2>1 DEF CompletesStarted, ReadsPast
  <1> QED
    BY <1>4, <1>5, <1>6 DEF DriftInv

LEMMA NextDrifts ==
    ASSUME RunsInv, DriftInv, [Next]_vars
    PROVE  DriftInv'
  <1>1. CASE UNCHANGED <<inventoryVars, runs, handlers>>
    BY <1>1, RowsStay, HandlersStay, LedgerStays, DriftStays DEF DriftInv
  <1>2. CASE ReturnsNext /\ UNCHANGED reconciliationVars
    <2>1. runs' = runs /\ handlers' = handlers
      BY <1>2 DEF reconciliationVars
    <2>2. LedgerInv' /\ LedgerMoves
      BY <1>2, CompleteReturnMoves, LedgerStays DEF ReturnsNext, CreateReturn, ApproveReturn, DriftInv
    <2> QED
      BY <2>1, <2>2, RowsStay, HandlersStay, DriftStays
  <1>3. ASSUME NEW h \in Handlers, FinishReport(h)
        PROVE  DriftInv'
    <2>1. UNCHANGED inventoryVars /\ runs' = runs /\ handlers' = [handlers EXCEPT ![h] = Idle]
      BY <1>3 DEF FinishReport, Handle
    <2> QED
      BY <2>1, RowsStay, IdleKeeps, LedgerStays, DriftStays DEF DriftInv
  <1>4. CASE ReconciliationNext
    BY <1>3, <1>4, CreateRunDrifts, StartRunDrifts, ResolveDrifts, BeginDrifts, CountDrifts, ReportDrifts, FinishDrifts
       DEF ReconciliationNext
  <1> QED
    BY <1>1, <1>2, <1>4 DEF Next, vars, inventoryVars

LEMMA DriftShows ==
    ASSUME DriftInv
    PROVE  RowsMoveWithLedger /\ DiscrepanciesShowDrift
  <1>1. RowsMoveWithLedger
    BY LedgerInvShows DEF DriftInv, RowsMoveWithLedger
  <1>2. ASSUME NEW r \in Runs, runs[r].status \in {"IN_PROGRESS", "COMPLETED"}
        PROVE  /\ DOMAIN runs[r].found = Drifted \cap runs[r].scope
               /\ \A b \in DOMAIN runs[r].found : Difference(runs[r].found[b].ledger, runs[r].found[b].stored) =
                                                      Difference(OpeningLedger[b], OpeningStock[b])
    BY <1>2 DEF DriftInv, Found, FoundDrift
  <1>3. ASSUME NEW h \in Handlers, handlers[h].step = "report", handlers[h].at = Cardinality(posted)
        PROVE  ReportOf(h) = Drifted
    <2>1. ReadsPast(handlers[h])
      BY DEF DriftInv
    <2>2. /\ handlers[h].first \in {"rows", "movements"}
          /\ handlers[h].read = IF handlers[h].first = "rows" THEN stock ELSE posted
      BY <1>3, <2>1 DEF ReadsPast
    <2>3. ReportOf(h) = Differing(stock, posted, Balances)
      BY <2>2 DEF ReportOf
    <2>4. Differing(stock, posted, Balances) = Drifted \cap Balances
      BY DifferingAreDrifted DEF DriftInv
    <2> QED
      BY <2>3, <2>4 DEF Drifted
  <1> QED
    BY <1>1, <1>2, <1>3 DEF DiscrepanciesShowDrift

----------------------------------------------------------------------------

\* The inductive invariant of returns and reconciliations.
THEOREM ReconciliationInvariant == Spec => []ReconciliationInv
  BY InitSound, NextSound, PTL DEF Spec

\* approve guards nothing, so a return can be completed again, but never more often than it was approved, never twice
\* under one key, and never without its posting (returns.service.ts approve, complete).
THEOREM CompletionsAlwaysFollowApprovals == Spec => []CompletionsFollowApprovals
  <1>1. ReconciliationInv => CompletionsFollowApprovals
    BY DEF ReconciliationInv, RowsInv, ReturnsInv
  <1> QED
    BY <1>1, ReconciliationInvariant, PTL

\* resolveDiscrepancy posts once for every discrepancy resolved by ADJUST_STORED, draws one number for each, and nothing
\* else posts for a reconciliation.
THEOREM AdjustmentsAlwaysAccounted == Spec => []AdjustmentsAreAccounted
  <1>1. ReconciliationInv => AdjustmentsAreAccounted
    BY DEF ReconciliationInv, RowsInv, PostingsInv
  <1> QED
    BY <1>1, ReconciliationInvariant, PTL

\* The status complete and cancel write is the one they decided on earlier; even so a completed run leaves nothing
\* unresolved.
THEOREM CompletedRunsAlwaysResolved == Spec => []CompletedRunsAreResolved
  <1>1. ReconciliationInv => CompletedRunsAreResolved
    BY DEF ReconciliationInv, RowsInv, RunsInv
  <1> QED
    BY <1>1, ReconciliationInvariant, PTL

\* A run that was completed or cancelled never goes on, and keeps its discrepancies.
THEOREM EndedRunsAlwaysStayEnded == Spec => EndedRunsStayEnded
  <1>1. ReconciliationInv /\ [Next]_vars =>
            [\A r \in Runs : runs[r].status \in {"COMPLETED", "CANCELLED"} =>
                /\ runs'[r].status \in {"COMPLETED", "CANCELLED"}
                /\ runs'[r].found = runs[r].found]_vars
    BY EndedStays
  <1> QED
    BY <1>1, ReconciliationInvariant, PTL DEF Spec, EndedRunsStayEnded

\* The rows and the ledger as the postings make them, and what runs and requests know of both: the
\* inductive invariant of the accounting.
THEOREM DriftInvariant == Spec => [](ReconciliationInv /\ DriftInv)
  <1>1. Init => ReconciliationInv /\ DriftInv
    BY InitSound, InitDrifts
  <1>2. ReconciliationInv /\ DriftInv /\ [Next]_vars => (ReconciliationInv /\ DriftInv)'
    BY NextSound, NextDrifts DEF ReconciliationInv, RowsInv
  <1> QED
    BY <1>1, <1>2, PTL DEF Spec

\* post writes row and movement together, and so does whatever posts: a difference between them is never made
\* larger or smaller, by returns (ADR 0005) nor by ADJUST_STORED, which therefore removes no difference, whatever
\* the balances, runs and resolutions.
THEOREM RowsAlwaysMoveWithLedger == Spec => []RowsMoveWithLedger
  <1>1. DriftInv => RowsMoveWithLedger
    BY DriftShows
  <1> QED
    BY <1>1, DriftInvariant, PTL

\* start and reconcile report a difference exactly where there is one, and start records how large it is, whatever is
\* posted before or after.
THEOREM DiscrepanciesAlwaysShowDrift == Spec => []DiscrepanciesShowDrift
  <1>1. DriftInv => DiscrepanciesShowDrift
    BY DriftShows
  <1> QED
    BY <1>1, DriftInvariant, PTL
=============================================================================
