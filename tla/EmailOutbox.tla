----------------------------- MODULE EmailOutbox -----------------------------
(***************************************************************************)
(* EmailOutboxService: messages are enqueued with the change they report,  *)
(* and workers send them in batches with bounded retries.                  *)
(*                                                                         *)
(* A worker is an API process; its timer starts a batch when none is under *)
(* way in that process.  Processes of two deployments overlap and none of  *)
(* the statements of a batch share a transaction, so every statement is an *)
(* action.  Processes die anywhere, a sender may be slower than the lock   *)
(* timeout, and the provider's answer may be lost after it accepted.       *)
(***************************************************************************)
EXTENDS Integers, FiniteSets

CONSTANTS
    Count,         \* how many messages are ever enqueued
    Workers,       \* API processes
    NoWorker,      \* the null lockedBy
    maxAttempts,   \* EMAIL_OUTBOX_LIMITS.maxAttempts, 5 in the code
    batchSize,     \* EMAIL_OUTBOX_LIMITS.batchSize, 10 in the code
    MaxCrashes     \* bound: how often processes die

ASSUME LimitsAssumption ==
    /\ Count \in Nat /\ MaxCrashes \in Nat
    /\ IsFiniteSet(Workers)
    /\ maxAttempts \in Nat \ {0} /\ batchSize \in Nat \ {0}
    /\ NoWorker \notin Workers

\* Messages in the order of their createdAt.
Messages == 1..Count

VARIABLES
    messages,      \* messages[m]: the EmailOutboxMessage row
    workers,       \* workers[w]: what the batch of w does next
    accepted,      \* accepted[m]: how often the provider accepted message m
    calls,         \* calls[m]: how often the provider was called for m
    crashes        \* how many processes died so far

outboxVars == <<messages, workers, accepted, calls, crashes>>

\* due: availableAt has passed; stale: lockedAt is older than lockTimeoutMs.
Rows == [status : {"NONE", "PENDING", "PROCESSING", "SENT", "FAILED"}, attempts : 0..maxAttempts,
         lockedBy : Workers \cup {NoWorker}, due : BOOLEAN, stale : BOOLEAN]

BatchSteps == {"idle", "scan", "claim", "read", "send", "finalize", "fail"}

\* queue: the ids still to claim; id: the message claimed; attempts: of that message, when read.
Batches == [step : BatchSteps, queue : SUBSET Messages, id : 0..Count, attempts : 0..maxAttempts]

NotEnqueued == [status |-> "NONE", attempts |-> 0, lockedBy |-> NoWorker, due |-> FALSE, stale |-> FALSE]
Enqueued    == [status |-> "PENDING", attempts |-> 0, lockedBy |-> NoWorker, due |-> TRUE, stale |-> FALSE]

IdleBatch == [step |-> "idle", queue |-> {}, id |-> 0, attempts |-> 0]

\* The batch claims the next of these messages, or ends.
NextOf(queue) == IF queue = {} THEN IdleBatch ELSE [IdleBatch EXCEPT !.step = "claim", !.queue = queue]

OutboxInit ==
    /\ messages = [m \in Messages |-> NotEnqueued]
    /\ workers = [w \in Workers |-> IdleBatch]
    /\ accepted = [m \in Messages |-> 0]
    /\ calls = [m \in Messages |-> 0]
    /\ crashes = 0

----------------------------------------------------------------------------

Waiting(m)  == messages[m].status \in {"PENDING", "FAILED"} /\ messages[m].attempts < maxAttempts
Current(w)  == workers[w].id

\* What if the results did not name lockedBy?
BugHoldsClaim(w, m) == messages[m].status = "PROCESSING"

HoldsClaim(w, m) == messages[m].status = "PROCESSING" /\ messages[m].lockedBy = w

Unlocked(row, status) == [row EXCEPT !.status = status, !.lockedBy = NoWorker, !.stale = FALSE]

At(w, step) == workers[w].step = step

BatchGoes(w, step) == workers' = [workers EXCEPT ![w].step = step]

Continues(w) == workers' = [workers EXCEPT ![w] = NextOf(@.queue)]

\* enqueue; messages are numbered as they are created.
Enqueue(m) ==
    /\ messages[m].status = "NONE"
    /\ \A earlier \in 1..(m - 1) : messages[earlier].status # "NONE"
    /\ messages' = [messages EXCEPT ![m] = Enqueued]
    /\ UNCHANGED <<workers, accepted, calls, crashes>>

\* What if claims of dead workers were left alone?
BugRecoverNothing(w) == At(w, "idle") /\ BatchGoes(w, "scan") /\ UNCHANGED <<messages, accepted, calls, crashes>>

\* processBatch starts a batch; recoverStaleClaims
RecoverStaleClaims(w) ==
    /\ At(w, "idle")
    /\ messages' = [m \in Messages |->
          IF messages[m].status = "PROCESSING" /\ messages[m].stale
          THEN Unlocked(messages[m], "PENDING") ELSE messages[m]]
    /\ BatchGoes(w, "scan")
    /\ UNCHANGED <<accepted, calls, crashes>>

\* The due messages, oldest first, no more than batchSize.
Scan(w) ==
    /\ At(w, "scan")
    /\ LET due   == {m \in Messages : Waiting(m) /\ messages[m].due}
           batch == {m \in due : Cardinality({older \in due : older < m}) < batchSize}
       IN  workers' = [workers EXCEPT ![w] = NextOf(batch)]
    /\ UNCHANGED <<messages, accepted, calls, crashes>>

\* The oldest message that is still to claim.
IsNext(w, m) == m \in workers[w].queue /\ \A other \in workers[w].queue : m <= other

Taken(w, m) ==
    [workers EXCEPT ![w] = [workers[w] EXCEPT !.step = "read", !.queue = @ \ {m}, !.id = m]]

\* What if the attempt was not counted by the claim?
BugClaimUncounted(w) ==
    /\ At(w, "claim")
    /\ \E m \in Messages :
          /\ IsNext(w, m) /\ Waiting(m)
          /\ messages' = [messages EXCEPT ![m] =
                [messages[m] EXCEPT !.status = "PROCESSING", !.lockedBy = w, !.stale = FALSE]]
          /\ workers' = Taken(w, m)
    /\ UNCHANGED <<accepted, calls, crashes>>

\* The claim asks for status and attempts again, not for availableAt.
Claim(w) ==
    /\ At(w, "claim")
    /\ \E m \in Messages :
          /\ IsNext(w, m)
          /\ \/ /\ Waiting(m)
                /\ messages' = [messages EXCEPT ![m] =
                      [messages[m] EXCEPT !.status = "PROCESSING", !.lockedBy = w, !.stale = FALSE, !.attempts = @ + 1]]
                /\ workers' = Taken(w, m)
             \/ /\ ~Waiting(m)
                /\ workers' = [workers EXCEPT ![w] = NextOf(@.queue \ {m})]
                /\ UNCHANGED messages
    /\ UNCHANGED <<accepted, calls, crashes>>

\* findFirst: the claim may have been recovered already.
Read(w) ==
    /\ At(w, "read")
    /\ \/ /\ HoldsClaim(w, Current(w))
          /\ workers' = [workers EXCEPT ![w].step = "send", ![w].attempts = messages[Current(w)].attempts]
       \/ ~HoldsClaim(w, Current(w)) /\ Continues(w)
    /\ UNCHANGED <<messages, accepted, calls, crashes>>

\* emailProvider.send: accepted and answered, accepted and the answer lost, or refused.
Send(w) ==
    /\ At(w, "send")
    /\ calls' = [calls EXCEPT ![Current(w)] = @ + 1]
    /\ \/ accepted' = [accepted EXCEPT ![Current(w)] = @ + 1] /\ BatchGoes(w, "finalize")
       \/ accepted' = [accepted EXCEPT ![Current(w)] = @ + 1] /\ BatchGoes(w, "fail")
       \/ UNCHANGED accepted /\ BatchGoes(w, "fail")
    /\ UNCHANGED <<messages, crashes>>

\* readPayload throws before anything is sent: the payload cannot be decrypted.
Unreadable(w) ==
    /\ At(w, "send")
    /\ BatchGoes(w, "fail")
    /\ UNCHANGED <<messages, accepted, calls, crashes>>

\* The update to SENT, or its failure, which the same catch handles.
Finalize(w) ==
    /\ At(w, "finalize")
    /\ \/ /\ messages' = IF HoldsClaim(w, Current(w))
                         THEN [messages EXCEPT ![Current(w)] = Unlocked(@, "SENT")] ELSE messages
          /\ Continues(w)
       \/ BatchGoes(w, "fail") /\ UNCHANGED messages
    /\ UNCHANGED <<accepted, calls, crashes>>

AfterFailure(attempts) == IF attempts >= maxAttempts THEN "FAILED" ELSE "PENDING"

\* The catch: back to PENDING after a delay, or FAILED after the last attempt.
RecordFailure(w) ==
    /\ At(w, "fail")
    /\ messages' = IF HoldsClaim(w, Current(w))
                   THEN [messages EXCEPT ![Current(w)] =
                           [Unlocked(@, AfterFailure(workers[w].attempts)) EXCEPT !.due = FALSE]]
                   ELSE messages
    /\ Continues(w)
    /\ UNCHANGED <<accepted, calls, crashes>>

\* The process dies, or a statement outside the try fails and the batch is given up.
Crash(w) ==
    /\ ~At(w, "idle")
    /\ crashes < MaxCrashes
    /\ workers' = [workers EXCEPT ![w] = IdleBatch]
    /\ crashes' = crashes + 1
    /\ UNCHANGED <<messages, accepted, calls>>

\* Time passes: retryAt is reached, lockTimeoutMs is over.
BecomesDue(m) ==
    /\ Waiting(m) /\ ~messages[m].due
    /\ messages' = [messages EXCEPT ![m].due = TRUE]
    /\ UNCHANGED <<workers, accepted, calls, crashes>>

BecomesStale(m) ==
    /\ messages[m].status = "PROCESSING" /\ ~messages[m].stale
    /\ messages' = [messages EXCEPT ![m].stale = TRUE]
    /\ UNCHANGED <<workers, accepted, calls, crashes>>

Batch(w) ==
    \/ RecoverStaleClaims(w) \/ Scan(w) \/ Claim(w) \/ Read(w)
    \/ Send(w) \/ Unreadable(w) \/ Finalize(w) \/ RecordFailure(w)

OutboxNext ==
    \/ \E m \in Messages : Enqueue(m) \/ BecomesDue(m) \/ BecomesStale(m)
    \/ \E w \in Workers : Batch(w) \/ Crash(w)

OutboxSpec == OutboxInit /\ [][OutboxNext]_outboxVars

\* The timer of every process keeps starting batches, statements return, and time passes.
OutboxFairness ==
    /\ \A w \in Workers : WF_outboxVars(Batch(w))
    /\ \A m \in Messages : WF_outboxVars(BecomesDue(m)) /\ WF_outboxVars(BecomesStale(m))

FairOutboxSpec == OutboxSpec /\ OutboxFairness

----------------------------------------------------------------------------
(* Properties.                                                             *)

\* Rows and batches are well formed; a message is locked exactly while it is processed.
OutboxTypeOK ==
    /\ messages \in [Messages -> Rows]
    /\ workers \in [Workers -> Batches]
    /\ accepted \in [Messages -> Nat] /\ calls \in [Messages -> Nat]
    /\ crashes \in 0..MaxCrashes
    /\ \A m \in Messages : messages[m].status = "PROCESSING" <=> messages[m].lockedBy # NoWorker
    /\ \A w \in Workers : workers[w].step \in {"read", "send", "finalize", "fail"} => Current(w) # 0

\* The provider is called for a message at most maxAttempts times ("delivers with bounded
\* retries", ADR-0008), whatever dies, stalls or is recovered between claim and result.
RetriesAreBounded == \A m \in Messages : calls[m] <= maxAttempts

\* Worker w takes its next step, from this one.
StepsFrom(w, step) == At(w, step) /\ workers'[w] # workers[w]

\* The row goes to this status by the worker whose claim it carries, for the attempt that claim counted: SENT
\* after the provider accepted the message, PENDING or, with the last attempt, FAILED in the catch.
RecordedByClaimant(m, w, status) ==
    /\ messages[m].lockedBy = w /\ Current(w) = m /\ workers[w].attempts = messages[m].attempts
    /\ \/ StepsFrom(w, "finalize") /\ accepted[m] > 0 /\ status = "SENT"
       \/ StepsFrom(w, "fail") /\ status = IF messages[m].attempts = maxAttempts THEN "FAILED" ELSE "PENDING"

RecoveredFromStale(m, status) ==
    messages[m].stale /\ status = "PENDING" /\ \E w \in Workers : StepsFrom(w, "idle")

\* What a step may make of the row of message m.
MayBecome(m, row) ==
    /\ messages[m].status \in {"SENT", "FAILED"} => row = messages[m]
    /\ row.status \in {"SENT", "FAILED"} => messages[m].status \in {"PROCESSING", row.status}
    /\ messages[m].status = "PROCESSING" /\ row.status # "PROCESSING" =>
          RecoveredFromStale(m, row.status) \/ \E w \in Workers : RecordedByClaimant(m, w, row.status)

\* A result is recorded by the worker whose claim the row carries and by nobody else: one that was slow, and whose
\* claim was recovered and passed to another meanwhile, changes no row, whether its own answer was good or bad (the
\* updates to SENT, PENDING and FAILED all name lockedBy); and a result, once recorded, is final.
ResultsAreTrue == [][\A m \in Messages : MayBecome(m, messages'[m])]_outboxVars

\* SENT was accepted, FAILED has used every attempt.
ResultsHold ==
    \A m \in Messages :
        /\ messages[m].status = "SENT" => accepted[m] > 0
        /\ messages[m].status = "FAILED" => messages[m].attempts = maxAttempts

\* The batches that claimed message m and have not called the provider for it yet.
Trying(m) == {w \in Workers : workers[w].step \in {"read", "send"} /\ Current(w) = m}

\* Every call of the provider, made or still to be made, was counted by a claim.
CallsAreCounted == \A m \in Messages : calls[m] + Cardinality(Trying(m)) <= messages[m].attempts

\* A batch that still holds its message knows the number of its attempts, and one that is about to
\* record success has had it.
BatchesAreCurrent ==
    \A w \in Workers :
        /\ workers[w].step \in {"send", "finalize", "fail"} /\ HoldsClaim(w, Current(w))
             => workers[w].attempts = messages[Current(w)].attempts
        /\ At(w, "finalize") => accepted[Current(w)] > 0

EnqueuedFirst == \A m \in Messages : messages[m].status = "NONE" => messages[m] = NotEnqueued

\* The inductive invariant: whatever a stalled, dead or late batch does next, no call is uncounted
\* and no result is recorded that is not so.
OutboxInv == OutboxTypeOK /\ CallsAreCounted /\ BatchesAreCurrent /\ EnqueuedFirst /\ ResultsHold

\* Used up: no attempt is left and no worker will take the message again.
Exhausted(m) == messages[m].status = "PENDING" /\ messages[m].attempts = maxAttempts

\* Every message is settled or uses up its attempts: a claim of a dead worker is recovered, and a
\* failed one comes due again, until nothing is left to try.
NothingIsForgotten ==
    \A m \in Messages :
        messages[m].status = "PENDING" ~> messages[m].status \in {"SENT", "FAILED"} \/ Exhausted(m)

=============================================================================
