-------------------------- MODULE InventoryPosting --------------------------
(***************************************************************************)
(* Inventory commands as concurrent SERIALIZABLE transactions.             *)
(*                                                                         *)
(* Each request handler (a member of Procs) runs withInventoryTransaction: *)
(* it opens a transaction, which fixes a snapshot of the database, plans   *)
(* the postings its command needs, posts them one after another to its own *)
(* view, and commits.  PostgreSQL refuses the commit when a StockLevel row *)
(* the transaction updated was updated by another one since the snapshot   *)
(* (P2034) or when a key it posted was taken meanwhile (P2002); it may     *)
(* also refuse a transaction it cannot prove serializable.  The handler    *)
(* then runs the whole command again, MaxAttempts times at most.           *)
(*                                                                         *)
(* A handler may die at any point, and a client may send any command again *)
(* at any time, to another handler too, whether or not it was answered.    *)
(*                                                                         *)
(* The commands are those of StockService (adjust, reverseAdjustment,      *)
(* transfer) and DOCUMENT, a list of postings, which is how the order,     *)
(* receiving and returns services use the posting service.                 *)
(***************************************************************************)
EXTENDS InventoryCommands, Functions

CONSTANTS
    Procs,         \* request handlers that may run at the same time
    NoCommand,     \* what an idle handler holds
    MaxAttempts    \* withInventoryTransaction's maxAttempts

ASSUME NoCommandAssumption == NoCommand \notin Commands
ASSUME AttemptsAssumption == MaxAttempts \in Nat \ {0}

VARIABLES
    db,      \* the committed inventory
    tx       \* tx[p]: the transaction of handler p

vars == <<db, tx>>

Transactions ==
    [pc        : {"idle", "open", "transferring", "posted"},
     command   : Commands \cup {NoCommand},
     attempt   : 0..MaxAttempts,
     base      : [Balances -> Rows],      \* the rows of the snapshot
     view      : Inventories,             \* what the transaction sees: snapshot plus own postings
     todo      : Seq(DocumentPostings),   \* document: postings not yet made
     sources   : Seq(Balances),           \* transfer: sources the loop has not reached
     remaining : Int,                     \* transfer: quantity still to move
     index     : Nat]                     \* transfer: number of the next OUT/IN pair

NoTransaction ==
    [pc |-> "idle", command |-> NoCommand, attempt |-> 0, base |-> EmptyInventory.rows,
     view |-> EmptyInventory, todo |-> <<>>, sources |-> <<>>, remaining |-> 0, index |-> 0]

Snapshot(c, n) ==
    [NoTransaction EXCEPT !.pc = "open", !.command = c, !.attempt = n, !.base = db.rows, !.view = db,
                          !.todo = IF c.op = "DOCUMENT" THEN c.postings ELSE <<>>]

Init ==
    /\ db = EmptyInventory
    /\ tx = [p \in Procs |-> NoTransaction]

----------------------------------------------------------------------------
(* What the ledger already holds for a command.                            *)

\* A movement with the transfer's correlation id exists.
TransferDone(inv, c) ==
    \E b \in Balances : \E i \in DOMAIN inv.moves[b] :
        LET key == inv.moves[b][i].posting.key
        IN  key.kind \in {"TRANSFER_OUT", "TRANSFER_IN"} /\ key.client = c.client

\* What if reverse did not look for an existing reversal?
BugReversedUnchecked(inv, key) == FALSE

\* A reversal of the movement exists.
Reversed(inv, key) ==
    \E b \in Balances : \E i \in DOMAIN inv.moves[b] : inv.moves[b][i].posting.reversalOf = key

\* The movement `key` names is an ADJUSTMENT, the only type reverseAdjustment accepts.
ReversibleAt(inv, key, b, i) ==
    /\ inv.moves[b][i].posting.key = key
    /\ inv.moves[b][i].posting.type = "ADJUSTMENT"

Reversible(inv, key) ==
    \E b \in Balances : \E i \in DOMAIN inv.moves[b] : ReversibleAt(inv, key, b, i)

\* What the source balances of a transfer have available, each identity counted once.
TotalAvailable(rows, sources) ==
    SumFunctionOnSet([i \in DOMAIN sources |-> rows[sources[i]].quantities.available], DOMAIN sources)

----------------------------------------------------------------------------
(* The steps of a handler.                                                 *)

\* Handler p goes on with `t` as the state of its transaction.
Continue(p, t) ==
    /\ tx' = [tx EXCEPT ![p] = t]
    /\ UNCHANGED db

\* A client sends a command to an idle handler, which opens its first transaction.
Request(p, c) ==
    /\ tx[p].pc = "idle"
    /\ Continue(p, Snapshot(c, 1))

Opened(p, op) == tx[p].pc = "open" /\ tx[p].command.op = op

\* The transaction is rolled back and the handler ends, with an error for the client.
RollBack(p) == Continue(p, NoTransaction)

\* The transaction has no more to do than commit what it posted to its view.
Done(t) == [t EXCEPT !.pc = "posted"]

\* post, called with posting x.
PostOrFail(p, t, x) ==
    IF CanPost(t.view, x) THEN Continue(p, [t EXCEPT !.view = Post(t.view, x)]) ELSE RollBack(p)

Adjust(p) ==
    /\ Opened(p, "ADJUST")
    /\ PostOrFail(p, Done(tx[p]), AdjustPosting(tx[p].command))

ReverseAdjustment(p) ==
    LET t == tx[p]
        target == t.command.target
    IN  /\ Opened(p, "REVERSE")
        /\ \/ ~Reversible(t.view, target) /\ RollBack(p)
           \/ Reversible(t.view, target) /\ Reversed(t.view, target) /\ Continue(p, Done(t))
           \/ /\ ~Reversed(t.view, target)
              /\ \E b \in Balances : \E i \in DOMAIN t.view.moves[b] :
                    /\ ReversibleAt(t.view, target, b, i)
                    /\ PostOrFail(p, Done(t), ReversalPosting(t.command, t.view.moves[b][i]))

\* The checks of a transfer; its loop follows unless its correlation id was used before.
Transfer(p) ==
    LET t == tx[p]
        c == t.command
    IN  /\ Opened(p, "TRANSFER")
        /\ \/ TransferDone(t.view, c) /\ Continue(p, Done(t))
           \/ /\ ~TransferDone(t.view, c)
              /\ IF c.quantity > 0 /\ TotalAvailable(t.base, c.sources) >= c.quantity
                 THEN Continue(p, [t EXCEPT !.pc = "transferring", !.sources = c.sources,
                                            !.remaining = c.quantity])
                 ELSE RollBack(p)

\* What if the loop did not advance the index its keys are built from?
BugTransferLegSameKeys(p) ==
    LET t     == tx[p]
        q     == Lesser(t.base[Head(t.sources)].quantities.available, t.remaining)
        out   == TransferOut(t.command, Head(t.sources), q, t.index)
        in    == TransferIn(t.command, q, t.index)
        moved == [t EXCEPT !.sources = Tail(@), !.remaining = @ - q,
                           !.view = Post(@, out)]
    IN  /\ t.pc = "transferring" /\ t.sources # <<>> /\ t.remaining > 0
        /\ \/ q <= 0 /\ Continue(p, [t EXCEPT !.sources = Tail(@)])
           \/ q > 0 /\ CanPost(t.view, out) /\ PostOrFail(p, moved, in)
           \/ q > 0 /\ ~CanPost(t.view, out) /\ RollBack(p)

\* One source of the loop: what it had when it was read, or what is left to move, goes out of
\* it and into the destination.
TransferLeg(p) ==
    LET t     == tx[p]
        q     == Lesser(t.base[Head(t.sources)].quantities.available, t.remaining)
        out   == TransferOut(t.command, Head(t.sources), q, t.index)
        in    == TransferIn(t.command, q, t.index)
        moved == [t EXCEPT !.sources = Tail(@), !.remaining = @ - q, !.index = @ + 1,
                           !.view = Post(@, out)]
    IN  /\ t.pc = "transferring" /\ t.sources # <<>> /\ t.remaining > 0
        /\ \/ q <= 0 /\ Continue(p, [t EXCEPT !.sources = Tail(@)])
           \/ q > 0 /\ CanPost(t.view, out) /\ PostOrFail(p, moved, in)
           \/ q > 0 /\ ~CanPost(t.view, out) /\ RollBack(p)

TransferEnd(p) ==
    LET t == tx[p]
    IN  /\ t.pc = "transferring" /\ (t.sources = <<>> \/ t.remaining <= 0)
        /\ Continue(p, Done(t))

Document(p) ==
    LET t == tx[p]
    IN  /\ Opened(p, "DOCUMENT")
        /\ \/ t.todo # <<>> /\ PostOrFail(p, [t EXCEPT !.todo = Tail(@)], Head(t.todo))
           \/ t.todo = <<>> /\ Continue(p, Done(t))

Touched(p, b) == tx[p].view.rows[b].version # tx[p].base[b].version

\* What if nothing compared versions, as at READ COMMITTED without the version in the WHERE?
BugRowsUnchangedUnchecked(p) == TRUE

\* No row the transaction updated was updated by another one since its snapshot.
RowsUnchanged(p) ==
    \A b \in Balances : Touched(p, b) => db.rows[b].version = tx[p].base[b].version

\* The unique index on the idempotency key accepts what the transaction inserted.
KeysFree(p) ==
    \A b \in Balances : \A i \in DOMAIN tx[p].view.moves[b] :
        i > tx[p].base[b].version => ~KeyUsed(db, tx[p].view.moves[b][i].posting.key)

\* The movements the transaction created on a balance.
Inserted(p, b) ==
    SubSeq(tx[p].view.moves[b], tx[p].base[b].version + 1, Len(tx[p].view.moves[b]))

\* The database with the rows the transaction updated and the movements it created.
Merged(p) ==
    [rows  |-> [b \in Balances |-> IF Touched(p, b) THEN tx[p].view.rows[b] ELSE db.rows[b]],
     moves |-> [b \in Balances |-> IF Touched(p, b) THEN db.moves[b] \o Inserted(p, b)
                                   ELSE db.moves[b]]]

\* The client is answered with success.
Commit(p) ==
    /\ tx[p].pc = "posted"
    /\ RowsUnchanged(p)
    /\ KeysFree(p)
    /\ db' = Merged(p)
    /\ tx' = [tx EXCEPT ![p] = NoTransaction]

BugConflictUncounted(p) ==
    /\ tx[p].pc = "posted"
    /\ Continue(p, Snapshot(tx[p].command, tx[p].attempt))

\* P2034 or P2002: the command is run again from a new snapshot while attempts are left.
Conflict(p) ==
    /\ tx[p].pc = "posted"
    /\ IF tx[p].attempt < MaxAttempts
       THEN Continue(p, Snapshot(tx[p].command, tx[p].attempt + 1))
       ELSE RollBack(p)

\* The handler dies, or loses its connection, before the commit: the database rolls back.
Crash(p) == tx[p].pc # "idle" /\ RollBack(p)

Step(p) ==
    \/ Adjust(p)
    \/ ReverseAdjustment(p)
    \/ Transfer(p)
    \/ TransferLeg(p)
    \/ TransferEnd(p)
    \/ Document(p)
    \/ Commit(p)
    \/ Conflict(p)

Next ==
    \E p \in Procs :
        \/ \E c \in Commands : Request(p, c)
        \/ Step(p)
        \/ Crash(p)

Spec == Init /\ [][Next]_vars

\* A handler that was given a command goes on with it until it has answered.  Weak fairness of Step(p) says this and
\* more (here the handler may die instead), and takes TLC longer than the formula written out.
HandlerGoesOn(p) == []<>(tx[p].pc = "idle") \/ []<><<tx'[p] # tx[p]>>_vars

FairSpec == Spec /\ \A p \in Procs : HandlerGoesOn(p)

----------------------------------------------------------------------------
(* Properties.                                                             *)

\* The variables hold what their declarations say.
TypeOK ==
    /\ db \in Inventories
    /\ tx \in [Procs -> Transactions]

\* The stored row is the end of an unbroken chain of movements: the first one started from zero,
\* each started where the one before it ended, each moved by its own deltas, the row shows where
\* the last one ended and its version counts them.  A lost update, a posting computed from a
\* stale row or a movement without its row (or the reverse) breaks the chain.
Chained(row, moves) ==
    /\ row.version = Len(moves)
    /\ row.quantities = IF Len(moves) = 0 THEN ZERO ELSE moves[Len(moves)].after
    /\ \A i \in 1..Len(moves) :
        /\ moves[i].before = IF i = 1 THEN ZERO ELSE moves[i - 1].after
        /\ moves[i].after = After(moves[i].before, moves[i].posting.delta)

LedgerExplainsStock == \A b \in Balances : Chained(db.rows[b], db.moves[b])

\* No concurrent commands drive a quantity below zero, available included: in particular two of
\* them never promise the same last unit.
StockIsSound == \A b \in Balances : NonNegative(db.rows[b].quantities)

KeysDistinct(moves) ==
    \A b1, b2 \in Balances : \A i \in DOMAIN moves[b1], j \in DOMAIN moves[b2] :
        moves[b1][i].posting.key = moves[b2][j].posting.key => b1 = b2 /\ i = j

ReversalsDistinct(moves) ==
    \A b1, b2 \in Balances : \A i \in DOMAIN moves[b1], j \in DOMAIN moves[b2] :
        LET original == moves[b1][i].posting.reversalOf
        IN  original # NoKey /\ original = moves[b2][j].posting.reversalOf => b1 = b2 /\ i = j

\* However many handlers run commands with the same key, on whatever balances, one movement has it.
KeysPostedOnce == KeysDistinct(db.moves)

\* No movement is reversed twice, even by two handlers at once under different keys: nothing in
\* the schema says so (reversalOfId has no unique index).
ReversedOnce == ReversalsDistinct(db.moves)

\* Movements are never changed, removed or put before others.
LedgerOnlyGrows ==
    [][\A b \in Balances : /\ Len(db.moves[b]) <= Len(db'.moves[b])
                           /\ \A i \in DOMAIN db.moves[b] : db'.moves[b][i] = db.moves[b][i]]_vars

\* The movements of one direction under a client's key.
MovesOf(kind, client) ==
    UNION {{<<b, i>> : i \in {j \in DOMAIN db.moves[b] : /\ db.moves[b][j].posting.key.kind = kind
                                                         /\ db.moves[b][j].posting.key.client = client}}
           : b \in Balances}

\* What they changed of the stock on hand.
Moved(kind, client) ==
    SumFunctionOnSet([at \in MovesOf(kind, client) |-> db.moves[at[1]][at[2]].posting.delta.onHand],
                     MovesOf(kind, client))

\* Transfers create and lose nothing: what went out of the sources under one client's key is what came into the
\* destination, also when the destination was one of the sources, and it is nothing or all that one command asked
\* for, however many transfers are sent with the key and however often (StockService.transfer).
TransfersConserveStock ==
    \A client \in ClientKeys :
        /\ Moved("TRANSFER_OUT", client) = -Moved("TRANSFER_IN", client)
        /\ \/ Moved("TRANSFER_IN", client) = 0
           \/ \E c \in Commands : /\ c.op = "TRANSFER" /\ c.client = client
                                 /\ Moved("TRANSFER_IN", client) = c.quantity

\* The postings of a ledger.
BookOf(moves) == UNION {{moves[b][i].posting : i \in DOMAIN moves[b]} : b \in Balances}

\* The concurrent handlers with their snapshots, retries and crashes do nothing a one-step
\* execution of the same commands could not have done: Abstract!Spec under this mapping, where a
\* step that leaves db alone is a stuttering step (said first, since TLC decides it faster).
Abstract == INSTANCE AtomicInventory
    WITH stock <- [b \in Balances |-> db.rows[b].quantities], book <- BookOf(db.moves)

CommandsAreAtomic == Abstract!Init /\ [][db' = db \/ Abstract!Next]_db

\* Three attempts at most: no handler retries for ever, whatever the other handlers commit.
EveryCommandEnds == \A p \in Procs : tx[p].pc # "idle" ~> tx[p].pc = "idle"

----------------------------------------------------------------------------
(* The inductive invariant of InventoryPosting_proofs.                      *)

\* A reversal is posted on the balance of the movement it reverses, so two transactions that
\* reverse one movement update one row.
ReversalsBesideOriginals(moves) ==
    \A b \in Balances : \A i \in DOMAIN moves[b] :
        moves[b][i].posting.reversalOf # NoKey =>
            \E j \in DOMAIN moves[b] : moves[b][j].posting.key = moves[b][i].posting.reversalOf

Sound(inv) ==
    /\ \A b \in Balances : Chained(inv.rows[b], inv.moves[b]) /\ NonNegative(inv.rows[b].quantities)
    /\ \A b \in Balances : \A i \in DOMAIN inv.moves[b] : inv.moves[b][i].posting.balance = b
    /\ KeysDistinct(inv.moves)
    /\ ReversalsDistinct(inv.moves)
    /\ ReversalsBesideOriginals(inv.moves)

\* The two ledgers have the movements counted by the versions in `rows`, and the same ones.
Agree(rows, moves1, moves2) ==
    \A b \in Balances :
        /\ rows[b].version <= Len(moves1[b])
        /\ rows[b].version <= Len(moves2[b])
        /\ \A i \in 1..rows[b].version : moves1[b][i] = moves2[b][i]

\* A handler works on a sound inventory whose past, up to its snapshot, is the database's.
HandlerSound(t) ==
    /\ t.pc # "idle" => t.command \in Commands
    /\ t.pc = "transferring" => t.command.op = "TRANSFER"
    /\ Sound(t.view)
    /\ Agree(t.base, t.view.moves, db.moves)

\* Every handler's view, committed or not, is as sound as the database, and both agree on the
\* movements the handler's snapshot had: what makes a commit with unchanged rows safe.
InventoryInv ==
    /\ TypeOK
    /\ Sound(db)
    /\ \A p \in Procs : HandlerSound(tx[p])
=============================================================================
