-------------------------- MODULE InventoryCommands --------------------------
(***************************************************************************)
(* The commands clients send to the inventory services and the postings    *)
(* each of them is made of, whatever runs them: the concurrent handlers of *)
(* InventoryPosting or the one-step abstraction of AtomicInventory.        *)
(***************************************************************************)
EXTENDS StockPosting

CONSTANT Commands    \* the commands clients send

AdjustCommands   == [op : {"ADJUST"}, client : ClientKeys, balance : Balances, change : Int \ {0}]
ReverseCommands  == [op : {"REVERSE"}, client : ClientKeys, target : Keys]
\* sources: the AVAILABLE balances of the source location in the order of the query.  A command
\* that names no source bin matches every bin of the warehouse, so `to` may be one of them.
TransferCommands == [op : {"TRANSFER"}, client : ClientKeys, sources : Seq(Balances),
                     to : Balances, quantity : Int]
\* What a document posts reverses nothing and has no key of a transfer.
DocumentPostings == {x \in Postings : x.reversalOf = NoKey /\ x.key.kind \notin {"TRANSFER_OUT", "TRANSFER_IN"}}
DocumentCommands == [op : {"DOCUMENT"}, client : ClientKeys, postings : Seq(DocumentPostings)]

ASSUME CommandsAssumption ==
    Commands \subseteq AdjustCommands \cup ReverseCommands \cup TransferCommands \cup DocumentCommands
----------------------------------------------------------------------------
(* What the commands post.                                                 *)

ReversalPosting(c, original) == Reversal(original.posting, Key("REVERSAL", c.client, 0))

TransferOut(c, b, q, n) ==
    Posting(b, Key("TRANSFER_OUT", c.client, n), "TRANSFER_OUT", q, OnHand(-q), NoKey)

TransferIn(c, q, n) ==
    Posting(c.to, Key("TRANSFER_IN", c.client, n), "TRANSFER_IN", q, OnHand(q), NoKey)
=============================================================================
