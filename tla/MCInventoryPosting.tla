------------------------- MODULE MCInventoryPosting -------------------------
(***************************************************************************)
(* InventoryPosting on the stock of one product in one warehouse: a bin    *)
(* and the row without a bin.  The transfer names no source bin, so its    *)
(* sources are both rows although it moves into the bin.                   *)
(***************************************************************************)
EXTENDS InventoryPosting

CONSTANTS bin, unbinned,                              \* balances
          kReceipt, kOrder, kFix, kMove, kUndo, kRedo \* client keys

MCBalances   == {bin, unbinned}
MCClientKeys == {kReceipt, kOrder, kFix, kMove, kUndo, kRedo}

\* A receipt of two lines and an order's reservation of one unit.
Receipt == [op |-> "DOCUMENT", client |-> kReceipt, postings |->
              <<Posting(bin, Key("RECEIPT_LINE", kReceipt, 1), "RECEIPT", 1, OnHand(1), NoKey),
                Posting(unbinned, Key("RECEIPT_LINE", kReceipt, 2), "RECEIPT", 2, OnHand(2), NoKey)>>]
Order   == [op |-> "DOCUMENT", client |-> kOrder, postings |->
              <<Posting(bin, Key("ALLOCATE", kOrder, 1), "ALLOCATION", 1, Reserve(1), NoKey)>>]

\* A correction, two reversals of it under different keys, and a transfer.
Fix  == [op |-> "ADJUST", client |-> kFix, balance |-> bin, change |-> -1]
Undo == [op |-> "REVERSE", client |-> kUndo, target |-> AdjustKey(Fix)]
Redo == [op |-> "REVERSE", client |-> kRedo, target |-> AdjustKey(Fix)]
Move == [op |-> "TRANSFER", client |-> kMove, sources |-> <<bin, unbinned>>, to |-> bin, quantity |-> 2]

MCCommands == {Receipt, Order, Fix, Undo, Redo, Move}

=============================================================================
