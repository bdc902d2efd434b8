SPECIFICATION FairSpec
CONSTANTS
    bin = bin
    unbinned = unbinned
    kReceipt = kReceipt
    kOrder = kOrder
    kFix = kFix
    kMove = kMove
    kUndo = kUndo
    kRedo = kRedo
    Balances <- MCBalances
    ClientKeys <- MCClientKeys
    Commands <- MCCommands
    Procs = {h1, h2}
    NoKey = NoKey
    NoCommand = NoCommand
    MaxAttempts = 2
INVARIANTS
    LedgerExplainsStock
    StockIsSound
    ReversedOnce
    TransfersConserveStock
PROPERTIES
    CommandsAreAtomic
    EveryCommandEnds
