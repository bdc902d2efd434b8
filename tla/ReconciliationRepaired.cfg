SPECIFICATION Spec
CONSTANTS
    goods = goods
    drifted = drifted
    ret = ret
    run1 = run1
    run2 = run2
    k1 = k1
    k2 = k2
    h1 = h1
    h2 = h2
    Balances = {goods, drifted}
    ClientKeys <- MCClientKeys
    NoKey = NoKey
    Returns = {ret}
    ReturnQuantity <- MCReturnQuantity
    OrderLines <- MCOrderLines
    ReturnKeys = {k1, k2}
    NoDisposition = NoDisposition
    MaxApprovals = 2
    OpeningStock <- MCOpeningStock
    Runs = {run1, run2}
    Scopes <- MCScopes
    OpeningLedger <- MCOpeningLedger
    NoResolution = NoResolution
    Chosen = {"ADJUST_STORED", "IGNORE"}
    Handlers = {h1, h2}
SYMMETRY Symmetry
INVARIANT AdjustedRowsMatchLedger
CHECK_DEADLOCK FALSE
