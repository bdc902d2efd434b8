SPECIFICATION Spec
CONSTANTS
    order = order
    item = item
    sku = sku
    staging = staging
    shelf = shelf
    rack = rack
    r1 = r1
    r2 = r2
    count = count
    ann = ann
    bob = bob
    h1 = h1
    h2 = h2
    Balances <- MCBalances
    ClientKeys <- MCClientKeys
    NoKey = NoKey
    PurchaseOrders = {order}
    ItemsOf <- MCItemsOf
    Ordered <- MCOrdered
    ProductOf <- MCProductOf
    Bins = {staging, shelf, rack}
    NoBin = NoBin
    ReceiptKeys = {r1, r2}
    Counts <- MCCounts
    BinOrder <- MCBinOrder
    Operators = {ann, bob}
    NoOperator = NoOperator
    Handlers = {h1, h2}
    Corrections <- MCCorrections
SYMMETRY Symmetry
INVARIANTS
    OrdersFollowReceipts
    PutawayCreatesNoStock
    GoodsMoveOnce
CHECK_DEADLOCK FALSE
