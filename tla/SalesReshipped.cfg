SPECIFICATION Spec
CONSTANTS
    o1 = o1
    o2 = o2
    i1 = i1
    i2 = i2
    near = near
    far = far
    ship1 = ship1
    ship2 = ship2
    count = count
    ann = ann
    bob = bob
    Balances <- MCBalances
    ClientKeys <- MCClientKeys
    NoKey = NoKey
    Orders = {o1, o2}
    ItemsOf <- MCItemsOf
    Ordered <- MCOrdered
    Candidates <- MCCandidates
    Stocked <- MCStocked
    Operators = {ann, bob}
    NoOperator = NoOperator
    Tokens <- MCTokens
    Corrections <- MCCorrections
SYMMETRY Symmetry
INVARIANT DeliveredStockWasRelieved
CHECK_DEADLOCK FALSE
