CONSTANTS
    p1 = p1  p2 = p2  p3 = p3  p9 = p9
    v1 = v1  v2 = v2  v9 = v9
    k1 = k1  k2 = k2  k3 = k3  k9 = k9
    s1 = s1  s2 = s2  s3 = s3  s9 = s9
    d1 = d1  d2 = d2  d9 = d9
    w1 = w1  w9 = w9
    b1 = b1  b9 = b9
    z1 = z1  z2 = z2
    n1 = n1
    Blank = Blank  None = None  Absent = Absent
    Products = {p1, p2, p3, p9}
    Variants = {v1, v2, v9}
    Categories = {k1, k2, k3, k9}
    Suppliers = {s1, s2, s3, s9}
    Customers = {d1, d2, d9}
    Zones = {z1, z2}
    Bins = {b1, b9}
    Names = {n1}
    Calls = {c1, c2}
    Forms = {f1}
    Foreign <- MCForeign
    Existing <- MCExisting
    Family <- MCFamily
    Linked <- MCLinked
    Site <- MCSite
    Asked <- MCAsked
    Users = {u1, u2}
    Nobody = Nobody
    Commands = {r1, r2}
    MaxForms = 2
SPECIFICATION PagesSpec
INVARIANTS
    RecordsStayInOrganization
    FormCreatesOne
    FormPostsOnce
    NoDeadButton
PROPERTIES
    LaterListsWin
    NewOrdersNameLiveRecords
    StaleClicksAreSafe
SYMMETRY PagesSymmetry
CHECK_DEADLOCK FALSE
