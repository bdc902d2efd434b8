SPECIFICATION FairSpec
CONSTANTS
    Tabs = {t1, t2}
    Calls = {c1, c2}
    NoOne = NoOne
    MaxSessions = 3
INVARIANTS TabNeverRacesItself
PROPERTIES CallsKeepTheirPromise CallsSettle
CHECK_DEADLOCK FALSE
