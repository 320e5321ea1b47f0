\* Two handlers that create repositories while a client reads a listing.
SPECIFICATION FairSpec
CONSTANTS
    t1 = t1
    t2 = t2
    Request = {r1, r2}
    Client = {c1}
    Tenant = {t1, t2}
    Name <- MCName
    Tag <- MCTag
    MaxInt = 3
    Limit <- MCLimit
    Wanted <- MCWanted
    MaxId = 2
    Tagged = {1}
INVARIANTS
    TypeOK
    OneRowPerName
    HandlerInOwnRepo
    LoserFindsRow
    ListingComplete
    ListedOnce
PROPERTIES
    ListingEnds
CHECK_DEADLOCK FALSE
