SPECIFICATION FairSpec
CONSTANTS
    t1 = t1
    t2 = t2
    r1 = r1
    r2 = r2
    Task <- OneTask
    Req <- OneReq
    NIsr = 1
    MaxNest = 1
    MaxReq = 2
PROPERTIES RequestServed ExpiryServed
