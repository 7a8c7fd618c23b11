SPECIFICATION Spec
CONSTANTS
    t1 = t1
    t2 = t2
    r1 = r1
    r2 = r2
    Task <- OneTask
    Req <- TwoReqs
    NIsr = 2
    MaxNest = 1
    MaxReq = 2
PROPERTIES ImplementsServiceQueue
VIEW QueueView
