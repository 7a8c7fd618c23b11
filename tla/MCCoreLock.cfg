SPECIFICATION Spec
CONSTANTS
    t1 = t1
    t2 = t2
    r1 = r1
    r2 = r2
    Task <- TwoTasks
    Req <- OneReq
    NIsr = 2
    MaxNest = 2
    MaxReq = 2

INVARIANTS TypeOK KernelExclusive LockBalanced SwitchDelivered RequestVisible SwitchFromOutermost
SYMMETRY Symm
