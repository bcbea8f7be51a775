CONSTANTS
    k1 = k1
    k2 = k2
    v1 = v1
    Key = {k1}
    Val = {v1}
    NoVal = NoVal
    Request <- MCOneKey
    Caller = {c1, c2}
    Free = Free
    Faults = {"cut", "unseen", "outlive", "stolen"}
SPECIFICATION FairSpec
PROPERTIES EveryRequestAnswered LockComesFree
