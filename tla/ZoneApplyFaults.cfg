CONSTANTS
    k1 = k1
    k2 = k2
    v1 = v1
    Key = {k1, k2}
    Val = {v1}
    NoVal = NoVal
    Request <- MCTwoKeys
    Caller = {c1, c2}
    Free = Free
    Faults = {"cut", "unseen", "outlive", "overlap", "stolen"}
SPECIFICATION Spec
SYMMETRY SymmetryOfKeys
INVARIANTS OneWriterAtATime OkMeansReflected
PROPERTIES LostOnlyToStrangers
