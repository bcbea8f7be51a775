CONSTANTS
    k1 = k1
    k2 = k2
    v1 = v1
    Key = {k1, k2}
    Val = {v1}
    NoVal = NoVal
    Request <- MCRequest
    Caller = {c1, c2}
    Free = Free
    Faults = {}
SPECIFICATION Spec
SYMMETRY Symmetry
INVARIANTS TypeOK LockCoversReflection
PROPERTIES NoLostUpdate ImplementsAtomicZone
