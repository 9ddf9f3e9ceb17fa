SPECIFICATION Spec
CONSTANTS
    k1 = k1  k2 = k2  k3 = k3  o1 = o1
    Keys = {k1, k2, k3, o1}
    OwnerKeys = {o1}
    NoKey = NoKey
    Procs = {p1}
    MaxKeys = 3
    MaxRoom = 1
SYMMETRY KeySymmetry
INVARIANTS TypeOK KeyNotLost KeysReady
PROPERTY EvictsOthersOnly
