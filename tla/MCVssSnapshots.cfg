SPECIFICATION Spec
CONSTANTS
    t1 = t1
    t2 = t2
    i1 = i1
    i2 = i2
    i3 = i3
    Threads = {t1, t2}
    Ids = {i1, i2, i3}
    HandleCapacity = 1
    None = None
SYMMETRY MCSymmetry
INVARIANTS ShadowsAccounted TrackedAlive CleanupTruthful
