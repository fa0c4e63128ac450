SPECIFICATION Spec
CONSTANTS
    t1 = t1
    t2 = t2
    Threads = {t1, t2}
    Paths = {"d", "d/f", "g"}
    Dirs = {"d"}
    Inside <- MCInside
    Lower = {"d", "d/f"}
    Capacity = 2
SYMMETRY MCSymmetry
INVARIANTS StaleOnlyByOverlap
