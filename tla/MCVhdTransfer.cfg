SPECIFICATION TransferSpec
CONSTANTS
    t1 = t1
    t2 = t2
    h1 = h1
    h2 = h2
    h3 = h3
    f1 = f1
    f2 = f2
    Threads = {t1, t2}
    Others = {o1}
    Handles = {h1, h2, h3}
    Capacity = 2
    Files = {f1, f2}
    Layers = {l1, l2}
    None = None
    Sidecar = overlay
    Source = {overlay, x, y}
    Internals = {svi}
SYMMETRY MCSymmetry
CONSTRAINT MCOneAtATime
INVARIANTS HolderOwnsDisk RemovedStaysRemoved ImportedWhole 
    NothingLeftBehind
