SPECIFICATION FairSpec
CONSTANTS
    t1 = t1
    t2 = t2
    i1 = i1
    i2 = i2
    i3 = i3
    d1 = d1
    d2 = d2
    d3 = d3
    f1 = f1
    f2 = f2
    None = None
    Threads = {t1, t2}
    Instances = {i1, i2, i3}
    FileHandles = {f1, f2}
    Directories = {d1, d2, d3}
    workDir <- MCWorkDir
    upperDir <- MCUpperDir
INVARIANTS
    EngineOutlivesCalls
    OneEnginePerDirectory
    ChildrenCounted
PROPERTY
    DirectoriesComeBack
