SPECIFICATION Spec
CONSTANTS
    t1 = t1
    t2 = t2
    Threads = {t1, t2}
    Size = 2
    Setups <- MCSmall
    Opens = {"attr", "wattr", "read", "write"}
    Faults = FALSE
    NoThread = NoThread
INVARIANTS NoHandleOnShell
