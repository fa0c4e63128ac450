SPECIFICATION Spec
CONSTANTS
    t1 = t1
    t2 = t2
    Threads = {t1, t2}
    Size = 2
    Setups <- MCLarge
    Opens = {"attr", "read", "write"}
    Faults = TRUE
    NoThread = NoThread
INVARIANTS NoHandleOnShell
PROPERTIES ImplementsContent CallsReturn
