CONSTANTS
    Threads = {t1, t2}
    None = None
    Values = {0, 1}
SPECIFICATION Spec
INVARIANTS TypeOK NoThreadRunsPrivileged NullThreadSpins
PROPERTIES ImplementsOwnProcessor InterruptsAreInvisible
