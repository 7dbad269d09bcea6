CONSTANTS
    t1 = t1
    t2 = t2
    t3 = t3
    t4 = t4
    main = main
    next = next
    None = None
    NoBranch = NoBranch
    Keys <- MCKeys
    Lower <- MCLower
    KeyOf <- MCKeyOf
    Tasks = {t1, t2, t3, t4}
    MaxPending = 2
    MaxConcurrent = 2
    MaxAttempts = 1
SPECIFICATION Spec
INVARIANTS
    TypeOK
    RepositoryExclusion
    GatesAgree
    ExecutionBudget
    FIFOPerKey
    CountersExact
PROPERTY ImplementsExecutor
CHECK_DEADLOCK FALSE
