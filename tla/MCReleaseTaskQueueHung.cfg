CONSTANTS
    t1 = t1
    t2 = t2
    t3 = t3
    t4 = t4
    main = main
    next = next
    None = None
    NoBranch = NoBranch
    Keys <- MCKeys
    Lower <- MCLower
    KeyOf <- MCKeyOf
    Tasks = {t1, t2, t3}
    MaxPending = 3
    MaxConcurrent = 2
    MaxAttempts = 2
SPECIFICATION HungSpec
PROPERTIES
    OthersSettle
    CancellationDrains
CHECK_DEADLOCK FALSE
