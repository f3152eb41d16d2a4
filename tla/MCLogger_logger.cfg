\* Three threads write while the main thread attaches the loggers.  The instance
\* stops when each has made its statement.
CONSTANTS
    main = main
    t1 = t1
    t2 = t2
    Threads = {main, t1, t2}
    Main = main
    NoThread = NoThread
    MaxMessages = 1
SPECIFICATION FairSpec
INVARIANTS
    LinesWhole
    SameOrder
PROPERTIES
    StatementsEnd
CHECK_DEADLOCK FALSE
