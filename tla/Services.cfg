SPECIFICATION MCSpec
CONSTANTS
    DATA <- Entries
    NoData = 0
    MaxLog = 5
    TCNT_SYSLOG_BUFFER = 2
    PORTSIZE = 1
    PRIO = {"emerg", "notice", "debug"}
    LogUptoNotice = {"emerg", "notice"}
    LogUptoEmerg = {"emerg"}
    MaxPlug = 3
    AppTask = {a1, a2}
    TMAX_EV3_CYC_NUM = 2
    TSKID = {1, 2}
    CYCID = {1, 2}
    MaxLoad = 2
    Domains = {FALSE, TRUE}
    LowFactor = {f1}
    HighFactor = {f9}
    MaxNest = 3
INVARIANTS BufferConsistent LogTaskIsHonest LoaderConsistent CyclicsConsistent RoutinesInContext
PROPERTIES IsLossyLog NobodyIsPassedOver
CONSTRAINT OneFailure
SYMMETRY AppSymmetry
CHECK_DEADLOCK FALSE
