SPECIFICATION Spec
CONSTANTS
    t1 = t1
    t2 = t2
    t3 = t3
    TASK = {t1, t2, t3}
    NoTask = NoTask
    DynTask = {t3}
    TNUM_TPRI = 2
    IniPriority <- MCIniPriority
    MinPriority <- MCMinPriority
    MaxNest = 2
INVARIANTS TypeOK ReadyQueueConsistent DispatchIsPrompt RunningTaskIsRunnable DspflgIsCache TcbConsistent
PROPERTIES NoSwitchWhileDisabled FifoWithinPriority
CONSTRAINT SmallScheduler
