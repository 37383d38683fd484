SPECIFICATION SpecAct
CONSTANTS
    t1 = t1
    t2 = t2
    t3 = t3
    TASK = {t1, t2}
    NoTask = NoTask
    DynTask = {t2}
    TNUM_TPRI = 2
    IniPriority <- MCIniPriority
    MinPriority <- MCMinPriority
    MaxNest = 2
INVARIANT TerTskNeedsNoDispatch
