SPECIFICATION DtqSpec
CONSTANTS
    t1 = t1
    t2 = t2
    t3 = t3
    d1 = d1
    d2 = d2
    d3 = d3
    x1 = x1
    x2 = x2
    TASK = {t1, t2, t3}
    NoTask = NoTask
    DynTask = {}
    TNUM_TPRI = 2
    IniPriority <- MCIniPriority
    MinPriority <- MCMinPriority
    MaxNest = 2
    WQUEUE <- MCWQueue
    TaTpri <- MCTaTpri
    DynDtq = {d2}
    Cap <- MCCap
    DATA = {x1, x2}
    NoData = NoData
INVARIANTS DtqConsistent NobodyWaitsInVain
PROPERTIES IsFifoChannel
CONSTRAINT SmallDataQueue
SYMMETRY DataSymmetry
