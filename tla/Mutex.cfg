SPECIFICATION MtxSpec
CONSTANTS
    t1 = t1
    t2 = t2
    t3 = t3
    m1 = m1
    m2 = m2
    m3 = m3
    TASK = {t1, t2, t3}
    NoTask = NoTask
    DynTask = {}
    TNUM_TPRI = 3
    IniPriority <- MCIniPriority
    MinPriority <- MCMinPriority
    MaxNest = 2
    WQUEUE = {m1, m2, m3}
    TaTpri = {m1, m3}
    DynMtx = {m3}
    CeilPri <- MCCeilPri
INVARIANTS MtxConsistent HolderConsistent PriorityIsCurrent CeilingRespected
PROPERTIES HandoverIsInOrder
CONSTRAINT SmallMutex
