SPECIFICATION MCSpec
CONSTANTS
    T1 = T1
    T2 = T2
    T3 = T3
    Q1 = Q1
    Q2 = Q2
    Q3 = Q3
    B1 = B1
    B2 = B2
    TASK = {T1, T2, T3}
    NoTask = NoTask
    DynTask = {}
    TNUM_TPRI = 2
    IniPriority <- MCIniPriority
    MinPriority <- MCMinPriority
    MaxNest = 2
    WQUEUE = {Q1, Q2, Q3}
    TaTpri = {Q2}
    DynMpf = {Q2}
    BlkCnt <- MCBlkCnt
    INDEX_NULL = INDEX_NULL
    INDEX_ALLOC = INDEX_ALLOC
    DynSem = {Q2}
    MaxSem <- MCMaxSem
    IsemCnt <- MCIsemCnt
    BITS = {B1, B2}
    DynFlg = {Q2}
    IflgPtn <- MCIflgPtn
    TaWmul = {Q1, Q2}
    TaClr = {Q1}
INVARIANTS ObjectsConsistent PoolsConsistent OneOwner
PROPERTIES AreCountedResources FlagsServeInTurn
CONSTRAINT SmallObjects
SYMMETRY BitSymmetry
