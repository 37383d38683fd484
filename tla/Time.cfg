SPECIFICATION MCSpec
CONSTANTS
    NoEvt = NoEvt
    EVT = {e1, e2, e3, e4, e5, e6}
    EvtModulus = 8
    EvtMaxReltim = 3
    EvtTicNume = 1
    EvtTicDeno = 2
    CYC = {c1, c2}
    ALM = {a1}
    DynHdr = {c2, a1}
    HdrModulus = 9
    HdrMaxReltim = 2
    HdrTicNume = 3
    HdrTicDeno = 2
    t1 = t1
    t2 = t2
    TASK = {t1, t2}
    NoTask = NoTask
    DynTask = {}
    TNUM_TPRI = 2
    IniPriority <- MCIniPriority
    MinPriority <- MCMinPriority
    MaxNest = 3
    MODULUS = 8
    TMAX_RELTIM = 2
    TIC_NUME = 1
    TIC_DENO = 2
INVARIANTS TimeConsistent EventsAreAccountedFor NobodyIsLate
PROPERTIES NobodyIsEarly
CONSTRAINT SmallTime
VIEW TimeView
