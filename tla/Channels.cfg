SPECIFICATION MCSpec
CONSTANTS
    t1 = t1
    t2 = t2
    t3 = t3
    d1 = d1
    d2 = d2
    b1 = b1
    x1 = x1
    x2 = x2
    y1 = y1
    z1 = z1
    z2 = z2
    Null = Null
    NoItem = NoItem
    NoMsg = NoMsg
    TASK = {t1, t2, t3}
    NoTask = NoTask
    DynTask = {}
    TNUM_TPRI = 2
    IniPriority <- MCIniPriority
    MinPriority <- MCMinPriority
    MaxNest = 2
INVARIANTS ChannelsConsistent
PROPERTIES ArePriChannels AreMessageChannels
CONSTRAINT SmallChannels
VIEW ChannelsView
SYMMETRY DataSymmetry
