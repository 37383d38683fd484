SPECIFICATION MCSpec
CONSTANTS
    t1 = t1
    t2 = t2
    NoTask = NoTask
    e1 = e1
    e2 = e2
    c1 = c1
    a1 = a1
    NoEvt = NoEvt
    w1 = w1
    r1 = r1
    a = a
    CR = CR
    LF = LF
    FC_STOP = FC_STOP
    FC_START = FC_START
    NoChar = NoChar
PROPERTIES RequestIsServed RecordedIsHeard CallsReturn
CONSTRAINT PortStaysOpen
CHECK_DEADLOCK FALSE
