SPECIFICATION MCSpec
CONSTANTS
    w1 = w1
    r1 = r1
    a = a
    CR = CR
    LF = LF
    FC_STOP = FC_STOP
    FC_START = FC_START
    NoChar = NoChar
INVARIANT PendingIsServed
CONSTRAINTS Whole SndCounted
VIEW SerialView
CHECK_DEADLOCK FALSE
