SPECIFICATION Spec
CONSTANTS
    Domains = {FALSE}
    LowFactor = {f1}
    HighFactor = {f9}
    MaxNest = 3
INVARIANT AtOnce
