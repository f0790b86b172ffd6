SPECIFICATION Spec
CONSTANTS
    Oversold = {o1, o2}
    Allocated = {}
    attempts = 3
    MaxFaults = 2
INVARIANT OnlyFaultsLoseOrRepeat
PROPERTY Delivers
CHECK_DEADLOCK FALSE
