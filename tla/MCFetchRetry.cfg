CONSTANTS
    s = s
    t = t
    Order <- One
    Size = 2
    MaxTries = 3
    MaxKills = 0
SPECIFICATION Spec
CHECK_DEADLOCK FALSE
INVARIANT NotInVain
