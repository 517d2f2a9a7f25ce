CONSTANTS
    s = s
    t = t
    Order <- Two
    Size = 2
    MaxTries = 3
    MaxKills = 1
SPECIFICATION Spec
CHECK_DEADLOCK FALSE
INVARIANT Verified
 
