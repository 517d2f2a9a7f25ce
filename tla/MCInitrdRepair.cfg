CONSTANTS
    Lines <- MCLines
    Disks <- MCDisks
    Timeout = 2
    MaxTime = 2
    MaxChanges = 1
SPECIFICATION Spec
CHECK_DEADLOCK FALSE
INVARIANT Repairable
