CONSTANTS
    Lines <- MCLines
    Disks <- MCDisks
    Timeout = 2
    MaxTime = 2
    MaxChanges = 2
SPECIFICATION Spec
CHECK_DEADLOCK FALSE
INVARIANT TypeOK
INVARIANT Handoff
INVARIANT ShellAsAsked
PROPERTY Decided
