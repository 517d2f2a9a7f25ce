CONSTANTS
    cbuild = cbuild
    lib = lib
    app = app
    tool = tool
    link = link
    nowhere = nowhere
    nonsense = nonsense
    MaxEdges = 3
    Sorted <- MCSorted
    Cbuild = cbuild
    Canon <- MCCanon
    Inputs <- MCInputs
SPECIFICATION Spec
INVARIANT BuildOrder
INVARIANT CyclesReal
INVARIANT TruthfulEnd
INVARIANT NothingTwice
INVARIANT FinalStatus
