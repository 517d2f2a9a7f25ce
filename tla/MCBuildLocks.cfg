\* Two invocations in one build root; missing dependencies are built recursively.
CONSTANTS
  Procs = {p1, p2}
  NoLock = {}
  NoProc = NoProc
  bldroot = bldroot
  Paths <- AllPaths
  RootOf <- OneRoot
  MaxDepth = 2
  MaxDeps = 2
  MaxNest = 2
SPECIFICATION FairSpec
INVARIANTS
  TypeOK
  LockOrder
  SharedExclusive
  RootKept
PROPERTY Termination
