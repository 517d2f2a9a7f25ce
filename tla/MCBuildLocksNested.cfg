\* A missing dependency is built while another invocation waits for the root.
CONSTANTS
  Procs = {p1, p2}
  NoLock = {}
  NoProc = NoProc
  bldroot = bldroot
  Paths <- AllPaths
  RootOf <- OneRoot
  MaxDepth = 2
  MaxDeps = 1
  MaxNest = 2
SPECIFICATION Spec
INVARIANT RootExclusive
