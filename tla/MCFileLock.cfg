\* Sections of one path do not nest.
CONSTANTS
  Procs = {p1, p2, p3}
  Paths = {root, stage, src}
  NoLock = {p3}
  NoProc = NoProc
  MaxNest = 1
SPECIFICATION LockSpec
INVARIANTS
  AllExclusive
  OwnerInside
PROPERTY PromiseSpec
