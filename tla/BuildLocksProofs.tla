---------------------------- MODULE BuildLocksProofs ----------------------------
(***************************************************************************)
(* Proofs about cbuild's locks, for any number of processes, lock files    *)
(* and build roots, and processes with and without --no-lock.              *)
(*                                                                         *)
(* The first part is about util/flock.py alone (FileLock), whatever the    *)
(* commands do with it.  The exclusion of sections rests on two facts that *)
(* only hold while no process nests two sections of one path: a process    *)
(* inside a section owns the lock (SectionOwned), and it is inside once    *)
(* (NestOnce).                                                             *)
(*                                                                         *)
(* The second part is about concurrent cbuild invocations (BuildLocks),    *)
(* with builds nested to any depth.  Everything follows from where a       *)
(* process is: the point of its running build says which sections of       *)
(* shared directories it is inside of, and the number of its builds how    *)
(* often it is inside of its build root.                                   *)
(***************************************************************************)
EXTENDS BuildLocks, TLAPS

USE NoLockAssumption, NoProcAssumption, MaxNestAssumption

\* Every step of lock(), of its clean-up and of a process's end keeps the
\* types of the lock table and of the section counters.
LEMMA LockTypeStep == LockTypeOK /\ [LockNext]_lockVars => LockTypeOK'
<1> SUFFICES ASSUME LockTypeOK, [LockNext]_lockVars PROVE LockTypeOK'
  OBVIOUS
<1>1. CASE UNCHANGED lockVars
  BY <1>1 DEF LockTypeOK, lockVars
<1>2. ASSUME NEW p \in Procs, Exit(p) PROVE LockTypeOK'
  BY <1>2 DEF LockTypeOK, Exit
<1>3. ASSUME NEW p \in Procs, NEW l \in Paths, Acquire(p, l) PROVE LockTypeOK'
  BY <1>3 DEF LockTypeOK, Acquire
<1>4. ASSUME NEW p \in Procs, NEW l \in Paths, Release(p, l) PROVE LockTypeOK'
  BY <1>4 DEF LockTypeOK, Release, CloseFd
<1>5. QED
  BY <1>1, <1>2, <1>3, <1>4 DEF LockNext

\* The lock table and the section counters always have their types.
THEOREM LockTypeCorrect == LockSpec => []LockTypeOK
<1>1. LockInit => LockTypeOK
  BY DEF LockInit, LockTypeOK
<1>2. QED
  BY <1>1, LockTypeStep, PTL DEF LockSpec
-------------------------------------------------------------------------------
\* The close at the end of any section gives the lock up, and no other step
\* leaves a lock behind.
LEMMA OwnerStep == LockTypeOK /\ OwnerInside /\ [LockNext]_lockVars => OwnerInside'
<1> SUFFICES ASSUME LockTypeOK, OwnerInside, [LockNext]_lockVars,
                    NEW k \in Paths, owner'[k] # NoProc
             PROVE  /\ owner'[k] \in Procs \ NoLock
                    /\ depth'[owner'[k]][k] > 0
  BY DEF OwnerInside, Inside
<1>1. CASE UNCHANGED lockVars
  BY <1>1 DEF OwnerInside, Inside, lockVars
<1>2. ASSUME NEW p \in Procs, Exit(p)
      PROVE  owner'[k] \in Procs \ NoLock /\ depth'[owner'[k]][k] > 0
  <2>1. owner'[k] = owner[k] /\ owner[k] # p
    BY <1>2 DEF Exit, LockTypeOK
  <2>2. owner[k] \in Procs \ NoLock /\ depth[owner[k]][k] > 0
    BY <2>1 DEF OwnerInside, Inside
  <2>3. depth'[owner[k]] = depth[owner[k]]
    BY <1>2, <2>1, <2>2 DEF Exit, LockTypeOK
  <2>4. QED
    BY <2>1, <2>2, <2>3
<1>3. ASSUME NEW p \in Procs, NEW l \in Paths, Acquire(p, l)
      PROVE  owner'[k] \in Procs \ NoLock /\ depth'[owner'[k]][k] > 0
  BY <1>3 DEF Acquire, LockTypeOK, OwnerInside, Inside
<1>4. ASSUME NEW p \in Procs, NEW l \in Paths, Release(p, l)
      PROVE  owner'[k] \in Procs \ NoLock /\ depth'[owner'[k]][k] > 0
  <2>1. owner'[k] = owner[k] /\ owner[k] \in Procs \ NoLock /\ depth[owner[k]][k] > 0
    BY <1>4 DEF Release, CloseFd, LockTypeOK, OwnerInside, Inside
  <2>2. owner[k] # p \/ k # l
    BY <1>4, <2>1 DEF Release, CloseFd, LockTypeOK
  <2>3. QED
    BY <1>4, <2>1, <2>2 DEF Release, LockTypeOK
<1>5. QED
  BY <1>1, <1>2, <1>3, <1>4 DEF LockNext

\* No lock outlives its section, nested or not.
THEOREM NoOrphanLock == LockSpec => []OwnerInside
<1>1. LockInit => OwnerInside
  BY DEF LockInit, OwnerInside
<1>2. QED
  BY <1>1, OwnerStep, LockTypeCorrect, PTL DEF LockSpec
-------------------------------------------------------------------------------
\* The inductive invariant behind exclusion.
OnceInv == LockTypeOK /\ NestOnce /\ SectionOwned

\* Without nesting, a process that leaves a section has left the path, so
\* losing the lock at the close is right and the invariant is kept.
LEMMA OnceStep ==
  ASSUME MaxNest = 1
  PROVE  OnceInv /\ [LockNext]_lockVars => OnceInv'
<1> SUFFICES ASSUME OnceInv, [LockNext]_lockVars PROVE OnceInv'
  OBVIOUS
<1> USE DEF OnceInv
<1>1. LockTypeOK'
  BY LockTypeStep
<1>2. NestOnce'
  <2>1. CASE UNCHANGED lockVars
    BY <2>1 DEF NestOnce, lockVars
  <2>2. ASSUME NEW p \in Procs, Exit(p) PROVE NestOnce'
    BY <2>2 DEF Exit, NestOnce, LockTypeOK
  <2>3. ASSUME NEW p \in Procs, NEW l \in Paths, Acquire(p, l) PROVE NestOnce'
    BY <2>3 DEF Acquire, NestOnce, LockTypeOK
  <2>4. ASSUME NEW p \in Procs, NEW l \in Paths, Release(p, l) PROVE NestOnce'
    BY <2>4 DEF Release, NestOnce, LockTypeOK
  <2>5. QED
    BY <2>1, <2>2, <2>3, <2>4 DEF LockNext
<1>3. SectionOwned'
  <2> SUFFICES ASSUME NEW q \in Procs \ NoLock, NEW k \in Paths, depth'[q][k] > 0
               PROVE  owner'[k] = q
    BY DEF SectionOwned, Inside
  <2>1. CASE UNCHANGED lockVars
    BY <2>1 DEF SectionOwned, Inside, lockVars
  <2>2. ASSUME NEW p \in Procs, Exit(p) PROVE owner'[k] = q
    <3>1. q # p
      BY <2>2 DEF Exit, LockTypeOK
    <3>2. depth'[q] = depth[q]
      BY <2>2, <3>1 DEF Exit, LockTypeOK
    <3>3. owner[k] = q
      BY <3>2 DEF SectionOwned, Inside
    <3>4. QED
      BY <2>2, <3>1, <3>3 DEF Exit
  <2>3. ASSUME NEW p \in Procs, NEW l \in Paths, Acquire(p, l) PROVE owner'[k] = q
    <3>1. CASE p = q /\ l = k
      BY <2>3, <3>1 DEF Acquire, LockTypeOK
    <3>2. CASE ~(p = q /\ l = k)
      <4>1. owner[k] = q
        BY <2>3, <3>2 DEF Acquire, LockTypeOK, SectionOwned, Inside
      <4>2. QED
        BY <2>3, <3>2, <4>1 DEF Acquire, Lockable, LockTypeOK
    <3>3. QED
      BY <3>1, <3>2
  <2>4. ASSUME NEW p \in Procs, NEW l \in Paths, Release(p, l) PROVE owner'[k] = q
    <3>1. ~(p = q /\ l = k)
      BY <2>4 DEF Release, NestOnce, LockTypeOK
    <3>2. depth[q][k] > 0
      BY <2>4, <3>1 DEF Release, LockTypeOK
    <3>3. owner[k] = q
      BY <3>2 DEF SectionOwned, Inside
    <3>4. QED
      BY <2>4, <3>1, <3>3 DEF Release, CloseFd, LockTypeOK
  <2>5. QED
    BY <2>1, <2>2, <2>3, <2>4 DEF LockNext
<1>4. QED
  BY <1>1, <1>2, <1>3

LEMMA OnceInit == LockInit => OnceInv
BY DEF LockInit, OnceInv, LockTypeOK, NestOnce, SectionOwned, Inside

\* Two processes that use the locks are never inside sections of one path,
\* for any processes and paths, provided sections of one path do not nest.
THEOREM Exclusion ==
  ASSUME MaxNest = 1
  PROVE  LockSpec => []AllExclusive
<1>1. OnceInv => AllExclusive
  BY DEF OnceInv, SectionOwned, AllExclusive, Exclusive
<1>2. QED
  BY <1>1, OnceInit, OnceStep, PTL DEF LockSpec
-------------------------------------------------------------------------------
\* The lock of util/flock.py implements the promised lock when sections of
\* one path do not nest: a grant finds nobody else inside.
THEOREM LockKeepsPromise ==
  ASSUME MaxNest = 1
  PROVE  LockSpec => PromiseSpec
<1>1. LockInit => Promise!Init
  BY DEF LockInit, Promise!Init
<1>2. OnceInv /\ [LockNext]_lockVars => [Promise!Next]_depth
  <2> SUFFICES ASSUME OnceInv, [LockNext]_lockVars
               PROVE  [Promise!Next]_depth
    OBVIOUS
  <2>1. CASE UNCHANGED lockVars
    BY <2>1 DEF lockVars
  <2>2. ASSUME NEW p \in Procs, Exit(p) PROVE Promise!Next
    BY <2>2 DEF Exit, Promise!Next, Promise!Die
  <2>3. ASSUME NEW p \in Procs, NEW l \in Paths, Acquire(p, l) PROVE Promise!Next
    <3>1. ASSUME p \notin NoLock, NEW q \in Procs \ (NoLock \cup {p})
          PROVE  depth[q][l] = 0
      BY <2>3, <3>1 DEF Acquire, Lockable, OnceInv, SectionOwned, Inside, LockTypeOK
    <3>2. Promise!Free(p, l)
      BY <3>1 DEF Promise!Free
    <3>3. Promise!Enter(p, l)
      BY <2>3, <3>2 DEF Acquire, Promise!Enter
    <3>4. QED
      BY <3>3 DEF Promise!Next
  <2>4. ASSUME NEW p \in Procs, NEW l \in Paths, Release(p, l) PROVE Promise!Next
    <3>1. Promise!Leave(p, l)
      BY <2>4 DEF Release, Promise!Leave
    <3>2. QED
      BY <3>1 DEF Promise!Next
  <2>5. QED
    BY <2>1, <2>2, <2>3, <2>4 DEF LockNext
<1>3. QED
  BY <1>1, <1>2, OnceInit, OnceStep, PTL DEF LockSpec, PromiseSpec, Promise!Spec
-------------------------------------------------------------------------------
\* Sequences, as far as the stacks need them.
LEMMA Before == \A n \in Nat : \A i \in 1..(n - 1) : i \in 1..n /\ i # n
OBVIOUS

LEMMA One ==
  ASSUME NEW S, NEW x \in S
  PROVE  <<>> \in Seq(S) /\ <<x>> \in Seq(S) /\ Len(<<x>>) = 1 /\ <<x>>[1] = x
OBVIOUS

\* The frame on top of the stack is replaced.
LEMMA ReplaceLast ==
  ASSUME NEW S, NEW s \in Seq(S), s # <<>>, NEW f \in S, NEW t, t = [s EXCEPT ![Len(s)] = f]
  PROVE  /\ t \in Seq(S) /\ Len(t) = Len(s) /\ t # <<>> /\ DOMAIN t = DOMAIN s
         /\ t[Len(t)] = f /\ \A i \in 1..(Len(s) - 1) : t[i] = s[i]
<1>1. Len(s) \in Nat /\ Len(s) > 0 /\ DOMAIN s = 1..Len(s)
  OBVIOUS
<1>2. t \in Seq(S) /\ Len(t) = Len(s) /\ t[Len(s)] = f /\ DOMAIN t = 1..Len(s)
  BY <1>1
<1>3. t # <<>> /\ t[Len(t)] = f
  BY <1>1, <1>2
<1>4. ASSUME NEW i \in 1..(Len(s) - 1) PROVE t[i] = s[i]
  <2>1. i \in DOMAIN s /\ i # Len(s)
    BY <1>1, Before, Zenon
  <2>2. QED
    BY <2>1, Zenon
<1>5. QED
  BY <1>1, <1>2, <1>3, <1>4
-------------------------------------------------------------------------------
\* The shared sections a build is inside of at a point, and the points inside
\* the section of the build root.
HeldAt(pc) ==
    CASE pc \in {"parsing", "updating", "updating2", "querying", "availing_target", "installing",
                 "scanning", "boot_updating"} -> {ApkLock}
      [] pc \in {"fetching", "own_fetching"} -> {SrcLock}
      [] pc = "availing" -> {ApkNoneLock}
      [] pc = "staging" -> {StageLock}
      [] pc \in {"want_stage", "release_repo"} -> {RepoLock}
      [] pc = "clearing" -> {RepoLock, StageLock}
      [] OTHER -> {}
RootPoints ==
    {"update", "updating", "cleanup", "query", "querying", "avail", "availing",
     "avail_target", "availing_target", "deps", "installing", "update2", "updating2",
     "own_fetch", "own_fetching", "phases", "prepkg", "scanning", "stage", "staging", "tidy", "leave",
     "boot_clean", "boot_update", "boot_updating", "boot_leave"}
\* Points only a build is at, and those the other commands have.
BuildPoints == Points \ {"want_repo", "want_stage", "clearing", "release_repo", "want_boot",
                         "boot_clean", "boot_update", "boot_updating", "boot_leave", "clean"}

Frames == [pc : Points, tried : 0..MaxDeps, missing : BOOLEAN,
           no_update : BOOLEAN, own_fetch : BOOLEAN]
LocksTypeOK == LockTypeOK /\ stack \in [Procs -> Seq(Frames)]

\* The stack of p: all builds but the running one wait for a dependency, and a
\* build that begins has not built any.
Stacked(p) == /\ \A i \in 1..(Len(stack[p]) - 1) : stack[p][i].pc = "deps"
              /\ Len(stack[p]) > 1 => Top(p).pc \in BuildPoints
              /\ Active(p) /\ Top(p).pc \in {"parse", "parsing"} => ~Top(p).missing

\* Which sections p is inside of, and how often.
Counted(p) ==
    /\ \A l \in Shared :
          depth[p][l] = IF Active(p) /\ l \in HeldAt(Top(p).pc) THEN 1 ELSE 0
    /\ depth[p][RootOf[p]] =
          IF ~Active(p) THEN 0
          ELSE IF Top(p).pc \in RootPoints THEN Len(stack[p]) ELSE Len(stack[p]) - 1
    /\ \A l \in Paths \ Shared : l # RootOf[p] => depth[p][l] = 0

\* Who owns the lock of a section it is inside of: everybody for the shared
\* directories, and for a build root who has built no dependency inside it.
Owned(p) == p \notin NoLock =>
    /\ \A l \in Shared : Inside(p, l) => owner[l] = p
    /\ \A l \in Paths \ Shared : Inside(p, l) /\ ~Opened(p) => owner[l] = p

\* The inductive invariant.
Placed(p) == Stacked(p) /\ Counted(p) /\ Owned(p)
LocksInv == LocksTypeOK /\ OwnerInside /\ \A p \in Procs : Placed(p)
-------------------------------------------------------------------------------
\* The running build, and who waits for it.
LEMMA TopIs ==
  ASSUME LocksInv, NEW p \in Procs, Active(p)
  PROVE  /\ stack \in [Procs -> Seq(Frames)] /\ stack[p] # <<>>
         /\ Len(stack[p]) \in Nat /\ Len(stack[p]) > 0 /\ DOMAIN stack[p] = 1..Len(stack[p])
         /\ Top(p) \in Frames /\ Top(p) = stack[p][Len(stack[p])]
BY DEF LocksInv, LocksTypeOK, Active, Top, Last

\* A step at a point of the running build.
Moves(from, to) == /\ to \in Points
                   /\ from \in BuildPoints => to \in BuildPoints
                   /\ to \in {"parse", "parsing"} => from = "parse"
LEMMA Moving ==
  ASSUME LocksInv, NEW p \in Procs, NEW from, NEW to, At(p, from), Goto(p, to), Moves(from, to)
  PROVE  /\ stack' \in [Procs -> Seq(Frames)]
         /\ Active(p)' /\ Len(stack'[p]) = Len(stack[p]) /\ Top(p)'.pc = to
         /\ Stacked(p)' /\ (Opened(p)' <=> Opened(p))
         /\ \A q \in Procs \ {p} : stack'[q] = stack[q]
<1>1. /\ Active(p) /\ Top(p).pc = from /\ Top(p) \in Frames
      /\ stack \in [Procs -> Seq(Frames)] /\ stack[p] # <<>>
      /\ Len(stack[p]) \in Nat /\ Len(stack[p]) > 0 /\ DOMAIN stack[p] = 1..Len(stack[p])
      /\ Top(p) = stack[p][Len(stack[p])]
  BY TopIs DEF At
<1> PICK f \in Frames : f = [Top(p) EXCEPT !.pc = to]
  BY <1>1 DEF Frames, Moves
<1>2. f.pc = to /\ f.missing = Top(p).missing
  BY <1>1 DEF Frames
<1>3. stack' = [stack EXCEPT ![p] = [stack[p] EXCEPT ![Len(stack[p])] = f]]
  BY <1>1 DEF Goto
<1>4. stack'[p] = [stack[p] EXCEPT ![Len(stack[p])] = f]
  BY <1>1, <1>3
<1>5. /\ stack'[p] \in Seq(Frames) /\ Len(stack'[p]) = Len(stack[p]) /\ stack'[p] # <<>>
      /\ DOMAIN stack'[p] = DOMAIN stack[p] /\ stack'[p][Len(stack'[p])] = f
      /\ \A i \in 1..(Len(stack[p]) - 1) : stack'[p][i] = stack[p][i]
  <2> DEFINE s == stack[p]
             t == stack'[p]
  <2>1. s \in Seq(Frames) /\ s # <<>> /\ f \in Frames /\ t = [s EXCEPT ![Len(s)] = f]
    BY <1>1, <1>4
  <2> HIDE DEF s, t
  <2>2. /\ t \in Seq(Frames) /\ Len(t) = Len(s) /\ t # <<>> /\ DOMAIN t = DOMAIN s
        /\ t[Len(t)] = f /\ \A i \in 1..(Len(s) - 1) : t[i] = s[i]
    BY <2>1, ReplaceLast
  <2>3. QED
    BY <2>2 DEF s, t
<1>6. stack' \in [Procs -> Seq(Frames)] /\ \A q \in Procs \ {p} : stack'[q] = stack[q]
  BY <1>1, <1>3, <1>5
<1>7. Active(p)' /\ Top(p)' = f
  BY <1>5 DEF Active, Top, Last
<1>8. Stacked(p)'
  BY <1>1, <1>2, <1>5, <1>7 DEF Stacked, LocksInv, Placed, Moves
<1>9. Opened(p)' <=> Opened(p)
  <2>1. stack'[p][Len(stack[p])] = f
    BY <1>5
  <2>2. \A i \in DOMAIN stack[p] : stack'[p][i].missing = stack[p][i].missing
    <3>1. \A i \in DOMAIN stack[p] : i = Len(stack[p]) \/ i \in 1..(Len(stack[p]) - 1)
      BY <1>1
    <3>2. QED
      BY <1>1, <1>2, <1>5, <2>1, <3>1
  <2>3. QED
    BY <1>5, <2>2 DEF Opened
<1>10. QED
  BY <1>2, <1>5, <1>6, <1>7, <1>8, <1>9

\* Nothing changes for the processes that do not take the step.
Elsewhere(p) == \A q \in Procs \ {p} : stack'[q] = stack[q] /\ depth'[q] = depth[q]
LEMMA Others ==
  ASSUME NEW p \in Procs, Elsewhere(p), NEW q \in Procs \ {p}
  PROVE  /\ Stacked(q) => Stacked(q)'
         /\ Counted(q) => Counted(q)'
         /\ Opened(q)' <=> Opened(q)
         /\ \A l \in Paths : Inside(q, l)' <=> Inside(q, l)
BY DEF Elsewhere, Stacked, Counted, Opened, Active, Top, Last, Inside

\* Locks do not change for who has nothing to do with the step.
LEMMA AcquireOwned ==
  ASSUME LocksInv, NEW p \in Procs, NEW l \in Paths, Acquire(p, l), Elsewhere(p),
         Opened(p)' <=> Opened(p), NEW q \in Procs
  PROVE  Owned(q)'
<1>1. SUFFICES ASSUME q \notin NoLock, NEW k \in Paths, Inside(q, k)', k \in Shared \/ ~Opened(q)'
               PROVE  owner'[k] = q
  BY PathsAssumption DEF Owned
<1>2. LockTypeOK /\ Owned(q)
  BY DEF LocksInv, LocksTypeOK, Placed
<1>3. CASE q = p /\ k = l
  <2>1. p \notin NoLock
    BY <1>1, <1>3
  <2>2. owner' = [owner EXCEPT ![l] = p]
    BY <2>1 DEF Acquire
  <2>3. QED
    BY <1>2, <1>3, <2>2 DEF LockTypeOK
<1>4. CASE ~(q = p /\ k = l)
  <2>1. Inside(q, k) /\ (k \in Shared \/ ~Opened(q))
    BY <1>1, <1>2, <1>4, Others DEF Acquire, LockTypeOK, Inside
  <2>2. owner[k] = q
    BY <1>1, <1>2, <2>1 DEF Owned
  <2>3. QED
    BY <1>2, <1>4, <2>2, NoProcAssumption DEF Acquire, Lockable, LockTypeOK
<1>5. QED
  BY <1>3, <1>4

\* Leaving a section gives the lock up; this is right if it was the only one,
\* and counts for nothing if it was the section of a missing dependency.
LEMMA ReleaseOwned ==
  ASSUME LocksInv, NEW p \in Procs, NEW l \in Paths, Release(p, l), Elsewhere(p),
         depth[p][l] = 1 \/ (l \notin Shared /\ Opened(p)'),
         Opened(p) => Opened(p)' \/ \A k \in Paths \ Shared : ~Inside(p, k)',
         NEW q \in Procs
  PROVE  Owned(q)'
<1>1. SUFFICES ASSUME q \notin NoLock, NEW k \in Paths, Inside(q, k)', k \in Shared \/ ~Opened(q)'
               PROVE  owner'[k] = q
  BY PathsAssumption DEF Owned
<1>2. LockTypeOK /\ Owned(q)
  BY DEF LocksInv, LocksTypeOK, Placed
<1>3. ~(q = p /\ k = l)
  BY <1>1, <1>2 DEF Release, LockTypeOK, Inside
<1>4. Inside(q, k) /\ (k \in Shared \/ ~Opened(q))
  BY <1>1, <1>2, <1>3, Others DEF Release, LockTypeOK, Inside
<1>5. owner[k] = q
  BY <1>1, <1>2, <1>4 DEF Owned
<1>6. QED
  BY <1>2, <1>3, <1>5 DEF Release, CloseFd, LockTypeOK
-------------------------------------------------------------------------------
\* What a step has to keep.
Kept == /\ stack' \in [Procs -> Seq(Frames)]
        /\ [LockNext]_lockVars
        /\ \A q \in Procs : Placed(q)'

\* Between the two points lies the entry of a section of l.
Enters(p, from, l, to) ==
    \/ /\ l \in Shared /\ l \notin HeldAt(from) /\ HeldAt(to) = HeldAt(from) \cup {l}
       /\ to \in RootPoints <=> from \in RootPoints
    \/ /\ l = RootOf[p] /\ HeldAt(to) = HeldAt(from)
       /\ from \notin RootPoints /\ to \in RootPoints

\* Entering a section.
LEMMA WithKeeps ==
  ASSUME LocksInv, NEW p \in Procs, NEW from, NEW l, NEW to,
         With(p, from, l, to), Moves(from, to), Enters(p, from, l, to)
  PROVE  Kept
<1>1. At(p, from) /\ Acquire(p, l) /\ Goto(p, to) /\ l \in Paths
  BY PathsAssumption DEF With, Enters
<1>2. LockTypeOK /\ Counted(p) /\ Active(p) /\ Top(p).pc = from
  BY <1>1 DEF LocksInv, LocksTypeOK, Placed, At
<1>3. /\ stack' \in [Procs -> Seq(Frames)]
      /\ Active(p)' /\ Len(stack'[p]) = Len(stack[p]) /\ Top(p)'.pc = to
      /\ Stacked(p)' /\ (Opened(p)' <=> Opened(p))
      /\ \A q \in Procs \ {p} : stack'[q] = stack[q]
  BY <1>1, Moving
<1>4. /\ depth'[p][l] = depth[p][l] + 1
      /\ \A k \in Paths \ {l} : depth'[p][k] = depth[p][k]
      /\ \A q \in Procs \ {p} : depth'[q] = depth[q]
  BY <1>1, <1>2 DEF Acquire, LockTypeOK
<1>5. Elsewhere(p)
  BY <1>3, <1>4 DEF Elsewhere
<1>6. Counted(p)'
  <2>1. Len(stack[p]) \in Nat /\ RootOf[p] \in Paths \ Shared /\ Shared \subseteq Paths
    BY <1>2, TopIs, PathsAssumption
  <2>2. CASE l \in Shared
    BY <1>2, <1>3, <1>4, <2>1, <2>2 DEF Counted, Enters
  <2>3. CASE l \notin Shared
    <3>1. /\ l = RootOf[p] /\ HeldAt(to) = HeldAt(from)
          /\ from \notin RootPoints /\ to \in RootPoints
      BY <2>3 DEF Enters
    <3>2. depth[p][l] = Len(stack[p]) - 1
      BY <1>2, <3>1 DEF Counted
    <3>3. depth'[p][l] = Len(stack'[p])
      BY <1>3, <1>4, <2>1, <3>2
    <3>4. QED
      BY <1>2, <1>3, <1>4, <2>1, <3>1, <3>3 DEF Counted
  <2>4. QED
    BY <2>2, <2>3
<1>7. ASSUME NEW q \in Procs PROVE Placed(q)'
  <2>1. Owned(q)'
    BY <1>1, <1>3, <1>5, AcquireOwned
  <2>2. CASE q = p
    BY <1>3, <1>6, <2>1, <2>2 DEF Placed
  <2>3. CASE q # p
    BY <1>5, <2>1, <2>3, Others DEF Placed, LocksInv
  <2>4. QED
    BY <2>2, <2>3
<1>8. QED
  BY <1>1, <1>3, <1>7 DEF Kept, LockNext

\* Leaving a section of a shared directory.
LEMMA EndWithKeeps ==
  ASSUME LocksInv, NEW p \in Procs, NEW from, NEW l \in Shared, NEW to,
         EndWith(p, from, l, to), Moves(from, to), Enters(p, to, l, from)
  PROVE  Kept
<1>1. At(p, from) /\ Release(p, l) /\ Goto(p, to) /\ l \in Paths
  BY PathsAssumption DEF EndWith
<1>2. LockTypeOK /\ Counted(p) /\ Active(p) /\ Top(p).pc = from
  BY <1>1 DEF LocksInv, LocksTypeOK, Placed, At
<1>3. /\ stack' \in [Procs -> Seq(Frames)]
      /\ Active(p)' /\ Len(stack'[p]) = Len(stack[p]) /\ Top(p)'.pc = to
      /\ Stacked(p)' /\ (Opened(p)' <=> Opened(p))
      /\ \A q \in Procs \ {p} : stack'[q] = stack[q]
  BY <1>1, Moving
<1>4. /\ depth'[p][l] = depth[p][l] - 1
      /\ \A k \in Paths \ {l} : depth'[p][k] = depth[p][k]
      /\ \A q \in Procs \ {p} : depth'[q] = depth[q]
  BY <1>1, <1>2 DEF Release, LockTypeOK
<1>5. Elsewhere(p)
  BY <1>3, <1>4 DEF Elsewhere
<1>6. Counted(p)' /\ depth[p][l] = 1
  <2>1. RootOf[p] \in Paths \ Shared /\ Shared \subseteq Paths
    BY PathsAssumption
  <2>2. l # RootOf[p] /\ l \in HeldAt(from) /\ l \notin HeldAt(to)
        /\ HeldAt(from) = HeldAt(to) \cup {l} /\ (to \in RootPoints <=> from \in RootPoints)
    BY <2>1 DEF Enters
  <2>3. depth[p][l] = 1
    BY <1>2, <2>2 DEF Counted
  <2>4. QED
    BY <1>2, <1>3, <1>4, <2>1, <2>2, <2>3 DEF Counted
<1>7. ASSUME NEW q \in Procs PROVE Placed(q)'
  <2>1. Owned(q)'
    BY <1>1, <1>3, <1>5, <1>6, ReleaseOwned
  <2>2. CASE q = p
    BY <1>3, <1>6, <2>1, <2>2 DEF Placed
  <2>3. CASE q # p
    BY <1>5, <2>1, <2>3, Others DEF Placed, LocksInv
  <2>4. QED
    BY <2>2, <2>3
<1>8. QED
  BY <1>1, <1>3, <1>7 DEF Kept, LockNext

\* A step that touches no lock.
LEMMA StepKeeps ==
  ASSUME LocksInv, NEW p \in Procs, NEW from, NEW to, Step(p, from, to), Moves(from, to),
         HeldAt(to) = HeldAt(from), to \in RootPoints <=> from \in RootPoints
  PROVE  Kept
<1>1. At(p, from) /\ Goto(p, to) /\ UNCHANGED <<owner, depth>>
  BY DEF Step, lockVars
<1>2. Counted(p) /\ Owned(p) /\ Active(p) /\ Top(p).pc = from
  BY <1>1 DEF LocksInv, Placed, At
<1>3. /\ stack' \in [Procs -> Seq(Frames)]
      /\ Active(p)' /\ Len(stack'[p]) = Len(stack[p]) /\ Top(p)'.pc = to
      /\ Stacked(p)' /\ (Opened(p)' <=> Opened(p))
      /\ \A q \in Procs \ {p} : stack'[q] = stack[q]
  BY <1>1, Moving
<1>4. Counted(p)' /\ Owned(p)'
  BY <1>1, <1>2, <1>3 DEF Counted, Owned, Inside
<1>5. ASSUME NEW q \in Procs \ {p} PROVE Placed(q)'
  BY <1>1, <1>3, Others DEF Elsewhere, Placed, LocksInv, Owned, Inside
<1>6. QED
  BY <1>1, <1>3, <1>4, <1>5 DEF Kept, Placed, lockVars
-------------------------------------------------------------------------------
LEMMA EntriesAre == {Entry[c] : c \in Commands} = {"parse", "want_repo", "want_boot", "clean"}
BY DEF Entry, Commands

\* What is left of p when it has left everything: nothing, or the unstaging
\* that follows a build.
Rest == {<<>>, <<Frame("want_repo", FALSE, FALSE)>>}
LEMMA Outside ==
  ASSUME LocksInv, NEW p \in Procs, NEW t \in Rest, stack' = [stack EXCEPT ![p] = t],
         \A k \in Paths : depth'[p][k] = 0
  PROVE  /\ stack' \in [Procs -> Seq(Frames)] /\ \A q \in Procs \ {p} : stack'[q] = stack[q]
         /\ Stacked(p)' /\ Counted(p)' /\ Owned(p)'
<1>1. stack \in [Procs -> Seq(Frames)] /\ RootOf[p] \in Paths /\ Shared \subseteq Paths
  BY PathsAssumption DEF LocksInv, LocksTypeOK
<1> PICK w \in Frames : w = Frame("want_repo", FALSE, FALSE) /\ w.pc = "want_repo"
  <2>1. "want_repo" \in Points
    BY EntriesAre DEF Points
  <2>2. 0 \in 0..MaxDeps
    BY PathsAssumption
  <2> DEFINE w == [pc |-> "want_repo", tried |-> 0, missing |-> FALSE,
                   no_update |-> FALSE, own_fetch |-> FALSE]
  <2>3. w \in Frames
    BY <2>1, <2>2 DEF Frames
  <2>4. w = Frame("want_repo", FALSE, FALSE) /\ w.pc = "want_repo"
    BY DEF Frame
  <2>5. QED
    BY <2>3, <2>4
<1>2. t = <<>> \/ t = <<w>>
  BY DEF Rest
<1>3. stack'[p] = t /\ t \in Seq(Frames)
  <2>1. <<>> \in Seq(Frames) /\ <<w>> \in Seq(Frames)
    BY One
  <2>2. QED
    BY <1>1, <1>2, <2>1
<1>4. stack' \in [Procs -> Seq(Frames)] /\ \A q \in Procs \ {p} : stack'[q] = stack[q]
  BY <1>1, <1>3
<1>5. CASE t = <<>>
  <2>1. ~Active(p)' /\ Len(stack'[p]) = 0
    BY <1>3, <1>5 DEF Active
  <2>2. QED
    BY <1>1, <1>4, <2>1 DEF Stacked, Counted, Owned, Inside
<1>6. CASE t = <<w>>
  <2> PICK pc : pc = "want_repo"
    OBVIOUS
  <2>1. Active(p)' /\ Len(stack'[p]) = 1 /\ Top(p)'.pc = pc
    <3>1. t # <<>> /\ Len(t) = 1 /\ t[1] = w
      BY <1>6
    <3>2. QED
      BY <1>3, <3>1 DEF Active, Top, Last
  <2>2. HeldAt(pc) = {} /\ pc \notin RootPoints /\ pc \notin {"parse", "parsing"}
    BY DEF HeldAt, RootPoints
  <2>3. QED
    <3>1. Stacked(p)'
      <4>1. (\A i \in 1..(Len(stack'[p]) - 1) : FALSE) /\ ~(Len(stack'[p]) > 1)
        <5>1. Len(stack'[p]) = 1
          BY <2>1
        <5>2. \A n : n = 1 => (\A i \in 1..(n - 1) : FALSE) /\ ~(n > 1)
          OBVIOUS
        <5>3. QED
          BY <5>1, <5>2
      <4>2. Top(p)'.pc \notin {"parse", "parsing"}
        BY <2>1, <2>2
      <4>3. QED
        BY <4>1, <4>2 DEF Stacked
    <3>2. Counted(p)'
      <4>1. Top(p)'.pc \notin RootPoints /\ HeldAt(Top(p)'.pc) = {} /\ Len(stack'[p]) - 1 = 0
        BY <2>1, <2>2
      <4>2. QED
        BY <1>1, <2>1, <4>1 DEF Counted
    <3>3. Owned(p)'
      BY <1>1 DEF Owned, Inside
    <3>4. QED
      BY <1>4, <3>1, <3>2, <3>3
<1>7. QED
  BY <1>2, <1>5, <1>6

\* The end of the section that encloses everything else a process does.
LEMMA OutermostKeeps ==
  ASSUME LocksInv, NEW p \in Procs, NEW pc, At(p, pc), Len(stack[p]) = 1,
         NEW l, Release(p, l), NEW t \in Rest, stack' = [stack EXCEPT ![p] = t],
         \/ l \in Shared /\ HeldAt(pc) = {l} /\ pc \notin RootPoints
         \/ l = RootOf[p] /\ HeldAt(pc) = {} /\ pc \in RootPoints
  PROVE  Kept
<1>1. /\ LockTypeOK /\ Counted(p) /\ Active(p) /\ Top(p).pc = pc
      /\ l \in Paths /\ RootOf[p] \in Paths \ Shared /\ Shared \subseteq Paths
  BY PathsAssumption DEF LocksInv, LocksTypeOK, Placed, At
<1>2. depth[p][l] = 1 /\ \A k \in Paths \ {l} : depth[p][k] = 0
  BY <1>1 DEF Counted
<1>3. (\A k \in Paths : depth'[p][k] = 0) /\ \A q \in Procs \ {p} : depth'[q] = depth[q]
  BY <1>1, <1>2 DEF Release, LockTypeOK
<1>4. /\ stack' \in [Procs -> Seq(Frames)] /\ Stacked(p)' /\ Counted(p)' /\ Owned(p)'
      /\ Elsewhere(p)
  BY <1>3, Outside DEF Elsewhere
<1>5. ASSUME NEW q \in Procs \ {p} PROVE Placed(q)'
  <2>1. \A k \in Paths \ Shared : ~Inside(p, k)'
    BY <1>3 DEF Inside
  <2>2. Owned(q)'
    BY <1>1, <1>2, <1>4, <2>1, ReleaseOwned
  <2>3. QED
    BY <1>4, <2>2, Others DEF Placed, LocksInv
<1>6. QED
  BY <1>1, <1>4, <1>5 DEF Kept, Placed, LockNext

\* A build returns to the one that needed its package.
LEMMA ReturnKeeps ==
  ASSUME LocksInv, NEW p \in Procs, NEW pc, At(p, pc), Len(stack[p]) > 1,
         NEW l, Release(p, l), NEW t \in Seq(Frames), stack' = [stack EXCEPT ![p] = t],
         Len(t) = Len(stack[p]) - 1, t[Len(t)].pc = "deps",
         \A i \in 1..(Len(t) - 1) : t[i] = stack[p][i],
         \/ /\ l \in Shared /\ HeldAt(pc) = {l} /\ pc \notin RootPoints
            /\ ~Top(p).missing /\ t[Len(t)] = stack[p][Len(t)]
         \/ /\ l = RootOf[p] /\ HeldAt(pc) = {} /\ pc \in RootPoints
            /\ t[Len(t)].missing
  PROVE  Kept
<1>1. /\ LockTypeOK /\ Stacked(p) /\ Counted(p) /\ Active(p) /\ Top(p).pc = pc
      /\ l \in Paths /\ RootOf[p] \in Paths \ Shared /\ Shared \subseteq Paths
      /\ stack \in [Procs -> Seq(Frames)]
  BY PathsAssumption DEF LocksInv, LocksTypeOK, Placed, At
<1>2. /\ Len(stack[p]) \in Nat /\ DOMAIN stack[p] = 1..Len(stack[p])
      /\ Top(p) = stack[p][Len(stack[p])] /\ Len(t) \in Nat /\ DOMAIN t = 1..Len(t)
      /\ t # <<>> /\ Len(t) > 0
  BY <1>1, TopIs
<1>3. stack'[p] = t /\ stack' \in [Procs -> Seq(Frames)]
      /\ \A q \in Procs \ {p} : stack'[q] = stack[q]
  BY <1>1
<1> PICK to : to = "deps"
  OBVIOUS
<1>4. Active(p)' /\ Top(p)'.pc = to
  BY <1>2, <1>3 DEF Active, Top, Last
<1>5. /\ depth'[p][l] = depth[p][l] - 1
      /\ \A k \in Paths \ {l} : depth'[p][k] = depth[p][k]
      /\ \A q \in Procs \ {p} : depth'[q] = depth[q]
  BY <1>1 DEF Release, LockTypeOK
<1>6. Stacked(p)'
  BY <1>1, <1>2, <1>3, <1>4 DEF Stacked, BuildPoints, Points
<1>7. Counted(p)' /\ (l \in Shared => depth[p][l] = 1)
  <2>1. HeldAt(to) = {} /\ to \in RootPoints
    BY DEF HeldAt, RootPoints
  <2>2. CASE l \in Shared
    <3>1. l # RootOf[p] /\ HeldAt(pc) = {l} /\ pc \notin RootPoints
      BY <1>1, <2>2
    <3>2. depth[p][l] = 1 /\ depth[p][RootOf[p]] = Len(stack[p]) - 1
      BY <1>1, <2>2, <3>1 DEF Counted
    <3>3. depth'[p][RootOf[p]] = Len(stack'[p])
      BY <1>1, <1>3, <1>5, <3>1, <3>2
    <3>4. QED
      <4>1. \A k \in Shared : depth'[p][k] = 0
        BY <1>1, <1>5, <3>1, <3>2 DEF Counted
      <4>2. \A k \in Paths \ Shared : k # RootOf[p] => depth'[p][k] = 0
        BY <1>1, <1>5, <2>2 DEF Counted
      <4>3. QED
        BY <1>4, <2>1, <3>2, <3>3, <4>1, <4>2 DEF Counted
  <2>3. CASE l = RootOf[p] /\ HeldAt(pc) = {} /\ pc \in RootPoints
    <3>1. depth[p][l] = Len(stack[p])
      BY <1>1, <2>3 DEF Counted
    <3>2. depth'[p][l] = Len(stack'[p])
      BY <1>2, <1>3, <1>5, <3>1
    <3>3. \A k \in Shared : depth'[p][k] = 0
      BY <1>1, <1>5, <2>3 DEF Counted
    <3>4. \A k \in Paths \ Shared : k # RootOf[p] => depth'[p][k] = 0
      BY <1>1, <1>5, <2>3 DEF Counted
    <3>5. QED
      BY <1>4, <2>1, <2>3, <3>2, <3>3, <3>4 DEF Counted
  <2>4. QED
    BY <2>2, <2>3
<1>8. /\ Opened(p) => Opened(p)'
      /\ l \in Shared => (Opened(p)' <=> Opened(p))
      /\ l \notin Shared => Opened(p)'
  <2>1. \A i \in DOMAIN stack[p] : i = Len(stack[p]) \/ i = Len(t) \/ i \in 1..(Len(t) - 1)
    BY <1>2
  <2>2. \A i \in DOMAIN t : i \in DOMAIN stack[p] /\ (i = Len(t) \/ i \in 1..(Len(t) - 1))
    BY <1>2
  <2>3. Len(t) \in DOMAIN t
    BY <1>2
  <2>4. CASE l \in Shared
    <3>1. ~Top(p).missing /\ t[Len(t)] = stack[p][Len(t)]
      BY <1>1, <2>4
    <3>2. QED
      <4>1. \A i \in DOMAIN t : t[i] = stack[p][i]
        BY <2>2, <3>1
      <4>2. \A i \in DOMAIN stack[p] : stack[p][i].missing => i \in DOMAIN t
        BY <1>2, <2>1, <3>1
      <4>3. QED
        BY <1>3, <2>2, <2>4, <4>1, <4>2 DEF Opened
  <2>5. CASE l \notin Shared
    BY <1>3, <2>3, <2>5 DEF Opened
  <2>6. QED
    BY <2>4, <2>5
<1>9. Elsewhere(p)
  BY <1>3, <1>5 DEF Elsewhere
<1>10. ASSUME NEW q \in Procs PROVE Placed(q)'
  <2>1. Owned(q)'
    BY <1>1, <1>7, <1>8, <1>9, ReleaseOwned
  <2>2. QED
    BY <1>6, <1>7, <1>9, <2>1, Others DEF Placed, LocksInv
<1>11. QED
  BY <1>1, <1>3, <1>10 DEF Kept, LockNext
-------------------------------------------------------------------------------
LEMMA PushOn ==
  ASSUME NEW S, NEW s \in Seq(S), NEW x \in S
  PROVE  /\ Append(s, x) \in Seq(S) /\ Len(Append(s, x)) = Len(s) + 1 /\ Append(s, x) # <<>>
         /\ DOMAIN Append(s, x) = 1..(Len(s) + 1) /\ Append(s, x)[Len(s) + 1] = x
         /\ \A i \in 1..Len(s) : Append(s, x)[i] = s[i]
<1>1. Append(s, x) \in Seq(S) /\ Len(Append(s, x)) = Len(s) + 1 /\ Len(s) \in Nat
  OBVIOUS
<1>2. Append(s, x)[Len(s) + 1] = x
  OBVIOUS
<1>3. ASSUME NEW i \in 1..Len(s) PROVE Append(s, x)[i] = s[i]
  OBVIOUS
<1>4. Append(s, x) # <<>>
  BY <1>1
<1>5. DOMAIN Append(s, x) = 1..(Len(s) + 1)
  BY <1>1
<1>6. QED
  BY <1>1, <1>2, <1>3, <1>4, <1>5

LEMMA Positions ==
  ASSUME NEW n \in Nat, n > 0, NEW m, m = n + 1
  PROVE  /\ m > 1 /\ m - 1 = n
         /\ \A i \in 1..(m - 1) : i \in 1..n /\ (i = n \/ i \in 1..(n - 1))
         /\ \A i \in 1..m : i = m \/ i \in 1..n
         /\ \A i \in 1..n : i \in 1..m
OBVIOUS

\* A build calls the build of a missing dependency.
LEMMA CallKeeps ==
  ASSUME LocksInv, NEW p \in Procs, BuildDep(p)
  PROVE  Kept
<1>1. /\ Active(p) /\ Top(p).pc = "deps" /\ Top(p).tried < MaxDeps
      /\ stack \in [Procs -> Seq(Frames)] /\ Stacked(p) /\ Counted(p) /\ Owned(p)
      /\ UNCHANGED <<owner, depth>>
  BY DEF LocksInv, LocksTypeOK, Placed, BuildDep, At, lockVars
<1>2. /\ stack[p] # <<>> /\ Len(stack[p]) \in Nat /\ Len(stack[p]) > 0
      /\ DOMAIN stack[p] = 1..Len(stack[p]) /\ stack[p] \in Seq(Frames)
      /\ Top(p) \in Frames /\ Top(p) = stack[p][Len(stack[p])]
  BY <1>1, TopIs
<1> PICK own \in BOOLEAN :
      stack' = [stack EXCEPT ![p] =
                  Append([stack[p] EXCEPT ![Len(stack[p])] =
                            [stack[p][Len(stack[p])] EXCEPT !.tried = Top(p).tried + 1]],
                         Frame("parse", ~Top(p).missing, own))]
  BY DEF BuildDep
<1> DEFINE g == [Top(p) EXCEPT !.tried = Top(p).tried + 1]
           t == [stack[p] EXCEPT ![Len(stack[p])] = g]
           new == Frame("parse", ~Top(p).missing, own)
<1>3. g \in Frames /\ g.pc = Top(p).pc /\ g.missing = Top(p).missing
  <2>1. Top(p).tried + 1 \in 0..MaxDeps
    BY <1>1, <1>2, PathsAssumption DEF Frames
  <2>2. QED
    BY <1>2, <2>1 DEF Frames
<1>4. new \in Frames /\ new.pc = "parse" /\ new.missing = FALSE
  <2>1. "parse" \in Points /\ 0 \in 0..MaxDeps
    BY EntriesAre, PathsAssumption DEF Points
  <2>2. PICK b \in BOOLEAN : b = ~Top(p).missing
    <3>1. Top(p).missing = TRUE \/ Top(p).missing = FALSE
      BY <1>2 DEF Frames
    <3>2. CASE Top(p).missing = TRUE
      BY <3>2, Zenon
    <3>3. CASE Top(p).missing = FALSE
      BY <3>3, Zenon
    <3>4. QED
      BY <3>1, <3>2, <3>3
  <2>3. new = Frame("parse", b, own)
    BY <2>2
  <2>4. QED
    BY <2>1, <2>2, <2>3 DEF Frame, Frames
<1>5. stack' = [stack EXCEPT ![p] = Append(t, new)]
  BY <1>2
<1> HIDE DEF g, new
<1>6. /\ t \in Seq(Frames) /\ Len(t) = Len(stack[p]) /\ t[Len(t)] = g
      /\ \A i \in 1..(Len(stack[p]) - 1) : t[i] = stack[p][i]
  BY <1>2, <1>3, ReplaceLast
<1> HIDE DEF t
<1>7. /\ stack'[p] = Append(t, new) /\ stack' \in [Procs -> Seq(Frames)]
      /\ Len(stack'[p]) = Len(stack[p]) + 1 /\ stack'[p] # <<>>
      /\ DOMAIN stack'[p] = 1..(Len(stack[p]) + 1)
      /\ stack'[p][Len(stack[p]) + 1] = new
      /\ \A i \in 1..Len(stack[p]) : stack'[p][i] = t[i]
  <2>1. stack'[p] = Append(t, new)
    BY <1>1, <1>5
  <2>2. /\ Append(t, new) \in Seq(Frames) /\ Len(Append(t, new)) = Len(t) + 1
        /\ Append(t, new) # <<>> /\ DOMAIN Append(t, new) = 1..(Len(t) + 1)
        /\ Append(t, new)[Len(t) + 1] = new /\ \A i \in 1..Len(t) : Append(t, new)[i] = t[i]
    BY <1>4, <1>6, PushOn
  <2>3. stack' \in [Procs -> Seq(Frames)]
    BY <1>1, <1>5, <2>2
  <2>4. QED
    BY <1>6, <2>1, <2>2, <2>3
<1>8. \A q \in Procs \ {p} : stack'[q] = stack[q]
  BY <1>1, <1>5
<1>p. /\ Len(stack'[p]) > 1 /\ Len(stack'[p]) - 1 = Len(stack[p])
      /\ \A i \in 1..(Len(stack'[p]) - 1) :
            i \in 1..Len(stack[p]) /\ (i = Len(stack[p]) \/ i \in 1..(Len(stack[p]) - 1))
      /\ \A i \in 1..Len(stack'[p]) : i = Len(stack'[p]) \/ i \in 1..Len(stack[p])
      /\ \A i \in 1..Len(stack[p]) : i \in 1..Len(stack'[p])
  BY <1>2, <1>7, Positions
<1> PICK pc, to : pc = "deps" /\ to = "parse"
  OBVIOUS
<1>9. Active(p)' /\ Top(p)' = new /\ Top(p)'.pc = to
  BY <1>4, <1>7 DEF Active, Top, Last
<1>10. /\ HeldAt(pc) = {} /\ HeldAt(to) = {} /\ pc \in RootPoints /\ to \notin RootPoints
       /\ to \in BuildPoints
  BY EntriesAre DEF HeldAt, RootPoints, BuildPoints, Points
<1>11. Stacked(p)'
  <2>1. ASSUME NEW i \in 1..(Len(stack'[p]) - 1) PROVE stack'[p][i].pc = "deps"
    <3>1. i \in 1..Len(stack[p]) /\ (i = Len(stack[p]) \/ i \in 1..(Len(stack[p]) - 1))
      BY <1>p
    <3>2. CASE i = Len(stack[p])
      BY <1>1, <1>3, <1>6, <1>7, <3>1, <3>2
    <3>3. CASE i \in 1..(Len(stack[p]) - 1)
      BY <1>1, <1>6, <1>7, <3>1, <3>3 DEF Stacked
    <3>4. QED
      BY <3>1, <3>2, <3>3
  <2>2. QED
    BY <1>4, <1>9, <1>10, <1>p, <2>1 DEF Stacked
<1>12. Counted(p)'
  <2>1. Top(p).pc = pc /\ Len(stack'[p]) - 1 = Len(stack[p])
    BY <1>1, <1>p
  <2>2. QED
    BY <1>1, <1>9, <1>10, <2>1 DEF Counted
<1>13. Opened(p)' <=> Opened(p)
  <2>1. \A i \in DOMAIN stack[p] : stack'[p][i].missing = stack[p][i].missing
    <3>1. \A i \in DOMAIN stack[p] : i = Len(stack[p]) \/ i \in 1..(Len(stack[p]) - 1)
      BY <1>2
    <3>2. ASSUME NEW i \in DOMAIN stack[p], i = Len(stack[p])
          PROVE  stack'[p][i] = g /\ g.missing = stack[p][i].missing
      BY <1>2, <1>3, <1>6, <1>7, <3>2
    <3>3. ASSUME NEW i \in DOMAIN stack[p], i \in 1..(Len(stack[p]) - 1)
          PROVE  stack'[p][i] = stack[p][i]
      BY <1>2, <1>6, <1>7, <3>3
    <3>4. QED
      BY <3>1, <3>2, <3>3
  <2>2. \A i \in DOMAIN stack'[p] : i = Len(stack[p]) + 1 \/ i \in DOMAIN stack[p]
    BY <1>2, <1>7, <1>p
  <2>3. \A i \in DOMAIN stack[p] : i \in DOMAIN stack'[p]
    BY <1>2, <1>7, <1>p
  <2>4. QED
    BY <1>4, <1>7, <2>1, <2>2, <2>3 DEF Opened
<1>14. Owned(p)'
  BY <1>1, <1>13 DEF Owned, Inside
<1>15. ASSUME NEW q \in Procs \ {p} PROVE Placed(q)'
  BY <1>1, <1>8, Others DEF Elsewhere, Placed, LocksInv, Owned, Inside
<1>16. QED
  BY <1>1, <1>7, <1>11, <1>12, <1>14, <1>15 DEF Kept, Placed, lockVars

\* A process ends: by an exception or a kill, whatever it was inside of, or at
\* the end of a command that took no lock.
LEMMA AbortKeeps ==
  ASSUME LocksInv, NEW p \in Procs, Abort(p)
  PROVE  Kept
<1>1. Exit(p) /\ <<>> \in Rest /\ stack' = [stack EXCEPT ![p] = <<>>] /\ LockTypeOK
  BY DEF Abort, Rest, LocksInv, LocksTypeOK
<1>2. (\A k \in Paths : depth'[p][k] = 0) /\ \A q \in Procs \ {p} : depth'[q] = depth[q]
  BY <1>1 DEF Exit, LockTypeOK
<1>3. /\ stack' \in [Procs -> Seq(Frames)] /\ Stacked(p)' /\ Counted(p)' /\ Owned(p)'
      /\ Elsewhere(p)
  BY <1>1, <1>2, Outside DEF Elsewhere
<1>4. ASSUME NEW q \in Procs \ {p} PROVE Placed(q)'
  <2>1. /\ Stacked(q)' /\ Counted(q)' /\ (Opened(q)' <=> Opened(q)) /\ Owned(q)
        /\ \A l \in Paths : Inside(q, l)' <=> Inside(q, l)
    BY <1>3, Others DEF LocksInv, Placed
  <2>2. \A l \in Paths : owner[l] = q => owner'[l] = q
    BY <1>1 DEF Exit
  <2>3. Owned(q)'
    BY <2>1, <2>2, PathsAssumption DEF Owned
  <2>4. QED
    BY <2>1, <2>3 DEF Placed
<1>5. QED
  BY <1>1, <1>3, <1>4 DEF Kept, Placed, LockNext

LEMMA CleanKeeps ==
  ASSUME LocksInv, NEW p \in Procs, Clean(p)
  PROVE  Kept
<1> PICK pc : pc = "clean"
  OBVIOUS
<1>1. /\ Active(p) /\ Top(p).pc = pc /\ Stacked(p) /\ Counted(p)
      /\ UNCHANGED <<owner, depth>> /\ <<>> \in Rest /\ stack' = [stack EXCEPT ![p] = <<>>]
      /\ Shared \subseteq Paths /\ RootOf[p] \in Paths
  BY PathsAssumption DEF Clean, At, Rest, LocksInv, Placed, lockVars
<1>2. HeldAt(pc) = {} /\ pc \notin RootPoints /\ pc \notin BuildPoints
  BY DEF HeldAt, RootPoints, BuildPoints
<1>3. Len(stack[p]) - 1 = 0
  <2>1. ~(Len(stack[p]) > 1)
    BY <1>1, <1>2 DEF Stacked
  <2>2. Len(stack[p]) \in Nat /\ Len(stack[p]) > 0
    BY <1>1, TopIs
  <2>3. \A n \in Nat : n > 0 /\ ~(n > 1) => n - 1 = 0
    OBVIOUS
  <2>4. QED
    BY <2>1, <2>2, <2>3
<1>4. \A k \in Paths : depth'[p][k] = 0
  BY <1>1, <1>2, <1>3 DEF Counted
<1>5. /\ stack' \in [Procs -> Seq(Frames)] /\ Stacked(p)' /\ Counted(p)' /\ Owned(p)'
      /\ Elsewhere(p)
  BY <1>1, <1>4, Outside DEF Elsewhere
<1>6. ASSUME NEW q \in Procs \ {p} PROVE Placed(q)'
  BY <1>1, <1>5, Others DEF Elsewhere, Placed, LocksInv, Owned, Inside
<1>7. QED
  BY <1>1, <1>5, <1>6 DEF Kept, Placed, lockVars
-------------------------------------------------------------------------------
LEMMA PointsAre == \A x \in {"parse", "want_repo", "want_boot", "clean",
    "parsing", "fetch", "fetching", "want_root", "update", "updating", "cleanup",
    "query", "querying", "avail", "availing", "avail_target", "availing_target", "deps",
    "installing", "update2", "updating2", "own_fetch", "own_fetching", "phases", "prepkg", "scanning",
    "stage", "staging", "tidy", "leave", "want_stage", "clearing", "release_repo",
    "boot_clean", "boot_update", "boot_updating", "boot_leave"} : x \in Points
BY EntriesAre DEF Points

\* Entering a section.
LEMMA WithActions ==
  ASSUME LocksInv, NEW p \in Procs,
         \/ IsBuilt(p) \/ InvokeFetch(p) \/ LockRoot(p) \/ LockRootDirty(p)
         \/ Update(p) \/ Update2(p) \/ GetVers(p) \/ IsAvailable(p) \/ OwnFetch(p)
         \/ Install(p) \/ ScanDeps(p) \/ LockStage(p) \/ LockRepo(p) \/ Clear(p)
         \/ BootLock(p) \/ BootUpdate(p)
  PROVE  Kept
<1> USE PointsAre DEF Moves, Enters, HeldAt, RootPoints, BuildPoints, Shared
<1>1. CASE IsBuilt(p)
  BY <1>1, WithKeeps DEF IsBuilt
<1>2. CASE InvokeFetch(p)
  BY <1>2, WithKeeps DEF InvokeFetch
<1>3. CASE LockRoot(p)
  <2> PICK to : to = IF Top(p).no_update THEN "cleanup" ELSE "update"
    OBVIOUS
  <2>1. With(p, "want_root", RootOf[p], to)
    BY <1>3 DEF LockRoot
  <2>2. Moves("want_root", to) /\ Enters(p, "want_root", RootOf[p], to)
    OBVIOUS
  <2>3. QED
    BY <2>1, <2>2, WithKeeps
<1>4. CASE LockRootDirty(p)
  <2> PICK to : to = AfterDeps(p)
    OBVIOUS
  <2>1. With(p, "want_root", RootOf[p], to)
    BY <1>4 DEF LockRootDirty
  <2>2. Moves("want_root", to) /\ Enters(p, "want_root", RootOf[p], to)
    BY DEF AfterDeps
  <2>3. QED
    BY <2>1, <2>2, WithKeeps
<1>5. CASE Update(p)
  BY <1>5, WithKeeps DEF Update
<1>6. CASE Update2(p)
  BY <1>6, WithKeeps DEF Update2
<1>7. CASE GetVers(p)
  BY <1>7, WithKeeps DEF GetVers
<1>8. CASE IsAvailable(p)
  <2>1. CASE With(p, "avail", ApkNoneLock, "availing")
    BY <2>1, WithKeeps
  <2>2. CASE With(p, "avail_target", ApkLock, "availing_target")
    BY <2>2, WithKeeps
  <2>3. QED
    BY <1>8, <2>1, <2>2 DEF IsAvailable
<1>9. CASE OwnFetch(p)
  BY <1>9, WithKeeps DEF OwnFetch
<1>10. CASE Install(p)
  BY <1>10, WithKeeps DEF Install
<1>11. CASE ScanDeps(p)
  BY <1>11, WithKeeps DEF ScanDeps
<1>12. CASE LockStage(p)
  BY <1>12, WithKeeps DEF LockStage
<1>13. CASE LockRepo(p)
  BY <1>13, WithKeeps DEF LockRepo, ClearLocks
<1>14. CASE Clear(p)
  <2>1. With(p, "want_stage", StageLock, "clearing")
    BY <1>14 DEF Clear, ClearLocks
  <2>2. Moves("want_stage", "clearing")
    OBVIOUS
  <2>3. RepoLock # StageLock
    BY DEF RepoLock, StageLock
  <2>4. Enters(p, "want_stage", StageLock, "clearing")
    BY <2>3
  <2>5. QED
    BY <2>1, <2>2, <2>4, WithKeeps
<1>15. CASE BootLock(p)
  BY <1>15, WithKeeps DEF BootLock
<1>16. CASE BootUpdate(p)
  BY <1>16, WithKeeps DEF BootUpdate
<1>17. QED
  BY <1>1, <1>2, <1>3, <1>4, <1>5, <1>6, <1>7, <1>8, <1>9, <1>10, <1>11, <1>12, <1>13,
     <1>14, <1>15, <1>16

\* Leaving a section of a shared directory.
LEMMA EndWithActions ==
  ASSUME LocksInv, NEW p \in Procs,
         \/ ParseDone(p) \/ FetchDone(p) \/ UpdateDone(p) \/ Update2Done(p)
         \/ GetVersDone(p) \/ IsAvailableDone(p) \/ OwnFetchDone(p) \/ InstallDone(p)
         \/ ScanDone(p) \/ StageDone(p) \/ ClearDone(p) \/ BootUpdateDone(p)
  PROVE  Kept
<1> USE PointsAre DEF Moves, Enters, HeldAt, RootPoints, BuildPoints, Shared
<1>1. CASE ParseDone(p)
  <2> PICK to : to = IF Top(p).own_fetch THEN "want_root" ELSE "fetch"
    OBVIOUS
  <2>1. EndWith(p, "parsing", ApkLock, to)
    BY <1>1 DEF ParseDone
  <2>2. Moves("parsing", to) /\ Enters(p, to, ApkLock, "parsing")
    OBVIOUS
  <2>3. QED
    BY <2>1, <2>2, EndWithKeeps
<1>2. CASE FetchDone(p)
  BY <1>2, EndWithKeeps DEF FetchDone
<1>3. CASE UpdateDone(p)
  BY <1>3, EndWithKeeps DEF UpdateDone
<1>4. CASE Update2Done(p)
  <2> PICK to : to = AfterDeps(p)
    OBVIOUS
  <2>1. EndWith(p, "updating2", ApkLock, to)
    BY <1>4 DEF Update2Done
  <2>2. Moves("updating2", to) /\ Enters(p, to, ApkLock, "updating2")
    BY DEF AfterDeps
  <2>3. QED
    BY <2>1, <2>2, EndWithKeeps
<1>5. CASE GetVersDone(p)
  BY <1>5, EndWithKeeps DEF GetVersDone
<1>6. CASE IsAvailableDone(p)
  <2>1. CASE EndWith(p, "availing", ApkNoneLock, "avail_target")
    BY <2>1, EndWithKeeps
  <2>2. CASE EndWith(p, "availing_target", ApkLock, "deps")
    BY <2>2, EndWithKeeps
  <2>3. QED
    BY <1>6, <2>1, <2>2 DEF IsAvailableDone
<1>7. CASE OwnFetchDone(p)
  BY <1>7, EndWithKeeps DEF OwnFetchDone
<1>8. CASE InstallDone(p)
  <2> PICK to : to = IF Top(p).missing THEN "update2" ELSE AfterDeps(p)
    OBVIOUS
  <2>1. EndWith(p, "installing", ApkLock, to)
    BY <1>8 DEF InstallDone
  <2>2. Moves("installing", to) /\ Enters(p, to, ApkLock, "installing")
    BY DEF AfterDeps
  <2>3. QED
    BY <2>1, <2>2, EndWithKeeps
<1>9. CASE ScanDone(p)
  BY <1>9, EndWithKeeps DEF ScanDone
<1>10. CASE StageDone(p)
  BY <1>10, EndWithKeeps DEF StageDone
<1>11. CASE ClearDone(p)
  <2>1. EndWith(p, "clearing", StageLock, "release_repo")
    BY <1>11 DEF ClearDone, ClearLocks
  <2>2. Moves("clearing", "release_repo")
    OBVIOUS
  <2>3. RepoLock # StageLock
    BY DEF RepoLock, StageLock
  <2>4. Enters(p, "release_repo", StageLock, "clearing")
    BY <2>3
  <2>5. QED
    BY <2>1, <2>2, <2>4, EndWithKeeps
<1>12. CASE BootUpdateDone(p)
  BY <1>12, EndWithKeeps DEF BootUpdateDone
<1>13. QED
  BY <1>1, <1>2, <1>3, <1>4, <1>5, <1>6, <1>7, <1>8, <1>9, <1>10, <1>11, <1>12

\* Steps without locks.
LEMMA StepActions ==
  ASSUME LocksInv, NEW p \in Procs,
         \/ CleanupWorld(p) \/ Unambiguous(p) \/ Phases(p) \/ Tidy(p) \/ BootClean(p)
  PROVE  Kept
<1> USE PointsAre DEF Moves, Enters, HeldAt, RootPoints, BuildPoints
<1>1. CASE CleanupWorld(p)
  BY <1>1, StepKeeps DEF CleanupWorld
<1>2. CASE Unambiguous(p)
  <2>1. CASE Step(p, "avail", "avail_target")
    BY <2>1, StepKeeps
  <2>2. CASE Step(p, "avail_target", "deps")
    BY <2>2, StepKeeps
  <2>3. QED
    BY <1>2, <2>1, <2>2 DEF Unambiguous
<1>3. CASE Phases(p)
  BY <1>3, StepKeeps DEF Phases
<1>4. CASE Tidy(p)
  BY <1>4, StepKeeps DEF Tidy
<1>5. CASE BootClean(p)
  BY <1>5, StepKeeps DEF BootClean
<1>6. QED
  BY <1>1, <1>2, <1>3, <1>4, <1>5

\* Only builds wait for each other.
LEMMA Alone ==
  ASSUME LocksInv, NEW p \in Procs, NEW pc, At(p, pc), pc \notin BuildPoints
  PROVE  Len(stack[p]) = 1
<1>1. ~(Len(stack[p]) > 1)
  BY DEF LocksInv, Placed, Stacked, At
<1>2. Len(stack[p]) \in Nat /\ Len(stack[p]) > 0
  BY TopIs DEF At
<1>3. \A n \in Nat : n > 0 /\ ~(n > 1) => n = 1
  OBVIOUS
<1>4. QED
  BY <1>1, <1>2, <1>3

LEMMA Fronts ==
  ASSUME NEW S, NEW s \in Seq(S), Len(s) > 1
  PROVE  /\ Front(s) \in Seq(S) /\ Len(Front(s)) = Len(s) - 1
         /\ \A i \in 1..(Len(s) - 1) : Front(s)[i] = s[i]
BY DEF Front

LEMMA FrontOne == ASSUME NEW S, NEW s \in Seq(S), Len(s) = 1 PROVE Front(s) = <<>>
BY DEF Front

\* The end of a command, at its outermost section.
LEMMA EndActions ==
  ASSUME LocksInv, NEW p \in Procs, TargetDone(p) \/ UnlockRepo(p) \/ BootUnlock(p)
  PROVE  Kept
<1> <<>> \in Rest
  BY DEF Rest
<1>1. CASE TargetDone(p)
  <2> PICK pc : pc = "phases"
    OBVIOUS
  <2>1. /\ At(p, pc) /\ Len(stack[p]) = 1 /\ Release(p, RootOf[p])
        /\ stack' = [stack EXCEPT ![p] = <<>>]
    BY <1>1 DEF TargetDone
  <2>2. HeldAt(pc) = {} /\ pc \in RootPoints
    BY DEF HeldAt, RootPoints
  <2>3. QED
    BY <2>1, <2>2, OutermostKeeps
<1>2. CASE UnlockRepo(p)
  <2> PICK pc : pc = "release_repo"
    OBVIOUS
  <2>1. /\ At(p, pc) /\ Release(p, RepoLock) /\ stack' = [stack EXCEPT ![p] = <<>>]
    BY <1>2 DEF UnlockRepo, ClearLocks
  <2>2. HeldAt(pc) = {RepoLock} /\ pc \notin RootPoints /\ pc \notin BuildPoints
        /\ RepoLock \in Shared
    BY DEF HeldAt, RootPoints, BuildPoints, Shared
  <2>3. QED
    BY <2>1, <2>2, Alone, OutermostKeeps
<1>3. CASE BootUnlock(p)
  <2> PICK pc : pc = "boot_leave"
    OBVIOUS
  <2>1. /\ At(p, pc) /\ Release(p, RootOf[p]) /\ stack' = [stack EXCEPT ![p] = <<>>]
    BY <1>3 DEF BootUnlock
  <2>2. HeldAt(pc) = {} /\ pc \in RootPoints /\ pc \notin BuildPoints
    BY DEF HeldAt, RootPoints, BuildPoints
  <2>3. QED
    BY <2>1, <2>2, Alone, OutermostKeeps
<1>4. QED
  BY <1>1, <1>2, <1>3

\* A dependency that is already built is not built again.
LEMMA SkipKeeps ==
  ASSUME LocksInv, NEW p \in Procs, SkipPackage(p)
  PROVE  Kept
<1> PICK pc : pc = "parsing"
  OBVIOUS
<1>1. /\ At(p, pc) /\ Release(p, ApkLock) /\ stack' = [stack EXCEPT ![p] = Front(stack[p])]
      /\ stack[p] \in Seq(Frames) /\ Len(stack[p]) \in Nat /\ Len(stack[p]) > 0 /\ Stacked(p)
      /\ Active(p) /\ Top(p).pc = pc
  BY TopIs DEF SkipPackage, LocksInv, Placed, At
<1>2. HeldAt(pc) = {ApkLock} /\ pc \notin RootPoints /\ ApkLock \in Shared /\ <<>> \in Rest
      /\ pc \in {"parse", "parsing"}
  BY DEF HeldAt, RootPoints, Shared, Rest
<1>3. CASE Len(stack[p]) = 1
  <2>1. Front(stack[p]) = <<>>
    BY <1>1, <1>3, FrontOne
  <2>2. QED
    BY <1>1, <1>2, <1>3, <2>1, OutermostKeeps
<1>4. CASE Len(stack[p]) > 1
  <2> PICK t : t = Front(stack[p])
    OBVIOUS
  <2>1. /\ t \in Seq(Frames) /\ Len(t) = Len(stack[p]) - 1
        /\ \A i \in 1..(Len(stack[p]) - 1) : t[i] = stack[p][i]
    BY <1>1, <1>4, Fronts
  <2>2. Len(t) \in 1..(Len(stack[p]) - 1)
        /\ \A i \in 1..(Len(t) - 1) : i \in 1..(Len(stack[p]) - 1)
    BY <1>1, <1>4, <2>1
  <2>3. /\ t[Len(t)] = stack[p][Len(t)] /\ t[Len(t)].pc = "deps"
        /\ \A i \in 1..(Len(t) - 1) : t[i] = stack[p][i]
    BY <1>1, <2>1, <2>2 DEF Stacked
  <2>4. ~Top(p).missing
    BY <1>1, <1>2 DEF Stacked
  <2>5. QED
    BY <1>1, <1>2, <1>4, <2>1, <2>3, <2>4, ReturnKeeps
<1>5. \A n \in Nat : n > 0 => n = 1 \/ n > 1
  OBVIOUS
<1>6. QED
  BY <1>1, <1>3, <1>4, <1>5

\* The end of _build_locked: of a dependency, or of the whole command.
LEMMA UnlockKeeps ==
  ASSUME LocksInv, NEW p \in Procs, UnlockRoot(p)
  PROVE  Kept
<1> PICK pc : pc = "leave"
  OBVIOUS
<1>1. /\ At(p, pc) /\ Release(p, RootOf[p]) /\ Stacked(p)
      /\ stack[p] \in Seq(Frames) /\ Len(stack[p]) \in Nat /\ Len(stack[p]) > 0
  BY TopIs DEF UnlockRoot, LocksInv, Placed, At
<1>2. HeldAt(pc) = {} /\ pc \in RootPoints
  BY DEF HeldAt, RootPoints
<1>3. CASE Len(stack[p]) = 1
  <2>1. PICK t \in Rest : stack' = [stack EXCEPT ![p] = t]
    <3>1. ~(Len(stack[p]) > 1)
      BY <1>3
    <3>2. QED
      BY <3>1, Zenon DEF UnlockRoot, Rest
  <2>2. QED
    BY <1>1, <1>2, <1>3, <2>1, OutermostKeeps
<1>4. CASE Len(stack[p]) > 1
  <2> DEFINE s == Front(stack[p])
             f == [s[Len(s)] EXCEPT !.missing = TRUE]
             t == [s EXCEPT ![Len(s)] = f]
  <2>1. /\ s \in Seq(Frames) /\ Len(s) = Len(stack[p]) - 1
        /\ \A i \in 1..(Len(stack[p]) - 1) : s[i] = stack[p][i]
    BY <1>1, <1>4, Fronts
  <2>2. stack' = [stack EXCEPT ![p] = t]
    BY <1>4, <2>1 DEF UnlockRoot
  <2> HIDE DEF s
  <2>3. /\ s # <<>> /\ Len(s) \in 1..(Len(stack[p]) - 1) /\ Len(s) \in DOMAIN s
        /\ \A i \in 1..(Len(s) - 1) : i \in 1..(Len(stack[p]) - 1)
    BY <1>1, <1>4, <2>1
  <2>4. s[Len(s)] \in Frames /\ s[Len(s)].pc = "deps"
    BY <1>1, <2>1, <2>3 DEF Stacked
  <2>5. f \in Frames /\ f.pc = "deps" /\ f.missing
    BY <2>4 DEF Frames
  <2> HIDE DEF f
  <2>6. /\ t \in Seq(Frames) /\ Len(t) = Len(s) /\ t[Len(t)] = f
        /\ \A i \in 1..(Len(s) - 1) : t[i] = s[i]
    BY <2>1, <2>3, <2>5, ReplaceLast
  <2> HIDE DEF t
  <2>7. /\ Len(t) = Len(stack[p]) - 1 /\ t[Len(t)].pc = "deps" /\ t[Len(t)].missing
        /\ \A i \in 1..(Len(t) - 1) : t[i] = stack[p][i]
    BY <2>1, <2>3, <2>5, <2>6
  <2>8. QED
    BY <1>1, <1>2, <1>4, <2>2, <2>6, <2>7, ReturnKeeps
<1>5. \A n \in Nat : n > 0 => n = 1 \/ n > 1
  OBVIOUS
<1>6. QED
  BY <1>1, <1>3, <1>4, <1>5
-------------------------------------------------------------------------------
LEMMA InvStep == LocksInv /\ [Next]_vars => LocksInv' /\ [LockNext]_lockVars
<1> SUFFICES ASSUME LocksInv, [Next]_vars PROVE LocksInv' /\ [LockNext]_lockVars
  OBVIOUS
<1>1. CASE UNCHANGED vars
  <2>1. UNCHANGED <<owner, depth, stack>>
    BY <1>1 DEF vars
  <2>2. LocksInv'
    BY <2>1 DEF LocksInv, LocksTypeOK, LockTypeOK, OwnerInside, Placed, Stacked, Counted, Owned,
                Opened, Inside, Active, Top, Last
  <2>3. QED
    BY <2>1, <2>2 DEF lockVars
<1>2. ASSUME Kept PROVE LocksInv' /\ [LockNext]_lockVars
  <2>1. LockTypeOK' /\ OwnerInside'
    BY <1>2, LockTypeStep, OwnerStep DEF Kept, LocksInv, LocksTypeOK
  <2>2. QED
    BY <1>2, <2>1 DEF Kept, LocksInv, LocksTypeOK
<1>3. ASSUME NEW p \in Procs, Proceed(p) PROVE Kept
  BY <1>3, WithActions, EndWithActions, StepActions, EndActions, SkipKeeps, UnlockKeeps,
     CallKeeps, CleanKeeps DEF Proceed
<1>4. ASSUME NEW p \in Procs, Abort(p) PROVE Kept
  BY <1>4, AbortKeeps
<1>5. QED
  BY <1>1, <1>2, <1>3, <1>4 DEF Next, Finished

LEMMA InvInit == Init => LocksInv /\ LockInit
<1> SUFFICES ASSUME Init PROVE LocksInv /\ LockInit
  OBVIOUS
<1>1. /\ LockInit /\ owner = [l \in Paths |-> NoProc]
      /\ depth = [p \in Procs |-> [l \in Paths |-> 0]]
  BY DEF Init, LockInit
<1>2. LockTypeOK /\ OwnerInside
  BY <1>1 DEF LockTypeOK, OwnerInside
<1>3. stack \in [Procs -> Starts] /\ 0 \in 0..MaxDeps
  <2>1. 0 \in 0..MaxDeps
    BY PathsAssumption
  <2>2. QED
    BY <2>1 DEF Init
<1>4. ASSUME NEW p \in Procs
      PROVE  \E w \in Frames : stack[p] = <<w>> /\ w.pc \in {Entry[c] : c \in Commands} /\ ~w.missing
  <2>1. PICK c \in Commands, f \in BOOLEAN : stack[p] = <<Frame(Entry[c], FALSE, f)>>
    <3>1. stack[p] \in Starts
      BY <1>3
    <3>2. QED
      BY <3>1 DEF Starts
  <2> DEFINE w == [pc |-> Entry[c], tried |-> 0, missing |-> FALSE, no_update |-> FALSE,
                   own_fetch |-> f]
  <2>2. w \in Frames /\ w.pc = Entry[c] /\ ~w.missing
    BY <1>3 DEF Frames, Points
  <2>3. stack[p] = <<w>>
    BY <2>1 DEF Frame
  <2>4. QED
    BY <2>2, <2>3
<1>5. stack \in [Procs -> Seq(Frames)]
  <2>1. ASSUME NEW p \in Procs PROVE stack[p] \in Seq(Frames)
    <3>1. PICK w \in Frames : stack[p] = <<w>>
      BY <1>4
    <3>2. <<w>> \in Seq(Frames)
      BY One
    <3>3. QED
      BY <3>1, <3>2
  <2>2. stack = [p \in Procs |-> stack[p]]
    BY <1>3
  <2>3. QED
    BY <2>1, <2>2
<1>6. ASSUME NEW p \in Procs PROVE Placed(p)
  <2>1. PICK w \in Frames : stack[p] = <<w>> /\ w.pc \in {Entry[c] : c \in Commands} /\ ~w.missing
    BY <1>4
  <2>2. HeldAt(w.pc) = {} /\ w.pc \notin RootPoints
    BY <2>1, EntriesAre DEF HeldAt, RootPoints
  <2>3. stack[p] # <<>> /\ Len(stack[p]) = 1 /\ stack[p][1] = w
    BY <2>1, One
  <2>4. Active(p) /\ Top(p) = w
    BY <2>3 DEF Active, Top, Last
  <2>5. Len(stack[p]) - 1 = 0 /\ ~(Len(stack[p]) > 1) /\ \A i \in 1..(Len(stack[p]) - 1) : FALSE
    BY <2>3
  <2>6. Stacked(p)
    BY <2>1, <2>4, <2>5 DEF Stacked
  <2>7. \A l \in Paths : depth[p][l] = 0
    BY <1>1
  <2>8. Counted(p)
    BY <2>2, <2>4, <2>5, <2>7, PathsAssumption DEF Counted
  <2>9. Owned(p)
    BY <2>7, PathsAssumption DEF Owned, Inside
  <2>10. QED
    BY <2>6, <2>8, <2>9 DEF Placed
<1>7. QED
  BY <1>1, <1>2, <1>5, <1>6 DEF LocksInv, LocksTypeOK

LEMMA Invariance == Spec => []LocksInv
BY InvInit, InvStep, PTL DEF Spec
-------------------------------------------------------------------------------
\* build.py, dependencies.py, stage.py: a process is always at a point of the
\* code, with the builds it has begun beneath it.
THEOREM TypeCorrect == Spec => []TypeOK
<1>1. LocksInv => TypeOK
  <2>1. ASSUME LocksInv, NEW p \in Procs, NEW i \in DOMAIN stack[p] PROVE stack[p][i] \in Frames
    <3>1. stack[p] \in Seq(Frames)
      BY <2>1 DEF LocksInv, LocksTypeOK
    <3>2. QED
      BY <2>1, <3>1
  <2>2. QED
    BY <2>1 DEF LocksInv, LocksTypeOK, TypeOK, Frames
<1>2. QED
  BY <1>1, Invariance, PTL

\* flock.py: every behaviour of the commands is a behaviour of the locks, so what
\* the first part shows of them without a condition (NoOrphanLock) holds here.
THEOREM UsesLocks == Spec => LockSpec
BY InvInit, InvStep, Invariance, PTL DEF Spec, LockSpec

\* build.py:240, build.py:817, stage.py:383: sections of the shared directories
\* never overlap: no process nests them, so no close takes a lock away.
THEOREM SharedExclusiveCorrect == Spec => []SharedExclusive
<1>1. LocksInv => SharedExclusive
  BY PathsAssumption DEF LocksInv, Placed, Owned, SharedExclusive, Exclusive
<1>2. QED
  BY <1>1, Invariance, PTL

\* build.py:688, dependencies.py:534: a build root is shared only with a process
\* that has built a missing dependency inside it.
THEOREM RootKeptCorrect == Spec => []RootKept
<1>1. LocksInv => RootKept
  BY DEF LocksInv, Placed, Owned, RootKept
<1>2. QED
  BY <1>1, Invariance, PTL

\* build.py, dependencies.py, stage.py: no set of processes waits in a circle.
THEOREM LockOrderCorrect == Spec => []LockOrder
<1>1. LocksInv => LockOrder
  <2> SUFFICES ASSUME LocksInv, NEW p \in Procs, Active(p), NEW w \in Wanted(p)
               PROVE  \/ owner[w] = p
                      \/ \A l \in Paths : owner[l] = p => l \notin Inner /\ w \in Inner
    BY DEF LockOrder
  <2> PICK pc : pc = Top(p).pc
    OBVIOUS
  <2>1. /\ Stacked(p) /\ Counted(p) /\ Owned(p)
        /\ \A l \in Paths : owner[l] = p => Inside(p, l)
    BY NoProcAssumption DEF LocksInv, Placed, OwnerInside
  <2>2. \A l \in Shared : Inside(p, l) => l \in HeldAt(pc)
    BY <2>1 DEF Counted, Inside
  <2>3. \A l \in Paths \ Shared : Inside(p, l) => l = RootOf[p]
    BY <2>1 DEF Counted, Inside
  <2>4. Inner \subseteq Shared /\ RootOf[p] \notin Shared /\ RepoLock \notin Inner
    BY PathsAssumption DEF Inner, Shared, SrcLock, ApkLock, ApkNoneLock, StageLock, RepoLock
  <2>5. CASE pc = "want_root"
    <3>1. w = RootOf[p] /\ HeldAt(pc) = {}
      BY <2>5 DEF Wanted, HeldAt
    <3>2. QED
      BY <2>1, <2>2, <2>3, <3>1
  <2>6. CASE pc \in {"want_boot", "want_repo"}
    <3>1. HeldAt(pc) = {} /\ pc \notin RootPoints /\ pc \notin BuildPoints
      BY <2>6 DEF HeldAt, RootPoints, BuildPoints
    <3>2. Len(stack[p]) - 1 = 0
      BY <3>1, Alone DEF At
    <3>3. \A l \in Paths : ~Inside(p, l)
      <4>1. depth[p][RootOf[p]] = 0
        BY <2>1, <3>1, <3>2 DEF Counted
      <4>2. QED
        BY <2>2, <2>3, <3>1, <4>1 DEF Inside
    <3>4. QED
      BY <2>1, <3>3
  <2>7. CASE pc \notin {"want_root", "want_boot", "want_repo"}
    <3>1. w \in Inner /\ HeldAt(pc) \subseteq {RepoLock}
      BY <2>7 DEF Wanted, ClearLocks, Inner, HeldAt
    <3>2. QED
      BY <2>1, <2>2, <2>3, <2>4, <3>1
  <2>8. QED
    BY <2>5, <2>6, <2>7
<1>2. QED
  BY <1>1, Invariance, PTL
===============================================================================
