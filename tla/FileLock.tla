------------------------------- MODULE FileLock -------------------------------
(***************************************************************************)
(* cbuild/util/flock.py: advisory locks on paths.                          *)
(*                                                                         *)
(* lock(path) opens the lock file, polls a non-blocking POSIX record lock  *)
(* (fcntl.lockf) once a second until it is granted, runs the caller's      *)
(* section, and then unlocks and closes the descriptor.  Record locks      *)
(* belong to the process and not to the descriptor, so the kernel (which   *)
(* is external to the repository)                                          *)
(*   - grants a lock to a process that already has it, and                 *)
(*   - drops the lock of a process as soon as the process closes ANY       *)
(*     descriptor of the file, whatever sections are still open.           *)
(* The flock(LOCK_UN) before the close acts on the other, unrelated kind   *)
(* of lock and changes nothing here.  While a process polls it holds       *)
(* nothing, so waiting is being at a point where Acquire is not enabled.   *)
(***************************************************************************)
EXTENDS Integers

CONSTANTS Procs,      \* cbuild processes
          Paths,      \* lock files
          NoLock,     \* processes started with --no-lock
          NoProc,     \* no owner
          MaxNest     \* bound: sections of one path a process nests

ASSUME NoLockAssumption == NoLock \subseteq Procs
ASSUME NoProcAssumption == NoProc \notin Procs
ASSUME MaxNestAssumption == MaxNest \in Nat \ {0}

VARIABLES owner,      \* owner[l]: process the kernel has granted l to
          depth       \* depth[p][l]: sections of l that p is inside of

lockVars == <<owner, depth>>

LockInit == /\ owner = [l \in Paths |-> NoProc]
            /\ depth = [p \in Procs |-> [l \in Paths |-> 0]]

\* Faulty variant: the error of the non-blocking lock call is not retried.
LockableUnchecked(p, l) == TRUE

\* fcntl.lockf(fd, LOCK_EX | LOCK_NB) succeeds.
Lockable(p, l) == owner[l] \in {NoProc, p}
-------------------------------------------------------------------------------
\* Entering `with lock(path)`: at once under --no-lock, else when granted.
Acquire(p, l) ==
    /\ depth[p][l] < MaxNest
    /\ depth' = [depth EXCEPT ![p][l] = @ + 1]
    /\ \/ p \in NoLock /\ owner' = owner
       \/ p \notin NoLock /\ Lockable(p, l) /\ owner' = [owner EXCEPT ![l] = p]

\* Faulty variants: the descriptor is never closed (flock(LOCK_UN) alone); the
\* descriptors of all the process's lock files are closed.
CloseFdLeak(p, l) == owner' = owner
CloseFdAll(p, l) == owner' = [k \in Paths |-> IF owner[k] = p THEN NoProc ELSE owner[k]]

\* The close at the end of a section drops the process's lock on the file.
CloseFd(p, l) == owner' = IF p \notin NoLock /\ owner[l] = p
                            THEN [owner EXCEPT ![l] = NoProc]
                            ELSE owner

\* Faulty variant: the clean-up also runs when the section was never entered.
ReleaseAlways(p, l) == /\ depth' = [depth EXCEPT ![p][l] = @ - 1]
                       /\ CloseFd(p, l)

\* Leaving `with lock(path)`, normally or by an exception.
Release(p, l) == /\ depth[p][l] > 0
                 /\ depth' = [depth EXCEPT ![p][l] = @ - 1]
                 /\ CloseFd(p, l)

\* The process ends or is killed: the kernel closes all its descriptors.
Exit(p) == /\ depth' = [depth EXCEPT ![p] = [l \in Paths |-> 0]]
           /\ owner' = [l \in Paths |-> IF owner[l] = p THEN NoProc ELSE owner[l]]

LockNext == \E p \in Procs : \/ Exit(p)
                             \/ \E l \in Paths : Acquire(p, l) \/ Release(p, l)

LockSpec == LockInit /\ [][LockNext]_lockVars
-------------------------------------------------------------------------------
LockTypeOK == /\ owner \in [Paths -> Procs \cup {NoProc}]
              /\ depth \in [Procs -> [Paths -> Nat]]

Inside(p, l) == depth[p][l] > 0

\* flock.lock: two processes that both use the locks are never inside
\* sections of the same path at the same time.
Exclusive(l) == \A p, q \in Procs \ NoLock : Inside(p, l) /\ Inside(q, l) => p = q

AllExclusive == \A l \in Paths : Exclusive(l)

\* flock.lock: a lock the kernel still records belongs to a process that is
\* inside a section of that path: no lock outlives its section or its owner,
\* so a waiter never polls for a lock that nobody will give back.
OwnerInside == \A l \in Paths : owner[l] # NoProc =>
                  owner[l] \in Procs \ NoLock /\ Inside(owner[l], l)

\* What makes AllExclusive inductive when sections do not nest.
SectionOwned == \A p \in Procs \ NoLock, l \in Paths : Inside(p, l) => owner[l] = p
NestOnce == \A p \in Procs, l \in Paths : depth[p][l] <= 1

\* Every lock step is a step of the promised lock.
Promise == INSTANCE PathLock
PromiseSpec == Promise!Spec
===============================================================================
