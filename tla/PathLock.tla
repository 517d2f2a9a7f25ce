------------------------------- MODULE PathLock -------------------------------
(***************************************************************************)
(* What a `with flock.lock(path)` section promises its caller: while a     *)
(* process is inside a section of a path, no other process that uses the   *)
(* locks is inside a section of the same path.  Sections of one process    *)
(* may nest.  FileLock is the lock cbuild really takes; it implements this *)
(* specification as long as no process nests two sections of one path.     *)
(***************************************************************************)
EXTENDS Naturals

CONSTANTS Procs,      \* cbuild processes
          Paths,      \* lock files
          NoLock      \* processes started with --no-lock

VARIABLE depth        \* depth[p][l]: sections of l that p is inside of

\* May p enter a section of l: nobody else who uses the locks is in one.
Free(p, l) == p \in NoLock \/ \A q \in Procs \ (NoLock \cup {p}) : depth[q][l] = 0

Init == depth = [p \in Procs |-> [l \in Paths |-> 0]]

Enter(p, l) == /\ Free(p, l)
               /\ depth' = [depth EXCEPT ![p][l] = @ + 1]

Leave(p, l) == /\ depth[p][l] > 0
               /\ depth' = [depth EXCEPT ![p][l] = @ - 1]

\* The end of a process, by itself or by a signal, ends all its sections.
Die(p) == depth' = [depth EXCEPT ![p] = [l \in Paths |-> 0]]

Next == \E p \in Procs : Die(p) \/ \E l \in Paths : Enter(p, l) \/ Leave(p, l)

Spec == Init /\ [][Next]_depth
===============================================================================
