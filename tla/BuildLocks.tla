------------------------------ MODULE BuildLocks ------------------------------
(***************************************************************************)
(* The locks concurrent cbuild invocations take, and when.                 *)
(*                                                                         *)
(* Several processes share the sources directory, the apk cache, the stage *)
(* repository, the final repository and, unless they run with -t, the      *)
(* build root.  Each runs one command:                                     *)
(*   "pkg"       build.build for a template, which builds missing          *)
(*               dependencies recursively, then stage.clear                *)
(*   "unstage"   stage.clear                                               *)
(*   "bootstrap-update"   chroot.cleanup_world and chroot.update           *)
(*   "clean"     chroot.cleanup_world, under no lock at all                *)
(* A process is a stack of frames, one per build in progress; a frame is   *)
(* at a point of build.py or dependencies.py.  Whether a dependency is     *)
(* missing, a version ambiguous or a package already built is left open.   *)
(***************************************************************************)
EXTENDS FileLock, Sequences, SequencesExt

CONSTANTS RootOf,     \* RootOf[p]: lock file of the build root p works in
          MaxDepth,   \* bound: builds in progress in one process
          MaxDeps     \* bound: missing dependencies of one build

SrcLock == "sources/cbuild.lock"
ApkLock == "apk-host.lock"
ApkNoneLock == "apk-None.lock"
StageLock == "pkgstage/cbuild.lock"
RepoLock == "packages/cbuild.lock"
Shared == {SrcLock, ApkLock, ApkNoneLock, StageLock, RepoLock}

ASSUME PathsAssumption ==
    /\ Shared \subseteq Paths
    /\ RootOf \in [Procs -> Paths \ Shared]
    /\ MaxDepth \in Nat \ {0} /\ MaxDeps \in Nat
    /\ MaxNest >= MaxDepth

VARIABLE stack        \* stack[p]: frames of p, the running one last

vars == <<owner, depth, stack>>

Commands == {"pkg", "unstage", "bootstrap-update", "clean"}

\* First point of a command.
Entry == [c \in Commands |->
            CASE c = "pkg" -> "parse" [] c = "unstage" -> "want_repo"
              [] c = "bootstrap-update" -> "want_boot" [] c = "clean" -> "clean"]

\* A frame: its point; the missing dependencies tried so far and whether one
\* of them was really built; the no_update flag of build.build; whether the
\* template has a fetch() of its own, which then runs inside the root lock.
Frame(pc, no_update, own_fetch) ==
    [pc |-> pc, tried |-> 0, missing |-> FALSE, no_update |-> no_update,
     own_fetch |-> own_fetch]

Active(p) == stack[p] # <<>>
Top(p) == Last(stack[p])
At(p, pc) == Active(p) /\ Top(p).pc = pc
Goto(p, pc) == stack' = [stack EXCEPT ![p][Len(stack[p])].pc = pc]

\* Enter and leave a `with flock.lock(l)` block between two points.
With(p, from, l, to) == At(p, from) /\ Acquire(p, l) /\ Goto(p, to)
EndWith(p, from, l, to) == At(p, from) /\ Release(p, l) /\ Goto(p, to)
\* A step that touches no lock.
Step(p, from, to) == At(p, from) /\ Goto(p, to) /\ UNCHANGED lockVars

Starts == UNION {{<<Frame(Entry[c], FALSE, f)>> : f \in BOOLEAN} : c \in Commands}
Init == LockInit /\ stack \in [Procs -> Starts]
-------------------------------------------------------------------------------
\* Template.is_built, queried by the constructor.
IsBuilt(p) == With(p, "parse", ApkLock, "parsing")
ParseDone(p) ==
    EndWith(p, "parsing", ApkLock, IF Top(p).own_fetch THEN "want_root" ELSE "fetch")
\* SkipPackage: already built, so this build is over before it starts.
SkipPackage(p) ==
    /\ At(p, "parsing") /\ Release(p, ApkLock)
    /\ stack' = [stack EXCEPT ![p] = Front(@)]

\* build.invoke_fetch: the whole sources directory is locked, before the root
\* lock is taken or, for a fetch() of the template, inside it.
InvokeFetch(p) == With(p, "fetch", SrcLock, "fetching")
FetchDone(p) == EndWith(p, "fetching", SrcLock, "want_root")
OwnFetch(p) == With(p, "own_fetch", SrcLock, "own_fetching")
OwnFetchDone(p) == EndWith(p, "own_fetching", SrcLock, "phases")
\* The point after the dependencies.
AfterDeps(p) == IF Top(p).own_fetch THEN "own_fetch" ELSE "phases"

\* build._build enters _build_locked; a dirty build, which is never the build
\* of a dependency, leaves the packages in the root alone.
LockRoot(p) ==
    With(p, "want_root", RootOf[p], IF Top(p).no_update THEN "cleanup" ELSE "update")
LockRootDirty(p) ==
    Len(stack[p]) = 1 /\ With(p, "want_root", RootOf[p], AfterDeps(p))

\* chroot.update under the apk lock, before the dependencies and, when one of
\* them was built, again after them.
Update(p) == With(p, "update", ApkLock, "updating")
UpdateDone(p) == EndWith(p, "updating", ApkLock, "cleanup")
Update2(p) == With(p, "update2", ApkLock, "updating2")
Update2Done(p) == EndWith(p, "updating2", ApkLock, AfterDeps(p))

\* chroot.cleanup_world, which here only prepares paths: no apk transaction.
CleanupWorld(p) == Step(p, "cleanup", "query")

\* dependencies._get_vers.
GetVers(p) == With(p, "query", ApkLock, "querying")
GetVersDone(p) == EndWith(p, "querying", ApkLock, "avail")

\* dependencies._is_available asks the repositories one by one when it sees
\* several versions: for host dependencies arch is None, and so is the name in
\* the lock file's path; for target and runtime dependencies it is tarch.
IsAvailable(p) == \/ With(p, "avail", ApkNoneLock, "availing")
                  \/ With(p, "avail_target", ApkLock, "availing_target")
IsAvailableDone(p) == \/ EndWith(p, "availing", ApkNoneLock, "avail_target")
                      \/ EndWith(p, "availing_target", ApkLock, "deps")
Unambiguous(p) == Step(p, "avail", "avail_target") \/ Step(p, "avail_target", "deps")

\* Faulty variant: the loop over the missing dependencies runs once too often.
BuildDepAgain(p) ==
    /\ At(p, "deps")
    /\ Len(stack[p]) < MaxDepth /\ Top(p).tried <= MaxDeps
    /\ stack' = [stack EXCEPT ![p] = Append([@ EXCEPT ![Len(stack[p])].tried = Top(p).tried + 1],
                                             Frame("parse", ~Top(p).missing, FALSE))]
    /\ UNCHANGED lockVars

\* dependencies.install builds a missing dependency: Template(...), then
\* build.build, without an update of the root unless an earlier one was built.
BuildDep(p) ==
    /\ At(p, "deps")
    /\ Len(stack[p]) < MaxDepth /\ Top(p).tried < MaxDeps
    /\ \E f \in BOOLEAN :
         stack' = [stack EXCEPT ![p] =
                     Append([@ EXCEPT ![Len(stack[p])].tried = Top(p).tried + 1],
                            Frame("parse", ~Top(p).missing, f))]
    /\ UNCHANGED lockVars

\* dependencies.install installs the dependencies.
Install(p) == With(p, "deps", ApkLock, "installing")
InstallDone(p) ==
    EndWith(p, "installing", ApkLock, IF Top(p).missing THEN "update2" ELSE AfterDeps(p))

\* The phases from extract to install, inside the build root.
Phases(p) == Step(p, "phases", "prepkg")
\* A target before "pkg" is reached: _build_locked returns early.
TargetDone(p) ==
    /\ At(p, "phases") /\ Len(stack[p]) = 1
    /\ Release(p, RootOf[p]) /\ stack' = [stack EXCEPT ![p] = <<>>]

\* build.invoke_prepkg: the runtime dependency hook queries apk.
ScanDeps(p) == With(p, "prepkg", ApkLock, "scanning")
ScanDone(p) == EndWith(p, "scanning", ApkLock, "stage")

\* Package generation and staging are parts of the same lock.
LockStage(p) == With(p, "stage", StageLock, "staging")
StageDone(p) == EndWith(p, "staging", StageLock, "tidy")

\* The cleanup after a build, then the end of the `with` around it: back to
\* the build that needed this package, or to do_unstage unless --stage.
Tidy(p) == Step(p, "tidy", "leave")
UnlockRoot(p) ==
    /\ At(p, "leave") /\ Release(p, RootOf[p])
    /\ IF Len(stack[p]) > 1
         THEN stack' = [stack EXCEPT ![p] =
                          [Front(@) EXCEPT ![Len(stack[p]) - 1].missing = TRUE]]
         ELSE \E s \in {<<>>, <<Frame("want_repo", FALSE, FALSE)>>} :
                stack' = [stack EXCEPT ![p] = s]
-------------------------------------------------------------------------------
\* Faulty variants of stage.clear: the locks in the other order, and a stage
\* lock that is kept when the repositories are cleared.
ClearLocksSwapped == <<StageLock, RepoLock>>
ClearDoneLeak(p) == Step(p, "clearing", "release_repo")

\* stage.clear: the repository lock, then the stage lock inside it.
ClearLocks == <<RepoLock, StageLock>>
LockRepo(p) == With(p, "want_repo", ClearLocks[1], "want_stage")
Clear(p) == With(p, "want_stage", ClearLocks[2], "clearing")
ClearDone(p) == EndWith(p, "clearing", ClearLocks[2], "release_repo")
UnlockRepo(p) ==
    /\ At(p, "release_repo") /\ Release(p, ClearLocks[1])
    /\ stack' = [stack EXCEPT ![p] = <<>>]

\* runner.bootstrap_update.
BootLock(p) == With(p, "want_boot", RootOf[p], "boot_clean")
BootClean(p) == Step(p, "boot_clean", "boot_update")
BootUpdate(p) == With(p, "boot_update", ApkLock, "boot_updating")
BootUpdateDone(p) == EndWith(p, "boot_updating", ApkLock, "boot_leave")
BootUnlock(p) ==
    /\ At(p, "boot_leave") /\ Release(p, RootOf[p])
    /\ stack' = [stack EXCEPT ![p] = <<>>]

\* runner.do_clean and do_remove_autodeps.
Clean(p) == At(p, "clean") /\ stack' = [stack EXCEPT ![p] = <<>>] /\ UNCHANGED lockVars

\* An exception anywhere unwinds every `with` of the process; so does a kill.
Abort(p) == Active(p) /\ Exit(p) /\ stack' = [stack EXCEPT ![p] = <<>>]

Proceed(p) ==
    \/ IsBuilt(p) \/ ParseDone(p) \/ InvokeFetch(p) \/ FetchDone(p) \/ LockRoot(p)
    \/ LockRootDirty(p) \/ TargetDone(p) \/ Update(p) \/ UpdateDone(p) \/ Update2(p) \/ Update2Done(p) \/ CleanupWorld(p)
    \/ GetVers(p) \/ GetVersDone(p) \/ IsAvailable(p) \/ IsAvailableDone(p)
    \/ Unambiguous(p) \/ BuildDep(p) \/ SkipPackage(p) \/ OwnFetch(p) \/ OwnFetchDone(p)
    \/ Install(p) \/ InstallDone(p)
    \/ Phases(p) \/ ScanDeps(p) \/ ScanDone(p) \/ LockStage(p) \/ StageDone(p)
    \/ Tidy(p) \/ UnlockRoot(p) \/ LockRepo(p) \/ Clear(p) \/ ClearDone(p)
    \/ UnlockRepo(p) \/ BootLock(p) \/ BootClean(p) \/ BootUpdate(p)
    \/ BootUpdateDone(p) \/ BootUnlock(p) \/ Clean(p)

\* Every command has ended.
Finished == (\A p \in Procs : ~Active(p)) /\ UNCHANGED vars

Next == (\E p \in Procs : Proceed(p) \/ Abort(p)) \/ Finished

Spec == Init /\ [][Next]_vars

\* A process keeps running, and its one-second poll of a free lock succeeds.
FairSpec == Spec /\ \A p \in Procs : WF_vars(Proceed(p))
-------------------------------------------------------------------------------
Points == {Entry[c] : c \in Commands} \cup
    {"parsing", "fetch", "fetching", "want_root", "update", "updating", "cleanup",
     "query", "querying", "avail", "availing", "avail_target", "availing_target", "deps",
     "installing", "update2", "updating2", "own_fetch", "own_fetching", "phases", "prepkg", "scanning",
     "stage", "staging", "tidy", "leave", "want_stage", "clearing", "release_repo",
     "boot_clean", "boot_update", "boot_updating", "boot_leave"}

TypeOK == /\ LockTypeOK
          /\ \A p \in Procs : \A i \in DOMAIN stack[p] :
               stack[p][i] \in [pc : Points, tried : 0..MaxDeps, missing : BOOLEAN,
                                no_update : BOOLEAN, own_fetch : BOOLEAN]

\* The lock a process polls for at its present point.
Wanted(p) ==
    LET pc == Top(p).pc IN
    CASE pc \in {"want_root", "want_boot"} -> {RootOf[p]}
      [] pc = "want_repo" -> {ClearLocks[1]}
      [] pc = "want_stage" -> {ClearLocks[2]}
      [] pc = "stage" -> {StageLock}
      [] pc \in {"fetch", "own_fetch"} -> {SrcLock}
      [] pc = "avail" -> {ApkNoneLock}
      [] pc \in {"parse", "update", "update2", "query", "avail_target", "deps", "prepkg",
                 "boot_update"} -> {ApkLock}
      [] OTHER -> {}

\* The build root lock and the repository lock are outer locks, all others
\* are inner ones: nothing is locked inside them.
Inner == {SrcLock, ApkLock, ApkNoneLock, StageLock}

\* build.py, dependencies.py, stage.py: every process waits for a lock it
\* already owns, or owns no inner lock and waits for an inner one, or owns no
\* lock at all.  So no set of processes can wait for each other.
LockOrder == \A p \in Procs : Active(p) => \A w \in Wanted(p) :
    \/ owner[w] = p
    \/ \A l \in Paths : owner[l] = p => l \notin Inner /\ w \in Inner

\* build.py:240, build.py:817, stage.py:383: the sections of the shared
\* directories never overlap, however deep the builds nest.
SharedExclusive == \A l \in Shared : Exclusive(l)

\* build.py:688: two processes are never inside _build_locked (or
\* bootstrap_update) of the same build root.
RootExclusive == \A l \in Paths \ Shared : Exclusive(l)

\* build.py:688, dependencies.py:534: only the build of a missing dependency
\* opens a build root to others: a process that has not finished one inside
\* it is alone there with processes that have.
Opened(p) == \E i \in DOMAIN stack[p] : stack[p][i].missing
RootKept == \A l \in Paths \ Shared, p, q \in Procs \ NoLock :
    Inside(p, l) /\ Inside(q, l) /\ p # q => Opened(p) \/ Opened(q)

\* Every command comes to its end: no lock is waited for forever.
Termination == \A p \in Procs : <>(~Active(p))
===============================================================================
