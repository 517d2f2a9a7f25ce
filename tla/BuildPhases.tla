----------------------------- MODULE BuildPhases -----------------------------
(***************************************************************************)
(* cbuild/core/build.py and pkg.py: the phases of one template's build and *)
(* what they leave on disk, over any number of runs.                       *)
(*                                                                         *)
(* A run goes through the phases in order.  A phase that ends well leaves  *)
(* a sentinel file in the state directory; a run that finds the sentinel   *)
(* skips the phase.  Runs differ in their options (-D, -f, -K, the target, *)
(* the check flags), may fail in any phase, and may be killed between any  *)
(* two file system operations.                                             *)
(*                                                                         *)
(* The data of a phase is abstracted to how complete it is, a destination  *)
(* directory to whether it holds exactly what one install put there.       *)
(***************************************************************************)
EXTENDS Naturals

CONSTANTS Main,        \* the main package
          Subs,        \* the declared subpackages (subpkg_list)
          Autos,       \* the packages split off automatically (-dbg, -doc...)
          Templates,   \* template attributes to consider
          Runs,        \* command line options to consider
          MaxKills     \* bound: runs killed between two operations

Declared == {Main} \cup Subs
Packages == Declared \cup Autos

\* Phases with a sentinel whose outcome is in the sources or build directory.
WorkPhases == {"fetch", "extract", "prepare", "patch", "configure", "build", "check"}
Targets == WorkPhases \cup {"deps", "install", "pkg"}
Sentinels == WorkPhases \cup {"install"}

TemplateOptions == [stage0 : BOOLEAN, prepare_after_patch : BOOLEAN, own_fetch : BOOLEAN]
RunOptions == [dirty : BOOLEAN, force : BOOLEAN, keep : BOOLEAN, step : Targets,
               check : {"skip", "run", "allow_fail"}]
\* runner.py's defaults.
Defaults == [dirty |-> FALSE, force |-> FALSE, keep |-> FALSE, step |-> "pkg",
             check |-> "run"]

ASSUME PackagesAssumption == Main \notin Subs \cup Autos /\ Subs \cap Autos = {}
ASSUME TemplatesAssumption == Templates \subseteq TemplateOptions
ASSUME RunsAssumption == Runs \subseteq RunOptions
ASSUME MaxKillsAssumption == MaxKills \in Nat

VARIABLES
    tmpl,     \* the template
    work,     \* work[f]: "none", "part" (begun), "done"
    done,     \* phases with a sentinel file in the state directory
    prepkg,   \* packages with a prepkg sentinel there
    dest,     \* dest[p]: "none", "part", "full", "mixed" (with older files)
    ph, sub,  \* current phase, point in it; "idle" between runs
    opt,      \* options of the current run
    all,      \* subpkg_all
    hooked,   \* packages the pkg hooks ran for in this run (in memory only)
    ran,      \* auxiliary: work phases run to the end by this run
    todo,     \* packages a loop of the current phase has not reached
    kills     \* runs killed so far

disk == <<work, done, prepkg, dest>>
mem == <<opt, all, hooked, ran, todo>>
vars == <<tmpl, kills, work, done, prepkg, dest, ph, sub, mem>>

\* _build: the conditions under which leftovers are removed first.
Clean == ~opt.dirty /\ ~tmpl.stage0

Init == /\ tmpl \in Templates
        /\ work = [f \in WorkPhases |-> "none"]
        /\ done = {} /\ prepkg = {} /\ dest = [p \in Packages |-> "none"]
        /\ ph = "idle" /\ sub = "enter" /\ opt = Defaults
        /\ all = {} /\ hooked = {} /\ ran = {} /\ todo = {} /\ kills = 0

At(f, s) == ph = f /\ sub = s
Goto(f, s) == ph' = f /\ sub' = s

\* The order of the phases in _build and _build_locked.
After(f) ==
    CASE f = "start" -> IF tmpl.own_fetch THEN "deps" ELSE "fetch"
      [] f = "fetch" -> IF tmpl.own_fetch THEN "extract" ELSE "deps"
      [] f = "deps" -> IF tmpl.own_fetch THEN "fetch" ELSE "extract"
      [] f = "extract" -> IF tmpl.prepare_after_patch THEN "patch" ELSE "prepare"
      [] f = "prepare" -> IF tmpl.prepare_after_patch THEN "configure" ELSE "patch"
      [] f = "patch" -> IF tmpl.prepare_after_patch THEN "prepare" ELSE "configure"
      [] f = "configure" -> "build"
      [] f = "build" -> "check"
      [] f = "check" -> IF tmpl.stage0 THEN "install" ELSE "preinstall"
      [] f = "preinstall" -> "install"

\* The entry point of a phase.
Enter(f) == CASE f = "start" -> "src" [] f = "preinstall" -> "dest" [] OTHER -> "enter"

\* The end of a run, for better or worse: only the disk remains.
Over == /\ Goto("idle", "enter") /\ opt' = Defaults
        /\ all' = {} /\ hooked' = {} /\ ran' = {} /\ todo' = {}

\* _step_sentinel: the end of phase f, the last one if it is the target.
Leave(f, newRan) == IF opt.step = f
                      THEN Over
                      ELSE /\ Goto(After(f), Enter(After(f)))
                           /\ ran' = newRan
                           /\ UNCHANGED <<opt, all, hooked, todo>>

\* -f makes a phase run again if it is the target.
Forced(f) == opt.force /\ opt.step = f
-------------------------------------------------------------------------------
\* build.build: a new run, which removes the leftovers or not.
StartRun(o) ==
    /\ ph = "idle"
    /\ opt' = o
    /\ LET f == IF o.dirty \/ tmpl.stage0 THEN After("start") ELSE "start" IN Goto(f, Enter(f))
    /\ UNCHANGED <<tmpl, kills, disk, all, hooked, ran, todo>>

\* A removal that may be cut short by a kill passes through partial states.
CanKill == kills < MaxKills

\* What remove_pkg_wrksrc removes with the build directory.
InSrcdir == WorkPhases \ (IF tmpl.own_fetch THEN {"check"} ELSE {"check", "fetch"})
EmptySrcdir == \A f \in InSrcdir : work[f] = "none"

\* pkg.remove_pkg_wrksrc: rmtree, which may be cut short.
RemoveSrcPart ==
    /\ sub = "src" /\ CanKill
    /\ work' = [f \in WorkPhases |-> IF f \in InSrcdir /\ work[f] = "done" THEN "part" ELSE work[f]]
    /\ UNCHANGED <<tmpl, kills, prepkg, done, dest, ph, sub, mem>>

\* Faulty variant: the build directory is only removed after a build.
RemoveSrcLate ==
    /\ sub = "src"
    /\ work' = [f \in WorkPhases |-> IF f \in InSrcdir /\ ph = "cleanup" THEN "none" ELSE work[f]]
    /\ sub' = "dest"
    /\ UNCHANGED <<tmpl, kills, prepkg, done, dest, ph, mem>>
RemoveSrc ==
    /\ sub = "src"
    /\ work' = [f \in WorkPhases |-> IF f \in InSrcdir THEN "none" ELSE work[f]]
    /\ sub' = "dest"
    /\ UNCHANGED <<tmpl, kills, prepkg, done, dest, ph, mem>>

\* Faulty variant: the state directory is kept by the cleanup.
AfterRemovePkgNoState ==
    IF ph = "preinstall" THEN Goto("install", "enter")
    ELSE IF ph = "start" THEN Goto(After("start"), Enter(After("start")))
    ELSE Goto(ph, "state")

\* The point after remove_pkg: the state directory follows, or the install.
AfterRemovePkg == IF ph = "preinstall" THEN Goto("install", "enter") ELSE Goto(ph, "state")

\* Faulty variant: a dirty run keeps the destination directories.
RemovePkgNoneDirty ==
    /\ sub = "dest" /\ (dest[Main] = "none" \/ opt.dirty)
    /\ AfterRemovePkg
    /\ UNCHANGED <<tmpl, kills, disk, mem>>

\* pkg.remove_pkg: nothing to do without a main destination directory.
RemovePkgNone ==
    /\ sub = "dest" /\ dest[Main] = "none"
    /\ AfterRemovePkg
    /\ UNCHANGED <<tmpl, kills, disk, mem>>

\* remove_state unlinks the prepkg sentinels of the declared packages...
RemoveState ==
    /\ sub = "dest" /\ dest[Main] # "none"
    /\ \E p \in Declared : p \in prepkg /\ prepkg' = prepkg \ {p}
    /\ UNCHANGED <<tmpl, kills, work, done, dest, ph, sub, mem>>
RemoveStateEnd ==
    /\ sub = "dest" /\ dest[Main] # "none"
    /\ Declared \cap prepkg = {}
    /\ sub' = "rmdest"
    /\ UNCHANGED <<tmpl, kills, disk, ph, mem>>

\* ...then rmtree(destdir_base) takes the directories in any order...
RemoveDest(p) ==
    /\ sub = "rmdest" /\ dest[p] # "none"
    /\ dest' = [dest EXCEPT ![p] = IF @ = "part" THEN "none" ELSE "part"]
    /\ UNCHANGED <<tmpl, kills, prepkg, work, done, ph, sub, mem>>

\* ...and the install sentinel goes last.
RemovePkgEnd ==
    /\ sub = "rmdest" /\ \A p \in Packages : dest[p] = "none"
    /\ done' = done \ {"install"}
    /\ AfterRemovePkg
    /\ UNCHANGED <<tmpl, kills, prepkg, work, dest, mem>>

\* pkg.remove_pkg_statedir: rmtree, which may be cut short.
RemoveStatedirPart ==
    /\ sub = "state" /\ CanKill
    /\ \/ (\E d \in done : done' = done \ {d}) /\ prepkg' = prepkg
       \/ (\E p \in prepkg : prepkg' = prepkg \ {p}) /\ done' = done
    /\ UNCHANGED <<tmpl, kills, work, dest, ph, sub, mem>>
RemoveStatedir ==
    /\ sub = "state"
    /\ done' = {} /\ prepkg' = {}
    /\ IF ph = "start" THEN /\ Goto(After("start"), Enter(After("start")))
                            /\ UNCHANGED <<mem>>
                       ELSE Over
    /\ UNCHANGED <<tmpl, kills, work, dest>>
-------------------------------------------------------------------------------
\* The condition under which an invoke_* function returns at once.  Only
\* configure, build and check can be forced.
Skipped(f) == \/ /\ f \in done
                 /\ ~(f \in {"configure", "build", "check"} /\ Forced(f))
              \/ f = "check" /\ opt.check = "skip"

Skip(f) == /\ At(f, "enter") /\ Skipped(f)
           /\ Leave(f, ran)
           /\ UNCHANGED <<tmpl, kills, disk>>

\* The extract hook refuses a build directory that is not empty; a template
\* whose fetch() fills that directory has an extract() of its own instead.
Refused(f) == f = "extract" /\ ~tmpl.own_fetch /\ ~EmptySrcdir

\* Faulty variant: the sentinel is written before the phase runs.
StartEarly(f) == /\ At(f, "enter") /\ ~Skipped(f) /\ ~Refused(f)
                 /\ work' = [work EXCEPT ![f] = "part"]
                 /\ done' = done \cup {f}
                 /\ sub' = "run"
                 /\ UNCHANGED <<tmpl, kills, prepkg, dest, ph, mem>>

\* The functions and hooks of the phase run...
Start(f) == /\ At(f, "enter") /\ ~Skipped(f) /\ ~Refused(f)
            /\ work' = [work EXCEPT ![f] = "part"]
            /\ sub' = "run"
            /\ UNCHANGED <<tmpl, kills, prepkg, done, dest, ph, mem>>

\* Faulty variant: the sentinel is named after the target.
FinishTarget(f) == /\ At(f, "run")
                   /\ work' = [work EXCEPT ![f] = "done"]
                   /\ done' = done \cup {opt.step}
                   /\ Leave(f, ran \cup {f})
                   /\ UNCHANGED <<tmpl, kills, prepkg, dest>>

\* ...and end well (or check fails and is allowed to): the sentinel.
Finish(f) == /\ At(f, "run")
             /\ work' = [work EXCEPT ![f] = "done"]
             /\ done' = done \cup {f}
             /\ Leave(f, ran \cup {f})
             /\ UNCHANGED <<tmpl, kills, prepkg, dest>>

\* Faulty variant: the sentinel is written in a `finally`.
FailPhaseTouch(f) == /\ At(f, "run") /\ done' = done \cup {f}
                     /\ Over
                     /\ UNCHANGED <<tmpl, kills, work, prepkg, dest>>

\* An exception in a phase, or in the init_* function and the hooks that run
\* before the sentinel is looked at.  Extraction goes through a temporary
\* directory, so that it may leave no trace.
FailPhase(f) ==
    /\ At(f, "run") \/ (At(f, "enter") /\ ~(f = "check" /\ opt.check = "skip"))
    /\ \/ work' = work
       \/ f = "extract" /\ sub = "run" /\ work' = [work EXCEPT ![f] = "none"]
    /\ Over
    /\ UNCHANGED <<tmpl, kills, prepkg, done, dest>>

\* chroot.update, cleanup_world and dependencies.install, or nothing if dirty.
Deps == /\ At("deps", "enter")
        /\ Leave("deps", ran)
        /\ UNCHANGED <<tmpl, kills, disk>>
FailDeps == /\ At("deps", "enter") /\ (~opt.dirty \/ opt.step = "deps")
            /\ Over
            /\ UNCHANGED <<tmpl, kills, disk>>
-------------------------------------------------------------------------------
\* The declared packages, and the automatic ones whose directory exists.
Existing == Declared \cup {p \in Autos : dest[p] # "none"}

\* The end of invoke_install: subpkg_all is known.
LeaveInstall == IF opt.step = "install"
                  THEN Over
                  ELSE /\ Goto("pkg", "enter")
                       /\ all' = Existing /\ todo' = Existing
                       /\ UNCHANGED <<opt, hooked, ran>>

\* invoke_install of what was installed before.
InstallSkip ==
    /\ At("install", "enter") /\ "install" \in done /\ ~Forced("install")
    /\ LeaveInstall
    /\ UNCHANGED <<tmpl, kills, disk>>

\* A fresh main directory, then the install functions.
InstallStart ==
    /\ At("install", "enter") /\ ~("install" \in done /\ ~Forced("install"))
    /\ dest' = [dest EXCEPT ![Main] = "part"]
    /\ sub' = "subs" /\ todo' = Subs
    /\ UNCHANGED <<tmpl, kills, prepkg, work, done, ph, opt, all, hooked, ran>>

\* Faulty variant: what a subpackage's directory holds is not removed first.
InstallSubKeep(p) ==
    /\ At("install", "subs") /\ p \in todo
    /\ dest' = [dest EXCEPT ![p] = IF @ = "none" THEN "full" ELSE "mixed"]
    /\ todo' = todo \ {p}
    /\ UNCHANGED <<tmpl, kills, prepkg, work, done, ph, sub, opt, all, hooked, ran>>

\* _invoke_subpkg: a fresh directory, filled from the main one.
InstallSub(p) ==
    /\ At("install", "subs") /\ p \in todo
    /\ dest' = [dest EXCEPT ![p] = IF @ = "part" THEN "full" ELSE "part"]
    /\ todo' = IF dest[p] = "part" THEN todo \ {p} ELSE todo
    /\ UNCHANGED <<tmpl, kills, prepkg, work, done, ph, sub, opt, all, hooked, ran>>
InstallMain ==
    /\ At("install", "subs") /\ todo = {}
    /\ dest' = [dest EXCEPT ![Main] = "full"]
    /\ sub' = "split" /\ todo' = Autos
    /\ UNCHANGED <<tmpl, kills, prepkg, work, done, ph, opt, all, hooked, ran>>

\* _split_auto: what matches is moved into the automatic package's directory,
\* next to whatever is already there; an empty one is removed.
SplitAuto(p, match) ==
    /\ At("install", "split") /\ p \in todo
    /\ dest' = [dest EXCEPT ![p] = IF @ # "none" THEN "mixed"
                                   ELSE IF match THEN "full" ELSE "none"]
    /\ todo' = todo \ {p}
    /\ UNCHANGED <<tmpl, kills, prepkg, work, done, ph, sub, opt, all, hooked, ran>>
InstallEnd ==
    /\ At("install", "split") /\ todo = {}
    /\ done' = done \cup {"install"}
    /\ LeaveInstall
    /\ UNCHANGED <<tmpl, kills, prepkg, work, dest>>
FailInstall == /\ ph = "install"
               /\ Over
               /\ UNCHANGED <<tmpl, kills, disk>>
-------------------------------------------------------------------------------
\* _invoke_prepkg: the pkg hooks run unless a sentinel says they did.
PrepkgSkip(p) ==
    /\ At("pkg", "enter") /\ p \in todo
    /\ p \in prepkg /\ ~opt.force
    /\ todo' = todo \ {p}
    /\ UNCHANGED <<tmpl, kills, disk, ph, sub, opt, all, hooked, ran>>
PrepkgRun(p) ==
    /\ At("pkg", "enter") /\ p \in todo
    /\ p \notin prepkg \/ opt.force
    /\ hooked' = hooked \cup {p} /\ prepkg' = prepkg \cup {p}
    /\ todo' = todo \ {p}
    /\ UNCHANGED <<tmpl, kills, work, done, dest, ph, sub, opt, all, ran>>
FailPkg == /\ ph \in {"pkg", "gen", "index"}
           /\ Over
           /\ UNCHANGED <<tmpl, kills, disk>>
PrepkgEnd ==
    /\ At("pkg", "enter") /\ todo = {}
    /\ Goto("gen", "enter")
    /\ UNCHANGED <<tmpl, kills, disk, mem>>

\* make gen packs every destination directory; the stage is indexed after.
Gen == /\ At("gen", "enter") /\ \A p \in all : dest[p] # "none"
       /\ Goto("index", "enter")
       /\ UNCHANGED <<tmpl, kills, disk, mem>>
Index == /\ At("index", "enter")
         /\ IF opt.keep THEN Over
                        ELSE /\ Goto("cleanup", "src")
                             /\ UNCHANGED <<mem>>
         /\ UNCHANGED <<tmpl, kills, disk>>

\* SIGKILL, an interrupt or a power loss.
Killed == /\ CanKill /\ ph # "idle"
          /\ kills' = kills + 1
          /\ Over
          /\ UNCHANGED <<tmpl, disk>>

Next == \/ \E o \in Runs : StartRun(o)
        \/ RemoveSrcPart \/ RemoveSrc \/ RemovePkgNone \/ RemoveState
        \/ RemoveStateEnd \/ (\E p \in Packages : RemoveDest(p)) \/ RemovePkgEnd
        \/ RemoveStatedirPart \/ RemoveStatedir
        \/ \E f \in WorkPhases : Skip(f) \/ Start(f) \/ Finish(f) \/ FailPhase(f)
        \/ Deps \/ FailDeps
        \/ InstallSkip \/ InstallStart \/ (\E p \in Subs : InstallSub(p))
        \/ InstallMain \/ (\E p \in Autos, m \in BOOLEAN : SplitAuto(p, m))
        \/ InstallEnd \/ FailInstall
        \/ (\E p \in Packages : PrepkgSkip(p) \/ PrepkgRun(p))
        \/ PrepkgEnd \/ FailPkg \/ Gen \/ Index \/ Killed

Spec == Init /\ [][Next]_vars
-------------------------------------------------------------------------------
PhaseNames == WorkPhases \cup {"idle", "start", "deps", "preinstall", "install",
                               "pkg", "gen", "index", "cleanup"}
TypeOK ==
    /\ tmpl \in Templates /\ kills \in 0..MaxKills
    /\ work \in [WorkPhases -> {"none", "part", "done"}]
    /\ done \subseteq Sentinels /\ prepkg \subseteq Packages
    /\ dest \in [Packages -> {"none", "part", "full", "mixed"}]
    /\ ph \in PhaseNames
    /\ sub \in {"enter", "run", "src", "dest", "rmdest", "state", "subs", "split"}
    /\ opt \in RunOptions
    /\ all \subseteq Packages /\ hooked \subseteq Packages
    /\ ran \subseteq WorkPhases /\ todo \subseteq Packages

\* What a package is made from; check leaves nothing behind.
Sources == WorkPhases \ {"check"}

\* A run that removes leftovers first, once it has done so.
CleanRun == Clean /\ ph \notin {"idle", "start", "cleanup"}

\* build.py:622, pkg.py: in such a run every sentinel that makes an invoke_*
\* function return early was written by this run itself, whatever earlier
\* runs left and wherever they were killed.
CleanSentinels == CleanRun => done \cap WorkPhases \subseteq ran

\* build.py:622, hooks/extract/000_sources.py: such a run finds an empty build
\* directory when it comes to extract, so it is never refused.
ExtractReady == CleanRun /\ At("extract", "enter") => ~Skipped("extract") /\ ~Refused("extract")

\* build.py:622-888: when such a run generates packages, it has run every phase
\* and the pkg hooks of every package, nothing of the work is incomplete, and
\* the declared packages' directories hold what this install put there.
FreshPackages ==
    CleanRun /\ ph \in {"gen", "index"} =>
        /\ Sources \subseteq ran /\ \A f \in Sources : work[f] = "done"
        /\ all \subseteq hooked
        /\ \A p \in Declared : dest[p] = "full"

\* build.py:210-376: if no run was killed, then outside of the cleanups, and
\* unless -D -f runs a phase again, a sentinel vouches for complete work, however
\* many runs have failed.
SentinelSound ==
    kills = 0 /\ (sub \in {"src", "dest", "rmdest", "state"} => ph = "preinstall") =>
        \A f \in done \cap WorkPhases : work[f] = "done"

\* Usage.md:432-435: however often a build failed and was continued with -D,
\* packages are generated from complete work only.
WholeWork == kills = 0 /\ ph = "index" => \A f \in Sources : work[f] = "done"

\* build.py:795-802: in a run continued with -D the install is always redone,
\* so the destination directories are whole and the pkg hooks of the declared
\* packages have run.
RedoneInstall ==
    kills = 0 /\ ph = "index" /\ ~tmpl.stage0 =>
        Declared \subseteq hooked /\ \A p \in all : dest[p] = "full"
===============================================================================
