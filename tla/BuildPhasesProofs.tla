--------------------------- MODULE BuildPhasesProofs ---------------------------
(***************************************************************************)
(* Proofs about the phases of a build for any packages, any template, any  *)
(* options and any number of failed and killed runs before.                *)
(*                                                                         *)
(* FreshPackages is about the moment packages are generated; to get there  *)
(* the induction follows a cleaning run from its start: the build          *)
(* directory is empty from remove_pkg_wrksrc on (Emptied), the state       *)
(* directory only holds what this run wrote (OwnSentinels), and the phases *)
(* already run are exactly those that come before the current one          *)
(* (InOrder), because with no foreign sentinel none of them is skipped.    *)
(***************************************************************************)
EXTENDS BuildPhases, TLAPS

\* Which points belong to which phases.
Points ==
    /\ sub \in {"src", "state"} => ph \in {"start", "cleanup"}
    /\ sub \in {"dest", "rmdest"} => ph \in {"start", "preinstall", "cleanup"}
    /\ sub = "run" => ph \in WorkPhases
    /\ sub \in {"subs", "split"} => ph = "install"
    /\ ph \in {"start", "preinstall", "cleanup"} => sub \in {"src", "dest", "rmdest", "state"}

\* The work phases before phase f, check aside.
Before(f) ==
    IF f = "fetch" THEN {}
    ELSE IF f = "deps" THEN (IF tmpl.own_fetch THEN {} ELSE {"fetch"})
    ELSE IF f = "extract" THEN {"fetch"}
    ELSE IF f = "prepare" THEN {"fetch", "extract"} \cup (IF tmpl.prepare_after_patch THEN {"patch"} ELSE {})
    ELSE IF f = "patch" THEN {"fetch", "extract"} \cup (IF tmpl.prepare_after_patch THEN {} ELSE {"prepare"})
    ELSE IF f = "configure" THEN {"fetch", "extract", "prepare", "patch"}
    ELSE IF f = "build" THEN {"fetch", "extract", "prepare", "patch", "configure"}
    ELSE Sources

Late == {"preinstall", "install", "pkg", "gen", "index"}

InOrder == CleanRun => /\ ran \ {"check"} = Before(ph)
                       /\ "check" \in ran => ph \in Late

OwnSentinels == CleanRun => /\ done \cap WorkPhases \subseteq ran
                            /\ ph \notin {"pkg", "gen", "index"} => "install" \notin done
                            /\ prepkg \subseteq hooked

\* Nothing is in the build directory before its phase has begun.
Emptied == /\ ph = "start" /\ sub \in {"dest", "rmdest", "state"} => EmptySrcdir
           /\ CleanRun => \A f \in InSrcdir \ ran : work[f] = "none" \/ At(f, "run")

Complete == CleanRun => \A f \in ran \ {"check"} : work[f] = "done"

Installed ==
    CleanRun =>
      /\ At("install", "subs") => todo \subseteq Subs /\ \A p \in Subs \ todo : dest[p] = "full"
      /\ At("install", "split") => todo \subseteq Autos
      /\ At("install", "split") \/ ph \in {"pkg", "gen", "index"} =>
           \A p \in Declared : dest[p] = "full"
      /\ ph \in {"pkg", "gen", "index"} => all \ todo \subseteq hooked
      /\ ph \in {"gen", "index"} => todo = {}

\* Between runs, and until packages are known, the loops' state is empty.
Idle == ph \in {"idle", "start"} => ran = {} /\ hooked = {}

IInv == Points /\ Idle /\ InOrder /\ OwnSentinels /\ Emptied /\ Complete /\ Installed
-------------------------------------------------------------------------------
USE PackagesAssumption, TemplatesAssumption, RunsAssumption, MaxKillsAssumption

\* The next phase is a phase, and its entry point a point.
LEMMA AfterType ==
    ASSUME NEW f \in WorkPhases \cup {"start", "deps", "preinstall"}
    PROVE  After(f) \in PhaseNames /\ Enter(After(f)) \in {"enter", "dest"}
  BY DEF After, Enter, PhaseNames, WorkPhases

\* The end of a run leaves empty memory and default options.
LEMMA OverType ==
    ASSUME Over
    PROVE  /\ ph' \in PhaseNames /\ sub' = "enter" /\ opt' \in RunOptions
           /\ all' = {} /\ hooked' = {} /\ ran' = {} /\ todo' = {}
  BY DEF Over, Goto, PhaseNames, Defaults, RunOptions, Targets

\* The end of a phase, whether or not it is the target, keeps the types.
LEMMA LeaveType ==
    ASSUME TypeOK, NEW f \in WorkPhases \cup {"deps"}, NEW r \in SUBSET WorkPhases, Leave(f, r)
    PROVE  /\ ph' \in PhaseNames /\ sub' \in {"enter", "dest"} /\ opt' \in RunOptions
           /\ all' \subseteq Packages /\ hooked' \subseteq Packages
           /\ ran' \subseteq WorkPhases /\ todo' \subseteq Packages
<1>1. CASE opt.step = f
  BY <1>1, OverType DEF Leave
<1>2. CASE opt.step # f
  BY <1>2, AfterType DEF Leave, Goto, TypeOK
<1>3. QED
  BY <1>1, <1>2

\* The type invariant is preserved by every operation of a run.
LEMMA TypeStep == TypeOK /\ [Next]_vars => TypeOK'
<1> SUFFICES ASSUME TypeOK, [Next]_vars PROVE TypeOK'
  OBVIOUS
<1>1. CASE UNCHANGED vars
  BY <1>1 DEF TypeOK, vars, mem
<1>2. ASSUME NEW o \in Runs, StartRun(o) PROVE TypeOK'
  BY <1>2, AfterType DEF TypeOK, StartRun, Goto, disk, Enter, PhaseNames
<1>3. CASE RemoveSrcPart
  BY <1>3 DEF TypeOK, RemoveSrcPart, mem
<1>4. CASE RemoveSrc
  BY <1>4 DEF TypeOK, RemoveSrc, mem
<1>5. CASE RemovePkgNone
  BY <1>5 DEF TypeOK, RemovePkgNone, AfterRemovePkg, Goto, mem, disk, PhaseNames
<1>6. CASE RemoveState
  BY <1>6 DEF TypeOK, RemoveState, mem
<1>7. CASE RemoveStateEnd
  BY <1>7 DEF TypeOK, RemoveStateEnd, mem, disk
<1>8. ASSUME NEW p \in Packages, RemoveDest(p) PROVE TypeOK'
  BY <1>8 DEF TypeOK, RemoveDest, mem
<1>9. CASE RemovePkgEnd
  BY <1>9 DEF TypeOK, RemovePkgEnd, AfterRemovePkg, Goto, mem, PhaseNames
<1>10. CASE RemoveStatedirPart
  BY <1>10 DEF TypeOK, RemoveStatedirPart, mem
<1>11. CASE RemoveStatedir
  <2>1. CASE ph = "start"
    BY <1>11, <2>1, AfterType DEF TypeOK, RemoveStatedir, Goto, mem
  <2>2. CASE ph # "start"
    BY <1>11, <2>2, OverType DEF TypeOK, RemoveStatedir
  <2>3. QED
    BY <2>1, <2>2
<1>12. ASSUME NEW f \in WorkPhases, Skip(f) PROVE TypeOK'
  <2>1. ran \in SUBSET WorkPhases /\ Leave(f, ran) /\ UNCHANGED <<tmpl, kills, disk>>
    BY <1>12 DEF TypeOK, Skip
  <2>2. QED
    BY <2>1, LeaveType DEF TypeOK, disk
<1>13. ASSUME NEW f \in WorkPhases, Start(f) PROVE TypeOK'
  BY <1>13 DEF TypeOK, Start, mem
<1>14. ASSUME NEW f \in WorkPhases, Finish(f) PROVE TypeOK'
  <2>1. ran \cup {f} \in SUBSET WorkPhases /\ Leave(f, ran \cup {f})
    BY <1>14 DEF TypeOK, Finish
  <2>2. /\ ph' \in PhaseNames /\ sub' \in {"enter", "dest"} /\ opt' \in RunOptions
        /\ all' \subseteq Packages /\ hooked' \subseteq Packages
        /\ ran' \subseteq WorkPhases /\ todo' \subseteq Packages
    BY <2>1, LeaveType
  <2>3. QED
    BY <1>14, <2>2 DEF TypeOK, Finish, Sentinels
<1>15. ASSUME NEW f \in WorkPhases, FailPhase(f) PROVE TypeOK'
  BY <1>15, OverType DEF TypeOK, FailPhase
<1>16. CASE Deps
  <2>1. ran \in SUBSET WorkPhases /\ Leave("deps", ran) /\ UNCHANGED <<tmpl, kills, disk>>
    BY <1>16 DEF TypeOK, Deps
  <2>2. QED
    BY <2>1, LeaveType DEF TypeOK, disk
<1>17. CASE FailDeps
  BY <1>17, OverType DEF TypeOK, FailDeps, disk
<1>18. ASSUME LeaveInstall, UNCHANGED <<tmpl, kills, work, prepkg, dest>>,
              done' \subseteq done \cup {"install"}
       PROVE  TypeOK'
  <2>1. CASE opt.step = "install"
    BY <1>18, <2>1, OverType DEF TypeOK, LeaveInstall, Sentinels
  <2>2. CASE opt.step # "install"
    BY <1>18, <2>2 DEF TypeOK, LeaveInstall, Existing, Goto, PhaseNames, Sentinels, Packages
  <2>3. QED
    BY <2>1, <2>2
<1>19. CASE InstallSkip
  BY <1>18, <1>19 DEF InstallSkip, disk
<1>20. CASE InstallStart
  BY <1>20 DEF TypeOK, InstallStart, Packages, Declared
<1>21. ASSUME NEW p \in Subs, InstallSub(p) PROVE TypeOK'
  BY <1>21 DEF TypeOK, InstallSub
<1>22. CASE InstallMain
  BY <1>22 DEF TypeOK, InstallMain, Packages
<1>23. ASSUME NEW p \in Autos, NEW m \in BOOLEAN, SplitAuto(p, m) PROVE TypeOK'
  BY <1>23 DEF TypeOK, SplitAuto
<1>24. CASE InstallEnd
  BY <1>18, <1>24 DEF InstallEnd
<1>25. CASE FailInstall
  BY <1>25, OverType DEF TypeOK, FailInstall, disk
<1>26. ASSUME NEW p \in Packages, PrepkgSkip(p) PROVE TypeOK'
  BY <1>26 DEF TypeOK, PrepkgSkip, disk
<1>27. ASSUME NEW p \in Packages, PrepkgRun(p) PROVE TypeOK'
  BY <1>27 DEF TypeOK, PrepkgRun
<1>28. CASE PrepkgEnd
  BY <1>28 DEF TypeOK, PrepkgEnd, Goto, PhaseNames, disk, mem
<1>29. CASE FailPkg
  BY <1>29, OverType DEF TypeOK, FailPkg, disk
<1>30. CASE Gen
  BY <1>30 DEF TypeOK, Gen, Goto, PhaseNames, disk, mem
<1>31. CASE Index
  <2>1. CASE opt.keep
    BY <1>31, <2>1, OverType DEF TypeOK, Index, disk
  <2>2. CASE ~opt.keep
    BY <1>31, <2>2 DEF TypeOK, Index, Goto, PhaseNames, disk, mem
  <2>3. QED
    BY <2>1, <2>2
<1>32. CASE Killed
  BY <1>32, OverType DEF TypeOK, Killed, CanKill, disk
<1>33. QED
  BY <1>1, <1>2, <1>3, <1>4, <1>5, <1>6, <1>7, <1>8, <1>9, <1>10, <1>11, <1>12,
     <1>13, <1>14, <1>15, <1>16, <1>17, <1>19, <1>20, <1>21, <1>22, <1>23, <1>24,
     <1>25, <1>26, <1>27, <1>28, <1>29, <1>30, <1>31, <1>32 DEF Next

\* Files, sentinels, directories and the state of a run always have their
\* types.
THEOREM TypeCorrect == Spec => []TypeOK
<1>1. Init => TypeOK
  BY DEF Init, TypeOK, PhaseNames, Defaults, RunOptions, Targets
<1>2. QED
  BY <1>1, TypeStep, PTL DEF Spec
-------------------------------------------------------------------------------
\* Between runs the invariant holds whatever is on the disk.
LEMMA OverInv == ASSUME Over PROVE IInv'
  BY DEF Over, Goto, IInv, Points, Idle, InOrder, OwnSentinels, Emptied, Complete,
         Installed, CleanRun, Clean, WorkPhases, At

\* Leaving a phase that is not the target passes exactly that phase.
LEMMA BeforeAfter ==
    ASSUME TypeOK
    PROVE  /\ Before(After("start")) = {} /\ After("start") \in {"deps", "fetch"}
           /\ Before(After("deps")) = Before("deps") /\ After("deps") \in {"fetch", "extract"}
           /\ \A f \in Sources :
                /\ f \notin Before(f) /\ Before(After(f)) = Before(f) \cup {f}
                /\ After(f) \in WorkPhases \cup {"deps"}
           /\ Before("check") = Sources /\ "check" \notin Sources
           /\ After("check") \in {"install", "preinstall"} /\ Before(After("check")) = Sources
  BY DEF Before, After, Sources, WorkPhases, TypeOK, TemplateOptions

\* In a cleaning run no phase but check is ever skipped.
LEMMA NeverSkipped ==
    ASSUME TypeOK, IInv, CleanRun, NEW f \in Sources, ph = f
    PROVE  ~Skipped(f)
  BY BeforeAfter DEF Skipped, IInv, OwnSentinels, InOrder, Sources, WorkPhases

\* Passing from one phase to the next keeps the invariant, if the phase just
\* left is accounted for.
LEMMA LeaveInv ==
    ASSUME TypeOK, IInv, NEW f \in WorkPhases \cup {"deps"}, ph = f,
           NEW r \in SUBSET WorkPhases, Leave(f, r),
           UNCHANGED <<tmpl, dest, prepkg>>,
           CleanRun => /\ r \ {"check"} = IF f \in Sources THEN Before(f) \cup {f} ELSE Before(f)
                       /\ "check" \in r => f = "check"
                       /\ done' \cap WorkPhases \subseteq r
                       /\ "install" \notin done'
                       /\ \A g \in InSrcdir \ r : work'[g] = "none"
                       /\ \A g \in r \ {"check"} : work'[g] = "done"
    PROVE  IInv'
<1>1. CASE opt.step = f
  BY <1>1, OverInv DEF Leave
<1>2. CASE opt.step # f
  <2>0. /\ ph' = After(f) /\ sub' = Enter(After(f)) /\ ran' = r
        /\ UNCHANGED <<opt, all, hooked, todo, tmpl, dest, prepkg>>
    BY <1>2 DEF Leave, Goto
  <2>1. ph' \in WorkPhases \cup {"deps", "install", "preinstall"}
    BY <2>0, BeforeAfter DEF Sources, WorkPhases
  <2>2. sub' = IF ph' = "preinstall" THEN "dest" ELSE "enter"
    BY <2>0, <2>1 DEF Enter, WorkPhases
  <2>3. Points' /\ Idle'
    BY <2>1, <2>2 DEF Points, Idle, WorkPhases
  <2>4. CleanRun' = CleanRun /\ Before(ph)' = Before(ph') /\ InSrcdir' = InSrcdir
    BY <2>0, <2>1 DEF CleanRun, Clean, WorkPhases, Before, InSrcdir
  <2>5. InOrder'
    BY <2>0, <2>1, <2>4, BeforeAfter DEF InOrder, Late, Sources, WorkPhases
  <2>6. OwnSentinels'
    BY <2>0, <2>1, <2>4 DEF OwnSentinels, IInv
  <2>7. Emptied' /\ Complete'
    BY <2>0, <2>1, <2>4 DEF Emptied, Complete, WorkPhases
  <2>8. Installed'
    BY <2>0, <2>1, <2>2 DEF Installed, At, WorkPhases
  <2>9. QED
    BY <2>3, <2>5, <2>6, <2>7, <2>8 DEF IInv
<1>3. QED
  BY <1>1, <1>2

\* What every step that neither begins nor ends a phase keeps.
LEMMA SameRun ==
    ASSUME UNCHANGED <<tmpl, opt, ph>>
    PROVE  CleanRun' = CleanRun /\ Before(ph)' = Before(ph) /\ InSrcdir' = InSrcdir
  BY DEF CleanRun, Clean, Before, InSrcdir

\* Every operation of a run preserves the invariant.
LEMMA InvStep == TypeOK /\ IInv /\ [Next]_vars => IInv'
<1> SUFFICES ASSUME TypeOK, IInv, [Next]_vars PROVE IInv'
  OBVIOUS
<1>1. CASE UNCHANGED vars
  BY <1>1 DEF IInv, Points, Idle, InOrder, OwnSentinels, Emptied, Complete, Installed,
              CleanRun, Clean, Before, InSrcdir, EmptySrcdir, At, vars, mem
<1>2. ASSUME NEW o \in Runs, StartRun(o) PROVE IInv'
  <2>1. CASE o.dirty \/ tmpl.stage0
    <3>1. ph' \in {"deps", "fetch"} /\ sub' = "enter" /\ ~CleanRun'
      BY <1>2, <2>1, BeforeAfter DEF StartRun, Goto, Enter, CleanRun, Clean
    <3>2. QED
      BY <3>1 DEF IInv, Points, Idle, InOrder, OwnSentinels, Emptied, Complete, Installed,
                  WorkPhases
  <2>2. CASE ~(o.dirty \/ tmpl.stage0)
    <3>1. ph' = "start" /\ sub' = "src" /\ ~CleanRun' /\ ran' = ran /\ hooked' = hooked
      BY <1>2, <2>2 DEF StartRun, Goto, Enter, CleanRun
    <3>2. QED
      BY <1>2, <3>1 DEF IInv, Points, Idle, InOrder, OwnSentinels, Emptied, Complete,
                        Installed, StartRun
  <2>3. QED
    BY <2>1, <2>2
<1>3. CASE RemoveSrcPart
  BY <1>3, SameRun DEF RemoveSrcPart, mem, IInv, Points, Idle, InOrder, OwnSentinels, Emptied,
     Complete, Installed, CleanRun
<1>4. CASE RemoveSrc
  <2>1. ph' \in {"start", "cleanup"} /\ sub' = "dest" /\ ~CleanRun' /\ EmptySrcdir'
    BY <1>4 DEF RemoveSrc, IInv, Points, CleanRun, EmptySrcdir, InSrcdir
  <2>2. QED
    BY <1>4, <2>1 DEF RemoveSrc, mem, IInv, Points, Idle, InOrder, OwnSentinels, Emptied,
       Complete, Installed
<1>5. ASSUME sub \in {"dest", "rmdest"}, AfterRemovePkg,
             UNCHANGED <<tmpl, work, mem>>, done' \subseteq done, prepkg' = prepkg
      PROVE  IInv'
  <2>1. CASE ph = "preinstall"
    <3>1. /\ ph' = "install" /\ sub' = "enter" /\ CleanRun' = CleanRun
          /\ Before(ph)' = Before(ph) /\ InSrcdir' = InSrcdir
      BY <1>5, <2>1 DEF AfterRemovePkg, Goto, CleanRun, Clean, mem, Before, InSrcdir
    <3>2. QED
      BY <1>5, <2>1, <3>1 DEF mem, IInv, Points, Idle, InOrder, OwnSentinels, Emptied,
         Complete, Installed, Late, At, WorkPhases
  <2>2. CASE ph # "preinstall"
    <3>1. /\ ph' = ph /\ sub' = "state" /\ ph \in {"start", "cleanup"} /\ ~CleanRun'
          /\ EmptySrcdir' = EmptySrcdir
      BY <1>5, <2>2 DEF AfterRemovePkg, Goto, CleanRun, IInv, Points, EmptySrcdir, InSrcdir
    <3>2. QED
      BY <1>5, <3>1 DEF mem, IInv, Points, Idle, InOrder, OwnSentinels, Emptied,
         Complete, Installed
  <2>3. QED
    BY <2>1, <2>2
<1>6. CASE RemovePkgNone
  BY <1>5, <1>6 DEF RemovePkgNone, disk
<1>7. ASSUME ph \in {"start", "preinstall", "cleanup"}, sub \in {"dest", "rmdest", "state"},
             sub' \in {"dest", "rmdest", "state"}, sub' = "state" => sub = "state",
             UNCHANGED <<tmpl, work, ph, mem>>, done' \subseteq done, prepkg' \subseteq prepkg
      PROVE  IInv'
  <2>1. EmptySrcdir' = EmptySrcdir
    BY <1>7 DEF EmptySrcdir, InSrcdir
  <2>2. QED
    BY <1>7, <2>1, SameRun DEF mem, IInv, Points, Idle, InOrder, OwnSentinels, Emptied,
       Complete, Installed, At, WorkPhases
<1>8. CASE RemoveState
  BY <1>7, <1>8 DEF RemoveState, IInv, Points
<1>9. CASE RemoveStateEnd
  BY <1>7, <1>9 DEF RemoveStateEnd, disk, IInv, Points
<1>10. ASSUME NEW p \in Packages, RemoveDest(p) PROVE IInv'
  BY <1>7, <1>10 DEF RemoveDest, IInv, Points
<1>11. CASE RemovePkgEnd
  BY <1>5, <1>11 DEF RemovePkgEnd
<1>12. CASE RemoveStatedirPart
  BY <1>7, <1>12 DEF RemoveStatedirPart, IInv, Points
<1>13. CASE RemoveStatedir
  <2>1. CASE ph # "start"
    BY <1>13, <2>1, OverInv DEF RemoveStatedir
  <2>2. CASE ph = "start"
    <3>1. /\ ph' \in {"deps", "fetch"} /\ sub' = "enter" /\ ran' = {} /\ hooked' = {}
          /\ done' = {} /\ prepkg' = {} /\ work' = work /\ tmpl' = tmpl
          /\ Before(ph') = {}
      BY <1>13, <2>2, BeforeAfter DEF RemoveStatedir, Goto, Enter, mem, IInv, Idle
    <3>2. EmptySrcdir /\ InSrcdir' = InSrcdir /\ Before(ph)' = {}
      BY <1>13, <2>2, <3>1 DEF RemoveStatedir, IInv, Emptied, InSrcdir, Before
    <3>3. QED
      BY <3>1, <3>2 DEF IInv, Points, Idle, InOrder, OwnSentinels, Emptied, EmptySrcdir,
         Complete, Installed, At, WorkPhases
  <2>3. QED
    BY <2>1, <2>2
<1>14. ASSUME NEW f \in WorkPhases, Skip(f) PROVE IInv'
  <2>1. /\ ph = f /\ sub = "enter" /\ Skipped(f) /\ Leave(f, ran)
        /\ UNCHANGED <<tmpl, work, done, prepkg, dest>> /\ ran \in SUBSET WorkPhases
    BY <1>14 DEF Skip, At, disk, TypeOK
  <2>2. CleanRun => f = "check"
    BY <2>1, NeverSkipped DEF Sources
  <2>3. CleanRun => /\ ran \ {"check"} = IF f \in Sources THEN Before(f) \cup {f} ELSE Before(f)
                    /\ "check" \in ran => f = "check"
                    /\ done' \cap WorkPhases \subseteq ran
                    /\ "install" \notin done'
                    /\ \A g \in InSrcdir \ ran : work'[g] = "none"
                    /\ \A g \in ran \ {"check"} : work'[g] = "done"
    BY <2>1, <2>2 DEF IInv, InOrder, OwnSentinels, Emptied, Complete, Sources, At
  <2>4. QED
    BY <2>1, <2>3, LeaveInv
<1>15. ASSUME NEW f \in WorkPhases, Start(f) PROVE IInv'
  <2>1. /\ ph = f /\ sub' = "run" /\ work' = [work EXCEPT ![f] = "part"]
        /\ UNCHANGED <<tmpl, done, prepkg, dest, ph, opt, all, hooked, ran, todo>>
    BY <1>15 DEF Start, At, mem
  <2>2. CleanRun => f \notin ran \ {"check"}
    BY <2>1, BeforeAfter DEF IInv, InOrder, Sources
  <2>3. \A g \in WorkPhases : g # f => work'[g] = work[g]
    BY <2>1 DEF TypeOK
  <2>4. Points' /\ Idle' /\ InOrder' /\ OwnSentinels'
    BY <2>1, SameRun DEF IInv, Points, Idle, InOrder, OwnSentinels, WorkPhases
  <2>5. Emptied'
    BY <1>15, <2>1, <2>3, SameRun DEF Start, IInv, Emptied, At, WorkPhases, InSrcdir
  <2>6. Complete'
    BY <2>1, <2>2, <2>3, SameRun DEF IInv, Complete, TypeOK
  <2>7. Installed'
    BY <2>1 DEF Installed, At, WorkPhases
  <2>8. QED
    BY <2>4, <2>5, <2>6, <2>7 DEF IInv
<1>16. ASSUME NEW f \in WorkPhases, Finish(f) PROVE IInv'
  <2>1. /\ ph = f /\ sub = "run" /\ Leave(f, ran \cup {f})
        /\ UNCHANGED <<tmpl, prepkg, dest>> /\ ran \cup {f} \in SUBSET WorkPhases
        /\ work' = [work EXCEPT ![f] = "done"] /\ done' = done \cup {f}
    BY <1>16 DEF Finish, At, TypeOK
  <2>2. work'[f] = "done" /\ \A g \in WorkPhases : g # f => work'[g] = work[g]
    BY <2>1 DEF TypeOK
  <2>3. CleanRun =>
          /\ (ran \cup {f}) \ {"check"} = IF f \in Sources THEN Before(f) \cup {f} ELSE Before(f)
          /\ "check" \in ran \cup {f} => f = "check"
    BY <2>1 DEF IInv, InOrder, Sources, Late, WorkPhases
  <2>4. CleanRun => done' \cap WorkPhases \subseteq ran \cup {f} /\ "install" \notin done'
    BY <2>1 DEF IInv, OwnSentinels, WorkPhases
  <2>5. CleanRun => /\ \A g \in InSrcdir \ (ran \cup {f}) : work'[g] = "none"
                    /\ \A g \in (ran \cup {f}) \ {"check"} : work'[g] = "done"
    BY <2>1, <2>2 DEF IInv, Emptied, Complete, At, InSrcdir
  <2>6. QED
    BY <2>1, <2>3, <2>4, <2>5, LeaveInv
<1>17. ASSUME NEW f \in WorkPhases, FailPhase(f) PROVE IInv'
  BY <1>17, OverInv DEF FailPhase
<1>18. CASE Deps
  <2>1. /\ ph = "deps" /\ sub = "enter" /\ Leave("deps", ran)
        /\ UNCHANGED <<tmpl, work, done, prepkg, dest>> /\ ran \in SUBSET WorkPhases
    BY <1>18 DEF Deps, At, disk, TypeOK
  <2>2. CleanRun => /\ ran \ {"check"} = IF "deps" \in Sources THEN Before("deps") \cup {"deps"}
                                                               ELSE Before("deps")
                    /\ "check" \in ran => "deps" = "check"
                    /\ done' \cap WorkPhases \subseteq ran
                    /\ "install" \notin done'
                    /\ \A g \in InSrcdir \ ran : work'[g] = "none"
                    /\ \A g \in ran \ {"check"} : work'[g] = "done"
    BY <2>1 DEF IInv, InOrder, OwnSentinels, Emptied, Complete, Sources, At, WorkPhases, Late
  <2>3. QED
    BY <2>1, <2>2, LeaveInv
<1>19. CASE FailDeps
  BY <1>19, OverInv DEF FailDeps
<1>20. CASE InstallSkip
  <2>1. CASE opt.step = "install"
    BY <1>20, <2>1, OverInv DEF InstallSkip, LeaveInstall
  <2>2. CASE opt.step # "install"
    <3>1. ~CleanRun
      BY <1>20 DEF InstallSkip, At, IInv, OwnSentinels
    <3>2. ph' = "pkg" /\ sub' = "enter" /\ ~CleanRun'
      BY <1>20, <2>2, <3>1 DEF InstallSkip, LeaveInstall, Goto, CleanRun, Clean, At
    <3>3. QED
      BY <3>2 DEF IInv, Points, Idle, InOrder, OwnSentinels, Emptied, Complete, Installed,
         WorkPhases
  <2>3. QED
    BY <2>1, <2>2
\* Steps inside the install, the pkg hooks and the generation of packages
\* disturb nothing but the destination directories and the loops.
<1>21. ASSUME ph \in {"install", "pkg", "gen", "index"},
              ph' \in {"install", "pkg", "gen", "index"},
              sub' \in {"enter", "subs", "split"}, sub' # "enter" => ph' = "install",
              ph' # "install" => ph # "install" \/ "install" \in done',
              UNCHANGED <<tmpl, opt, work, ran>>,
              done' \cap WorkPhases \subseteq done,
              ph' = "install" => "install" \notin done' \/ ("install" \in done /\ ph = "install"),
              CleanRun => prepkg' \subseteq hooked', Installed'
       PROVE  IInv'
  <2>1. /\ CleanRun' = CleanRun /\ Before(ph)' = Before(ph) /\ InSrcdir' = InSrcdir
    BY <1>21 DEF CleanRun, Clean, Before, InSrcdir
  <2>2. Points' /\ Idle' /\ InOrder'
    BY <1>21, <2>1 DEF IInv, Points, Idle, InOrder, Late, WorkPhases
  <2>3. OwnSentinels'
    BY <1>21, <2>1 DEF IInv, OwnSentinels
  <2>4. Emptied' /\ Complete'
    BY <1>21, <2>1 DEF IInv, Emptied, Complete, At, InSrcdir, WorkPhases
  <2>5. QED
    BY <1>21, <2>2, <2>3, <2>4 DEF IInv
<1>22. CleanRun => prepkg \subseteq hooked
  BY DEF IInv, OwnSentinels
<1>23. CASE InstallStart
  <2>1. ph = "install" /\ UNCHANGED <<tmpl, opt, work, ran, ph, done, prepkg, hooked>>
    BY <1>23 DEF InstallStart, At
  <2>2. Installed'
    BY <1>23, <2>1 DEF InstallStart, Installed, At
  <2>3. QED
    BY <1>21, <1>22, <1>23, <2>1, <2>2 DEF InstallStart
<1>24. ASSUME NEW p \in Subs, InstallSub(p) PROVE IInv'
  <2>1. /\ ph = "install" /\ sub = "subs" /\ p \in todo
        /\ UNCHANGED <<tmpl, opt, work, ran, ph, sub, done, prepkg, hooked>>
    BY <1>24 DEF InstallSub, At
  <2>2. \A q \in Packages : q # p => dest'[q] = dest[q]
    BY <1>24 DEF InstallSub, TypeOK
  <2>3. CleanRun => todo' \subseteq Subs /\ \A q \in Subs \ todo' : dest'[q] = "full"
    BY <1>24, <2>1, <2>2 DEF InstallSub, TypeOK, IInv, Installed, At, Packages, Declared
  <2>4. Installed'
    BY <2>1, <2>3, SameRun DEF Installed, At
  <2>5. QED
    BY <1>21, <1>22, <2>1, <2>4
<1>25. CASE InstallMain
  <2>1. /\ ph = "install" /\ sub = "subs" /\ todo = {} /\ sub' = "split" /\ todo' = Autos
        /\ UNCHANGED <<tmpl, opt, work, ran, ph, done, prepkg, hooked>>
    BY <1>25 DEF InstallMain, At
  <2>2. CleanRun => \A q \in Declared : dest'[q] = "full"
    BY <1>25, <2>1 DEF InstallMain, TypeOK, IInv, Installed, At, Packages, Declared
  <2>3. Installed'
    BY <2>1, <2>2, SameRun DEF Installed, At
  <2>4. QED
    BY <1>21, <1>22, <2>1, <2>3
<1>26. ASSUME NEW p \in Autos, NEW m \in BOOLEAN, SplitAuto(p, m) PROVE IInv'
  <2>1. /\ ph = "install" /\ sub = "split" /\ todo' = todo \ {p}
        /\ UNCHANGED <<tmpl, opt, work, ran, ph, sub, done, prepkg, hooked>>
    BY <1>26 DEF SplitAuto, At
  <2>2. \A q \in Declared : dest'[q] = dest[q]
    BY <1>26 DEF SplitAuto, TypeOK, Packages, Declared
  <2>3. Installed'
    BY <2>1, <2>2, SameRun DEF IInv, Installed, At
  <2>4. QED
    BY <1>21, <1>22, <2>1, <2>3
<1>27. CASE InstallEnd
  <2>1. CASE opt.step = "install"
    BY <1>27, <2>1, OverInv DEF InstallEnd, LeaveInstall
  <2>2. CASE opt.step # "install"
    <3>1. /\ ph = "install" /\ sub = "split" /\ ph' = "pkg" /\ sub' = "enter"
          /\ todo' = all' /\ UNCHANGED <<tmpl, opt, work, ran, prepkg, hooked, dest>>
          /\ done' = done \cup {"install"}
      BY <1>27, <2>2 DEF InstallEnd, LeaveInstall, Goto, At
    <3>2. CleanRun' => CleanRun
      BY <3>1 DEF CleanRun, Clean
    <3>3. Installed'
      BY <3>1, <3>2 DEF IInv, Installed, At
    <3>4. done' \cap WorkPhases \subseteq done
      BY <3>1 DEF WorkPhases
    <3>5. QED
      BY <1>21, <1>22, <3>1, <3>3, <3>4
  <2>3. QED
    BY <2>1, <2>2
<1>28. CASE FailInstall
  BY <1>28, OverInv DEF FailInstall
<1>29. ASSUME NEW p \in Packages, PrepkgSkip(p) PROVE IInv'
  <2>1. /\ ph = "pkg" /\ sub = "enter" /\ p \in prepkg /\ todo' = todo \ {p}
        /\ UNCHANGED <<tmpl, opt, work, ran, ph, sub, done, prepkg, hooked, dest, all>>
    BY <1>29 DEF PrepkgSkip, At, disk
  <2>2. Installed'
    BY <1>22, <2>1, SameRun DEF IInv, Installed, At
  <2>3. QED
    BY <1>21, <1>22, <2>1, <2>2
<1>30. ASSUME NEW p \in Packages, PrepkgRun(p) PROVE IInv'
  <2>1. /\ ph = "pkg" /\ sub = "enter" /\ todo' = todo \ {p}
        /\ hooked' = hooked \cup {p} /\ prepkg' = prepkg \cup {p}
        /\ UNCHANGED <<tmpl, opt, work, ran, ph, sub, done, dest, all>>
    BY <1>30 DEF PrepkgRun, At
  <2>2. Installed'
    BY <2>1, SameRun DEF IInv, Installed, At
  <2>3. QED
    BY <1>21, <1>22, <2>1, <2>2
<1>31. CASE PrepkgEnd
  <2>1. /\ ph = "pkg" /\ ph' = "gen" /\ sub' = "enter" /\ todo = {}
        /\ UNCHANGED <<tmpl, opt, work, ran, done, prepkg, hooked, dest, all, todo>>
    BY <1>31 DEF PrepkgEnd, At, Goto, disk, mem
  <2>2. CleanRun' => CleanRun
    BY <2>1 DEF CleanRun, Clean
  <2>3. Installed'
    BY <2>1, <2>2 DEF IInv, Installed, At
  <2>4. QED
    BY <1>21, <1>22, <2>1, <2>3
<1>32. CASE FailPkg
  BY <1>32, OverInv DEF FailPkg
<1>33. CASE Gen
  <2>1. /\ ph = "gen" /\ ph' = "index" /\ sub' = "enter"
        /\ UNCHANGED <<tmpl, opt, work, ran, done, prepkg, hooked, dest, all, todo>>
    BY <1>33 DEF Gen, At, Goto, disk, mem
  <2>2. CleanRun' => CleanRun
    BY <2>1 DEF CleanRun, Clean
  <2>3. Installed'
    BY <2>1, <2>2 DEF IInv, Installed, At
  <2>4. QED
    BY <1>21, <1>22, <2>1, <2>3
<1>34. CASE Index
  <2>1. CASE opt.keep
    BY <1>34, <2>1, OverInv DEF Index
  <2>2. CASE ~opt.keep
    <3>1. ph' = "cleanup" /\ sub' = "src" /\ ~CleanRun'
      BY <1>34, <2>2 DEF Index, Goto, CleanRun
    <3>2. QED
      BY <3>1 DEF IInv, Points, Idle, InOrder, OwnSentinels, Emptied, Complete, Installed,
         WorkPhases
  <2>3. QED
    BY <2>1, <2>2
<1>35. CASE Killed
  BY <1>35, OverInv DEF Killed
<1>36. QED
  BY <1>1, <1>2, <1>3, <1>4, <1>6, <1>8, <1>9, <1>10, <1>11, <1>12, <1>13, <1>14, <1>15,
     <1>16, <1>17, <1>18, <1>19, <1>20, <1>23, <1>24, <1>25, <1>26, <1>27, <1>28, <1>29,
     <1>30, <1>31, <1>32, <1>33, <1>34, <1>35 DEF Next

\* The invariant holds of every reachable state.
THEOREM Invariant == Spec => [](TypeOK /\ IInv)
<1>1. Init => TypeOK
  BY DEF Init, TypeOK, PhaseNames, Defaults, RunOptions, Targets
<1>2. Init => IInv
  BY DEF Init, IInv, Points, Idle, InOrder, OwnSentinels, Emptied, Complete, Installed,
         CleanRun, WorkPhases
<1>3. QED
  BY <1>1, <1>2, TypeStep, InvStep, PTL DEF Spec

\* In a run that cleans up first no invoke_* function ever returns early
\* because of a sentinel an earlier run left.
THEOREM CleanSentinelsCorrect == Spec => []CleanSentinels
<1>1. TypeOK /\ IInv => CleanSentinels
  BY DEF IInv, OwnSentinels, CleanSentinels
<1>2. QED
  BY <1>1, Invariant, PTL

\* Such a run always finds an empty build directory to extract into.
THEOREM ExtractReadyCorrect == Spec => []ExtractReady
<1>1. ASSUME TypeOK, IInv PROVE ExtractReady
  <2>1. SUFFICES ASSUME CleanRun, ph = "extract", sub = "enter"
                 PROVE  ~Skipped("extract") /\ ~Refused("extract")
    BY DEF ExtractReady, At
  <2>2. ~Skipped("extract")
    BY <1>1, <2>1, NeverSkipped DEF Sources, WorkPhases
  <2>3. ran \subseteq {"fetch"}
    BY <1>1, <2>1 DEF IInv, InOrder, Before, Late
  <2>4. ~tmpl.own_fetch => EmptySrcdir
    BY <1>1, <2>1, <2>3 DEF IInv, Emptied, EmptySrcdir, InSrcdir, At
  <2>5. QED
    BY <2>2, <2>4 DEF Refused
<1>2. QED
  BY <1>1, Invariant, PTL

\* And the packages it generates come from phases, hooks and an install of
\* its own, whatever failed or killed runs left on the disk.
THEOREM FreshPackagesCorrect == Spec => []FreshPackages
<1>1. ASSUME TypeOK, IInv PROVE FreshPackages
  <2>1. SUFFICES ASSUME CleanRun, ph \in {"gen", "index"}
                 PROVE  /\ Sources \subseteq ran /\ \A f \in Sources : work[f] = "done"
                        /\ all \subseteq hooked
                        /\ \A p \in Declared : dest[p] = "full"
    BY DEF FreshPackages
  <2>2. ran \ {"check"} = Sources
    BY <1>1, <2>1 DEF IInv, InOrder, Before
  <2>3. Sources \subseteq ran /\ \A f \in Sources : work[f] = "done"
    BY <1>1, <2>1, <2>2 DEF IInv, Complete
  <2>4. all \subseteq hooked /\ \A p \in Declared : dest[p] = "full"
    BY <1>1, <2>1 DEF IInv, Installed
  <2>5. QED
    BY <2>3, <2>4
<1>2. QED
  BY <1>1, Invariant, PTL
-------------------------------------------------------------------------------
(***************************************************************************)
(* What failed runs leave, if none was killed.  The sentinels vouch for    *)
(* their phases (Vouched) except while a cleanup is under way, which then  *)
(* runs to its end; so the phases before the current one are complete,     *)
(* whichever run did their work (DoneBefore).  A run with -f is set apart: *)
(* a phase it runs again keeps its old sentinel if it fails.               *)
(***************************************************************************)

\* -f runs no phase again that leaves something in the build directory.
NoForcedWork == \A o \in Runs : o.force => o.step \notin {"configure", "build", "check"}

Begun == /\ opt \in Runs \cup {Defaults}
         /\ sub = "run" => ph \notin done

Vouched == ph \notin {"start", "cleanup"} => \A f \in done \cap WorkPhases : work[f] = "done"

DoneBefore == ph \notin {"idle", "start", "cleanup"} => \A f \in Before(ph) : work[f] = "done"

WorkInv == Begun /\ (kills = 0 => Vouched /\ DoneBefore)

\* The end of a run that has damaged nothing it has a sentinel for.
LEMMA OverWork ==
    ASSUME Over, kills' = 0 => \A f \in done' \cap WorkPhases : work'[f] = "done"
    PROVE  WorkInv'
<1>1. ph' = "idle" /\ sub' = "enter" /\ opt' = Defaults
  BY DEF Over, Goto
<1>2. QED
  BY <1>1 DEF WorkInv, Begun, Vouched, DoneBefore

\* From one phase to the next, if the one just left is complete.
LEMMA LeaveWork ==
    ASSUME TypeOK, WorkInv, NEW f \in WorkPhases \cup {"deps"}, ph = f, NEW r, Leave(f, r),
           tmpl' = tmpl,
           kills' = 0 => /\ \A g \in done' \cap WorkPhases : work'[g] = "done"
                         /\ \A g \in Before(f) : work'[g] = "done"
                         /\ f \in Sources => work'[f] = "done"
    PROVE  WorkInv'
<1>1. CASE opt.step = f
  BY <1>1, OverWork DEF Leave
<1>2. CASE opt.step # f
  <2>1. ph' = After(f) /\ sub' = Enter(After(f)) /\ opt' = opt
    BY <1>2 DEF Leave, Goto
  <2>2. sub' # "run"
    BY <2>1 DEF Enter
  <2>3. Before(After(f)) = IF f \in Sources THEN Before(f) \cup {f} ELSE Before(f)
    <3>1. CASE f \in Sources
      BY <3>1, BeforeAfter
    <3>2. CASE f = "deps"
      BY <3>2, BeforeAfter DEF Sources, WorkPhases
    <3>3. CASE f = "check"
      BY <3>3, BeforeAfter
    <3>4. QED
      BY <3>1, <3>2, <3>3 DEF Sources
  <2>4. Before(ph)' = Before(After(f))
    BY <2>1 DEF Before
  <2>5. Begun'
    BY <2>1, <2>2 DEF WorkInv, Begun
  <2>6. kills' = 0 => Vouched' /\ DoneBefore'
    BY <2>3, <2>4 DEF Vouched, DoneBefore
  <2>7. QED
    BY <2>5, <2>6 DEF WorkInv
<1>3. QED
  BY <1>1, <1>2

\* A step after the last work phase, or one within a cleanup, leaves the work
\* as it is.
LEMMA QuietWork ==
    ASSUME WorkInv, UNCHANGED <<tmpl, kills, opt>>, sub' # "run",
           done' \cap WorkPhases \subseteq done,
           \/ ph' \in {"start", "cleanup"}
           \/ ph \in Late /\ ph' \in Late /\ work' = work
    PROVE  WorkInv'
<1>1. Begun'
  BY DEF WorkInv, Begun
<1>2. CASE ph' \in {"start", "cleanup"}
  BY <1>1, <1>2 DEF WorkInv, Vouched, DoneBefore
<1>3. CASE ph \in Late /\ ph' \in Late /\ work' = work
  <2>1. Before(ph)' = Sources /\ Before(ph) = Sources
    BY <1>3 DEF Late, Before, Sources, WorkPhases
  <2>2. kills = 0 => Vouched'
    BY <1>3 DEF WorkInv, Vouched, Late
  <2>3. kills = 0 => DoneBefore'
    BY <1>3, <2>1 DEF WorkInv, DoneBefore, Late
  <2>4. QED
    BY <1>1, <2>2, <2>3 DEF WorkInv
<1>4. QED
  BY <1>2, <1>3

\* Only a phase that is forced runs in spite of its sentinel.
LEMMA StartUnvouched ==
    ASSUME NoForcedWork, WorkInv, NEW f \in WorkPhases, ~Skipped(f)
    PROVE  f \notin done
<1>1. f \in {"configure", "build", "check"} => ~Forced(f)
  BY DEF NoForcedWork, WorkInv, Begun, Forced, Defaults
<1>2. QED
  BY <1>1 DEF Skipped

\* Every operation of a run preserves what the sentinels vouch for.
LEMMA WorkStep ==
    ASSUME NoForcedWork, TypeOK, IInv, WorkInv, [Next]_vars
    PROVE  WorkInv'
<1>0. Points
  BY DEF IInv
<1>1. CASE UNCHANGED vars
  BY <1>1 DEF WorkInv, Begun, Vouched, DoneBefore, Before, vars, mem
<1>2. ASSUME NEW o \in Runs, StartRun(o) PROVE WorkInv'
  <2>1. opt' = o /\ ph = "idle" /\ UNCHANGED <<tmpl, kills, done, work>>
    BY <1>2 DEF StartRun, disk
  <2>2. /\ ph' \in {"start", "deps", "fetch"} /\ sub' # "run" 
        /\ ph' # "start" => ph' = After("start")
    BY <1>2, BeforeAfter DEF StartRun, Goto, Enter
  <2>3. ph' # "start" => Before(ph)' = {}
    BY <2>1, <2>2, BeforeAfter DEF Before
  <2>4. Begun'
    BY <2>1, <2>2 DEF Begun
  <2>5. kills = 0 => Vouched' /\ DoneBefore'
    BY <2>1, <2>2, <2>3 DEF WorkInv, Vouched, DoneBefore
  <2>6. QED
    BY <2>1, <2>4, <2>5 DEF WorkInv
<1>3. CASE RemoveSrcPart
  BY <1>0, <1>3, QuietWork DEF RemoveSrcPart, mem, Points
<1>4. CASE RemoveSrc
  BY <1>0, <1>4, QuietWork DEF RemoveSrc, mem, Points
<1>5. ASSUME sub \in {"dest", "rmdest"}, AfterRemovePkg, work' = work,
             UNCHANGED <<tmpl, kills, mem>>, done' \subseteq done
      PROVE  WorkInv'
  <2>1. sub' # "run" /\ opt' = opt
    BY <1>5 DEF AfterRemovePkg, Goto, mem
  <2>2. \/ ph' \in {"start", "cleanup"}
        \/ ph \in Late /\ ph' \in Late
    BY <1>0, <1>5 DEF AfterRemovePkg, Goto, Points, Late
  <2>3. QED
    BY <1>5, <2>1, <2>2, QuietWork
<1>6. CASE RemovePkgNone
  BY <1>5, <1>6 DEF RemovePkgNone, disk
<1>7. ASSUME sub \in {"dest", "rmdest", "state"}, sub' # "run",
             UNCHANGED <<tmpl, kills, work, ph, mem>>, done' \subseteq done
      PROVE  WorkInv'
  <2>1. ph \in {"start", "cleanup"} \/ ph \in Late
    BY <1>0, <1>7 DEF Points, Late
  <2>2. QED
    BY <1>7, <2>1, QuietWork DEF mem
<1>8. CASE RemoveState
  BY <1>7, <1>8 DEF RemoveState
<1>9. CASE RemoveStateEnd
  BY <1>7, <1>9 DEF RemoveStateEnd, disk
<1>10. ASSUME NEW p \in Packages, RemoveDest(p) PROVE WorkInv'
  BY <1>7, <1>10 DEF RemoveDest
<1>11. CASE RemovePkgEnd
  BY <1>5, <1>11 DEF RemovePkgEnd
<1>12. CASE RemoveStatedirPart
  BY <1>7, <1>12 DEF RemoveStatedirPart
<1>13. CASE RemoveStatedir
  <2>1. CASE ph # "start"
    BY <1>13, <2>1, OverWork DEF RemoveStatedir
  <2>2. CASE ph = "start"
    <3>1. /\ ph' \in {"deps", "fetch"} /\ ph' = After("start") /\ sub' # "run"
          /\ opt' = opt /\ done' = {} /\ tmpl' = tmpl /\ kills' = kills
      BY <1>13, <2>2, BeforeAfter DEF RemoveStatedir, Goto, Enter, mem
    <3>2. Before(ph)' = {}
      BY <3>1, BeforeAfter DEF Before
    <3>3. QED
      BY <3>1, <3>2 DEF WorkInv, Begun, Vouched, DoneBefore
  <2>3. QED
    BY <2>1, <2>2
<1>14. ASSUME NEW f \in WorkPhases, ph = f, sub \in {"enter", "run"}, kills = 0
       PROVE  /\ \A g \in done \cap WorkPhases : work[g] = "done"
              /\ \A g \in Before(f) : work[g] = "done"
              /\ f \notin Before(f)
  BY <1>14, BeforeAfter DEF WorkInv, Vouched, DoneBefore, WorkPhases, Sources, Before
<1>15. ASSUME NEW f \in WorkPhases, Skip(f) PROVE WorkInv'
  <2>1. /\ ph = f /\ sub = "enter" /\ Skipped(f) /\ Leave(f, ran)
        /\ UNCHANGED <<tmpl, kills, work, done>>
    BY <1>15 DEF Skip, At, disk
  <2>2. f \in Sources => f \in done
    BY <2>1 DEF Skipped, Sources
  <2>3. QED
    BY <1>14, <2>1, <2>2, LeaveWork
<1>16. ASSUME NEW f \in WorkPhases, Start(f) PROVE WorkInv'
  <2>1. /\ ph = f /\ sub = "enter" /\ sub' = "run" /\ work' = [work EXCEPT ![f] = "part"]
        /\ UNCHANGED <<tmpl, kills, done, ph, opt>>
    BY <1>16 DEF Start, At, mem
  <2>2. f \notin done
    BY <1>16, StartUnvouched DEF Start
  <2>3. \A g \in WorkPhases : g # f => work'[g] = work[g]
    BY <2>1 DEF TypeOK
  <2>4. Begun'
    BY <2>1, <2>2 DEF WorkInv, Begun
  <2>5. kills = 0 => Vouched'
    BY <1>14, <2>1, <2>2, <2>3 DEF Vouched
  <2>6. Before(ph)' = Before(f) /\ Before(f) \subseteq WorkPhases
    BY <2>1 DEF Before, WorkPhases, Sources
  <2>7. kills = 0 => DoneBefore'
    BY <1>14, <2>1, <2>3, <2>6 DEF DoneBefore
  <2>8. QED
    BY <2>1, <2>4, <2>5, <2>7 DEF WorkInv
<1>17. ASSUME NEW f \in WorkPhases, Finish(f) PROVE WorkInv'
  <2>1. /\ ph = f /\ sub = "run" /\ Leave(f, ran \cup {f})
        /\ UNCHANGED <<tmpl, kills>> /\ work' = [work EXCEPT ![f] = "done"]
        /\ done' = done \cup {f}
    BY <1>17 DEF Finish, At
  <2>2. work'[f] = "done" /\ \A g \in WorkPhases : g # f => work'[g] = work[g]
    BY <2>1 DEF TypeOK
  <2>3. Before(f) \subseteq WorkPhases
    BY DEF Before, WorkPhases, Sources
  <2>4. kills' = 0 => /\ \A g \in done' \cap WorkPhases : work'[g] = "done"
                      /\ \A g \in Before(f) : work'[g] = "done"
    BY <1>14, <2>1, <2>2, <2>3
  <2>5. QED
    BY <2>1, <2>2, <2>4, LeaveWork
<1>18. ASSUME NEW f \in WorkPhases, FailPhase(f) PROVE WorkInv'
  <2>1. ph = f /\ sub \in {"enter", "run"} /\ Over /\ UNCHANGED <<kills, done>>
    BY <1>18 DEF FailPhase, At
  <2>2. CASE work' = work
    BY <1>14, <2>1, <2>2, OverWork
  <2>3. CASE f = "extract" /\ sub = "run" /\ work' = [work EXCEPT ![f] = "none"]
    <3>1. f \notin done
      BY <2>1, <2>3 DEF WorkInv, Begun
    <3>2. \A g \in WorkPhases : g # f => work'[g] = work[g]
      BY <2>3 DEF TypeOK
    <3>3. QED
      BY <1>14, <2>1, <3>1, <3>2, OverWork
  <2>4. QED
    BY <1>18, <2>2, <2>3 DEF FailPhase
<1>19. ASSUME Over, ph \notin {"start", "cleanup"}, UNCHANGED <<kills, work, done>> PROVE WorkInv'
  BY <1>19, OverWork DEF WorkInv, Vouched
<1>20. CASE Deps
  <2>1. ph = "deps" /\ Leave("deps", ran) /\ UNCHANGED <<tmpl, kills, work, done>>
    BY <1>20 DEF Deps, At, disk
  <2>2. kills = 0 => /\ \A g \in done \cap WorkPhases : work[g] = "done"
                     /\ \A g \in Before("deps") : work[g] = "done"
    BY <2>1 DEF WorkInv, Vouched, DoneBefore
  <2>3. "deps" \notin Sources
    BY DEF Sources, WorkPhases
  <2>4. QED
    BY <2>1, <2>2, <2>3, LeaveWork
<1>21. CASE FailDeps
  BY <1>19, <1>21 DEF FailDeps, At, disk
<1>22. ASSUME LeaveInstall, ph = "install", UNCHANGED <<tmpl, kills, work>>,
              done' \subseteq done \cup {"install"}
       PROVE  WorkInv'
  <2>1. done' \cap WorkPhases \subseteq done
    BY <1>22 DEF WorkPhases
  <2>2. CASE opt.step = "install"
    BY <1>22, <2>1, <2>2, OverWork DEF LeaveInstall, WorkInv, Vouched
  <2>3. CASE opt.step # "install"
    <3>1. ph' = "pkg" /\ sub' = "enter" /\ opt' = opt
      BY <1>22, <2>3 DEF LeaveInstall, Goto
    <3>2. QED
      BY <1>22, <2>1, <3>1, QuietWork DEF Late
  <2>4. QED
    BY <2>2, <2>3
<1>23. CASE InstallSkip
  BY <1>22, <1>23 DEF InstallSkip, At, disk
<1>24. ASSUME ph \in Late, ph' \in Late, sub' # "run", UNCHANGED <<tmpl, kills, opt, work, done>>
       PROVE  WorkInv'
  BY <1>24, QuietWork
<1>25. CASE InstallStart
  BY <1>24, <1>25 DEF InstallStart, At, Late
<1>26. ASSUME NEW p \in Subs, InstallSub(p) PROVE WorkInv'
  BY <1>24, <1>26 DEF InstallSub, At, Late
<1>27. CASE InstallMain
  BY <1>24, <1>27 DEF InstallMain, At, Late
<1>28. ASSUME NEW p \in Autos, NEW m \in BOOLEAN, SplitAuto(p, m) PROVE WorkInv'
  BY <1>24, <1>28 DEF SplitAuto, At, Late
<1>29. CASE InstallEnd
  BY <1>22, <1>29 DEF InstallEnd, At
<1>30. CASE FailInstall
  BY <1>19, <1>30 DEF FailInstall, disk
<1>31. ASSUME NEW p \in Packages, PrepkgSkip(p) PROVE WorkInv'
  BY <1>24, <1>31 DEF PrepkgSkip, At, Late, disk
<1>32. ASSUME NEW p \in Packages, PrepkgRun(p) PROVE WorkInv'
  BY <1>24, <1>32 DEF PrepkgRun, At, Late
<1>33. CASE PrepkgEnd
  BY <1>24, <1>33 DEF PrepkgEnd, At, Goto, Late, disk, mem
<1>34. CASE FailPkg
  BY <1>19, <1>34 DEF FailPkg, disk
<1>35. CASE Gen
  BY <1>24, <1>35 DEF Gen, At, Goto, Late, disk, mem
<1>36. CASE Index
  <2>1. ph = "index" /\ UNCHANGED <<tmpl, kills, work, done>>
    BY <1>36 DEF Index, At, disk
  <2>2. CASE opt.keep
    BY <1>19, <1>36, <2>1, <2>2 DEF Index
  <2>3. CASE ~opt.keep
    BY <1>36, <2>1, <2>3, QuietWork DEF Index, Goto, mem
  <2>4. QED
    BY <2>2, <2>3
<1>37. CASE Killed
  <2>1. kills' # 0
    BY <1>37 DEF Killed, TypeOK
  <2>2. QED
    BY <1>37, <2>1, OverWork DEF Killed
<1>38. QED
  BY <1>1, <1>2, <1>3, <1>4, <1>6, <1>8, <1>9, <1>10, <1>11, <1>12, <1>13, <1>15, <1>16,
     <1>17, <1>18, <1>20, <1>21, <1>23, <1>25, <1>26, <1>27, <1>28, <1>29, <1>30, <1>31,
     <1>32, <1>33, <1>34, <1>35, <1>36, <1>37 DEF Next

\* Without kills, and with -f for no work phase, it holds of every reachable
\* state.
LEMMA WorkInvariant == ASSUME NoForcedWork PROVE Spec => []WorkInv
<1>1. Init => WorkInv
  BY DEF Init, WorkInv, Begun, Vouched, DoneBefore
<1>2. TypeOK /\ IInv /\ WorkInv /\ [Next]_vars => WorkInv'
  BY WorkStep
<1>3. QED
  BY <1>1, <1>2, Invariant, PTL DEF Spec

\* However many runs have failed, a sentinel of a work phase vouches for
\* complete work, outside of the cleanups (build.py:210-376).
THEOREM SentinelSoundCorrect == ASSUME NoForcedWork PROVE Spec => []SentinelSound
<1>1. ASSUME TypeOK, IInv, WorkInv PROVE SentinelSound
  BY <1>1 DEF IInv, Points, WorkInv, Vouched, SentinelSound
<1>2. QED
  BY <1>1, Invariant, WorkInvariant, PTL

\* So a build that failed and was continued with -D any number of times is
\* packaged from complete work only (Usage.md:432-435).
THEOREM WholeWorkCorrect == ASSUME NoForcedWork PROVE Spec => []WholeWork
<1>1. ASSUME WorkInv PROVE WholeWork
  BY <1>1 DEF WorkInv, DoneBefore, WholeWork, Before
<1>2. QED
  BY <1>1, WorkInvariant, PTL
-------------------------------------------------------------------------------
(***************************************************************************)
(* The install of a run that does not clean up.  invoke_install is reached *)
(* through remove_pkg (except at stage 0), which takes the directories and *)
(* the install sentinel, but only looks at the main package's directory:   *)
(* it works because nothing else is left when that one is gone (MainGone), *)
(* which only a kill can change.                                           *)
(***************************************************************************)

NothingInstalled == \A p \in Packages : dest[p] = "none"

MainGone ==
    /\ (dest[Main] = "none" /\ sub # "rmdest") =>
          NothingInstalled /\ Declared \cap prepkg = {} /\ "install" \notin done
    /\ sub = "rmdest" => Declared \cap prepkg = {}
    /\ (sub \in {"subs", "split"} \/ ph \in {"pkg", "gen", "index"}) => dest[Main] # "none"

RedoneSubs ==
    At("install", "subs") =>
      /\ todo \subseteq Subs /\ \A p \in Subs \ todo : dest[p] = "full"
      /\ \A p \in Autos : dest[p] = "none"

RedoneSplit ==
    At("install", "split") =>
      /\ todo \subseteq Autos /\ \A p \in Declared : dest[p] = "full"
      /\ \A p \in Autos : dest[p] = "none" \/ (p \notin todo /\ dest[p] = "full")

RedonePkg ==
    ph \in {"pkg", "gen", "index"} =>
      /\ Declared \subseteq all /\ \A p \in all : dest[p] = "full"
      /\ Declared \ todo \subseteq hooked
      /\ ph \in {"gen", "index"} => todo = {}

Redone ==
    ~tmpl.stage0 =>
      /\ At("install", "enter") => NothingInstalled /\ "install" \notin done
      /\ RedoneSubs /\ RedoneSplit /\ RedonePkg
      /\ ph \in {"install", "pkg", "gen", "index"} => Declared \cap prepkg \subseteq hooked

InstallInv == kills = 0 => MainGone /\ Redone

\* The end of a run that was not in the middle of removing directories.
LEMMA OverInstall ==
    ASSUME InstallInv, Over, sub # "rmdest", UNCHANGED <<kills, prepkg, dest>>,
           done' \cap {"install"} \subseteq done \/ dest[Main] # "none"
    PROVE  InstallInv'
<1>1. ph' = "idle" /\ sub' = "enter"
  BY DEF Over, Goto
<1>2. kills = 0 => MainGone'
  BY <1>1 DEF InstallInv, MainGone, NothingInstalled
<1>3. Redone'
  BY <1>1 DEF Redone, RedoneSubs, RedoneSplit, RedonePkg, At
<1>4. QED
  BY <1>2, <1>3 DEF InstallInv

\* A step before the install, or one within a cleanup, that leaves the
\* directories and the sentinels of the packages as they are.
LEMMA QuietInstall ==
    ASSUME InstallInv, UNCHANGED <<tmpl, kills, prepkg, dest>>,
           done' \cap {"install"} \subseteq done, sub # "rmdest", 
           sub' \notin {"rmdest", "subs", "split"},
           ph' \notin {"pkg", "gen", "index"}, ph' = "install" => tmpl.stage0
    PROVE  InstallInv'
<1>1. kills = 0 => MainGone'
  BY DEF InstallInv, MainGone, NothingInstalled
<1>2. Redone'
  BY DEF Redone, RedoneSubs, RedoneSplit, RedonePkg, At
<1>3. QED
  BY <1>1, <1>2 DEF InstallInv

\* Leaving a work phase is such a step: only at stage 0 does the install come
\* right after the check.
LEMMA LeaveQuiet ==
    ASSUME TypeOK, InstallInv, NEW f \in WorkPhases \cup {"deps"}, NEW r, Leave(f, r), 
           sub \in {"enter", "run"}, UNCHANGED <<tmpl, kills, prepkg, dest>>,
           done' \subseteq done \cup WorkPhases
    PROVE  InstallInv'
<1>0. done' \cap {"install"} \subseteq done
  BY DEF WorkPhases
<1>1. CASE opt.step = f
  BY <1>0, <1>1, OverInstall DEF Leave
<1>2. CASE opt.step # f
  <2>1. ph' = After(f) /\ sub' = Enter(After(f))
    BY <1>2 DEF Leave, Goto
  <2>2. After(f) \notin {"pkg", "gen", "index"} /\ (After(f) = "install" => tmpl.stage0)
    BY DEF After, WorkPhases
  <2>3. Enter(After(f)) \notin {"rmdest", "subs", "split"}
    BY DEF Enter
  <2>4. QED
    BY <1>0, <2>1, <2>2, <2>3, QuietInstall
<1>3. QED
  BY <1>1, <1>2

\* Every operation of a run preserves what an install relies on.
LEMMA InstallStep ==
    ASSUME TypeOK, IInv, InstallInv, [Next]_vars
    PROVE  InstallInv'
<1>0. Points
  BY DEF IInv
<1>1. CASE UNCHANGED vars
  BY <1>1 DEF InstallInv, MainGone, NothingInstalled, Redone, RedoneSubs, RedoneSplit,
              RedonePkg, At, vars, mem
<1>2. ASSUME NEW o \in Runs, StartRun(o) PROVE InstallInv'
  <2>1. ph = "idle" /\ UNCHANGED <<tmpl, kills, done, prepkg, dest>>
    BY <1>2 DEF StartRun, disk
  <2>2. ph' \in {"start", "deps", "fetch"} /\ sub' \in {"src", "enter"}
    BY <1>2, BeforeAfter DEF StartRun, Goto, Enter
  <2>3. QED
    BY <1>0, <2>1, <2>2, QuietInstall DEF Points
<1>3. CASE RemoveSrcPart
  BY <1>0, <1>3, QuietInstall DEF RemoveSrcPart, mem, Points
<1>4. CASE RemoveSrc
  BY <1>0, <1>4, QuietInstall DEF RemoveSrc, mem, Points
<1>5. ASSUME ph \in {"start", "preinstall", "cleanup"}, AfterRemovePkg, NothingInstalled,
             Declared \cap prepkg = {}, "install" \notin done',
             UNCHANGED <<tmpl, kills, prepkg, dest>>
      PROVE  InstallInv'
  <2>1. sub' \in {"enter", "state"} /\ ph' \in {"install", "start", "cleanup"}
    BY <1>5 DEF AfterRemovePkg, Goto
  <2>2. MainGone'
    BY <1>5, <2>1 DEF MainGone, NothingInstalled
  <2>3. Redone'
    BY <1>5, <2>1 DEF Redone, RedoneSubs, RedoneSplit, RedonePkg, At, NothingInstalled
  <2>4. QED
    BY <2>2, <2>3 DEF InstallInv
<1>6. CASE RemovePkgNone
  <2>1. CASE kills = 0
    BY <1>0, <1>5, <1>6, <2>1 DEF RemovePkgNone, InstallInv, MainGone, Points, disk
  <2>2. CASE kills # 0
    BY <1>6, <2>2 DEF RemovePkgNone, InstallInv
  <2>3. QED
    BY <2>1, <2>2
<1>7. ASSUME ph \in {"start", "preinstall", "cleanup"}, UNCHANGED <<tmpl, kills, ph>>, 
             kills = 0 => MainGone'
      PROVE  InstallInv'
  <2>1. Redone'
    BY <1>7 DEF Redone, RedoneSubs, RedoneSplit, RedonePkg, At
  <2>2. QED
    BY <1>7, <2>1 DEF InstallInv
<1>8. CASE RemoveState
  BY <1>0, <1>7, <1>8 DEF RemoveState, InstallInv, MainGone, Points
<1>9. CASE RemoveStateEnd
  BY <1>0, <1>7, <1>9 DEF RemoveStateEnd, disk, InstallInv, MainGone, Points
<1>10. ASSUME NEW p \in Packages, RemoveDest(p) PROVE InstallInv'
  BY <1>0, <1>7, <1>10 DEF RemoveDest, InstallInv, MainGone, Points
<1>11. CASE RemovePkgEnd
  <2>1. CASE kills = 0
    BY <1>0, <1>5, <1>11, <2>1 DEF RemovePkgEnd, InstallInv, MainGone, Points, NothingInstalled
  <2>2. CASE kills # 0
    BY <1>11, <2>2 DEF RemovePkgEnd, InstallInv
  <2>3. QED
    BY <2>1, <2>2
<1>12. CASE RemoveStatedirPart
  <2>1. /\ sub = "state" /\ UNCHANGED <<tmpl, kills, dest, ph, sub>>
        /\ done' \subseteq done /\ prepkg' \subseteq prepkg
    BY <1>12 DEF RemoveStatedirPart
  <2>2. kills = 0 => MainGone'
    BY <2>1 DEF InstallInv, MainGone, NothingInstalled
  <2>3. QED
    BY <1>0, <1>7, <2>1, <2>2 DEF Points
<1>13. CASE RemoveStatedir
  <2>1. sub = "state" /\ done' = {} /\ prepkg' = {} /\ UNCHANGED <<tmpl, kills, dest>>
    BY <1>13 DEF RemoveStatedir
  <2>2. ph' \in {"idle", "deps", "fetch"} /\ sub' = "enter"
    BY <1>13, BeforeAfter DEF RemoveStatedir, Goto, Enter, Over
  <2>3. kills = 0 => MainGone'
    BY <2>1, <2>2 DEF InstallInv, MainGone, NothingInstalled
  <2>4. Redone'
    BY <2>2 DEF Redone, RedoneSubs, RedoneSplit, RedonePkg, At
  <2>5. QED
    BY <2>1, <2>3, <2>4 DEF InstallInv
<1>14. ASSUME NEW f \in WorkPhases, Skip(f) PROVE InstallInv'
  BY <1>14, LeaveQuiet DEF Skip, At, disk
<1>15. ASSUME NEW f \in WorkPhases, Start(f) PROVE InstallInv'
  <2>1. /\ ph = f /\ sub = "enter" /\ sub' = "run"
        /\ UNCHANGED <<tmpl, kills, done, prepkg, dest, ph>>
    BY <1>15 DEF Start, At
  <2>2. f \notin {"install", "pkg", "gen", "index"}
    BY DEF WorkPhases
  <2>3. QED
    BY <2>1, <2>2, QuietInstall
<1>16. ASSUME NEW f \in WorkPhases, Finish(f) PROVE InstallInv'
  <2>1. /\ sub = "run" /\ Leave(f, ran \cup {f}) /\ done' \subseteq done \cup WorkPhases
        /\ UNCHANGED <<tmpl, kills, prepkg, dest>>
    BY <1>16 DEF Finish, At
  <2>2. QED
    BY <2>1, LeaveQuiet
<1>17. ASSUME NEW f \in WorkPhases, FailPhase(f) PROVE InstallInv'
  BY <1>17, OverInstall DEF FailPhase, At
<1>18. CASE Deps
  BY <1>18, LeaveQuiet DEF Deps, At, disk
<1>19. CASE FailDeps
  BY <1>19, OverInstall DEF FailDeps, At, disk
<1>20. ASSUME ph = "install", LeaveInstall, sub # "rmdest",
              UNCHANGED <<tmpl, kills, prepkg, dest>>,
              kills = 0 => dest[Main] # "none",
              (kills = 0 /\ ~tmpl.stage0) => \A p \in Existing : dest[p] = "full"
       PROVE  InstallInv'
  <2>1. CASE kills # 0
    BY <1>20, <2>1 DEF InstallInv
  <2>2. CASE kills = 0 /\ opt.step = "install"
    BY <1>20, <2>2, OverInstall DEF LeaveInstall
  <2>3. CASE kills = 0 /\ opt.step # "install"
    <3>1. /\ ph' = "pkg" /\ sub' = "enter" /\ all' = Existing /\ todo' = Existing
          /\ hooked' = hooked
      BY <1>20, <2>3 DEF LeaveInstall, Goto
    <3>2. MainGone'
      BY <1>20, <2>3, <3>1 DEF InstallInv, MainGone, NothingInstalled
    <3>3. RedoneSubs' /\ RedoneSplit' /\ (~tmpl.stage0 => RedonePkg')
      BY <1>20, <2>3, <3>1 DEF RedoneSubs, RedoneSplit, RedonePkg, At, Existing
    <3>4. ~tmpl.stage0 => Declared \cap prepkg' \subseteq hooked'
      BY <1>20, <2>3, <3>1 DEF InstallInv, Redone
    <3>5. Redone'
      BY <1>20, <3>1, <3>3, <3>4 DEF Redone, At
    <3>6. QED
      BY <3>2, <3>5 DEF InstallInv
  <2>4. QED
    BY <2>1, <2>2, <2>3
<1>21. CASE InstallSkip
  <2>1. ph = "install" /\ sub = "enter" /\ "install" \in done /\ LeaveInstall
        /\ UNCHANGED <<tmpl, kills, done, prepkg, dest>>
    BY <1>21 DEF InstallSkip, At, disk
  <2>2. kills = 0 => tmpl.stage0
    BY <2>1 DEF InstallInv, Redone, At
  <2>3. kills = 0 => dest[Main] # "none"
    BY <2>1 DEF InstallInv, MainGone
  <2>4. QED
    BY <1>20, <2>1, <2>2, <2>3
\* A step of the install keeps the main directory and the sentinels.
<1>22. ASSUME ph = "install", ph' = "install", sub' \in {"subs", "split"},
              UNCHANGED <<tmpl, kills, prepkg, hooked>>,
              kills = 0 => dest'[Main] # "none",
              (kills = 0 /\ ~tmpl.stage0) => RedoneSubs' /\ RedoneSplit'
       PROVE  InstallInv'
  <2>1. kills = 0 => MainGone'
    BY <1>22 DEF MainGone
  <2>2. kills = 0 => Redone'
    BY <1>22 DEF InstallInv, Redone, RedonePkg, At
  <2>3. QED
    BY <1>22, <2>1, <2>2 DEF InstallInv
<1>23. Main \in Packages /\ Main \notin Subs /\ Main \notin Autos
  BY DEF Packages, Declared
<1>24. CASE InstallStart
  <2>1. /\ ph = "install" /\ sub = "enter" /\ ph' = ph /\ sub' = "subs" /\ todo' = Subs
        /\ dest' = [dest EXCEPT ![Main] = "part"]
        /\ UNCHANGED <<tmpl, kills, prepkg, hooked>>
    BY <1>24 DEF InstallStart, At
  <2>2. dest'[Main] = "part" /\ \A q \in Packages : q # Main => dest'[q] = dest[q]
    BY <1>23, <2>1 DEF TypeOK
  <2>3. (kills = 0 /\ ~tmpl.stage0) => \A p \in Autos : dest'[p] = "none"
    BY <1>23, <2>1, <2>2 DEF InstallInv, Redone, NothingInstalled, At, Packages
  <2>4. (kills = 0 /\ ~tmpl.stage0) => RedoneSubs' /\ RedoneSplit'
    BY <2>1, <2>3 DEF RedoneSubs, RedoneSplit, At
  <2>5. QED
    BY <1>22, <2>1, <2>2, <2>4
<1>25. ASSUME NEW p \in Subs, InstallSub(p) PROVE InstallInv'
  <2>1. /\ ph = "install" /\ sub = "subs" /\ p \in todo
        /\ UNCHANGED <<tmpl, kills, ph, sub, prepkg, hooked>>
        /\ todo' = IF dest[p] = "part" THEN todo \ {p} ELSE todo
        /\ dest' = [dest EXCEPT ![p] = IF dest[p] = "part" THEN "full" ELSE "part"]
    BY <1>25 DEF InstallSub, At
  <2>2. /\ p \in Packages
        /\ dest'[p] = IF dest[p] = "part" THEN "full" ELSE "part"
        /\ \A q \in Packages : q # p => dest'[q] = dest[q]
    BY <2>1 DEF TypeOK, Packages, Declared
  <2>3. kills = 0 => dest'[Main] # "none"
    BY <1>23, <2>1, <2>2 DEF InstallInv, MainGone
  <2>4. (kills = 0 /\ ~tmpl.stage0) =>
          /\ todo' \subseteq Subs /\ \A q \in Subs \ todo' : dest'[q] = "full"
          /\ \A q \in Autos : dest'[q] = "none"
    BY <2>1, <2>2 DEF InstallInv, Redone, RedoneSubs, At, Packages, Declared
  <2>5. (kills = 0 /\ ~tmpl.stage0) => RedoneSubs' /\ RedoneSplit'
    BY <2>1, <2>4 DEF RedoneSubs, RedoneSplit, At
  <2>6. QED
    BY <1>22, <2>1, <2>3, <2>5
<1>26. CASE InstallMain
  <2>1. /\ ph = "install" /\ sub = "subs" /\ todo = {} /\ ph' = ph /\ sub' = "split"
        /\ todo' = Autos /\ dest' = [dest EXCEPT ![Main] = "full"]
        /\ UNCHANGED <<tmpl, kills, prepkg, hooked>>
    BY <1>26 DEF InstallMain, At
  <2>2. dest'[Main] = "full" /\ \A q \in Packages : q # Main => dest'[q] = dest[q]
    BY <1>23, <2>1 DEF TypeOK
  <2>3. (kills = 0 /\ ~tmpl.stage0) =>
          /\ \A q \in Declared : dest'[q] = "full"
          /\ \A q \in Autos : dest'[q] = "none"
    BY <1>23, <2>1, <2>2 DEF InstallInv, Redone, RedoneSubs, At, Packages, Declared
  <2>4. (kills = 0 /\ ~tmpl.stage0) => RedoneSubs' /\ RedoneSplit'
    BY <2>1, <2>3 DEF RedoneSubs, RedoneSplit, At
  <2>5. QED
    BY <1>22, <2>1, <2>2, <2>4
<1>27. ASSUME NEW p \in Autos, NEW m \in BOOLEAN, SplitAuto(p, m) PROVE InstallInv'
  <2>1. /\ ph = "install" /\ sub = "split" /\ p \in todo /\ todo' = todo \ {p}
        /\ UNCHANGED <<tmpl, kills, ph, sub, prepkg, hooked>>
        /\ dest' = [dest EXCEPT ![p] = IF dest[p] # "none" THEN "mixed"
                                       ELSE IF m THEN "full" ELSE "none"]
    BY <1>27 DEF SplitAuto, At
  <2>2. /\ p \in Packages
        /\ dest'[p] = IF dest[p] # "none" THEN "mixed" ELSE IF m THEN "full" ELSE "none"
        /\ \A q \in Packages : q # p => dest'[q] = dest[q]
    BY <2>1 DEF TypeOK, Packages, Declared
  <2>3. kills = 0 => dest'[Main] # "none"
    BY <1>23, <2>1, <2>2 DEF InstallInv, MainGone
  <2>4. p \notin Declared
    BY DEF Declared
  <2>5. (kills = 0 /\ ~tmpl.stage0) =>
          /\ todo' \subseteq Autos /\ \A q \in Declared : dest'[q] = "full"
          /\ \A q \in Autos : dest'[q] = "none" \/ (q \notin todo' /\ dest'[q] = "full")
    BY <2>1, <2>2, <2>4 DEF InstallInv, Redone, RedoneSplit, At, Packages, Declared
  <2>6. (kills = 0 /\ ~tmpl.stage0) => RedoneSubs' /\ RedoneSplit'
    BY <2>1, <2>5 DEF RedoneSubs, RedoneSplit, At
  <2>7. QED
    BY <1>22, <2>1, <2>3, <2>6
<1>28. CASE InstallEnd
  <2>1. /\ ph = "install" /\ sub = "split" /\ todo = {} /\ LeaveInstall
        /\ UNCHANGED <<tmpl, kills, prepkg, dest>>
    BY <1>28 DEF InstallEnd, At
  <2>2. kills = 0 => dest[Main] # "none"
    BY <2>1 DEF InstallInv, MainGone
  <2>3. (kills = 0 /\ ~tmpl.stage0) => \A p \in Existing : dest[p] = "full"
    BY <2>1 DEF InstallInv, Redone, RedoneSplit, At, Existing
  <2>4. QED
    BY <1>20, <2>1, <2>2, <2>3
<1>29. CASE FailInstall
  BY <1>0, <1>29, OverInstall DEF FailInstall, disk, Points
\* The phases after the install only add to the sentinels of the packages.
<1>30. ASSUME ph \in {"pkg", "gen", "index"}, ph' \in {"pkg", "gen", "index", "cleanup"},
              sub' \in {"enter", "src"}, UNCHANGED <<tmpl, kills, done, dest>>,
              hooked \subseteq hooked', prepkg' \subseteq prepkg \cup hooked',
              ~tmpl.stage0 /\ RedonePkg => RedonePkg'
       PROVE  InstallInv'
  <2>1. CASE kills = 0
    <3>1. MainGone'
      BY <1>30, <2>1 DEF InstallInv, MainGone
    <3>2. Redone'
      BY <1>30, <2>1 DEF InstallInv, Redone, RedoneSubs, RedoneSplit, At
    <3>3. QED
      BY <3>1, <3>2 DEF InstallInv
  <2>2. QED
    BY <1>30, <2>1 DEF InstallInv
<1>31. ASSUME NEW p \in Packages, PrepkgSkip(p) PROVE InstallInv'
  <2>1. /\ ph = "pkg" /\ sub = "enter" /\ p \in prepkg /\ todo' = todo \ {p}
        /\ UNCHANGED <<tmpl, kills, done, prepkg, dest, ph, sub, all, hooked>>
    BY <1>31 DEF PrepkgSkip, At, disk
  <2>2. CASE kills = 0
    <3>1. ~tmpl.stage0 /\ RedonePkg => RedonePkg'
      BY <2>1, <2>2 DEF InstallInv, Redone, RedonePkg
    <3>2. QED
      BY <1>30, <2>1, <3>1
  <2>3. QED
    BY <2>1, <2>2 DEF InstallInv
<1>32. ASSUME NEW p \in Packages, PrepkgRun(p) PROVE InstallInv'
  <2>1. /\ ph = "pkg" /\ sub = "enter" /\ todo' = todo \ {p}
        /\ hooked' = hooked \cup {p} /\ prepkg' = prepkg \cup {p}
        /\ UNCHANGED <<tmpl, kills, done, dest, ph, sub, all>>
    BY <1>32 DEF PrepkgRun, At
  <2>2. ~tmpl.stage0 /\ RedonePkg => RedonePkg'
    BY <2>1 DEF RedonePkg
  <2>3. QED
    BY <1>30, <2>1, <2>2
<1>33. CASE PrepkgEnd
  <2>1. /\ ph = "pkg" /\ ph' = "gen" /\ sub' = "enter" /\ todo = {}
        /\ UNCHANGED <<tmpl, kills, done, prepkg, dest, all, hooked, todo>>
    BY <1>33 DEF PrepkgEnd, At, Goto, disk, mem
  <2>2. RedonePkg => RedonePkg'
    BY <2>1 DEF RedonePkg
  <2>3. QED
    BY <1>30, <2>1, <2>2
<1>34. CASE FailPkg
  BY <1>0, <1>34, OverInstall DEF FailPkg, disk, Points
<1>35. CASE Gen
  <2>1. /\ ph = "gen" /\ ph' = "index" /\ sub' = "enter"
        /\ UNCHANGED <<tmpl, kills, done, prepkg, dest, all, hooked, todo>>
    BY <1>35 DEF Gen, At, Goto, disk, mem
  <2>2. RedonePkg => RedonePkg'
    BY <2>1 DEF RedonePkg
  <2>3. QED
    BY <1>30, <2>1, <2>2
<1>36. CASE Index
  <2>1. ph = "index" /\ sub = "enter" /\ UNCHANGED <<tmpl, kills, done, prepkg, dest>>
    BY <1>36 DEF Index, At, disk
  <2>2. CASE opt.keep
    BY <1>36, <2>1, <2>2, OverInstall DEF Index
  <2>3. CASE ~opt.keep
    <3>1. ph' = "cleanup" /\ sub' = "src" /\ hooked' = hooked
      BY <1>36, <2>3 DEF Index, Goto, mem
    <3>2. RedonePkg'
      BY <3>1 DEF RedonePkg
    <3>3. QED
      BY <1>30, <2>1, <3>1, <3>2
  <2>4. QED
    BY <2>2, <2>3
<1>37. CASE Killed
  BY <1>37 DEF Killed, TypeOK, InstallInv
<1>38. QED
  BY <1>1, <1>2, <1>3, <1>4, <1>6, <1>8, <1>9, <1>10, <1>11, <1>12, <1>13, <1>14, <1>15,
     <1>16, <1>17, <1>18, <1>19, <1>21, <1>24, <1>25, <1>26, <1>27, <1>28, <1>29, <1>31,
     <1>32, <1>33, <1>34, <1>35, <1>36, <1>37 DEF Next

\* A run continued with -D installs again from nothing, however often the
\* build has failed before (build.py:795-802): the directories it packs are
\* whole and the pkg hooks of the declared packages have run.
THEOREM RedoneInstallCorrect == Spec => []RedoneInstall
<1>1. Init => InstallInv
  BY DEF Init, InstallInv, MainGone, NothingInstalled, Redone, RedoneSubs, RedoneSplit,
         RedonePkg, At
<1>2. TypeOK /\ IInv /\ InstallInv /\ [Next]_vars => InstallInv'
  BY InstallStep
<1>3. InstallInv => RedoneInstall
  BY DEF InstallInv, Redone, RedonePkg, RedoneInstall
<1>4. QED
  BY <1>1, <1>2, <1>3, Invariant, PTL DEF Spec
================================================================================
