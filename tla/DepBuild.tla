------------------------------- MODULE DepBuild -------------------------------
(***************************************************************************)
(* cbuild/core/dependencies.py and build.py: building a template and, on   *)
(* the way, every dependency that is missing from the repositories.        *)
(*                                                                         *)
(* dependencies.install finds out which dependencies are missing, calls    *)
(* build.build for each of them (which does the same for theirs) and then  *)
(* installs them all in the one build root.  The state of this recursion   *)
(* is a stack of frames (pkg_stack) and depmap, the set of builds in       *)
(* progress.  A template may be built for the host machine or, with -a,    *)
(* for a foreign target; a cross build may need one template for both.  A  *)
(* build is a template and the machine it is for.                          *)
(*                                                                         *)
(* A dependency names a template's main package or one of its              *)
(* subpackages; which of the two is a property of the whole graph here.    *)
(*                                                                         *)
(* Two options of a command waive what it is told to take on trust: with   *)
(* --no-depends-check the repositories are not searched for dependencies,  *)
(* and with -D (--dirty-build) the command's own build installs none.  The *)
(* builds of dependencies are never dirty (build.py:549).                  *)
(***************************************************************************)
EXTENDS Naturals, Sequences, FiniteSets

CONSTANTS Names,      \* templates
          Toolchain,  \* base-cross, which every cross build needs on the host
          Graphs,     \* dependency graphs to consider
          NoBuild     \* no build at all

ASSUME ToolchainAssumption == Toolchain \in Names

Machines == {"host", "target"}
Builds == Names \X Machines

\* host, make, run: hostmakedepends (with checkdepends), makedepends and the
\* runtime dependencies of all packages of a template; by_name: they name the
\* main packages, not subpackages.
GraphType == [host : [Names -> SUBSET Names], make : [Names -> SUBSET Names],
              run : [Names -> SUBSET Names], by_name : BOOLEAN]

ASSUME GraphsAssumption == Graphs \subseteq GraphType
ASSUME NoBuildAssumption == NoBuild \notin Builds

VARIABLES
    graph,     \* the templates
    root,      \* the build the command is for
    opts,      \* options of the command
    repo,      \* builds whose packages are in the repositories or the stage
    stack,     \* pkg_stack: the builds in progress, the innermost last
    depmap,    \* keys of the builds in progress
    world,     \* dependencies installed in the build root
    statedir,  \* templates whose state directory exists
    failed,    \* pkg_failed
    result     \* "none" until the command ends

vars == <<graph, root, opts, repo, stack, depmap, world, statedir, failed, result>>

Options == {"no_depends_check", "dirty"}
Depcheck == "no_depends_check" \notin opts
Dirty == "dirty" \in opts
\* The command takes nothing on trust.
Checked == opts = {}

IsCross(b) == b[2] = "target"
HostDeps(b) == {<<n, "host">> : n \in graph.host[b[1]] \cup (IF IsCross(b) THEN {Toolchain} ELSE {})}
MakeDeps(b) == {<<n, b[2]>> : n \in graph.make[b[1]]}
\* A subpackage that depends on its own template's packages needs no build.
RunDeps(b) == {<<n, b[2]>> : n \in graph.run[b[1]] \ (IF graph.by_name THEN {} ELSE {b[1]})}
Needs(b) == HostDeps(b) \cup MakeDeps(b) \cup RunDeps(b)

\* What is installed in the build root: the packages of the sysroot of a
\* cross build are not.
WorldDeps(b) == IF IsCross(b) THEN HostDeps(b) ELSE HostDeps(b) \cup MakeDeps(b)

\* No package is in a repository without its runtime dependencies.
Closed(r) == \A b \in r : RunDeps(b) \subseteq r

Frame(b, chost, origin) ==
    [build |-> b, chost |-> chost, origin |-> origin, pc |-> "enter",
     host |-> {}, target |-> {}]

Top == stack[Len(stack)]
At(pc) == stack # <<>> /\ Top.pc = pc
Push(f) == stack' = Append(stack, f)
Pop == stack' = SubSeq(stack, 1, Len(stack) - 1)
\* The key of a build in depmap.
Key(f) == <<f.chost, f.build[1]>>

Init == /\ graph \in Graphs
        /\ repo \in SUBSET Builds /\ Closed(repo)
        /\ stack = <<>> /\ depmap = {} /\ world = {} /\ statedir = {}
        /\ root = NoBuild /\ opts = {} /\ failed = NoBuild /\ result = "none"

\* An exception unwinds all builds; the innermost one is to blame.
Raise(r) == /\ stack' = <<>> /\ depmap' = {}
            /\ failed' = Top.build /\ result' = r
            /\ UNCHANGED <<graph, root, opts, repo, world>>
-------------------------------------------------------------------------------
\* runner.do_pkg: the template is parsed, and skipped if built and not forced.
DoPkg(b, force, options) ==
    /\ stack = <<>> /\ result = "none"
    /\ ~(IsCross(b) /\ b[1] = Toolchain)    \* its template is marked !cross
    /\ root' = b /\ opts' = options
    /\ IF b \in repo /\ ~force
         THEN result' = "skipped" /\ stack' = stack
         ELSE result' = result /\ Push(Frame(b, FALSE, b[1]))
    /\ UNCHANGED <<graph, repo, depmap, world, statedir, failed>>

\* Faulty variant: a build in progress is entered again.
EnterUnchecked ==
    /\ At("enter")
    /\ depmap' = depmap \cup {Key(Top)}
    /\ statedir' = statedir \cup {Top.build[1]}
    /\ stack' = [stack EXCEPT ![Len(stack)] = [Top EXCEPT !.pc = "deps"]]
    /\ UNCHANGED <<graph, root, opts, repo, world, failed, result>>

\* build._build: a build that is in progress already is a cycle; the state
\* directory is made anew.
Enter ==
    /\ At("enter") /\ Key(Top) \notin depmap
    /\ depmap' = depmap \cup {Key(Top)}
    /\ statedir' = statedir \cup {Top.build[1]}
    /\ stack' = [stack EXCEPT ![Len(stack)] = [Top EXCEPT !.pc = "deps"]]
    /\ UNCHANGED <<graph, root, opts, repo, world, failed, result>>
EnterCycle ==
    /\ At("enter") /\ Key(Top) \in depmap
    /\ Raise("loop") /\ UNCHANGED statedir

\* build._build_locked: a dirty build goes on with what is in the build root.
SkipInstall ==
    /\ At("deps") /\ Dirty
    /\ stack' = [stack EXCEPT ![Len(stack)] = [Top EXCEPT !.pc = "phases"]]
    /\ UNCHANGED <<graph, root, opts, repo, depmap, world, statedir, failed, result>>

\* Faulty variant: a subpackage may not depend on its own template.
LoopSubpackage(f) == f.build[1] \in graph.run[f.build[1]]

\* dependencies.install: the checks for immediate loops, which compare the
\* names of packages with those of the template and of what it is built for.
Loop(f) ==
    LET n == f.build[1]
        MissingIn(S) == {d[1] : d \in S \ repo}
    IN /\ Depcheck /\ graph.by_name
       /\ \/ ~IsCross(f.build) /\ {n, f.origin} \cap MissingIn(HostDeps(f.build)) # {}
          \/ {n, f.origin} \cap MissingIn(MakeDeps(f.build)) # {}
          \/ n \in graph.run[n]
          \/ n # f.origin /\ f.origin \in graph.run[n]

\* What of these the command looks for and does not find.
Missing(S) == IF Depcheck THEN S \ repo ELSE {}

\* Faulty variant: runtime dependencies are left to somebody else.
ResolveNoRun ==
    /\ At("deps") /\ ~Dirty /\ ~Loop(Top)
    /\ stack' = [stack EXCEPT ![Len(stack)] =
                   [Top EXCEPT !.pc = "build", !.host = Missing(HostDeps(Top.build)),
                               !.target = Missing(MakeDeps(Top.build))]]
    /\ UNCHANGED <<graph, root, opts, repo, depmap, world, statedir, failed, result>>

Resolve ==
    /\ At("deps") /\ ~Dirty /\ ~Loop(Top)
    /\ stack' = [stack EXCEPT ![Len(stack)] =
                   [Top EXCEPT !.pc = "build", !.host = Missing(HostDeps(Top.build)),
                               !.target = Missing(MakeDeps(Top.build) \cup RunDeps(Top.build))]]
    /\ UNCHANGED <<graph, root, opts, repo, depmap, world, statedir, failed, result>>
ResolveLoop ==
    /\ At("deps") /\ ~Dirty /\ Loop(Top)
    /\ Raise("loop") /\ UNCHANGED statedir

\* The missing dependency to turn to next: host dependencies first.
NextDep(d) == IF Top.host # {} THEN d \in Top.host ELSE d \in Top.target
Rest(d) == IF Top.host # {} THEN [Top EXCEPT !.host = @ \ {d}]
                            ELSE [Top EXCEPT !.target = @ \ {d}]
Without(d) == [stack EXCEPT ![Len(stack)] = Rest(d)]

\* Faulty variants: the failure of a dependency is taken for SkipPackage; a
\* skipped dependency is tried again; what is built already is built again;
\* the origin is the build and not its name.
SkipDepAny(d) ==
    /\ At("build") /\ NextDep(d)
    /\ stack' = Without(d)
    /\ UNCHANGED <<graph, root, opts, repo, depmap, world, statedir, failed, result>>
SkipDepKeep(d) == At("build") /\ NextDep(d) /\ d \in repo /\ UNCHANGED vars
BuildDepAlways(d) ==
    /\ At("build") /\ NextDep(d)
    /\ stack' = Append(Without(d), Frame(d, Top.chost, Top.build[1]))
    /\ UNCHANGED <<graph, root, opts, repo, depmap, world, statedir, failed, result>>
BuildDepOrigin(d) ==
    /\ At("build") /\ NextDep(d) /\ d \notin repo
    /\ stack' = Append(Without(d), Frame(d, Top.chost, Top.build))
    /\ UNCHANGED <<graph, root, opts, repo, depmap, world, statedir, failed, result>>

\* The Template constructor raises SkipPackage when another build on the way
\* has produced the dependency; otherwise build.build is entered.
SkipDep(d) ==
    /\ At("build") /\ NextDep(d) /\ d \in repo
    /\ stack' = Without(d)
    /\ UNCHANGED <<graph, root, opts, repo, depmap, world, statedir, failed, result>>
BuildDep(d) ==
    /\ At("build") /\ NextDep(d) /\ d \notin repo
    /\ stack' = Append(Without(d),
                  Frame(d, Top.chost \/ (IsCross(Top.build) /\ Top.host # {}), Top.build[1]))
    /\ UNCHANGED <<graph, root, opts, repo, depmap, world, statedir, failed, result>>

\* Faulty variant: apk add instead of a new world.
InstallAdd ==
    /\ At("build") /\ Top.host = {} /\ Top.target = {}
    /\ world' = world \cup WorldDeps(Top.build)
    /\ stack' = [stack EXCEPT ![Len(stack)] = [Top EXCEPT !.pc = "phases"]]
    /\ UNCHANGED <<graph, root, opts, repo, depmap, statedir, failed, result>>

\* The end of dependencies.install: the world is written and apk fixes it,
\* whatever the builds of dependencies had installed.  Without a check any
\* version of a dependency will do, also one that is no build of its template.
Install ==
    /\ At("build") /\ Top.host = {} /\ Top.target = {}
    /\ Depcheck => WorldDeps(Top.build) \subseteq repo
    /\ world' = WorldDeps(Top.build)
    /\ stack' = [stack EXCEPT ![Len(stack)] = [Top EXCEPT !.pc = "phases"]]
    /\ UNCHANGED <<graph, root, opts, repo, depmap, statedir, failed, result>>

\* Faulty variant: the cleanup removes every state directory.
PhasesWipe ==
    /\ At("phases") /\ Top.build[1] \in statedir
    /\ repo' = repo \cup {Top.build} /\ statedir' = {}
    /\ depmap' = depmap \ {Key(Top)}
    /\ Pop /\ result' = IF Len(stack) = 1 THEN "ok" ELSE result
    /\ UNCHANGED <<graph, root, opts, world, failed>>

\* The phases up to staging, and the cleanup.
Phases ==
    /\ At("phases") /\ Top.build[1] \in statedir
    /\ repo' = repo \cup {Top.build}
    /\ statedir' = statedir \ {Top.build[1]}
    /\ depmap' = depmap \ {Key(Top)}
    /\ Pop /\ result' = IF Len(stack) = 1 THEN "ok" ELSE result
    /\ UNCHANGED <<graph, root, opts, world, failed>>

\* Without a state directory there is nowhere to extract to.
PhasesLost ==
    /\ At("phases") /\ Top.build[1] \notin statedir
    /\ Raise("failed") /\ UNCHANGED statedir

\* A failure of any phase, of apk or of a template.
Fail == stack # <<>> /\ Raise("failed") /\ UNCHANGED statedir

Ended == result # "none" /\ UNCHANGED vars

Proceed == \/ \E b \in Builds, f \in BOOLEAN, o \in SUBSET Options : DoPkg(b, f, o)
           \/ Enter \/ EnterCycle \/ SkipInstall \/ Resolve \/ ResolveLoop
           \/ \E d \in Builds : SkipDep(d) \/ BuildDep(d)
           \/ Install \/ Phases \/ PhasesLost
Next == Proceed \/ Fail \/ Ended

Spec == Init /\ [][Next]_vars

\* The one process of the command keeps running.
FairSpec == Spec /\ WF_vars(Proceed)
-------------------------------------------------------------------------------
FrameType == [build : Builds, chost : BOOLEAN, origin : Names,
              pc : {"enter", "deps", "build", "phases"},
              host : SUBSET Builds, target : SUBSET Builds]

TypeOK == /\ graph \in Graphs /\ root \in Builds \cup {NoBuild} /\ opts \subseteq Options
          /\ repo \subseteq Builds /\ stack \in Seq(FrameType)
          /\ depmap \subseteq BOOLEAN \X Names
          /\ world \subseteq Builds /\ statedir \subseteq Names
          /\ failed \in Builds \cup {NoBuild}
          /\ result \in {"none", "skipped", "ok", "loop", "failed"}

\* build.py:597: no build is entered while it is in progress, so builds nest
\* no deeper than there are builds.
NoReentry == \A j \in 2..Len(stack) : stack[j].pc # "enter" =>
                \A i \in 1..(j - 1) : stack[i].build # stack[j].build

\* dependencies.py:502-558: a dependency that another build on the way has
\* produced in the meantime is not built a second time.
NoRebuild == \A i \in 2..Len(stack) : stack[i].build \notin repo

\* dependencies.py:311-578: when the phases of a template run, everything it
\* needs exists, whatever was missing when it was looked up - unless an option
\* says to go on without (Usage.md:432, 453-456).
DepsReady == At("phases") /\ Checked => Needs(Top.build) \subseteq repo

\* dependencies.py:560-578: the build root then holds the dependencies of this
\* template and nothing that the builds of dependencies had installed; only a
\* dirty build takes it as it is.
WorldExact == At("phases") /\ ~Dirty => world = WorldDeps(Top.build)

\* dependencies.py:437-498: however a command ends, it leaves no package in the
\* repositories without its runtime dependencies, but for those of the command's
\* own build if an option said not to look for them.
RepoClosed == \A b \in repo : RunDeps(b) \subseteq repo \/ (b = root /\ ~Checked)

\* Builds reachable from b over dependencies, and whether there is a cycle
\* among those that are missing.
Reach(b) == {c \in Builds : \A S \in SUBSET Builds :
               b \in S /\ (\A x \in S : Needs(x) \subseteq S) => c \in S}
RealCycle(b) == \E S \in SUBSET (Reach(b) \ repo) :
                  S # {} /\ \A x \in S : Needs(x) \cap S # {}

\* build.py:597, dependencies.py:396-464, Packaging.md:244-248: a build loop is
\* only reported if the missing builds really need each other.
LoopsReal == result = "loop" /\ root \notin repo => RealCycle(root)

\* build.py:631: the state directory made at the start of a build is there
\* when its phases run.
StateIntact == At("phases") => Top.build[1] \in statedir

\* Both hold of every native build.
Native == root # NoBuild /\ ~IsCross(root)
NativeLoopsReal == Native => LoopsReal
NativeStateIntact == Native => StateIntact

\* Every command ends: cycles do not make it build forever.
Termination == <>(result # "none")
===============================================================================
