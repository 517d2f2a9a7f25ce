---------------------------- MODULE DepBuildProofs ----------------------------
(***************************************************************************)
(* Proofs about the recursive building of dependencies, for any templates, *)
(* any dependency graph and native as well as cross builds.                *)
(*                                                                         *)
(* The invariant says of every build in progress that what it needs is in  *)
(* the repositories, still on its lists, or the build right above it       *)
(* (Accounted), and that depmap has its key (Keyed).  That depmap's keys   *)
(* tell builds apart is itself an invariant: the chost flag is true of the *)
(* host builds on the way to a cross build and of no others, and a native  *)
(* build needs nothing for the target (ChostExact).                        *)
(*                                                                         *)
(* The second part shows that the builds in progress are a path of         *)
(* dependencies, so that a key met twice is a cycle, and that in a native  *)
(* command no build takes another one's state directory (PathInv).         *)
(*                                                                         *)
(* A command with an option that takes dependencies on trust builds none   *)
(* of them (Alone): what it waives, it waives for its own build only.      *)
(***************************************************************************)
EXTENDS DepBuild, SequenceTheorems, TLAPS

Depth == 1..Len(stack)

\* The chost flag and machine of a build on the way to build r.
Fits(chost, b, r) == /\ chost <=> r[2] = "target" /\ b[2] = "host"
                     /\ b[2] = "target" => r[2] = "target"

ChostExact == \A i \in Depth : Fits(stack[i].chost, stack[i].build, root)

\* Only the innermost build is not busy with its dependencies.
Waiting == \A i \in Depth : i < Len(stack) => stack[i].pc = "build"

\* The lists hold builds for the right machines.
ListsFit == \A i \in Depth :
    /\ \A d \in stack[i].host : d[2] = "host"
    /\ \A d \in stack[i].target : d[2] = stack[i].build[2]

Keyed == \A i \in Depth : stack[i].pc # "enter" => Key(stack[i]) \in depmap

Provided(i) == Checked =>
    /\ stack[i].pc = "phases" => Needs(stack[i].build) \subseteq repo
    /\ stack[i].pc = "build" => \A d \in Needs(stack[i].build) :
         d \in repo \cup stack[i].host \cup stack[i].target
           \/ (i < Len(stack) /\ d = stack[i + 1].build)
Accounted == \A i \in Depth : Provided(i)

\* A command that takes dependencies on trust has no list of missing ones.
Alone == ~Checked => \A i \in Depth :
    stack[i].build = root /\ stack[i].host = {} /\ stack[i].target = {}

\* The options are those of a command, and there is none yet.
Fresh == stack = <<>> /\ result = "none" => Checked

IInv == ChostExact /\ Waiting /\ ListsFit /\ Keyed /\ NoReentry /\ Accounted
          /\ NoRebuild /\ RepoClosed /\ WorldExact /\ Alone /\ Fresh
-------------------------------------------------------------------------------
USE ToolchainAssumption, GraphsAssumption, NoBuildAssumption

\* What a build needs are builds, for the machines the lists expect.
LEMMA NeedsType ==
    ASSUME TypeOK, NEW b \in Builds
    PROVE  /\ HostDeps(b) \subseteq Builds /\ MakeDeps(b) \subseteq Builds
           /\ RunDeps(b) \subseteq Builds /\ WorldDeps(b) \subseteq Builds
           /\ \A d \in HostDeps(b) : d[2] = "host"
           /\ \A d \in MakeDeps(b) \cup RunDeps(b) : d[2] = b[2]
<1>1. graph \in GraphType /\ b[1] \in Names /\ b[2] \in Machines /\ "host" \in Machines
  BY DEF TypeOK, Builds, Machines
<1>2. /\ graph.host[b[1]] \subseteq Names /\ graph.make[b[1]] \subseteq Names
      /\ graph.run[b[1]] \subseteq Names
  BY <1>1 DEF GraphType
<1>3. HostDeps(b) \subseteq Builds /\ \A d \in HostDeps(b) : d[2] = "host"
  BY <1>1, <1>2 DEF HostDeps, Builds
<1>4. MakeDeps(b) \subseteq Builds /\ \A d \in MakeDeps(b) : d[2] = b[2]
  BY <1>1, <1>2 DEF MakeDeps, Builds
<1>5. RunDeps(b) \subseteq Builds /\ \A d \in RunDeps(b) : d[2] = b[2]
  BY <1>1, <1>2 DEF RunDeps, Builds
<1>6. QED
  BY <1>3, <1>4, <1>5 DEF WorldDeps

\* The innermost build is a frame, and its dependencies to come are builds.
LEMMA TopType ==
    ASSUME TypeOK, stack # <<>>
    PROVE  /\ Len(stack) \in Nat \ {0} /\ Top \in FrameType /\ Top = stack[Len(stack)]
           /\ Top.build \in Builds /\ Top.build[1] \in Names
<1>1. stack \in Seq(FrameType)
  BY DEF TypeOK
<1>2. Len(stack) \in Nat \ {0}
  BY <1>1
<1>3. Top \in FrameType
  BY <1>1, <1>2 DEF Top
<1>4. Top.build \in Builds
  BY <1>3 DEF FrameType
<1>5. QED
  BY <1>2, <1>3, <1>4 DEF Top, Builds

\* Replacing the innermost frame by another one keeps the stack a stack.
LEMMA ReplaceTop ==
    ASSUME TypeOK, stack # <<>>, NEW f \in FrameType,
           NEW t, t = [stack EXCEPT ![Len(stack)] = f]
    PROVE  /\ t \in Seq(FrameType) /\ Len(t) = Len(stack) /\ t[Len(stack)] = f
           /\ \A i \in 1..(Len(stack) - 1) : t[i] = stack[i]
  BY DEF TypeOK

\* A step that raises an exception leaves a well-typed state.
LEMMA RaiseType ==
    ASSUME TypeOK, stack # <<>>, NEW r \in {"loop", "failed"}, Raise(r), UNCHANGED statedir
    PROVE  TypeOK'
  BY TopType DEF TypeOK, Raise

\* The type invariant is preserved.
LEMMA TypeStep == TypeOK /\ [Next]_vars => TypeOK'
<1> SUFFICES ASSUME TypeOK, [Next]_vars PROVE TypeOK'
  OBVIOUS
<1>1. CASE UNCHANGED vars
  BY <1>1 DEF TypeOK, vars
<1>2. ASSUME NEW b \in Builds, NEW force \in BOOLEAN, NEW o \in SUBSET Options, DoPkg(b, force, o)
      PROVE  TypeOK'
  <2>1. b[1] \in Names
    BY DEF Builds
  <2>2. Frame(b, FALSE, b[1]) \in FrameType
    BY <2>1 DEF Frame, FrameType
  <2>3. stack' = stack \/ stack' = Append(stack, Frame(b, FALSE, b[1]))
    BY <1>2 DEF DoPkg, Push
  <2>4. stack' \in Seq(FrameType)
    <3>1. stack \in Seq(FrameType)
      BY DEF TypeOK
    <3>2. ASSUME NEW f \in FrameType PROVE Append(stack, f) \in Seq(FrameType)
      BY <3>1
    <3>3. QED
      BY <2>2, <2>3, <3>1, <3>2
  <2>5. QED
    BY <1>2, <2>4 DEF TypeOK, DoPkg
<1>3. CASE Enter
  <2>1. stack # <<>>
    BY <1>3 DEF Enter, At
  <2>2. [Top EXCEPT !.pc = "deps"] \in FrameType /\ Key(Top) \in BOOLEAN \X Names
    BY <2>1, TopType DEF FrameType, Key
  <2>3. stack' \in Seq(FrameType)
    BY <1>3, <2>1, <2>2, ReplaceTop DEF Enter
  <2>4. QED
    BY <1>3, <2>1, <2>2, <2>3, TopType DEF TypeOK, Enter
<1>4. CASE EnterCycle
  BY <1>4, RaiseType DEF EnterCycle, At
<1>5. CASE Resolve
  <2>1. stack # <<>>
    BY <1>5 DEF Resolve, At
  <2>2. [Top EXCEPT !.pc = "build", !.host = Missing(HostDeps(Top.build)),
                    !.target = Missing(MakeDeps(Top.build) \cup RunDeps(Top.build))] \in FrameType
    BY <2>1, TopType, NeedsType DEF FrameType, Missing
  <2>3. stack' \in Seq(FrameType)
    BY <1>5, <2>1, <2>2, ReplaceTop DEF Resolve
  <2>4. QED
    BY <1>5, <2>3 DEF TypeOK, Resolve
<1>6. CASE ResolveLoop
  BY <1>6, RaiseType DEF ResolveLoop, At
<1>7. ASSUME NEW d \in Builds, stack # <<>> PROVE Rest(d) \in FrameType /\ Without(d) \in Seq(FrameType)
  <2>1. Rest(d) \in FrameType
    BY <1>7, TopType DEF Rest, FrameType
  <2>2. QED
    BY <1>7, <2>1, ReplaceTop DEF Without
<1>8. ASSUME NEW d \in Builds, SkipDep(d) PROVE TypeOK'
  BY <1>7, <1>8 DEF TypeOK, SkipDep, At
<1>9. ASSUME NEW d \in Builds, BuildDep(d) PROVE TypeOK'
  <2>1. stack # <<>>
    BY <1>9 DEF BuildDep, At
  <2> DEFINE f == Frame(d, Top.chost \/ (IsCross(Top.build) /\ Top.host # {}), Top.build[1])
  <2>2. f \in FrameType
    BY <2>1, TopType DEF Frame, FrameType, IsCross
  <2>3. stack' \in Seq(FrameType)
    BY <1>7, <1>9, <2>1, <2>2 DEF BuildDep
  <2>4. QED
    BY <1>9, <2>3 DEF TypeOK, BuildDep
<1>10. CASE Install
  <2>1. stack # <<>>
    BY <1>10 DEF Install, At
  <2>2. [Top EXCEPT !.pc = "phases"] \in FrameType
    BY <2>1, TopType DEF FrameType
  <2>3. stack' \in Seq(FrameType)
    BY <1>10, <2>1, <2>2, ReplaceTop DEF Install
  <2>4. QED
    BY <1>10, <2>1, <2>3, TopType, NeedsType DEF TypeOK, Install
<1>11. CASE Phases
  <2>1. stack # <<>>
    BY <1>11 DEF Phases, At
  <2>2. stack' \in Seq(FrameType)
    BY <1>11, <2>1 DEF Phases, Pop, TypeOK
  <2>3. QED
    BY <1>11, <2>1, <2>2, TopType DEF TypeOK, Phases
<1>12. CASE PhasesLost
  BY <1>12, RaiseType DEF PhasesLost, At
<1>13. CASE Fail
  BY <1>13, RaiseType DEF Fail
<1>14. CASE Ended
  BY <1>14 DEF TypeOK, Ended, vars
<1>15. CASE SkipInstall
  <2>1. stack # <<>>
    BY <1>15 DEF SkipInstall, At
  <2>2. [Top EXCEPT !.pc = "phases"] \in FrameType
    BY <2>1, TopType DEF FrameType
  <2>3. stack' \in Seq(FrameType)
    BY <1>15, <2>1, <2>2, ReplaceTop DEF SkipInstall
  <2>4. QED
    BY <1>15, <2>3 DEF TypeOK, SkipInstall
<1>16. QED
  BY <1>1, <1>2, <1>3, <1>4, <1>5, <1>6, <1>8, <1>9, <1>10, <1>11, <1>12, <1>13, <1>14, <1>15
     DEF Next, Proceed

\* The repositories, the stack of builds and depmap always have their types.
THEOREM TypeCorrect == Spec => []TypeOK
<1>1. Init => TypeOK
  BY DEF Init, TypeOK
<1>2. QED
  BY <1>1, TypeStep, PTL DEF Spec
-------------------------------------------------------------------------------
\* depmap's keys tell the builds in progress apart.
LEMMA KeysTell ==
    ASSUME TypeOK, ChostExact, NEW i \in Depth, NEW j \in Depth
    PROVE  Key(stack[i]) = Key(stack[j]) <=> stack[i].build = stack[j].build
<1>1. stack[i] \in FrameType /\ stack[j] \in FrameType
  BY DEF TypeOK, Depth
<1>2. /\ stack[i].build \in Builds /\ stack[j].build \in Builds
      /\ stack[i].chost \in BOOLEAN /\ stack[j].chost \in BOOLEAN
  BY <1>1 DEF FrameType
<1>3. Fits(stack[i].chost, stack[i].build, root) /\ Fits(stack[j].chost, stack[j].build, root)
  BY DEF ChostExact
<1>4. QED
  BY <1>2, <1>3 DEF Key, Builds, Machines, Fits

\* Nothing is in progress after an exception.
LEMMA RaiseInv ==
    ASSUME TypeOK, IInv, NEW r, r # "none", Raise(r) PROVE IInv'
<1>1. stack' = <<>> /\ Len(stack') = 0 /\ UNCHANGED <<graph, root, opts, repo>> /\ result' = r
  BY DEF Raise
<1>2. Depth' = {}
  BY <1>1 DEF Depth
<1>3. RepoClosed'
  BY <1>1 DEF IInv, RepoClosed, Checked, RunDeps
<1>4. NoReentry' /\ NoRebuild'
  BY <1>1 DEF NoReentry, NoRebuild
<1>5. WorldExact' /\ Fresh'
  BY <1>1 DEF WorldExact, At, Fresh
<1>6. QED
  BY <1>2, <1>3, <1>4, <1>5 DEF IInv, ChostExact, Waiting, ListsFit, Keyed, Accounted, Provided, Alone

\* The innermost build makes progress: what has to be shown of its new frame.
LEMMA ReplaceInv ==
    ASSUME TypeOK, IInv, stack # <<>>, NEW f \in FrameType,
           stack' = [stack EXCEPT ![Len(stack)] = f],
           f.build = Top.build, f.chost = Top.chost,
           UNCHANGED <<graph, root, opts, repo>>, depmap \subseteq depmap',
           ~Checked => f.host = {} /\ f.target = {},
           \A d \in f.host : d[2] = "host", \A d \in f.target : d[2] = f.build[2],
           f.pc # "enter" => /\ Key(f) \in depmap'
                             /\ \A i \in 1..(Len(stack) - 1) : stack[i].build # f.build,
           f.pc = "phases" => /\ Checked => Needs(f.build) \subseteq repo
                              /\ ~Dirty => world' = WorldDeps(f.build),
           f.pc = "build" /\ Checked =>
             \A d \in Needs(f.build) : d \in repo \cup f.host \cup f.target
    PROVE  IInv'
<1> DEFINE n == Len(stack)
<1>1. n \in Nat \ {0} /\ Top = stack[n]
  BY TopType
<1>2. Len(stack') = n /\ stack'[n] = f /\ \A i \in 1..(n - 1) : stack'[i] = stack[i]
  BY ReplaceTop
<1>3. \A b : Needs(b)' = Needs(b) /\ WorldDeps(b)' = WorldDeps(b) /\ RunDeps(b)' = RunDeps(b)
  BY DEF Needs, WorldDeps, HostDeps, MakeDeps, RunDeps
<1>4. /\ Top' = f /\ Depth' = 1..n /\ Depth = 1..n
      /\ Checked' = Checked /\ Dirty' = Dirty
  BY <1>2 DEF Top, Depth, Checked, Dirty
<1> HIDE DEF n
<1>5. ASSUME NEW i \in 1..n PROVE i = n \/ i \in 1..(n - 1)
  BY <1>1
<1>6. ASSUME NEW i \in 1..(n - 1) PROVE i \in 1..n /\ i < n /\ stack'[i] = stack[i]
  BY <1>1, <1>2
<1>7. ChostExact'
  <2> SUFFICES ASSUME NEW i \in 1..n
               PROVE  Fits(stack'[i].chost, stack'[i].build, root')
    BY <1>4 DEF ChostExact
  <2>1. CASE i = n
    BY <1>1, <1>2, <1>4, <2>1 DEF IInv, ChostExact, Fits
  <2>2. CASE i \in 1..(n - 1)
    BY <1>4, <1>6, <2>2 DEF IInv, ChostExact, Fits
  <2>3. QED
    BY <1>5, <2>1, <2>2
<1>8. Waiting'
  <2> SUFFICES ASSUME NEW i \in 1..n, i < n PROVE stack'[i].pc = "build"
    BY <1>2, <1>4 DEF Waiting
  <2>1. i \in 1..(n - 1)
    BY <1>1
  <2>2. QED
    BY <1>4, <1>6, <2>1 DEF IInv, Waiting, n
<1>9. ListsFit'
  <2> SUFFICES ASSUME NEW i \in 1..n
               PROVE  /\ \A d \in stack'[i].host : d[2] = "host"
                      /\ \A d \in stack'[i].target : d[2] = stack'[i].build[2]
    BY <1>4 DEF ListsFit
  <2>1. CASE i = n
    BY <1>2, <2>1
  <2>2. CASE i \in 1..(n - 1)
    BY <1>4, <1>6, <2>2 DEF IInv, ListsFit
  <2>3. QED
    BY <1>5, <2>1, <2>2
<1>10. Keyed'
  <2> SUFFICES ASSUME NEW i \in 1..n, stack'[i].pc # "enter"
               PROVE  Key(stack'[i]) \in depmap'
    BY <1>4 DEF Keyed, Key
  <2>1. CASE i = n
    BY <1>2, <2>1
  <2>2. CASE i \in 1..(n - 1)
    BY <1>4, <1>6, <2>2 DEF IInv, Keyed
  <2>3. QED
    BY <1>5, <2>1, <2>2
<1>11. NoReentry'
  <2> SUFFICES ASSUME NEW j \in 2..n, stack'[j].pc # "enter", NEW i \in 1..(j - 1)
               PROVE  stack'[i].build # stack'[j].build
    BY <1>2 DEF NoReentry
  <2>1. i \in 1..(n - 1)
    BY <1>1
  <2>2. CASE j = n
    BY <1>2, <1>6, <2>1, <2>2 DEF n
  <2>3. CASE j \in 1..(n - 1)
    <3>1. j \in 2..Len(stack) /\ stack[j].pc # "enter"
      BY <1>6, <2>3 DEF n
    <3>2. QED
      BY <1>6, <2>1, <2>3, <3>1 DEF IInv, NoReentry
  <2>4. QED
    BY <1>1, <2>2, <2>3
<1>12. Accounted'
  <2> SUFFICES ASSUME NEW i \in 1..n, Checked PROVE Provided(i)'
    BY <1>4 DEF Accounted, Provided
  <2> SUFFICES  /\ stack'[i].pc = "phases" => Needs(stack'[i].build) \subseteq repo
                /\ stack'[i].pc = "build" => \A d \in Needs(stack'[i].build) :
                     d \in repo \cup stack'[i].host \cup stack'[i].target
                       \/ (i < n /\ d = stack'[i + 1].build)
    BY <1>2, <1>3 DEF Provided
  <2>1. CASE i = n
    BY <1>2, <2>1
  <2>2. CASE i \in 1..(n - 1)
    <3>1. stack'[i] = stack[i] /\ stack'[i + 1].build = stack[i + 1].build /\ i < n
      BY <1>1, <1>2, <2>2
    <3>2. QED
      BY <1>4, <3>1 DEF IInv, Accounted, Provided, n
  <2>3. QED
    BY <1>5, <2>1, <2>2
<1>13. NoRebuild'
  <2> SUFFICES ASSUME NEW i \in 2..n PROVE stack'[i].build \notin repo
    BY <1>2 DEF NoRebuild
  <2>1. stack'[i].build = stack[i].build
    BY <1>1, <1>2, <1>6
  <2>2. QED
    BY <2>1 DEF IInv, NoRebuild, n
<1>14. RepoClosed'
  BY <1>3, <1>4 DEF IInv, RepoClosed
<1>15. WorldExact'
  BY <1>3, <1>4 DEF WorldExact, At
<1>16. Alone' /\ Fresh'
  <2>1. stack' # <<>>
    BY <1>1, <1>2
  <2>2. ASSUME ~Checked, NEW i \in 1..n
        PROVE  stack'[i].build = root /\ stack'[i].host = {} /\ stack'[i].target = {}
    <3>1. stack[i].build = root /\ stack[i].host = {} /\ stack[i].target = {}
      BY <1>4, <2>2 DEF IInv, Alone
    <3>2. CASE i = n
      BY <1>1, <1>2, <2>2, <3>1, <3>2
    <3>3. CASE i \in 1..(n - 1)
      BY <1>6, <3>1, <3>3
    <3>4. QED
      BY <1>5, <3>2, <3>3
  <2>3. QED
    BY <1>4, <2>1, <2>2 DEF Alone, Fresh
<1>17. QED
  BY <1>7, <1>8, <1>9, <1>10, <1>11, <1>12, <1>13, <1>14, <1>15, <1>16 DEF IInv

\* A build is put on the stack that finds its dependent waiting for it, or
\* none at all.
LEMMA PushInv ==
    ASSUME TypeOK, IInv, NEW t \in Seq(FrameType), NEW f \in FrameType,
           Len(t) = Len(stack), \A i \in 1..(Len(stack) - 1) : t[i] = stack[i],
           stack # <<>> => LET g == t[Len(stack)] IN
              /\ g.build = Top.build /\ g.chost = Top.chost /\ g.pc = Top.pc /\ g.pc = "build"
              /\ g.host \subseteq Top.host /\ g.target \subseteq Top.target
              /\ Top.host \cup Top.target \subseteq g.host \cup g.target \cup {f.build}
              /\ f.build \notin repo,
           stack' = Append(t, f), f.pc = "enter",
           Fits(f.chost, f.build, root'), stack # <<>> => UNCHANGED <<root, opts>>,
           stack = <<>> => result = "none", ~Checked' => f.build = root',
           f.host = {}, f.target = {}, UNCHANGED <<graph, repo, depmap>>
    PROVE  IInv'
<1> DEFINE n == Len(stack)
<1>1. n \in Nat
  BY DEF TypeOK
<1>2. Len(stack') = n + 1 /\ stack'[n + 1] = f /\ \A i \in 1..n : stack'[i] = t[i]
  OBVIOUS
<1>3. \A b : Needs(b)' = Needs(b) /\ WorldDeps(b)' = WorldDeps(b) /\ RunDeps(b)' = RunDeps(b)
  BY DEF Needs, WorldDeps, HostDeps, MakeDeps, RunDeps
<1>4. Top' = f /\ Depth' = 1..(n + 1) /\ Depth = 1..n
  BY <1>2 DEF Top, Depth
<1>5. ASSUME NEW i \in 1..n
      PROVE  /\ stack'[i].build = stack[i].build /\ stack'[i].chost = stack[i].chost
             /\ stack'[i].pc = stack[i].pc /\ stack[i].pc = "build"
             /\ stack'[i].host \subseteq stack[i].host /\ stack'[i].target \subseteq stack[i].target
  <2>1. CASE i = n
    <3>1. stack # <<>> /\ Top = stack[n]
      BY <2>1 DEF Top
    <3>2. QED
      BY <1>2, <2>1, <3>1
  <2>2. CASE i \in 1..(n - 1)
    <3>1. stack'[i] = stack[i] /\ i < n
      BY <1>1, <1>2, <2>2
    <3>2. QED
      BY <1>4, <3>1 DEF IInv, Waiting
  <2>3. QED
    BY <1>1, <2>1, <2>2
<1> HIDE DEF n
<1>6. ASSUME NEW i \in 1..(n + 1) PROVE i = n + 1 \/ i \in 1..n
  BY <1>1
<1>7. ChostExact'
  <2> SUFFICES ASSUME NEW i \in 1..(n + 1)
               PROVE  Fits(stack'[i].chost, stack'[i].build, root')
    BY <1>4 DEF ChostExact
  <2>1. CASE i = n + 1
    BY <1>2, <2>1 DEF Fits
  <2>2. CASE i \in 1..n
    <3>1. Fits(stack[i].chost, stack[i].build, root) /\ UNCHANGED root
      BY <1>1, <1>4, <2>2 DEF IInv, ChostExact, n
    <3>2. QED
      BY <1>5, <2>2, <3>1 DEF Fits
  <2>3. QED
    BY <1>6, <2>1, <2>2
<1>8. Waiting'
  <2> SUFFICES ASSUME NEW i \in 1..(n + 1), i < n + 1 PROVE stack'[i].pc = "build"
    BY <1>2, <1>4 DEF Waiting
  <2>1. i \in 1..n
    BY <1>1
  <2>2. QED
    BY <1>5, <2>1
<1>9. ListsFit'
  <2> SUFFICES ASSUME NEW i \in 1..(n + 1)
               PROVE  /\ \A d \in stack'[i].host : d[2] = "host"
                      /\ \A d \in stack'[i].target : d[2] = stack'[i].build[2]
    BY <1>4 DEF ListsFit
  <2>1. CASE i = n + 1
    BY <1>2, <2>1
  <2>2. CASE i \in 1..n
    <3>1. /\ \A d \in stack[i].host : d[2] = "host"
          /\ \A d \in stack[i].target : d[2] = stack[i].build[2]
      BY <1>4, <2>2 DEF IInv, ListsFit
    <3>2. /\ stack'[i].build = stack[i].build
          /\ stack'[i].host \subseteq stack[i].host /\ stack'[i].target \subseteq stack[i].target
      BY <1>5, <2>2
    <3>3. QED
      BY <3>1, <3>2
  <2>3. QED
    BY <1>6, <2>1, <2>2
<1>10. Keyed'
  <2> SUFFICES ASSUME NEW i \in 1..(n + 1), stack'[i].pc # "enter"
               PROVE  Key(stack'[i]) \in depmap
    BY <1>4 DEF Keyed, Key
  <2>1. i \in 1..n
    BY <1>2, <1>6
  <2>2. QED
    BY <1>4, <1>5, <2>1 DEF IInv, Keyed, Key
<1>11. NoReentry'
  <2> SUFFICES ASSUME NEW j \in 2..(n + 1), stack'[j].pc # "enter", NEW i \in 1..(j - 1)
               PROVE  stack'[i].build # stack'[j].build
    BY <1>2 DEF NoReentry
  <2>1. j \in 1..n /\ j \in 2..n /\ i \in 1..n
    BY <1>1, <1>2
  <2>2. stack[j].pc # "enter" /\ stack'[i].build = stack[i].build
                              /\ stack'[j].build = stack[j].build
    BY <1>5, <2>1
  <2>3. QED
    BY <2>1, <2>2 DEF IInv, NoReentry, n
<1>12. Accounted'
  <2> SUFFICES ASSUME NEW i \in 1..(n + 1), Checked'
               PROVE  /\ stack'[i].pc = "phases" => Needs(stack'[i].build) \subseteq repo
                      /\ stack'[i].pc = "build" => \A d \in Needs(stack'[i].build) :
                           d \in repo \cup stack'[i].host \cup stack'[i].target
                             \/ (i < n + 1 /\ d = stack'[i + 1].build)
    BY <1>2, <1>3, <1>4 DEF Accounted, Provided
  <2>1. CASE i = n + 1
    BY <1>2, <2>1
  <2>2. CASE i = n /\ i \in 1..n
    <3>1. stack # <<>> /\ Top = stack[n] /\ i < n + 1
      BY <1>1, <2>2 DEF Top, n
    <3>2. \A d \in Needs(stack[n].build) : d \in repo \cup stack[n].host \cup stack[n].target
      BY <1>1, <1>4, <1>5, <2>2, <3>1 DEF IInv, Accounted, Provided, Checked, n
    <3>3. stack[n].host \cup stack[n].target \subseteq
            stack'[n].host \cup stack'[n].target \cup {stack'[n + 1].build}
      BY <1>2, <2>2, <3>1 DEF n
    <3>4. stack'[n].pc = "build" /\ stack'[n].build = stack[n].build
      BY <1>5, <2>2
    <3>5. QED
      BY <2>2, <3>1, <3>2, <3>3, <3>4
  <2>3. CASE i \in 1..(n - 1)
    <3>1. /\ stack'[i] = stack[i] /\ stack'[i + 1].build = stack[i + 1].build /\ i < n
          /\ i < n + 1 /\ i \in Depth /\ Checked
      BY <1>1, <1>2, <1>4, <1>5, <2>3 DEF Checked, n
    <3>2. QED
      BY <3>1 DEF IInv, Accounted, Provided, n
  <2>4. i = n + 1 \/ (i = n /\ i \in 1..n) \/ i \in 1..(n - 1)
    BY <1>1
  <2>5. QED
    BY <2>1, <2>2, <2>3, <2>4
<1>13. NoRebuild'
  <2> SUFFICES ASSUME NEW i \in 2..(n + 1) PROVE stack'[i].build \notin repo
    BY <1>2 DEF NoRebuild
  <2>1. CASE i = n + 1
    <3>1. stack # <<>>
      BY <1>1, <2>1 DEF n
    <3>2. QED
      BY <1>2, <2>1, <3>1
  <2>2. CASE i \in 2..n
    <3>1. i \in 1..n
      BY <1>1, <2>2
    <3>2. QED
      BY <1>5, <2>2, <3>1 DEF IInv, NoRebuild, n
  <2>3. i = n + 1 \/ i \in 2..n
    BY <1>1
  <2>4. QED
    BY <2>1, <2>2, <2>3
<1>14. RepoClosed'
  <2>1. CASE stack = <<>>
    BY <1>3, <2>1 DEF IInv, RepoClosed, Fresh
  <2>2. CASE stack # <<>>
    BY <1>3, <2>2 DEF IInv, RepoClosed, Checked
  <2>3. QED
    BY <2>1, <2>2
<1>15. WorldExact'
  BY <1>4 DEF WorldExact, At
<1>16. Alone' /\ Fresh'
  <2>1. stack' # <<>>
    BY <1>1, <1>2
  <2>2. ASSUME ~Checked', NEW i \in 1..(n + 1)
        PROVE  stack'[i].build = root' /\ stack'[i].host = {} /\ stack'[i].target = {}
    <3>1. CASE i = n + 1
      BY <1>2, <2>2, <3>1
    <3>2. CASE i \in 1..n
      <4>1. stack # <<>> /\ ~Checked /\ root' = root
        BY <1>1, <2>2, <3>2 DEF Checked, n
      <4>2. stack[i].build = root /\ stack[i].host = {} /\ stack[i].target = {}
        BY <1>4, <3>2, <4>1 DEF IInv, Alone
      <4>3. QED
        BY <1>5, <3>2, <4>1, <4>2
    <3>3. QED
      BY <1>6, <3>1, <3>2
  <2>3. QED
    BY <1>4, <2>1, <2>2 DEF Alone, Fresh
<1>17. QED
  BY <1>7, <1>8, <1>9, <1>10, <1>11, <1>12, <1>13, <1>14, <1>15, <1>16 DEF IInv

\* What is left of a stack when builds are taken off it.
LEMMA Prefix ==
    ASSUME NEW S, NEW s \in Seq(S), NEW k \in Nat, k <= Len(s)
    PROVE  Len(SubSeq(s, 1, k)) = k /\ \A i \in 1..k : SubSeq(s, 1, k)[i] = s[i]
<1>1. \A i \in 1..k : s[i] \in S
  OBVIOUS
<1>2. /\ Len(SubSeq(s, 1, k)) = IF 1 <= k THEN k - 1 + 1 ELSE 0
      /\ \A i \in 1..(k - 1 + 1) : SubSeq(s, 1, k)[i] = s[1 + i - 1]
  BY <1>1, SubSeqProperties
<1>3. Len(SubSeq(s, 1, k)) = k
  BY <1>2
<1>4. ASSUME NEW i \in 1..k PROVE SubSeq(s, 1, k)[i] = s[i]
  <2>1. i \in 1..(k - 1 + 1) /\ 1 + i - 1 = i
    OBVIOUS
  <2>2. QED
    BY <1>2, <2>1
<1>5. QED
  BY <1>3, <1>4

\* The innermost build is done: its packages are what the one below waits for.
LEMMA PhasesInv ==
    ASSUME TypeOK, IInv, Phases PROVE IInv'
<1> DEFINE n == Len(stack)
<1>1. n \in Nat \ {0} /\ Top = stack[n] /\ stack # <<>> /\ Top.pc = "phases" /\ n \in Depth
  BY TopType DEF Phases, At, Depth
<1>2. Len(stack') = n - 1 /\ \A i \in 1..(n - 1) : stack'[i] = stack[i]
  <2>1. stack \in Seq(FrameType) /\ stack' = SubSeq(stack, 1, n - 1)
    BY DEF Phases, Pop, TypeOK
  <2>2. n - 1 \in Nat /\ n - 1 <= Len(stack)
    BY <1>1
  <2>3. QED
    BY <2>1, <2>2, Prefix
<1>3. /\ UNCHANGED <<graph, root, opts>> /\ repo' = repo \cup {Top.build}
      /\ depmap' = depmap \ {Key(Top)} /\ Checked' = Checked
  BY DEF Phases, Checked
<1>4. \A b : Needs(b)' = Needs(b) /\ WorldDeps(b)' = WorldDeps(b) /\ RunDeps(b)' = RunDeps(b)
  BY <1>3 DEF Needs, WorldDeps, HostDeps, MakeDeps, RunDeps
<1>5. Depth' = 1..(n - 1) /\ Depth = 1..n
  BY <1>2 DEF Depth
<1>6. ASSUME NEW i \in 1..(n - 1)
      PROVE  /\ i \in Depth /\ i < n /\ stack'[i] = stack[i] /\ stack[i].pc = "build"
             /\ stack[i].build # Top.build
  <2>1. i \in Depth /\ i < n /\ stack'[i] = stack[i] /\ n \in 2..Len(stack)
    BY <1>1, <1>2, <1>5
  <2>2. stack[i].pc = "build"
    BY <2>1 DEF IInv, Waiting
  <2>3. stack[i].build # stack[n].build
    BY <1>1, <2>1 DEF IInv, NoReentry
  <2>4. QED
    BY <1>1, <2>1, <2>2, <2>3
<1> HIDE DEF n
<1>7. ChostExact'
  BY <1>3, <1>5, <1>6 DEF IInv, ChostExact, Fits
<1>8. Waiting'
  BY <1>5, <1>6 DEF Waiting
<1>9. ListsFit'
  BY <1>5, <1>6 DEF IInv, ListsFit
<1>10. Keyed'
  <2> SUFFICES ASSUME NEW i \in 1..(n - 1) PROVE Key(stack[i]) \in depmap'
    BY <1>5, <1>6 DEF Keyed, Key
  <2>1. Key(stack[i]) \in depmap
    BY <1>6 DEF IInv, Keyed
  <2>2. Key(stack[i]) # Key(stack[n])
    BY <1>1, <1>6, KeysTell DEF IInv
  <2>3. QED
    BY <1>1, <1>3, <2>1, <2>2
<1>11. NoReentry'
  <2> SUFFICES ASSUME NEW j \in 2..(n - 1), NEW i \in 1..(j - 1)
               PROVE  stack'[i].build # stack'[j].build
    BY <1>2 DEF NoReentry
  <2>1. i \in 1..(n - 1) /\ j \in 1..(n - 1) /\ j \in 2..n
    BY <1>1
  <2>2. stack[j].pc # "enter"
    BY <1>6, <2>1
  <2>3. stack[i].build # stack[j].build
    BY <2>1, <2>2 DEF IInv, NoReentry, n
  <2>4. QED
    BY <1>6, <2>1, <2>3
<1>12. Accounted'
  <2> SUFFICES ASSUME Checked, NEW i \in 1..(n - 1), NEW d \in Needs(stack[i].build)
               PROVE  d \in repo' \cup stack[i].host \cup stack[i].target
                        \/ (i < n - 1 /\ d = stack'[i + 1].build)
    BY <1>2, <1>3, <1>4, <1>5, <1>6 DEF Accounted, Provided
  <2>1. d \in repo \cup stack[i].host \cup stack[i].target
          \/ (i < n /\ d = stack[i + 1].build)
    BY <1>6 DEF IInv, Accounted, Provided, n
  <2>2. CASE i = n - 1
    BY <1>1, <1>3, <2>1, <2>2
  <2>3. CASE i + 1 \in 1..(n - 1)
    BY <1>1, <1>2, <1>3, <2>1, <2>3
  <2>4. i = n - 1 \/ i + 1 \in 1..(n - 1)
    BY <1>1
  <2>5. QED
    BY <2>2, <2>3, <2>4
<1>13. NoRebuild'
  <2> SUFFICES ASSUME NEW i \in 2..(n - 1) PROVE stack'[i].build \notin repo'
    BY <1>2 DEF NoRebuild
  <2>1. i \in 1..(n - 1) /\ i \in 2..n
    BY <1>1
  <2>2. stack[i].build \notin repo
    BY <2>1 DEF IInv, NoRebuild, n
  <2>3. QED
    BY <1>3, <1>6, <2>1, <2>2
<1>14. RepoClosed'
  <2>1. RunDeps(Top.build) \subseteq repo \/ (Top.build = root /\ ~Checked)
    BY <1>1 DEF IInv, Accounted, Provided, Needs, Alone
  <2>2. \A b \in repo : RunDeps(b) \subseteq repo \/ (b = root /\ ~Checked)
    BY DEF IInv, RepoClosed
  <2>3. QED
    BY <1>3, <1>4, <2>1, <2>2 DEF RepoClosed
<1>15. WorldExact'
  <2> SUFFICES ASSUME stack' # <<>>, Top'.pc = "phases" PROVE FALSE
    BY DEF WorldExact, At
  <2>1. stack' \in Seq(FrameType)
    BY TypeStep DEF TypeOK, Next, Proceed
  <2>2. n - 1 \in 1..(n - 1) /\ Top' = stack'[n - 1]
    BY <1>1, <1>2, <2>1 DEF Top
  <2>3. QED
    BY <1>6, <2>2
<1>16. Alone'
  BY <1>3, <1>5, <1>6 DEF IInv, Alone
<1>17. Fresh'
  <2>1. stack' = <<>> => n = 1
    BY <1>1, <1>2
  <2>2. n = 1 => result' = "ok"
    BY DEF Phases, n
  <2>3. QED
    BY <2>1, <2>2 DEF Fresh
<1>18. QED
  BY <1>7, <1>8, <1>9, <1>10, <1>11, <1>12, <1>13, <1>14, <1>15, <1>16, <1>17 DEF IInv

\* What is known of the innermost build in particular.
LEMMA TopInv ==
    ASSUME TypeOK, IInv, stack # <<>>
    PROVE  /\ Fits(Top.chost, Top.build, root)
           /\ \A d \in Top.host : d[2] = "host"
           /\ \A d \in Top.target : d[2] = Top.build[2]
           /\ Top.pc # "enter" => /\ Key(Top) \in depmap
                                  /\ \A i \in 1..(Len(stack) - 1) : stack[i].build # Top.build
           /\ Top.pc = "build" /\ Checked =>
                \A d \in Needs(Top.build) : d \in repo \cup Top.host \cup Top.target
           /\ ~Checked => Top.build = root /\ Top.host = {} /\ Top.target = {}
<1>1. Len(stack) \in Nat \ {0} /\ Top = stack[Len(stack)] /\ Len(stack) \in Depth
  BY TopType DEF Depth
<1>2. ASSUME Top.pc # "enter", NEW i \in 1..(Len(stack) - 1) PROVE stack[i].build # Top.build
  <2>1. Len(stack) \in 2..Len(stack)
    BY <1>1
  <2>2. QED
    BY <1>1, <1>2, <2>1 DEF IInv, NoReentry
<1>3. ASSUME Top.pc = "build", Checked, NEW d \in Needs(Top.build)
      PROVE  d \in repo \cup Top.host \cup Top.target
  BY <1>1, <1>3 DEF IInv, Accounted, Provided
<1>4. Top.pc # "enter" => Key(Top) \in depmap
  BY <1>1 DEF IInv, Keyed
<1>5. /\ Fits(Top.chost, Top.build, root)
      /\ \A d \in Top.host : d[2] = "host"
      /\ \A d \in Top.target : d[2] = Top.build[2]
      /\ ~Checked => Top.build = root /\ Top.host = {} /\ Top.target = {}
  BY <1>1 DEF IInv, ChostExact, ListsFit, Alone
<1>6. QED
  BY <1>2, <1>3, <1>4, <1>5

\* Every step keeps the invariant.
LEMMA InvStep == TypeOK /\ IInv /\ [Next]_vars => IInv'
<1> SUFFICES ASSUME TypeOK, IInv, [Next]_vars PROVE IInv'
  OBVIOUS
<1>1. CASE UNCHANGED vars
  <2>1. ChostExact' /\ Waiting' /\ ListsFit' /\ Keyed' /\ NoReentry'
    BY <1>1 DEF vars, IInv, Depth, ChostExact, Fits, Waiting, ListsFit, Keyed, Key, NoReentry
  <2>2. Accounted'
    <3>1. UNCHANGED <<stack, repo, graph, root>> /\ Accounted /\ Depth' = Depth /\ Checked' = Checked
      BY <1>1 DEF vars, IInv, Depth, Checked
    <3>2. ASSUME NEW i \in Depth PROVE Provided(i)'
      <4>1. Provided(i)
        BY <3>1, <3>2 DEF Accounted
      <4>2. \A b : Needs(b)' = Needs(b)
        BY <3>1 DEF Needs, HostDeps, MakeDeps, RunDeps
      <4>3. QED
        BY <3>1, <4>1, <4>2 DEF Provided
    <3>3. QED
      BY <3>1, <3>2 DEF Accounted
  <2>3. NoRebuild' /\ RepoClosed'
    BY <1>1 DEF vars, IInv, NoRebuild, RepoClosed, Checked, RunDeps
  <2>4. WorldExact'
    BY <1>1 DEF vars, IInv, WorldExact, WorldDeps, HostDeps, MakeDeps, IsCross, Dirty, At, Top
  <2>5. Alone' /\ Fresh'
    BY <1>1 DEF vars, IInv, Alone, Fresh, Checked, Depth
  <2>6. QED
    BY <2>1, <2>2, <2>3, <2>4, <2>5 DEF IInv
<1>2. ASSUME NEW b \in Builds, NEW force \in BOOLEAN, NEW o \in SUBSET Options, DoPkg(b, force, o)
      PROVE  IInv'
  <2> DEFINE f == Frame(b, FALSE, b[1])
  <2>1. CASE stack' = stack
    <3>1. /\ stack' = <<>> /\ Depth' = {} /\ UNCHANGED <<graph, repo>>
          /\ result = "none" /\ stack = <<>> /\ result' = "skipped"
      <4>1. Append(<<>>, f) # <<>>
        OBVIOUS
      <4>2. QED
        BY <1>2, <2>1, <4>1 DEF DoPkg, Push, Depth
    <3>2. ChostExact' /\ Waiting' /\ ListsFit' /\ Keyed' /\ Accounted' /\ Alone'
      BY <3>1 DEF ChostExact, Waiting, ListsFit, Keyed, Accounted, Alone
    <3>3. NoReentry' /\ NoRebuild' /\ WorldExact' /\ Fresh'
      BY <3>1 DEF NoReentry, NoRebuild, WorldExact, At, Fresh
    <3>4. RepoClosed'
      BY <3>1 DEF IInv, Fresh, RepoClosed, RunDeps
    <3>5. QED
      BY <3>2, <3>3, <3>4 DEF IInv
  <2>2. CASE stack' = Append(stack, f)
    <3>1. b[1] \in Names /\ b[2] \in Machines
      BY DEF Builds
    <3>2. f \in FrameType /\ f.pc = "enter" /\ f.host = {} /\ f.target = {} /\ f.build = b
            /\ f.chost = FALSE
      BY <3>1 DEF Frame, FrameType
    <3>3. Fits(f.chost, f.build, root')
      <4>1. root' = b
        BY <1>2 DEF DoPkg
      <4>2. QED
        BY <3>2, <4>1 DEF Fits
    <3>4. /\ stack = <<>> /\ stack \in Seq(FrameType) /\ UNCHANGED <<graph, repo, depmap>>
          /\ result = "none" /\ f.build = root'
      BY <1>2, <3>2 DEF DoPkg, TypeOK
    <3> HIDE DEF f
    <3> DEFINE t == stack
    <3>5. t \in Seq(FrameType) /\ Len(t) = Len(stack) /\ stack' = Append(t, f)
            /\ \A i \in 1..(Len(stack) - 1) : t[i] = stack[i]
      BY <2>2, <3>4
    <3> HIDE DEF t
    <3>6. QED
      BY <3>2, <3>3, <3>4, <3>5, PushInv
  <2>3. QED
    BY <1>2, <2>1, <2>2 DEF DoPkg, Push
<1>3. CASE Enter
  <2> DEFINE f == [Top EXCEPT !.pc = "deps"]
  <2>1. stack # <<>> /\ Top.pc = "enter" /\ Key(Top) \notin depmap
    BY <1>3 DEF Enter, At
  <2>2. /\ f \in FrameType /\ f.build = Top.build /\ f.chost = Top.chost /\ f.host = Top.host
        /\ f.target = Top.target /\ f.pc = "deps" /\ Key(f) = Key(Top)
    BY <2>1, TopType DEF FrameType, Key
  <2>3. /\ UNCHANGED <<graph, root, opts, repo>> /\ depmap \subseteq depmap' /\ Key(f) \in depmap'
        /\ stack' = [stack EXCEPT ![Len(stack)] = f]
    BY <1>3, <2>2 DEF Enter
  <2>4. ASSUME NEW i \in 1..(Len(stack) - 1) PROVE stack[i].build # f.build
    <3>1. Len(stack) \in Depth /\ i \in Depth /\ i < Len(stack) /\ Top = stack[Len(stack)]
      BY <2>1, TopType DEF Depth
    <3>2. Key(stack[i]) \in depmap
      BY <3>1 DEF IInv, Waiting, Keyed
    <3>3. Key(stack[i]) # Key(stack[Len(stack)])
      BY <2>1, <3>1, <3>2
    <3>4. QED
      BY <2>2, <3>1, <3>3, KeysTell DEF IInv
  <2>5. /\ (\A d \in f.host : d[2] = "host") /\ (\A d \in f.target : d[2] = f.build[2])
        /\ ~Checked => f.host = {} /\ f.target = {}
    BY <2>1, <2>2, TopInv
  <2> HIDE DEF f
  <2>6. QED
    BY <2>1, <2>2, <2>3, <2>4, <2>5, ReplaceInv
<1>4. CASE EnterCycle
  BY <1>4, RaiseInv DEF EnterCycle
<1>5. CASE Resolve
  <2> DEFINE h == Missing(HostDeps(Top.build))
             t == Missing(MakeDeps(Top.build) \cup RunDeps(Top.build))
             f == [Top EXCEPT !.pc = "build", !.host = h, !.target = t]
  <2>1. stack # <<>> /\ Top.pc = "deps" /\ ~Dirty
    BY <1>5 DEF Resolve, At
  <2>2. h \subseteq Builds /\ t \subseteq Builds /\ (\A d \in h : d[2] = "host")
          /\ (\A d \in t : d[2] = Top.build[2])
    BY <2>1, TopType, NeedsType DEF Missing
  <2>3. /\ Checked => \A d \in Needs(Top.build) : d \in repo \cup h \cup t
        /\ ~Checked => h = {} /\ t = {}
    <3>1. Depcheck <=> Checked
      BY <2>1 DEF Depcheck, Checked, Dirty, TypeOK, Options
    <3>2. QED
      BY <3>1 DEF Needs, Missing
  <2>4. UNCHANGED <<graph, root, opts, repo>> /\ depmap \subseteq depmap'
          /\ stack' = [stack EXCEPT ![Len(stack)] = f]
    BY <1>5 DEF Resolve
  <2> HIDE DEF h, t
  <2>5. /\ f \in FrameType /\ f.build = Top.build /\ f.chost = Top.chost /\ f.host = h
        /\ f.target = t /\ f.pc = "build" /\ Key(f) = Key(Top)
    BY <2>1, <2>2, TopType DEF FrameType, Key
  <2>6. Key(f) \in depmap' /\ \A i \in 1..(Len(stack) - 1) : stack[i].build # f.build
    BY <2>1, <2>4, <2>5, TopInv
  <2> HIDE DEF f
  <2>7. QED
    BY <2>1, <2>2, <2>3, <2>4, <2>5, <2>6, ReplaceInv
<1>6. CASE ResolveLoop
  BY <1>6, RaiseInv DEF ResolveLoop
<1>7. ASSUME NEW d \in Builds, At("build"), NextDep(d)
      PROVE  /\ stack # <<>> /\ Top.pc = "build" /\ Rest(d) \in FrameType
             /\ Rest(d).build = Top.build /\ Rest(d).chost = Top.chost /\ Rest(d).pc = Top.pc
             /\ Rest(d).host \subseteq Top.host /\ Rest(d).target \subseteq Top.target
             /\ Top.host \cup Top.target \subseteq Rest(d).host \cup Rest(d).target \cup {d}
             /\ Key(Rest(d)) = Key(Top)
  BY <1>7, TopType DEF At, Rest, NextDep, FrameType, Key
<1>8. ASSUME NEW d \in Builds, SkipDep(d) PROVE IInv'
  <2> DEFINE f == Rest(d)
  <2>1. /\ At("build") /\ NextDep(d) /\ d \in repo /\ stack' = [stack EXCEPT ![Len(stack)] = f]
        /\ UNCHANGED <<graph, root, opts, repo>> /\ depmap \subseteq depmap'
    BY <1>8 DEF SkipDep, Without
  <2>2. /\ stack # <<>> /\ Top.pc = "build" /\ f \in FrameType
        /\ f.build = Top.build /\ f.chost = Top.chost /\ f.pc = Top.pc
        /\ f.host \subseteq Top.host /\ f.target \subseteq Top.target
        /\ Top.host \cup Top.target \subseteq f.host \cup f.target \cup {d} /\ Key(f) = Key(Top)
    BY <1>7, <2>1
  <2> HIDE DEF f
  <2>3. /\ (\A e \in f.host : e[2] = "host") /\ (\A e \in f.target : e[2] = f.build[2])
        /\ ~Checked => f.host = {} /\ f.target = {}
    BY <2>2, TopInv
  <2>4. Key(f) \in depmap' /\ \A i \in 1..(Len(stack) - 1) : stack[i].build # f.build
    BY <2>1, <2>2, TopInv
  <2>5. Checked => \A e \in Needs(f.build) : e \in repo \cup f.host \cup f.target
    BY <2>1, <2>2, TopInv
  <2>6. QED
    BY <2>1, <2>2, <2>3, <2>4, <2>5, ReplaceInv
<1>9. ASSUME NEW d \in Builds, BuildDep(d) PROVE IInv'
  <2> DEFINE c == Top.chost \/ (IsCross(Top.build) /\ Top.host # {})
             f == Frame(d, c, Top.build[1])
             t == Without(d)
  <2>1. /\ At("build") /\ NextDep(d) /\ d \notin repo /\ stack' = Append(t, f)
        /\ UNCHANGED <<graph, root, opts, repo, depmap>>
    BY <1>9 DEF BuildDep
  <2>2. stack # <<>> /\ Top.pc = "build" /\ Rest(d) \in FrameType
    BY <1>7, <2>1
  <2>3. /\ t \in Seq(FrameType) /\ Len(t) = Len(stack) /\ t[Len(stack)] = Rest(d)
        /\ \A i \in 1..(Len(stack) - 1) : t[i] = stack[i]
    <3> DEFINE r == Rest(d)
    <3>1. t = [stack EXCEPT ![Len(stack)] = r] /\ r \in FrameType
      BY <2>2 DEF Without
    <3> HIDE DEF t, r
    <3>2. /\ t \in Seq(FrameType) /\ Len(t) = Len(stack) /\ t[Len(stack)] = r
          /\ \A i \in 1..(Len(stack) - 1) : t[i] = stack[i]
      BY <2>2, <3>1 DEF TypeOK
    <3>3. QED
      BY <3>2 DEF r
  <2>4. c \in BOOLEAN /\ Fits(c, d, root)
    <3>1. /\ Top.build \in Builds /\ Top.chost \in BOOLEAN /\ Top.build[2] \in Machines
          /\ Top.chost <=> root[2] = "target" /\ Top.build[2] = "host"
          /\ Top.build[2] = "target" => root[2] = "target"
      BY <2>2, TopType, TopInv DEF FrameType, Fits, Builds
    <3>2. CASE Top.host # {}
      <4>1. d[2] = "host"
        BY <2>1, <2>2, <3>2, TopInv DEF NextDep
      <4>2. QED
        BY <3>1, <3>2, <4>1 DEF IsCross, Machines, Fits
    <3>3. CASE Top.host = {}
      <4>1. d[2] = Top.build[2]
        BY <2>1, <2>2, <3>3, TopInv DEF NextDep
      <4>2. QED
        BY <3>1, <3>3, <4>1 DEF Fits
    <3>4. QED
      BY <3>2, <3>3
  <2> HIDE DEF c, t
  <2>5. /\ f \in FrameType /\ f.pc = "enter" /\ f.host = {} /\ f.target = {} /\ f.build = d
        /\ f.chost = c
    BY <2>2, <2>4, TopType DEF Frame, FrameType
  <2>6. Fits(f.chost, f.build, root') /\ UNCHANGED <<root, opts>> /\ Checked'
    <3>1. Checked
      BY <2>1, <2>2, TopInv DEF NextDep
    <3>2. QED
      BY <2>1, <2>4, <2>5, <3>1 DEF Checked
  <2> HIDE DEF f
  <2>7. LET g == t[Len(stack)] IN
          /\ g.build = Top.build /\ g.chost = Top.chost /\ g.pc = Top.pc /\ g.pc = "build"
          /\ g.host \subseteq Top.host /\ g.target \subseteq Top.target
          /\ Top.host \cup Top.target \subseteq g.host \cup g.target \cup {f.build}
          /\ f.build \notin repo
    BY <1>7, <2>1, <2>2, <2>3, <2>5
  <2>8. QED
    BY <2>1, <2>2, <2>3, <2>5, <2>6, <2>7, PushInv
<1>10. CASE Install
  <2> DEFINE f == [Top EXCEPT !.pc = "phases"]
  <2>1. stack # <<>> /\ Top.pc = "build" /\ Top.host = {} /\ Top.target = {}
    BY <1>10 DEF Install, At
  <2>2. /\ f \in FrameType /\ f.build = Top.build /\ f.chost = Top.chost /\ f.host = {}
        /\ f.target = {} /\ f.pc = "phases" /\ Key(f) = Key(Top)
    BY <2>1, TopType DEF FrameType, Key
  <2>3. /\ UNCHANGED <<graph, root, opts, repo>> /\ depmap \subseteq depmap'
        /\ world' = WorldDeps(f.build)
        /\ stack' = [stack EXCEPT ![Len(stack)] = f]
    BY <1>10, <2>2 DEF Install
  <2>4. /\ Key(f) \in depmap' /\ \A i \in 1..(Len(stack) - 1) : stack[i].build # f.build
        /\ Checked => Needs(f.build) \subseteq repo
    BY <2>1, <2>2, <2>3, TopInv
  <2> HIDE DEF f
  <2>5. QED
    BY <2>1, <2>2, <2>3, <2>4, ReplaceInv
<1>11. CASE Phases
  BY <1>11, PhasesInv
<1>12. CASE PhasesLost
  BY <1>12, RaiseInv DEF PhasesLost
<1>13. CASE Fail
  BY <1>13, RaiseInv DEF Fail
<1>14. CASE Ended
  BY <1>1, <1>14 DEF Ended
<1>15. CASE SkipInstall
  <2> DEFINE f == [Top EXCEPT !.pc = "phases"]
  <2>1. stack # <<>> /\ Top.pc = "deps" /\ Dirty /\ ~Checked
    BY <1>15 DEF SkipInstall, At, Dirty, Checked
  <2>2. /\ f \in FrameType /\ f.build = Top.build /\ f.chost = Top.chost /\ f.host = Top.host
        /\ f.target = Top.target /\ f.pc = "phases" /\ Key(f) = Key(Top)
    BY <2>1, TopType DEF FrameType, Key
  <2>3. /\ UNCHANGED <<graph, root, opts, repo>> /\ depmap \subseteq depmap'
        /\ stack' = [stack EXCEPT ![Len(stack)] = f]
    BY <1>15 DEF SkipInstall
  <2>4. /\ Key(f) \in depmap' /\ \A i \in 1..(Len(stack) - 1) : stack[i].build # f.build
        /\ f.host = {} /\ f.target = {}
    BY <2>1, <2>2, <2>3, TopInv
  <2> HIDE DEF f
  <2>5. QED
    BY <2>1, <2>2, <2>3, <2>4, ReplaceInv
<1>16. QED
  BY <1>1, <1>2, <1>3, <1>4, <1>5, <1>6, <1>8, <1>9, <1>10, <1>11, <1>12, <1>13, <1>14, <1>15
     DEF Next, Proceed

\* The invariant holds in every behaviour of the builds.
THEOREM Invariant == Spec => [](TypeOK /\ IInv)
<1>1. Init => TypeOK
  BY DEF Init, TypeOK
<1>2. Init => IInv
  <2> SUFFICES ASSUME Init PROVE IInv
    OBVIOUS
  <2>1. stack = <<>> /\ Depth = {} /\ Closed(repo) /\ Checked
    BY DEF Init, Depth, Checked
  <2>2. NoReentry /\ NoRebuild /\ WorldExact /\ RepoClosed
    BY <2>1 DEF NoReentry, NoRebuild, WorldExact, At, RepoClosed, Closed
  <2>3. QED
    BY <2>1, <2>2 DEF IInv, ChostExact, Waiting, ListsFit, Keyed, Accounted, Provided, Alone, Fresh
<1>3. QED
  BY <1>1, <1>2, TypeStep, InvStep, PTL DEF Spec

\* build.py:597: the depmap check keeps every build from being entered again
\* while it is in progress, in native and in cross builds.
THEOREM NoReentryCorrect == Spec => []NoReentry
<1>1. IInv => NoReentry
  BY DEF IInv
<1>2. QED
  BY <1>1, Invariant, PTL

\* dependencies.py:502-558: no dependency is built that exists already, though
\* the lists of missing ones were made before other builds ran.
THEOREM NoRebuildCorrect == Spec => []NoRebuild
<1>1. IInv => NoRebuild
  BY DEF IInv
<1>2. QED
  BY <1>1, Invariant, PTL

\* dependencies.py:311-578: the phases of a template run only when everything
\* it needs for building and at run time exists, unless the command has one of
\* the options that take its own dependencies on trust (Usage.md:432, 453-456).
THEOREM DepsReadyCorrect == Spec => []DepsReady
<1>1. TypeOK /\ IInv => DepsReady
  <2> SUFFICES ASSUME TypeOK, IInv, At("phases"), Checked PROVE Needs(Top.build) \subseteq repo
    BY DEF DepsReady
  <2>1. Len(stack) \in Depth /\ Top = stack[Len(stack)]
    BY TopType DEF At, Depth
  <2>2. QED
    BY <2>1 DEF IInv, Accounted, Provided, At
<1>2. QED
  BY <1>1, Invariant, PTL

\* dependencies.py:560-578: the build root of a template never holds what the
\* builds of its dependencies had installed there (a dirty build takes it as
\* it is).
THEOREM WorldExactCorrect == Spec => []WorldExact
<1>1. IInv => WorldExact
  BY DEF IInv
<1>2. QED
  BY <1>1, Invariant, PTL

\* dependencies.py:437-498: no failure, loop or order of builds leaves a package
\* in the repositories whose runtime dependencies are not there, but for the
\* command's own build when an option said not to look for them.
THEOREM RepoClosedCorrect == Spec => []RepoClosed
<1>1. IInv => RepoClosed
  BY DEF IInv
<1>2. QED
  BY <1>1, Invariant, PTL
-------------------------------------------------------------------------------
(***************************************************************************)
(* Loops and state directories.  The stack is a path of dependencies from  *)
(* the build the command is for (Linked), and a key is in depmap for no    *)
(* other reason than a build on it (Opened): so a key met twice closes a   *)
(* path of missing builds.  In a native command all builds are for one     *)
(* machine, so builds of different keys have different state directories.  *)
(***************************************************************************)

Linked(i) ==
    /\ stack[i].build \in Reach(root)
    /\ stack[i].host \cup stack[i].target \subseteq Needs(stack[i].build)
    /\ i = 1 => stack[i].build = root /\ stack[i].origin = root[1]
    /\ i > 1 => /\ stack[i].build \in Needs(stack[i - 1].build)
                /\ stack[i].origin = stack[i - 1].build[1]
    /\ (Native /\ stack[i].pc # "enter") => stack[i].build[1] \in statedir

Path == \A i \in Depth : Linked(i)
Opened == \A k \in depmap : \E i \in Depth : stack[i].pc # "enter" /\ Key(stack[i]) = k
Stopped == result # "none" => stack = <<>>
PathInv == Path /\ Opened /\ Stopped /\ NativeLoopsReal

\* What can be reached holds its start and is left by no dependency.
LEMMA ReachFacts ==
    ASSUME TypeOK, NEW b \in Builds
    PROVE  b \in Reach(b) /\ \A x \in Reach(b) : x \in Builds /\ Needs(x) \subseteq Reach(b)
<1>1. ASSUME NEW x \in Reach(b), NEW d \in Needs(x) PROVE d \in Reach(b)
  <2>1. x \in Builds /\ d \in Builds
    BY NeedsType DEF Reach, Needs
  <2>2. ASSUME NEW S \in SUBSET Builds, b \in S, \A y \in S : Needs(y) \subseteq S PROVE d \in S
    BY <2>2 DEF Reach
  <2>3. QED
    BY <2>1, <2>2 DEF Reach
<1>2. QED
  BY <1>1 DEF Reach

\* The graph and the command do not change while builds are in progress.
LEMMA SameGraph ==
    ASSUME UNCHANGED <<graph, root>>
    PROVE  Native' = Native /\ Reach(root)' = Reach(root) /\ \A b : Needs(b)' = Needs(b)
<1>1. \A b : Needs(b)' = Needs(b)
  BY DEF Needs, HostDeps, MakeDeps, RunDeps
<1>2. QED
  BY <1>1 DEF Native, Reach

\* A step that keeps, for every build it leaves in progress, what links it.
LEMMA PathKept ==
    ASSUME Path, UNCHANGED <<graph, root>>, Len(stack) \in Nat, Len(stack') \in Nat,
           Len(stack') <= Len(stack),
           \A i \in 1..Len(stack') :
              /\ stack'[i].build = stack[i].build /\ stack'[i].origin = stack[i].origin
              /\ stack'[i].host \cup stack'[i].target \subseteq Needs(stack[i].build)
              /\ (Native /\ stack'[i].pc # "enter") => stack[i].build[1] \in statedir'
    PROVE  Path'
<1> SUFFICES ASSUME NEW i \in 1..Len(stack') PROVE Linked(i)'
  BY DEF Path, Depth
<1>1. i \in Depth /\ Linked(i) /\ (i > 1 => i - 1 \in 1..Len(stack'))
  BY DEF Path, Depth
<1>2. Native' = Native /\ Reach(root)' = Reach(root) /\ \A b : Needs(b)' = Needs(b)
  BY SameGraph
<1>3. stack'[i].build \in Reach(root) /\ (i = 1 => stack'[i].build = root /\ stack'[i].origin = root[1])
  BY <1>1 DEF Linked
<1>4. i > 1 => /\ stack'[i].build \in Needs(stack'[i - 1].build)
               /\ stack'[i].origin = stack'[i - 1].build[1]
  BY <1>1 DEF Linked
<1>5. QED
  BY <1>2, <1>3, <1>4 DEF Linked

\* Builds on the stack are missing, but perhaps for the first.
LEMMA PathMissing ==
    ASSUME TypeOK, IInv, Path, root \notin repo, NEW i \in Depth
    PROVE  stack[i].build \in Builds /\ stack[i].build \in Reach(root) \ repo
<1>1. stack[i] \in FrameType /\ Linked(i)
  BY DEF TypeOK, Depth, Path
<1>2. stack[i].build \notin repo
  <2>1. CASE i = 1
    BY <1>1, <2>1 DEF Linked
  <2>2. CASE i # 1
    <3>1. i \in 2..Len(stack)
      BY <2>2 DEF Depth, TypeOK
    <3>2. QED
      BY <3>1 DEF IInv, NoRebuild
  <2>3. QED
    BY <2>1, <2>2
<1>3. QED
  BY <1>1, <1>2 DEF Linked, FrameType

\* A key met again: the stack from there on is a cycle of missing builds.
LEMMA EnterCycleReal ==
    ASSUME TypeOK, IInv, PathInv, EnterCycle, root \notin repo
    PROVE  RealCycle(root)
<1> DEFINE n == Len(stack)
<1>1. stack # <<>> /\ Top.pc = "enter" /\ Key(Top) \in depmap
  BY DEF EnterCycle, At
<1>2. n \in Nat \ {0} /\ Top = stack[n] /\ n \in Depth /\ Depth = 1..n
  BY <1>1, TopType DEF Depth
<1>3. PICK i \in Depth : stack[i].pc # "enter" /\ Key(stack[i]) = Key(stack[n])
  BY <1>1, <1>2 DEF PathInv, Opened
<1>4. stack[i].build = stack[n].build /\ i \in Nat /\ 1 <= i /\ i < n
  <2>1. i # n
    BY <1>1, <1>2, <1>3
  <2>2. stack[i].build = stack[n].build
    BY <1>2, <1>3, KeysTell DEF IInv
  <2>3. QED
    BY <1>2, <2>1, <2>2
<1> HIDE DEF n
<1> DEFINE S == {stack[k].build : k \in i..n}
<1>5. \A k \in i..n : k \in Depth /\ stack[k].build \in Reach(root) \ repo
  BY <1>2, <1>4, PathMissing DEF PathInv
<1>6. S \subseteq Reach(root) \ repo /\ S # {}
  BY <1>2, <1>4, <1>5
<1>7. ASSUME NEW k \in Nat, i <= k, k < n PROVE Needs(stack[k].build) \cap S # {}
  <2>1. k + 1 \in i..n /\ k + 1 \in Depth /\ k + 1 > 1 /\ k + 1 - 1 = k
    BY <1>2, <1>4, <1>7
  <2>2. stack[k + 1].build \in Needs(stack[k + 1 - 1].build)
    BY <2>1 DEF PathInv, Path, Linked
  <2>3. QED
    BY <2>1, <2>2
<1>8. ASSUME NEW x \in S PROVE Needs(x) \cap S # {}
  <2>1. PICK k \in i..n : x = stack[k].build
    OBVIOUS
  <2>2. CASE k < n
    BY <1>4, <1>7, <2>1, <2>2
  <2>3. CASE k = n
    BY <1>4, <1>7, <2>1, <2>3
  <2>4. QED
    BY <1>2, <1>4, <2>2, <2>3
<1>9. QED
  BY <1>6, <1>8 DEF RealCycle

\* A native command builds for the host only.
LEMMA NativeHost ==
    ASSUME TypeOK, IInv, Native, NEW i \in Depth
    PROVE  stack[i].build \in Builds /\ stack[i].build[2] = "host"
<1>1. stack[i] \in FrameType /\ root \in Builds
  BY DEF TypeOK, Depth, Native
<1>2. stack[i].build \in Builds
  BY <1>1 DEF FrameType
<1>3. stack[i].build[2] = "target" => root[2] = "target"
  BY DEF IInv, ChostExact, Fits
<1>4. QED
  BY <1>1, <1>2, <1>3 DEF Native, IsCross, Builds, Machines

\* The immediate loops of dependencies.install: a build that needs itself, or
\* the one that it is built for.
LEMMA ResolveLoopReal ==
    ASSUME TypeOK, IInv, PathInv, ResolveLoop, Native, root \notin repo
    PROVE  RealCycle(root)
<1> DEFINE n == Len(stack)
           b == Top.build
<1>1. stack # <<>> /\ Loop(Top)
  BY DEF ResolveLoop, At
<1>2. n \in Nat \ {0} /\ Top = stack[n] /\ n \in Depth /\ Depth = 1..n /\ b \in Builds
      /\ Top.origin \in Names /\ b = stack[n].build
  BY <1>1, TopType DEF Depth, FrameType
<1>3. \A i \in Depth : stack[i].build \in Builds /\ stack[i].build[2] = "host"
  BY NativeHost
<1>4. PICK d \in Needs(b) : d[1] \in {b[1], Top.origin}
  <2>1. graph.by_name
    BY <1>1 DEF Loop
  <2>2. CASE \E m \in {b[1], Top.origin} : m \in {d[1] : d \in HostDeps(b) \ repo}
    BY <2>2 DEF Needs
  <2>3. CASE \E m \in {b[1], Top.origin} : m \in {d[1] : d \in MakeDeps(b) \ repo}
    BY <2>3 DEF Needs
  <2>4. CASE \E m \in {b[1], Top.origin} : m \in graph.run[b[1]]
    <3>1. PICK m \in {b[1], Top.origin} : m \in graph.run[b[1]]
      BY <2>4
    <3>2. <<m, b[2]>> \in RunDeps(b)
      BY <2>1, <3>1 DEF RunDeps
    <3>3. QED
      BY <3>1, <3>2 DEF Needs
  <2>5. QED
    BY <1>1, <2>2, <2>3, <2>4 DEF Loop
<1>5. d \in Builds /\ d[2] = "host" /\ b[2] = "host"
  BY <1>2, <1>3, NeedsType DEF Needs
<1>6. b \in Reach(root) \ repo
  BY <1>2, PathMissing DEF PathInv
<1> HIDE DEF b, n
<1>7. CASE d[1] = b[1]
  <2>1. d = b
    BY <1>2, <1>5, <1>7 DEF Builds
  <2>2. {b} \subseteq Reach(root) \ repo /\ \A x \in {b} : Needs(x) \cap {b} # {}
    BY <1>4, <1>6, <2>1
  <2>3. QED
    BY <2>2 DEF RealCycle
<1>8. CASE d[1] # b[1]
  <2> DEFINE p == stack[n - 1].build
  <2>1. n # 1
    BY <1>2, <1>4, <1>8 DEF PathInv, Path, Linked
  <2>2. n - 1 \in Depth /\ n > 1
    BY <1>2, <2>1
  <2>3. b \in Needs(p) /\ Top.origin = p[1]
    BY <1>2, <2>2 DEF PathInv, Path, Linked
  <2>4. p \in Builds /\ p[2] = "host" /\ p \in Reach(root) \ repo
    BY <1>3, <2>2, PathMissing DEF PathInv
  <2>5. d = p
    BY <1>4, <1>5, <1>8, <2>3, <2>4 DEF Builds
  <2>6. {b, p} \subseteq Reach(root) \ repo /\ \A x \in {b, p} : Needs(x) \cap {b, p} # {}
    BY <1>4, <1>6, <2>3, <2>4, <2>5
  <2>7. QED
    BY <2>6 DEF RealCycle
<1>9. QED
  BY <1>7, <1>8

\* After an exception nothing is in progress, and a loop was a real one.
LEMMA RaisePath ==
    ASSUME TypeOK, IInv, PathInv, NEW r \in {"loop", "failed"}, Raise(r), stack # <<>>,
           (r = "loop" /\ Native /\ root \notin repo) => RealCycle(root)
    PROVE  PathInv'
<1>1. stack' = <<>> /\ depmap' = {} /\ result' = r /\ UNCHANGED <<graph, root, repo>>
  BY DEF Raise
<1>2. Path' /\ Opened' /\ Stopped'
  BY <1>1 DEF Path, Depth, Opened, Stopped
<1>3. Native' = Native /\ RealCycle(root)' = RealCycle(root)
  BY <1>1, SameGraph DEF RealCycle
<1>4. NativeLoopsReal'
  BY <1>1, <1>3 DEF NativeLoopsReal, LoopsReal
<1>5. QED
  BY <1>2, <1>4 DEF PathInv

\* The innermost build makes progress.
LEMMA ReplacePath ==
    ASSUME TypeOK, IInv, PathInv, stack # <<>>, NEW f \in FrameType,
           stack' = [stack EXCEPT ![Len(stack)] = f],
           f.build = Top.build, f.chost = Top.chost, f.origin = Top.origin, f.pc # "enter",
           f.host \cup f.target \subseteq Needs(f.build),
           Native => f.build[1] \in statedir',
           UNCHANGED <<graph, root, repo, result>>, statedir \subseteq statedir',
           depmap' \subseteq depmap \cup {Key(f)}
    PROVE  PathInv'
<1> DEFINE n == Len(stack)
<1>1. n \in Nat \ {0} /\ Top = stack[n] /\ Depth = 1..n
  BY TopType DEF Depth
<1>2. Len(stack') = n /\ stack'[n] = f /\ \A i \in 1..(n - 1) : stack'[i] = stack[i]
  BY ReplaceTop
<1>3. Depth' = 1..Len(stack')
  BY DEF Depth
<1> HIDE DEF n
<1>4. \A i \in 1..n : i = n \/ i \in 1..(n - 1)
  BY <1>1
<1>5. Depth' = 1..n
  BY <1>2, <1>3
<1>6. ASSUME NEW i \in 1..n
      PROVE  /\ stack'[i].build = stack[i].build /\ stack'[i].origin = stack[i].origin
             /\ stack'[i].host \cup stack'[i].target \subseteq Needs(stack[i].build)
             /\ (Native /\ stack'[i].pc # "enter") => stack[i].build[1] \in statedir'
  <2>1. CASE i = n
    BY <1>1, <1>2, <2>1
  <2>2. CASE i \in 1..(n - 1)
    <3>1. stack'[i] = stack[i] /\ Linked(i)
      BY <1>1, <1>2, <1>6, <2>2 DEF PathInv, Path
    <3>2. QED
      BY <3>1 DEF Linked
  <2>3. QED
    BY <1>4, <2>1, <2>2
<1>7. Path'
  <2>1. Len(stack) \in Nat /\ Len(stack') \in Nat /\ Len(stack') <= Len(stack) /\ Len(stack') = n
    BY <1>1, <1>2 DEF n
  <2>2. QED
    BY <1>6, <2>1, PathKept DEF PathInv
<1>8. Opened'
  <2>1. SUFFICES ASSUME NEW k \in depmap' PROVE \E i \in 1..n : stack'[i].pc # "enter" /\ Key(stack'[i]) = k
    BY <1>5 DEF Opened, Key
  <2>2. CASE k = Key(f)
    BY <1>1, <1>2, <2>2
  <2>3. CASE k \in depmap
    <3>1. PICK i \in 1..n : stack[i].pc # "enter" /\ Key(stack[i]) = k
      BY <1>1, <2>3 DEF PathInv, Opened
    <3>2. CASE i = n
      <4>1. Key(f) = Key(stack[n])
        BY <1>1 DEF Key
      <4>2. QED
        BY <1>1, <1>2, <3>1, <3>2, <4>1
    <3>3. CASE i \in 1..(n - 1)
      BY <1>2, <3>1, <3>3
    <3>4. QED
      BY <1>4, <3>2, <3>3
  <2>4. QED
    BY <2>1, <2>2, <2>3
<1>9. result = "none" /\ Stopped' /\ NativeLoopsReal'
  BY DEF PathInv, Stopped, NativeLoopsReal, LoopsReal
<1>10. QED
  BY <1>7, <1>8, <1>9 DEF PathInv

\* A build is entered that the innermost one needs.
LEMMA BuildDepPath ==
    ASSUME TypeOK, IInv, PathInv, NEW d \in Builds, BuildDep(d)
    PROVE  PathInv'
<1> DEFINE n == Len(stack)
           r == Rest(d)
           t == [stack EXCEPT ![n] = r]
           f == Frame(d, Top.chost \/ (IsCross(Top.build) /\ Top.host # {}), Top.build[1])
<1>1. stack # <<>> /\ Top.pc = "build" /\ NextDep(d) /\ stack' = Append(t, f)
      /\ UNCHANGED <<graph, root, repo, depmap, statedir, result>>
  BY DEF BuildDep, At, Without
<1>2. n \in Nat \ {0} /\ Top = stack[n] /\ Top \in FrameType /\ n \in Depth /\ Depth = 1..n
  BY <1>1, TopType DEF Depth
<1>3. /\ r \in FrameType /\ r.build = Top.build /\ r.chost = Top.chost /\ r.origin = Top.origin
      /\ r.pc = "build" /\ r.host \subseteq Top.host /\ r.target \subseteq Top.target
  BY <1>1, <1>2 DEF Rest, FrameType
<1>4. d \in Needs(Top.build) /\ Top.host \cup Top.target \subseteq Needs(Top.build)
      /\ Top.build \in Reach(root)
  BY <1>1, <1>2 DEF PathInv, Path, Linked, NextDep
<1>5. f.build = d /\ f.origin = Top.build[1] /\ f.pc = "enter" /\ f.host = {} /\ f.target = {}
  BY DEF Frame
<1>6. d \in Reach(root)
  <2>1. Top.build \in Reach(root) /\ (root \in Builds => d \in Reach(root))
    BY <1>4, ReachFacts
  <2>2. root # NoBuild => root \in Builds
    BY DEF TypeOK
  <2>3. root = stack[1].build /\ 1 \in Depth
    BY <1>2 DEF PathInv, Path, Linked
  <2>4. root \in Builds
    <3>1. stack[1] \in FrameType
      BY <2>3 DEF TypeOK, Depth
    <3>2. QED
      BY <2>3, <3>1 DEF FrameType
  <2>5. QED
    BY <2>1, <2>4
<1> HIDE DEF r, f
<1>7. t \in Seq(FrameType) /\ Len(t) = n /\ t[n] = r /\ \A i \in 1..(n - 1) : t[i] = stack[i]
  BY <1>1, <1>3, ReplaceTop
<1> HIDE DEF t
<1>8. Len(stack') = n + 1 /\ stack'[n + 1] = f /\ \A i \in 1..n : stack'[i] = t[i]
  BY <1>1, <1>7
<1>9. ASSUME NEW i \in 1..n
      PROVE  /\ stack'[i].build = stack[i].build /\ stack'[i].chost = stack[i].chost
             /\ stack'[i].origin = stack[i].origin /\ stack'[i].pc = stack[i].pc
             /\ stack'[i].host \subseteq stack[i].host /\ stack'[i].target \subseteq stack[i].target
  <2>1. CASE i = n
    BY <1>1, <1>2, <1>3, <1>7, <1>8, <2>1
  <2>2. CASE i \in 1..(n - 1)
    BY <1>7, <1>8, <2>2
  <2>3. QED
    BY <1>2, <2>1, <2>2
<1>10. Depth' = 1..(n + 1)
  <2>1. Depth' = 1..Len(stack')
    BY DEF Depth
  <2>2. QED
    BY <1>8, <2>1
<1>11. Native' = Native /\ Reach(root)' = Reach(root) /\ \A b : Needs(b)' = Needs(b)
  BY <1>1, SameGraph
<1> HIDE DEF n
<1>12. Path'
  <2> SUFFICES ASSUME NEW i \in 1..(n + 1) PROVE Linked(i)'
    BY <1>10 DEF Path
  <2>1. CASE i = n + 1
    <3>1. i > 1 /\ i - 1 = n /\ i # 1 /\ n \in 1..n
      BY <1>2, <2>1
    <3>2. stack'[i] = f /\ stack'[i - 1].build = Top.build
      BY <1>2, <1>8, <1>9, <2>1, <3>1
    <3>3. QED
      BY <1>4, <1>5, <1>6, <1>11, <3>1, <3>2 DEF Linked
  <2>2. CASE i \in 1..n
    <3>1. Linked(i) /\ (i > 1 => i - 1 \in 1..n)
      BY <1>2, <2>2 DEF PathInv, Path
    <3>2. i = 1 => stack'[i].build = root /\ stack'[i].origin = root[1]
      BY <1>9, <2>2, <3>1 DEF Linked
    <3>3. i > 1 => /\ stack'[i].build \in Needs(stack'[i - 1].build)
                   /\ stack'[i].origin = stack'[i - 1].build[1]
      BY <1>9, <2>2, <3>1 DEF Linked
    <3>4. /\ stack'[i].build \in Reach(root)
          /\ stack'[i].host \cup stack'[i].target \subseteq Needs(stack'[i].build)
          /\ (Native /\ stack'[i].pc # "enter") => stack'[i].build[1] \in statedir'
      BY <1>1, <1>9, <2>2, <3>1 DEF Linked
    <3>5. QED
      BY <1>1, <1>11, <3>2, <3>3, <3>4 DEF Linked
  <2>3. QED
    BY <1>2, <2>1, <2>2
<1>13. Opened'
  <2> SUFFICES ASSUME NEW k \in depmap
               PROVE  \E i \in 1..(n + 1) : stack'[i].pc # "enter" /\ Key(stack'[i]) = k
    BY <1>1, <1>10 DEF Opened, Key
  <2>1. PICK i \in 1..n : stack[i].pc # "enter" /\ Key(stack[i]) = k
    BY <1>2 DEF PathInv, Opened
  <2>2. stack'[i].pc # "enter" /\ Key(stack'[i]) = k /\ i \in 1..(n + 1)
    BY <1>2, <1>9, <2>1 DEF Key
  <2>3. QED
    BY <2>2
<1>14. Stopped' /\ NativeLoopsReal'
  BY <1>1 DEF PathInv, Stopped, NativeLoopsReal, LoopsReal
<1>15. QED
  BY <1>12, <1>13, <1>14 DEF PathInv

\* A build ends: its state directory and its key go, those of others stay.
LEMMA PhasesPath ==
    ASSUME TypeOK, IInv, PathInv, Phases
    PROVE  PathInv'
<1> DEFINE n == Len(stack)
<1>1. stack # <<>> /\ Top.pc = "phases" /\ statedir' = statedir \ {Top.build[1]}
      /\ depmap' = depmap \ {Key(Top)} /\ stack' = SubSeq(stack, 1, n - 1)
      /\ UNCHANGED <<graph, root>> /\ result' = IF n = 1 THEN "ok" ELSE result
  BY DEF Phases, At, Pop
<1>2. n \in Nat \ {0} /\ Top = stack[n] /\ n \in Depth /\ Depth = 1..n
  BY <1>1, TopType DEF Depth
<1>3. Len(stack') = n - 1 /\ \A i \in 1..(n - 1) : stack'[i] = stack[i]
  <2>1. stack \in Seq(FrameType) /\ n - 1 \in Nat /\ n - 1 <= Len(stack)
    BY <1>2 DEF TypeOK
  <2>2. QED
    BY <1>1, <2>1, Prefix
<1>4. \A i \in 1..(n - 1) : stack[i].build # Top.build
  BY <1>1, TopInv
<1> HIDE DEF n
<1>5. ASSUME NEW i \in 1..(n - 1)
      PROVE  /\ stack'[i].build = stack[i].build /\ stack'[i].origin = stack[i].origin
             /\ stack'[i].host \cup stack'[i].target \subseteq Needs(stack[i].build)
             /\ (Native /\ stack'[i].pc # "enter") => stack[i].build[1] \in statedir'
  <2>1. stack'[i] = stack[i] /\ i \in Depth /\ Linked(i)
    BY <1>2, <1>3 DEF PathInv, Path
  <2>2. Native => stack[i].build[1] # Top.build[1]
    <3>1. Native => /\ stack[i].build \in Builds /\ stack[i].build[2] = "host"
                    /\ Top.build \in Builds /\ Top.build[2] = "host"
      BY <1>2, <2>1, NativeHost
    <3>2. QED
      BY <1>4, <3>1 DEF Builds
  <2>3. QED
    BY <1>1, <2>1, <2>2 DEF Linked
<1>6. Path'
  <2>1. Len(stack) \in Nat /\ Len(stack') \in Nat /\ Len(stack') <= Len(stack) /\ Len(stack') = n - 1
    BY <1>2, <1>3 DEF n
  <2>2. QED
    BY <1>1, <1>5, <2>1, PathKept DEF PathInv
<1>7. Opened'
  <2>1. Depth' = 1..(n - 1)
    <3>1. Depth' = 1..Len(stack')
      BY DEF Depth
    <3>2. QED
      BY <1>3, <3>1
  <2> SUFFICES ASSUME NEW k \in depmap, k # Key(Top)
               PROVE  \E i \in 1..(n - 1) : stack'[i].pc # "enter" /\ Key(stack'[i]) = k
    BY <1>1, <2>1 DEF Opened, Key
  <2>2. PICK i \in 1..n : stack[i].pc # "enter" /\ Key(stack[i]) = k
    BY <1>2 DEF PathInv, Opened
  <2>3. i \in 1..(n - 1)
    BY <1>2, <2>2
  <2>4. QED
    BY <1>3, <2>2, <2>3
<1>8. Stopped'
  <2>1. result = "none"
    BY <1>1 DEF PathInv, Stopped
  <2>2. n = 1 => stack' = <<>>
    BY <1>1
  <2>3. QED
    BY <1>1, <2>1, <2>2 DEF Stopped
<1>9. NativeLoopsReal'
  <2>1. result' # "loop"
    BY <1>1 DEF PathInv, Stopped
  <2>2. QED
    BY <2>1 DEF NativeLoopsReal, LoopsReal
<1>10. QED
  BY <1>6, <1>7, <1>8, <1>9 DEF PathInv

\* Every step keeps the path.
LEMMA PathStep == TypeOK /\ IInv /\ PathInv /\ [Next]_vars => PathInv'
<1> SUFFICES ASSUME TypeOK, IInv, PathInv, [Next]_vars PROVE PathInv'
  OBVIOUS
<1>1. CASE UNCHANGED vars
  <2>1. UNCHANGED <<graph, root, repo, stack, depmap, statedir, result>>
    BY <1>1 DEF vars
  <2>2. Native' = Native /\ Reach(root)' = Reach(root) /\ \A b : Needs(b)' = Needs(b)
    BY <2>1, SameGraph
  <2>3. Path'
    <3> SUFFICES ASSUME NEW i \in Depth PROVE Linked(i)'
      BY <2>1 DEF Path, Depth
    <3>1. Linked(i)
      BY DEF PathInv, Path
    <3>2. QED
      BY <2>1, <2>2, <3>1 DEF Linked
  <2>4. Opened' /\ Stopped'
    BY <2>1 DEF PathInv, Opened, Stopped, Depth, Key
  <2>5. NativeLoopsReal'
    BY <2>1, <2>2 DEF PathInv, NativeLoopsReal, LoopsReal, RealCycle
  <2>6. QED
    BY <2>3, <2>4, <2>5 DEF PathInv
<1>2. ASSUME NEW b \in Builds, NEW force \in BOOLEAN, NEW o \in SUBSET Options, DoPkg(b, force, o)
      PROVE  PathInv'
  <2> DEFINE f == Frame(b, FALSE, b[1])
  <2>1. stack = <<>> /\ root' = b /\ UNCHANGED <<graph, repo, depmap, statedir>>
        /\ Len(stack) = 0 /\ result = "none"
    BY <1>2 DEF DoPkg
  <2>2. depmap = {}
    BY <2>1 DEF PathInv, Opened, Depth
  <2>3. result' # "loop" /\ (result' = "none" \/ stack' = stack)
    BY <1>2, <2>1 DEF DoPkg
  <2>4. Opened' /\ Stopped' /\ NativeLoopsReal'
    BY <2>1, <2>2, <2>3 DEF Opened, Stopped, NativeLoopsReal, LoopsReal
  <2>5. CASE stack' = stack
    BY <2>1, <2>4, <2>5 DEF PathInv, Path, Depth
  <2>6. CASE stack' = Append(stack, f)
    <3>1. f.build = b /\ f.origin = b[1] /\ f.pc = "enter" /\ f.host = {} /\ f.target = {}
      BY DEF Frame
    <3> HIDE DEF f
    <3>2. stack' = <<f>> /\ Len(stack') = 1 /\ stack'[1] = f
      BY <2>1, <2>6
    <3>3. b \in Reach(b)'
      <4>1. Reach(b)' = Reach(b)
        BY <2>1 DEF Reach, Needs, HostDeps, MakeDeps, RunDeps
      <4>2. QED
        BY <4>1, ReachFacts
    <3>4. Linked(1)'
      BY <2>1, <3>1, <3>2, <3>3 DEF Linked
    <3>5. Depth' = {1}
      BY <3>2 DEF Depth
    <3>6. QED
      BY <2>4, <3>4, <3>5 DEF PathInv, Path
  <2>7. QED
    BY <1>2, <2>5, <2>6 DEF DoPkg, Push
<1>3. ASSUME stack # <<>>
      PROVE  /\ Top \in FrameType /\ Top.build \in Builds
             /\ Top.host \cup Top.target \subseteq Needs(Top.build)
             /\ (Native /\ Top.pc # "enter") => Top.build[1] \in statedir
  <2>1. Len(stack) \in Depth /\ Top = stack[Len(stack)] /\ Top \in FrameType /\ Top.build \in Builds
    BY <1>3, TopType DEF Depth
  <2>2. QED
    BY <2>1 DEF PathInv, Path, Linked
<1>4. CASE Enter
  <2> DEFINE f == [Top EXCEPT !.pc = "deps"]
  <2>1. stack # <<>> /\ stack' = [stack EXCEPT ![Len(stack)] = f]
        /\ UNCHANGED <<graph, root, repo, result>> /\ statedir' = statedir \cup {Top.build[1]}
        /\ depmap' = depmap \cup {Key(Top)}
    BY <1>4 DEF Enter, At
  <2>2. /\ f \in FrameType /\ f.build = Top.build /\ f.chost = Top.chost /\ f.origin = Top.origin
        /\ f.host = Top.host /\ f.target = Top.target /\ f.pc = "deps" /\ Key(f) = Key(Top)
    BY <1>3, <2>1 DEF FrameType, Key
  <2> HIDE DEF f
  <2>3. QED
    BY <1>3, <2>1, <2>2, ReplacePath
<1>5. CASE EnterCycle
  <2>1. stack # <<>> /\ Raise("loop")
    BY <1>5 DEF EnterCycle, At
  <2>2. QED
    BY <1>5, <2>1, EnterCycleReal, RaisePath
<1>6. CASE Resolve
  <2> DEFINE h == Missing(HostDeps(Top.build))
             t == Missing(MakeDeps(Top.build) \cup RunDeps(Top.build))
             f == [Top EXCEPT !.pc = "build", !.host = h, !.target = t]
  <2>1. stack # <<>> /\ Top.pc = "deps" /\ stack' = [stack EXCEPT ![Len(stack)] = f]
        /\ UNCHANGED <<graph, root, repo, result, statedir, depmap>>
    BY <1>6 DEF Resolve, At
  <2>2. h \cup t \subseteq Needs(Top.build) /\ h \subseteq Builds /\ t \subseteq Builds
    BY <1>3, <2>1, NeedsType DEF Needs, Missing
  <2> HIDE DEF h, t
  <2>3. /\ f \in FrameType /\ f.build = Top.build /\ f.chost = Top.chost /\ f.origin = Top.origin
        /\ f.host = h /\ f.target = t /\ f.pc = "build"
    BY <1>3, <2>1, <2>2 DEF FrameType
  <2> HIDE DEF f
  <2>4. Native => f.build[1] \in statedir'
    BY <1>3, <2>1, <2>3
  <2>5. QED
    BY <2>1, <2>2, <2>3, <2>4, ReplacePath
<1>7. CASE ResolveLoop
  <2>1. stack # <<>> /\ Raise("loop")
    BY <1>7 DEF ResolveLoop, At
  <2>2. QED
    BY <1>7, <2>1, ResolveLoopReal, RaisePath
<1>8. ASSUME NEW d \in Builds, SkipDep(d) PROVE PathInv'
  <2> DEFINE f == Rest(d)
  <2>1. stack # <<>> /\ Top.pc = "build" /\ stack' = [stack EXCEPT ![Len(stack)] = f]
        /\ UNCHANGED <<graph, root, repo, result, statedir, depmap>>
    BY <1>8 DEF SkipDep, At, Without
  <2>2. /\ f \in FrameType /\ f.build = Top.build /\ f.chost = Top.chost /\ f.origin = Top.origin
        /\ f.pc = "build" /\ f.host \subseteq Top.host /\ f.target \subseteq Top.target
    BY <1>3, <2>1 DEF Rest, FrameType
  <2> HIDE DEF f
  <2>3. (Native => f.build[1] \in statedir') /\ f.host \cup f.target \subseteq Needs(f.build)
    BY <1>3, <2>1, <2>2
  <2>4. QED
    BY <2>1, <2>2, <2>3, ReplacePath
<1>9. ASSUME NEW d \in Builds, BuildDep(d) PROVE PathInv'
  BY <1>9, BuildDepPath
<1>10. CASE Install
  <2> DEFINE f == [Top EXCEPT !.pc = "phases"]
  <2>1. stack # <<>> /\ Top.pc = "build" /\ stack' = [stack EXCEPT ![Len(stack)] = f]
        /\ UNCHANGED <<graph, root, repo, result, statedir, depmap>>
    BY <1>10 DEF Install, At
  <2>2. /\ f \in FrameType /\ f.build = Top.build /\ f.chost = Top.chost /\ f.origin = Top.origin
        /\ f.host = Top.host /\ f.target = Top.target /\ f.pc = "phases"
    BY <1>3, <2>1 DEF FrameType
  <2> HIDE DEF f
  <2>3. (Native => f.build[1] \in statedir') /\ f.host \cup f.target \subseteq Needs(f.build)
    BY <1>3, <2>1, <2>2
  <2>4. QED
    BY <2>1, <2>2, <2>3, ReplacePath
<1>11. CASE Phases
  BY <1>11, PhasesPath
<1>12. CASE PhasesLost
  BY <1>12, RaisePath DEF PhasesLost, At
<1>13. CASE Fail
  BY <1>13, RaisePath DEF Fail
<1>14. CASE Ended
  BY <1>1, <1>14 DEF Ended
<1>15. CASE SkipInstall
  <2> DEFINE f == [Top EXCEPT !.pc = "phases"]
  <2>1. stack # <<>> /\ Top.pc = "deps" /\ stack' = [stack EXCEPT ![Len(stack)] = f]
        /\ UNCHANGED <<graph, root, repo, result, statedir, depmap>>
    BY <1>15 DEF SkipInstall, At
  <2>2. /\ f \in FrameType /\ f.build = Top.build /\ f.chost = Top.chost /\ f.origin = Top.origin
        /\ f.host = Top.host /\ f.target = Top.target /\ f.pc = "phases"
    BY <1>3, <2>1 DEF FrameType
  <2> HIDE DEF f
  <2>3. (Native => f.build[1] \in statedir') /\ f.host \cup f.target \subseteq Needs(f.build)
    BY <1>3, <2>1, <2>2
  <2>4. QED
    BY <2>1, <2>2, <2>3, ReplacePath
<1>16. QED
  BY <1>1, <1>2, <1>4, <1>5, <1>6, <1>7, <1>8, <1>9, <1>10, <1>11, <1>12, <1>13, <1>14, <1>15
     DEF Next, Proceed

\* The builds in progress are always a path of dependencies.
THEOREM PathInvariant == Spec => [](TypeOK /\ IInv /\ PathInv)
<1>1. Init => PathInv
  BY DEF Init, PathInv, Path, Depth, Opened, Stopped, NativeLoopsReal, LoopsReal
<1>2. QED
  BY <1>1, PathStep, Invariant, PTL DEF Spec

\* build.py:597, dependencies.py:396-464: a native command that reports a build
\* loop has found missing builds that need each other, whatever was built
\* before it got there.
THEOREM NativeLoopsRealCorrect == Spec => []NativeLoopsReal
<1>1. PathInv => NativeLoopsReal
  BY DEF PathInv
<1>2. QED
  BY <1>1, PathInvariant, PTL

\* build.py:631: in a native command no build of a dependency takes the state
\* directory of a template that waits for it.
THEOREM NativeStateIntactCorrect == Spec => []NativeStateIntact
<1>1. TypeOK /\ PathInv => NativeStateIntact
  <2> SUFFICES ASSUME TypeOK, PathInv, Native, At("phases") PROVE Top.build[1] \in statedir
    BY DEF NativeStateIntact, StateIntact
  <2>1. Len(stack) \in Depth /\ Top = stack[Len(stack)] /\ Top.pc = "phases"
    BY TopType DEF At, Depth
  <2>2. QED
    BY <2>1 DEF PathInv, Path, Linked
<1>2. QED
  BY <1>1, PathInvariant, PTL
===============================================================================
