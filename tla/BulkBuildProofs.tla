----------------------------- MODULE BulkBuildProofs -----------------------------
(***************************************************************************)
(* Proofs about bulk builds (runner.py, _bulkpkg), for any templates, any  *)
(* tree and any command line: what the command says at its end, the order  *)
(* it builds in, the cycles it refuses and the status lines it writes.     *)
(*                                                                         *)
(* `failed` is one flag for many failures, and a broken template resets    *)
(* it.  What can be said of it at every point is kept in FlagInv: nothing  *)
(* resets it once builds have begun, before that only a broken template    *)
(* does, and it is never set without a line that says why.                 *)
(***************************************************************************)
EXTENDS BulkBuild, FiniteSetTheorems, TLAPS

\* Lines that name the culprit.
Culprits == With("failed") \cup With("parse") \cup With("missing") \cup With("invalid")

TodoTyped == pc = "resolve" => todo \in Seq(Names)
FailedKept == With("failed") # {} => failed /\ pc \in {"build", "failed"}
TroubleKept == With("broken") = {} =>
    \A n \in Names, s \in Statuses \ {"ok", "done"} : <<n, s>> \in lines => failed
Blamed == failed => Culprits # {} \/ Cut(Cbuild, {})
EndKept == (pc = "success" => ~failed) /\ (pc = "failed" => failed)
FlagInv == /\ TodoTyped /\ FailedKept /\ TroubleKept /\ Blamed /\ EndKept

\* A line more, and a flag that knows of it.
LEMMA Adding ==
  ASSUME FlagInv, NEW n \in Names, NEW s \in Statuses, Status(n, s), UNCHANGED in,
         pc \notin {"success", "failed"}, pc' = pc, pc = "resolve" => todo' \in Seq(Names),
         \/ s \in {"skipped", "ok", "done"} /\ failed' = failed
            /\ (s = "skipped" => failed)
         \/ s \in {"parse", "failed", "missing", "invalid"} /\ failed'
            /\ (s = "failed" => pc = "build")
         \/ s = "broken" /\ ~failed' /\ pc = "parse"
  PROVE  FlagInv'
<1>1. /\ lines' = lines \cup {<<n, s>>}
      /\ With(s)' = With(s) \cup {n} /\ \A u : u # s => With(u)' = With(u)
  BY DEF Status, With, FlagInv, TodoTyped
<1>2. TodoTyped'
  BY <1>1 DEF TodoTyped
<1>3. Cut(Cbuild, {})' <=> Cut(Cbuild, {})
  BY DEF Cut, Walk, Closure, Closed, Readable
<1>4. FailedKept'
  BY <1>1 DEF FlagInv, FailedKept
<1>5. TroubleKept'
  BY <1>1 DEF FlagInv, TroubleKept
<1>6. Blamed'
  BY <1>1, <1>3 DEF FlagInv, Blamed, Culprits
<1>7. EndKept'
  BY DEF FlagInv, EndKept
<1>8. QED
  BY <1>2, <1>4, <1>5, <1>6, <1>7 DEF FlagInv

\* No line, and a flag that stays.
LEMMA Quiet ==
  ASSUME FlagInv, UNCHANGED <<in, lines, failed>>,
         pc' = "resolve" => todo' \in Seq(Names),
         pc \in {"build", "failed"} => pc' \in {"build", "failed", "success"},
         pc' = "success" => ~failed, pc' = "failed" => failed
  PROVE  FlagInv'
<1>1. Cut(Cbuild, {})' <=> Cut(Cbuild, {})
  BY DEF Cut, Walk, Closure, Closed, Readable
<1>2. \A s : With(s)' = With(s)
  BY DEF With
<1>3. QED
  BY <1>1, <1>2 DEF FlagInv, TodoTyped, FailedKept, TroubleKept, Blamed, Culprits, EndKept
-------------------------------------------------------------------------------
LEMMA ResolveStep == FlagInv /\ Resolve => FlagInv'
<1> SUFFICES ASSUME FlagInv, Resolve PROVE FlagInv'
  OBVIOUS
<1> PICK n : n = Head(todo)
  OBVIOUS
<1>1. /\ pc = "resolve" /\ pc' = pc /\ todo' = Tail(todo) /\ UNCHANGED in
      /\ n \in Names /\ todo' \in Seq(Names)
      /\ Canon[n] \in Templates \cup Errors /\ \A t \in Templates : t \in Names
  BY NamesAssumption DEF Resolve, FlagInv, TodoTyped
<1>2. CASE Canon[n] \in Errors /\ Status(n, Canon[n]) /\ failed' = TRUE
  <2>1. Canon[n] \in {"missing", "invalid"} /\ Canon[n] \in Statuses
    BY <1>2 DEF Errors, Statuses
  <2>2. QED
    BY <1>1, <1>2, <2>1, Adding
<1>3. CASE UNCHANGED <<lines, failed>>
  BY <1>1, <1>3, Quiet
<1>4. CASE Canon[n] \in Templates /\ GivenUp /\ Status(Canon[n], "skipped") /\ failed' = failed
  <2>1. Canon[n] \in Names /\ "skipped" \in Statuses /\ failed
    BY <1>1, <1>4 DEF Statuses, GivenUp
  <2>2. QED
    BY <1>1, <1>4, <2>1, Adding
<1>5. QED
  BY <1>2, <1>3, <1>4 DEF Resolve

\* base-cbuild's own dependencies are the one failure without a line.
LEMMA BaseStep == FlagInv /\ Base => FlagInv'
<1> SUFFICES ASSUME FlagInv, Base PROVE FlagInv'
  OBVIOUS
<1>1. pc = "resolve" /\ pc' = "parse" /\ UNCHANGED <<in, lines>>
  BY DEF Base
<1>2. CASE failed' = failed
  BY <1>1, <1>2, Quiet
<1>3. CASE failed' = (failed \/ Cut(Cbuild, {}))
  <2>1. (Cut(Cbuild, {})' <=> Cut(Cbuild, {})) /\ \A s : With(s)' = With(s)
    BY <1>1 DEF Cut, Walk, Closure, Closed, Readable, With
  <2>2. QED
    BY <1>1, <1>3, <2>1
    DEF FlagInv, TodoTyped, FailedKept, TroubleKept, Blamed, Culprits, EndKept
<1>4. QED
  BY <1>2, <1>3 DEF Base

LEMMA ParseSteps ==
  ASSUME FlagInv, NEW t \in Templates,
         ParseSkip(t) \/ ParseFail(t) \/ ParseBroken(t) \/ ParseGood(t)
  PROVE  FlagInv'
<1>1. /\ pc = "parse" /\ pc' = pc /\ UNCHANGED in /\ t \in Names
      /\ {"skipped", "parse", "broken"} \subseteq Statuses
  BY NamesAssumption DEF ParseSkip, ParseFail, ParseBroken, ParseGood, Parsing, Statuses
<1>2. CASE ParseSkip(t)
  BY <1>1, <1>2, Adding DEF ParseSkip, GivenUp
<1>3. CASE ParseFail(t)
  BY <1>1, <1>3, Adding DEF ParseFail
<1>4. CASE ParseBroken(t)
  BY <1>1, <1>4, Adding DEF ParseBroken
<1>5. CASE ParseGood(t)
  <2>1. CASE UNCHANGED <<lines, failed>>
    BY <1>1, <2>1, Quiet
  <2>2. CASE Status(t, "parse") /\ failed' = TRUE
    BY <1>1, <2>2, Adding
  <2>3. QED
    BY <1>5, <2>1, <2>2 DEF ParseGood
<1>6. QED
  BY <1>2, <1>3, <1>4, <1>5

LEMMA OrderStep == FlagInv /\ Order => FlagInv'
<1> SUFFICES ASSUME FlagInv, Order PROVE FlagInv'
  OBVIOUS
<1>1. pc = "parse" /\ pc' = "build" /\ UNCHANGED <<in, failed>>
  BY DEF Order
<1>2. PICK D : lines' = lines \cup (D \X {"done"})
  BY DEF Order
<1>3. \A n, s : s # "done" => (<<n, s>> \in lines' <=> <<n, s>> \in lines)
  BY <1>2
<1>4. \A s : s # "done" => With(s)' = With(s)
  BY <1>3 DEF With
<1>5. Cut(Cbuild, {})' <=> Cut(Cbuild, {})
  BY <1>1 DEF Cut, Walk, Closure, Closed, Readable
<1>6. QED
  <2>1. TodoTyped' /\ EndKept'
    BY <1>1 DEF TodoTyped, EndKept
  <2>2. FailedKept' /\ Blamed'
    BY <1>1, <1>4, <1>5 DEF FlagInv, FailedKept, Blamed, Culprits
  <2>3. TroubleKept'
    BY <1>1, <1>3, <1>4 DEF FlagInv, TroubleKept
  <2>4. QED
    BY <2>1, <2>2, <2>3 DEF FlagInv

LEMMA BuildSteps ==
  ASSUME FlagInv, NEW t \in Templates, BuildSkip(t) \/ BuildOk(t) \/ BuildFail(t)
  PROVE  FlagInv'
<1>1. /\ pc = "build" /\ pc' = pc /\ UNCHANGED in /\ t \in Names
      /\ {"skipped", "ok", "failed"} \subseteq Statuses
  BY NamesAssumption DEF BuildSkip, BuildOk, BuildFail, Building, Statuses
<1>2. CASE BuildSkip(t)
  BY <1>1, <1>2, Adding DEF BuildSkip, GivenUp
<1>3. CASE BuildOk(t)
  BY <1>1, <1>3, Adding DEF BuildOk
<1>4. CASE BuildFail(t)
  BY <1>1, <1>4, Adding DEF BuildFail
<1>5. QED
  BY <1>2, <1>3, <1>4

LEMMA FlagStep == FlagInv /\ [Next]_vars => FlagInv'
<1> SUFFICES ASSUME FlagInv, [Next]_vars PROVE FlagInv'
  OBVIOUS
<1>1. CASE UNCHANGED vars
  <2>1. UNCHANGED <<in, pc, todo, lines, failed>>
    BY <1>1 DEF vars
  <2>2. QED
    BY <2>1, Quiet DEF FlagInv, TodoTyped, EndKept
<1>2. CASE NoBase \/ CycleError
  BY <1>2, Quiet DEF NoBase, CycleError
<1>3. CASE End
  <2>1. /\ pc \in {"build", "parse"} /\ UNCHANGED <<in, lines, failed>>
        /\ pc' = IF failed THEN "failed" ELSE "success"
    BY <1>3 DEF End
  <2>2. QED
    BY <2>1, Quiet
<1>4. QED
  BY <1>1, <1>2, <1>3, ResolveStep, BaseStep, ParseSteps, OrderStep, BuildSteps DEF Next, Ended

LEMMA FlagInit == Init => FlagInv
<1> SUFFICES ASSUME Init PROVE FlagInv
  OBVIOUS
<1>1. in \in Inputs /\ pc = "resolve" /\ todo = in.args /\ failed = FALSE /\ lines = {}
  BY DEF Init
<1>2. todo \in Seq(Names)
  BY <1>1, InputsAssumption
<1>3. QED
  BY <1>1, <1>2
  DEF FlagInv, TodoTyped, FailedKept, TroubleKept, Blamed, Culprits, EndKept, With

\* runner.py:2085-2111: a bulk command that succeeds has no failed build, and no
\* other failure unless a broken template came after it; one that fails names a
\* culprit, or has one among what base-cbuild builds upon.
THEOREM TruthfulEndCorrect == Spec => []TruthfulEnd
<1>1. FlagInv => TruthfulEnd
  BY DEF FlagInv, FailedKept, TroubleKept, Blamed, Culprits, EndKept, TruthfulEnd
<1>2. QED
  BY <1>1, FlagInit, FlagStep, PTL DEF Spec
-------------------------------------------------------------------------------
(***************************************************************************)
(* What can be reached: the facts about least closed sets that make        *)
(* arguments about paths unnecessary.                                      *)
(***************************************************************************)

LEMMA ClosureType ==
  ASSUME NEW start, NEW succ
  PROVE  Closure(start, succ) \subseteq Templates
BY DEF Closure

\* The closure is itself closed: it holds start and is left by no step.
LEMMA ClosureClosed ==
  ASSUME NEW start \in SUBSET Templates, NEW succ \in [Templates -> SUBSET Templates]
  PROVE  Closed(Closure(start, succ), start, succ)
<1>1. start \subseteq Closure(start, succ)
  BY DEF Closure, Closed
<1>2. ASSUME NEW t \in Closure(start, succ), NEW v \in succ[t] PROVE v \in Closure(start, succ)
  <2>1. t \in Templates /\ v \in Templates
    BY <1>2, ClosureType
  <2>2. ASSUME NEW S \in SUBSET Templates, Closed(S, start, succ) PROVE v \in S
    <3>1. t \in S
      BY <1>2, <2>2 DEF Closure
    <3>2. QED
      BY <1>2, <2>2, <3>1 DEF Closed
  <2>3. QED
    BY <2>1, <2>2 DEF Closure
<1>3. QED
  BY <1>1, <1>2 DEF Closed

\* And it is the least of all closed sets.
LEMMA ClosureLeast ==
  ASSUME NEW start, NEW succ, NEW S \in SUBSET Templates, Closed(S, start, succ)
  PROVE  Closure(start, succ) \subseteq S
BY DEF Closure

\* So whatever it holds is in start or one step away from a member.
LEMMA ClosureFrom ==
  ASSUME NEW start \in SUBSET Templates, NEW succ \in [Templates -> SUBSET Templates],
         NEW x \in Closure(start, succ)
  PROVE  x \in start \/ \E t \in Closure(start, succ) : x \in succ[t]
<1> DEFINE C == Closure(start, succ)
           S == {v \in Templates : v \in start \/ \E t \in C : v \in succ[t]}
<1>1. Closed(C, start, succ) /\ C \subseteq Templates
  BY ClosureClosed, ClosureType
<1>2. S \subseteq C
  BY <1>1 DEF Closed
<1>3. \A t \in S : succ[t] \subseteq S
  <2>1. SUFFICES ASSUME NEW t \in S, NEW v \in succ[t] PROVE v \in S
    OBVIOUS
  <2>2. t \in C /\ v \in Templates
    BY <1>1, <1>2
  <2>3. QED
    BY <2>2
<1>4. Closed(S, start, succ)
  BY <1>3 DEF Closed
<1>5. C \subseteq S
  BY <1>4, ClosureLeast
<1>6. QED
  BY <1>5

\* The same of the graph the sorter is given.
LEMMA ReachFacts ==
  ASSUME NEW t \in Templates
  PROVE  /\ Reach(t) \subseteq Templates
         /\ \A v \in Templates : <<t, v>> \in edges => v \in Reach(t)
         /\ \A u \in Reach(t), v \in Templates : <<u, v>> \in edges => v \in Reach(t)
         /\ \A S \in SUBSET Templates :
              /\ \A v \in Templates : <<t, v>> \in edges => v \in S
              /\ \A u \in S, v \in Templates : <<u, v>> \in edges => v \in S
              => Reach(t) \subseteq S
<1> DEFINE start == {v \in Templates : <<t, v>> \in edges}
           succ == [u \in Templates |-> {v \in Templates : <<u, v>> \in edges}]
<1>1. start \in SUBSET Templates /\ succ \in [Templates -> SUBSET Templates]
  OBVIOUS
<1>2. Reach(t) = Closure(start, succ)
  BY DEF Reach
<1>3. Closed(Closure(start, succ), start, succ) /\ Closure(start, succ) \subseteq Templates
  BY <1>1, ClosureClosed, ClosureType
<1>4. \A u \in Templates : succ[u] = {v \in Templates : <<u, v>> \in edges}
  OBVIOUS
<1> HIDE DEF succ
<1>5. ASSUME NEW S \in SUBSET Templates,
             \A v \in Templates : <<t, v>> \in edges => v \in S,
             \A u \in S, v \in Templates : <<u, v>> \in edges => v \in S
      PROVE  Reach(t) \subseteq S
  <2>1. Closed(S, start, succ)
    BY <1>4, <1>5 DEF Closed
  <2>2. QED
    BY <1>2, <2>1, ClosureLeast
<1>6. \A v \in Templates : <<t, v>> \in edges => v \in Reach(t)
  BY <1>2, <1>3 DEF Closed
<1>7. \A u \in Reach(t), v \in Templates : <<u, v>> \in edges => v \in Reach(t)
  BY <1>2, <1>3, <1>4 DEF Closed
<1>8. QED
  BY <1>2, <1>3, <1>5, <1>6, <1>7
-------------------------------------------------------------------------------
(***************************************************************************)
(* The graph.  Templates keep their health and their dependencies, so what *)
(* lies below base-cbuild is fixed; an implicit dependency is only given   *)
(* to a template outside of that (RealEdges), because base-cbuild was      *)
(* walked first (BaseKnown).  A visited template has all its edges, but    *)
(* for those requested, whose turn is yet to come (Handled).               *)
(***************************************************************************)

Typed ==
    /\ in \in Inputs
    /\ rpkgs \subseteq Templates /\ unread \subseteq rpkgs /\ recorded \subseteq rpkgs
    /\ pvisit \subseteq Templates /\ cbvisit \subseteq Templates
    /\ edges \subseteq Templates \X Templates /\ repo \subseteq Templates

\* The dependencies that can be known, and what base-cbuild builds upon.
RealDeps == [d \in Templates |-> IF Readable(d) THEN in.deps[d] ELSE {}]
BelowBase == Closure(RealDeps[Cbuild], RealDeps)

Sorting == ~in.raw /\ pc # "resolve" /\ Readable(Cbuild)
Expanded(d) == \A v \in in.deps[d] : <<d, v>> \in edges
Handled(d) == ~Readable(d) \/ d \in With("broken") \/ Expanded(d)

BaseKnown == BelowBase \subseteq cbvisit
RealEdges == \A u, v \in Templates :
    <<u, v>> \in edges =>
        \/ Readable(u) /\ v \in in.deps[u]
        \/ v = Cbuild /\ u # Cbuild /\ u \notin BelowBase
Visited == /\ rpkgs \subseteq pvisit
           /\ \A u, v \in Templates : <<u, v>> \in edges => v \in pvisit \cup {Cbuild}
           /\ \A d \in (pvisit \ rpkgs) \cup {Cbuild} : Readable(d) => Expanded(d)
Parsed == /\ (pc = "parse" /\ ~GivenUp) => \A d \in rpkgs \ unread : Handled(d)
          /\ pc = "build" => \A d \in pvisit \cup {Cbuild} : Handled(d)
BrokenLines == \A d \in With("broken") : in.health[d] = "broken"
BaseRead == pc \notin {"resolve", "error"} => Readable(Cbuild)
GraphInv == /\ BrokenLines /\ BaseRead
            /\ pc = "resolve" => edges = {}
            /\ Sorting => BaseKnown /\ RealEdges /\ Visited /\ Parsed
            /\ pc = "error" /\ Readable(Cbuild) => ~in.raw /\ Cyclic

LEMMA InputType ==
  ASSUME Typed
  PROVE  /\ in.deps \in [Templates -> SUBSET Templates] /\ in.built \subseteq Templates
         /\ in.args \in Seq(Names) /\ RealDeps \in [Templates -> SUBSET Templates]
         /\ \A t \in Templates : RealDeps[t] = IF Readable(t) THEN in.deps[t] ELSE {}
<1>1. in.deps \in [Templates -> SUBSET Templates] /\ in.built \subseteq Templates
      /\ in.args \in Seq(Names)
  BY InputsAssumption DEF Typed, Graphs
<1>2. QED
  BY <1>1 DEF RealDeps

\* What one call of _add_deps_graph does to the graph.
LEMMA AddGraphFacts ==
  ASSUME Typed, NEW t \in Templates, NEW seen \in SUBSET Templates,
         NEW implicit, AddGraph(t, seen, implicit)
  PROVE  LET W == Walk(t, seen) IN
         /\ W \subseteq Templates /\ in.deps[t] \ seen \subseteq W
         /\ \A d \in W : Readable(d) => in.deps[d] \ seen \subseteq W
         /\ pvisit' = seen \cup W \cup rpkgs
         /\ \A u, v : <<u, v>> \in edges' <=>
              \/ <<u, v>> \in edges \/ <<u, v>> \in implicit
              \/ (u = t \/ (u \in W /\ Readable(u))) /\ v \in in.deps[u]
         /\ cbvisit \subseteq cbvisit' /\ in.deps[t] \subseteq cbvisit'
         /\ \A d \in W : Readable(d) => in.deps[d] \subseteq cbvisit'
<1> DEFINE W == Walk(t, seen)
           succ == [d \in Templates |-> IF Readable(d) THEN in.deps[d] \ seen ELSE {}]
           readable == {t} \cup {d \in W : Readable(d)}
<1>0. in.deps \in [Templates -> SUBSET Templates]
  BY InputType
<1>1. /\ in.deps[t] \ seen \in SUBSET Templates /\ succ \in [Templates -> SUBSET Templates]
  BY <1>0
<1>2. W = Closure(in.deps[t] \ seen, succ)
  BY DEF Walk
<1>3. Closed(W, in.deps[t] \ seen, succ) /\ W \subseteq Templates
  BY <1>1, <1>2, ClosureClosed, ClosureType
<1>4. in.deps[t] \ seen \subseteq W /\ \A d \in W : Readable(d) => in.deps[d] \ seen \subseteq W
  BY <1>3 DEF Closed
<1>5. /\ pvisit' = seen \cup W \cup rpkgs
      /\ cbvisit' = cbvisit \cup UNION {in.deps[d] : d \in readable}
      /\ edges' = edges \cup implicit \cup UNION {{d} \X in.deps[d] : d \in readable}
  BY DEF AddGraph
<1>6. \A u, v : <<u, v>> \in UNION {{d} \X in.deps[d] : d \in readable} <=>
                  u \in readable /\ v \in in.deps[u]
  OBVIOUS
<1>7. QED
  BY <1>3, <1>4, <1>5, <1>6

\* The invariant of types is preserved by all of it.
LEMMA AddGraphType ==
  ASSUME Typed, NEW t \in Templates, NEW seen \in SUBSET Templates,
         NEW implicit \in SUBSET (Templates \X Templates), AddGraph(t, seen, implicit)
  PROVE  pvisit' \subseteq Templates /\ cbvisit' \subseteq Templates
         /\ edges' \subseteq Templates \X Templates
<1> DEFINE W == Walk(t, seen)
           readable == {t} \cup {d \in W : Readable(d)}
<1>1. W \subseteq Templates /\ pvisit' = seen \cup W \cup rpkgs
  BY AddGraphFacts
<1>2. \A d \in readable : in.deps[d] \in SUBSET Templates /\ d \in Templates
  BY <1>1, InputType
<1>3. cbvisit' = cbvisit \cup UNION {in.deps[d] : d \in readable}
      /\ edges' = edges \cup implicit \cup UNION {{d} \X in.deps[d] : d \in readable}
  BY DEF AddGraph
<1>4. UNION {in.deps[d] : d \in readable} \subseteq Templates
  BY <1>2
<1>5. UNION {{d} \X in.deps[d] : d \in readable} \subseteq Templates \X Templates
  BY <1>2
<1>6. QED
  BY <1>1, <1>3, <1>4, <1>5 DEF Typed

LEMMA ImplicitType ==
  ASSUME NEW t \in Templates
  PROVE  /\ Implicit(t) \in SUBSET (Templates \X Templates)
         /\ \A u, v : <<u, v>> \in Implicit(t) => u = t /\ v = Cbuild /\ t # Cbuild /\ t \notin cbvisit
BY NamesAssumption DEF Implicit

LEMMA TypedStep == Typed /\ [Next]_vars => Typed'
<1> SUFFICES ASSUME Typed, [Next]_vars PROVE Typed'
  OBVIOUS
<1>1. CASE UNCHANGED vars
  BY <1>1 DEF Typed, vars, graph, world
<1>2. CASE Resolve
  BY <1>2 DEF Typed, Resolve, graph, world
<1>3. CASE Base
  <2>1. CASE in.raw
    BY <1>3, <2>1 DEF Typed, Base, world
  <2>2. CASE ~in.raw
    <3>1. AddGraph(Cbuild, {}, {})
      BY <1>3, <2>2 DEF Base
    <3>2. pvisit' \subseteq Templates /\ cbvisit' \subseteq Templates
          /\ edges' \subseteq Templates \X Templates
      BY <3>1, AddGraphType, NamesAssumption
    <3>3. QED
      BY <1>3, <3>2 DEF Typed, Base, world
  <2>3. QED
    BY <2>1, <2>2
<1>4. CASE NoBase \/ CycleError \/ End
  BY <1>4 DEF Typed, NoBase, CycleError, End, graph, world
<1>5. ASSUME NEW t \in Templates, ParseSkip(t) \/ ParseFail(t) \/ ParseBroken(t) PROVE Typed'
  BY <1>5 DEF Typed, ParseSkip, ParseFail, ParseBroken, Parsing, graph, world
<1>6. ASSUME NEW t \in Templates, ParseGood(t) PROVE Typed'
  <2>1. /\ t \in rpkgs /\ unread' = unread \ {t} /\ UNCHANGED <<in, rpkgs, repo>>
        /\ recorded' \in {recorded, recorded \cup {t}}
    BY <1>6 DEF Typed, ParseGood, Parsing, world
  <2>2. pvisit' \subseteq Templates /\ cbvisit' \subseteq Templates
        /\ edges' \subseteq Templates \X Templates
    <3>1. CASE in.raw
      BY <1>6, <3>1 DEF Typed, ParseGood, graph
    <3>2. CASE ~in.raw
      <4>1. AddGraph(t, pvisit, Implicit(t))
        BY <1>6, <3>2 DEF ParseGood
      <4>2. pvisit \in SUBSET Templates
        BY DEF Typed
      <4>3. QED
        BY <4>1, <4>2, AddGraphType, ImplicitType
    <3>3. QED
      BY <3>1, <3>2
  <2>3. QED
    BY <2>1, <2>2 DEF Typed
<1>7. CASE Order
  BY <1>7 DEF Typed, Order, graph, world
<1>8. ASSUME NEW t \in Templates, BuildSkip(t) \/ BuildOk(t) \/ BuildFail(t) PROVE Typed'
  <2>1. Missing(t) \subseteq Templates
    BY ClosureType DEF Missing
  <2>2. repo' \subseteq Templates
    <3>1. CASE BuildSkip(t)
      BY <3>1 DEF Typed, BuildSkip, world
    <3>2. CASE BuildOk(t)
      BY <2>1, <3>2 DEF Typed, BuildOk
    <3>3. CASE BuildFail(t)
      BY <2>1, <3>3 DEF Typed, BuildFail
    <3>4. QED
      BY <1>8, <3>1, <3>2, <3>3
  <2>3. UNCHANGED <<in, rpkgs, unread, recorded, pvisit, cbvisit, edges>>
    BY <1>8 DEF BuildSkip, BuildOk, BuildFail, graph
  <2>4. QED
    BY <2>2, <2>3 DEF Typed
<1>9. QED
  BY <1>1, <1>2, <1>3, <1>4, <1>5, <1>6, <1>7, <1>8 DEF Next, Ended

LEMMA TypedInit == Init => Typed
BY InputsAssumption DEF Init, Typed
-------------------------------------------------------------------------------
\* A line of another status, or none, leaves what the graph's parts say; they
\* speak of the tree, the graph and the broken templates alone.
LEMMA SameTree ==
  ASSUME UNCHANGED in
  PROVE  /\ \A d : Readable(d)' = Readable(d)
         /\ RealDeps' = RealDeps /\ BelowBase' = BelowBase
BY DEF RealDeps, BelowBase, Readable, Closure, Closed

LEMMA WithStatus ==
  ASSUME NEW n \in Names, NEW s, Status(n, s)
  PROVE  With(s)' = With(s) \cup {n} /\ \A u : u # s => With(u)' = With(u)
BY DEF Status, With

LEMMA WithSame == ASSUME lines' = lines PROVE \A u : With(u)' = With(u)
BY DEF With

\* Steps that do not touch the graph.
LEMMA SameGraph ==
  ASSUME GraphInv, UNCHANGED <<in, graph, rpkgs>>, With("broken")' = With("broken"),
         pc # "resolve", pc' \notin {"resolve", "error"}, pc # "error",
         pc' = "parse" => /\ pc = "parse" /\ (GivenUp => GivenUp')
                          /\ \A d \in unread \ unread' : GivenUp' \/ ~Readable(d),
         (pc' = "build" /\ pc # "build") => pc = "parse" /\ ~GivenUp /\ unread = {}
  PROVE  GraphInv'
<1>1. UNCHANGED <<pvisit, cbvisit, edges>>
  BY DEF graph
<1>2. BrokenLines' /\ BaseRead'
  BY SameTree DEF GraphInv, BrokenLines, BaseRead
<1>3. (\A d : Readable(d)' = Readable(d)) /\ BelowBase' = BelowBase
      /\ \A d : Handled(d)' = Handled(d) /\ Expanded(d)' = Expanded(d)
  BY <1>1, SameTree DEF Handled, Expanded
<1>4. Sorting' => Sorting
  BY <1>3 DEF Sorting
<1>5. Sorting => BaseKnown' /\ RealEdges' /\ Visited'
  BY <1>1, <1>3 DEF GraphInv, BaseKnown, RealEdges, Visited
<1>6. ASSUME Sorting, pc' = "parse", ~GivenUp', NEW d \in rpkgs \ unread' PROVE Handled(d)
  <2>1. pc = "parse" /\ ~GivenUp /\ (d \in unread => ~Readable(d))
    BY <1>6
  <2>2. d \notin unread => Handled(d)
    BY <1>6, <2>1 DEF GraphInv, Parsed
  <2>3. QED
    BY <2>1, <2>2 DEF Handled
<1>7. ASSUME Sorting, pc' = "build", NEW d \in pvisit \cup {Cbuild} PROVE Handled(d)
  <2>1. CASE pc = "build"
    BY <1>7, <2>1 DEF GraphInv, Parsed
  <2>2. CASE pc # "build"
    <3>1. d \in rpkgs => Handled(d)
      BY <1>7, <2>2 DEF GraphInv, Parsed
    <3>2. d \notin rpkgs => Handled(d)
      BY <1>7 DEF GraphInv, Visited, Handled
    <3>3. QED
      BY <3>1, <3>2
  <2>3. QED
    BY <2>1, <2>2
<1>8. Sorting => Parsed'
  BY <1>1, <1>3, <1>6, <1>7 DEF Parsed
<1>9. QED
  BY <1>2, <1>4, <1>5, <1>8 DEF GraphInv

\* base-cbuild comes first: everything below it is known, and nothing else.
LEMMA BaseGraph == ASSUME Typed, GraphInv, Base PROVE GraphInv'
<1>1. pc = "resolve" /\ pc' = "parse" /\ UNCHANGED <<in, lines, rpkgs>> /\ unread' = rpkgs
      /\ Readable(Cbuild)
  BY DEF Base
<1>2. (\A d : Readable(d)' = Readable(d)) /\ BelowBase' = BelowBase /\ Readable(Cbuild)'
  BY <1>1, SameTree
<1>3. BrokenLines' /\ BaseRead'
  BY <1>1, <1>2, WithSame DEF GraphInv, BrokenLines, BaseRead
<1>4. CASE in.raw
  BY <1>1, <1>3, <1>4 DEF GraphInv, Sorting
<1>5. CASE ~in.raw
  <2>0. Cbuild \in Templates /\ {} \in SUBSET Templates /\ edges = {} /\ AddGraph(Cbuild, {}, {})
    BY <1>1, <1>5, NamesAssumption DEF Base, GraphInv
  <2> DEFINE W == Walk(Cbuild, {})
  <2>1. W = BelowBase
    BY <1>1, <2>0 DEF Walk, BelowBase, RealDeps
  <2>2. /\ W \subseteq Templates /\ in.deps[Cbuild] \ {} \subseteq W
        /\ \A d \in W : Readable(d) => in.deps[d] \ {} \subseteq W
        /\ pvisit' = W \cup rpkgs
        /\ \A u, v : <<u, v>> \in edges' <=>
              (u = Cbuild \/ (u \in W /\ Readable(u))) /\ v \in in.deps[u]
        /\ in.deps[Cbuild] \subseteq cbvisit'
        /\ \A d \in W : Readable(d) => in.deps[d] \subseteq cbvisit'
    BY <2>0, AddGraphFacts
  <2> HIDE DEF W
  <2>3. BaseKnown'
    <3>1. SUFFICES ASSUME NEW x \in BelowBase PROVE x \in cbvisit'
      BY <1>2 DEF BaseKnown
    <3>2. RealDeps[Cbuild] \in SUBSET Templates
      BY <2>0, InputType
    <3>3. x \in RealDeps[Cbuild] \/ \E d \in BelowBase : x \in RealDeps[d]
      BY <3>2, InputType, ClosureFrom DEF BelowBase
    <3>4. CASE x \in RealDeps[Cbuild]
      BY <1>1, <2>0, <2>2, <3>4, InputType
    <3>5. ASSUME NEW d \in BelowBase, x \in RealDeps[d] PROVE x \in cbvisit'
      <4>1. d \in W /\ d \in Templates
        BY <2>1, <2>2, <3>5
      <4>2. Readable(d) /\ x \in in.deps[d]
        BY <3>5, <4>1, InputType
      <4>3. QED
        BY <2>2, <4>1, <4>2
    <3>6. QED
      BY <3>3, <3>4, <3>5
  <2>4. RealEdges'
    BY <1>1, <1>2, <2>2 DEF RealEdges
  <2>5. Visited'
    <3>1. \A u, v \in Templates : <<u, v>> \in edges' => v \in pvisit'
      BY <2>2
    <3>2. \A d \in (pvisit' \ rpkgs) \cup {Cbuild} : Readable(d) =>
             \A v \in in.deps[d] : <<d, v>> \in edges'
      BY <2>2
    <3>3. QED
      BY <1>1, <1>2, <2>2, <3>1, <3>2 DEF Visited, Expanded
  <2>6. Parsed'
    BY <1>1 DEF Parsed
  <2>7. QED
    BY <1>1, <1>3, <2>3, <2>4, <2>5, <2>6 DEF GraphInv
<1>6. QED
  BY <1>4, <1>5

\* A template that is read adds its own edges, those of what it is the first
\* to visit, and the implicit one only if base-cbuild does not build upon it.
LEMMA ParseGoodGraph ==
  ASSUME Typed, GraphInv, NEW t \in Templates, ParseGood(t)
  PROVE  GraphInv'
<1>1. /\ pc = "parse" /\ pc' = "parse" /\ UNCHANGED <<in, rpkgs>> /\ ~GivenUp
      /\ t \in rpkgs /\ unread' = unread \ {t} /\ Good(t)
  BY DEF ParseGood, Parsing, Typed
<1>2. /\ (\A d : Readable(d)' = Readable(d)) /\ BelowBase' = BelowBase
  BY <1>1, SameTree
<1>3. With("broken")' = With("broken")
  <2>1. t \in Names
    BY NamesAssumption
  <2>2. Status(t, "parse") \/ lines' = lines
    BY DEF ParseGood
  <2>3. QED
    BY <2>1, <2>2, WithStatus, WithSame
<1>4. BrokenLines' /\ BaseRead'
  BY <1>1, <1>2, <1>3 DEF GraphInv, BrokenLines, BaseRead
<1>5. CASE in.raw
  BY <1>1, <1>4, <1>5 DEF GraphInv, Sorting
<1>6. CASE ~in.raw
  <2>0. pvisit \in SUBSET Templates /\ AddGraph(t, pvisit, Implicit(t)) /\ Sorting
    BY <1>1, <1>6 DEF ParseGood, Typed, Sorting, GraphInv, BaseRead
  <2> DEFINE W == Walk(t, pvisit)
  <2>1. /\ W \subseteq Templates /\ in.deps[t] \ pvisit \subseteq W
        /\ \A d \in W : Readable(d) => in.deps[d] \ pvisit \subseteq W
        /\ pvisit' = pvisit \cup W \cup rpkgs
        /\ \A u, v : <<u, v>> \in edges' <=>
              \/ <<u, v>> \in edges \/ <<u, v>> \in Implicit(t)
              \/ (u = t \/ (u \in W /\ Readable(u))) /\ v \in in.deps[u]
        /\ cbvisit \subseteq cbvisit'
    BY <2>0, AddGraphFacts
  <2>2. \A u, v : <<u, v>> \in Implicit(t) => u = t /\ v = Cbuild /\ t # Cbuild /\ t \notin cbvisit
    BY ImplicitType
  <2>3. BaseKnown /\ RealEdges /\ Visited /\ Parsed /\ Readable(t)
    BY <1>1, <2>0 DEF GraphInv, Good, Readable
  <2> HIDE DEF W
  <2>4. BaseKnown'
    BY <1>2, <2>1, <2>3 DEF BaseKnown
  <2>5. t \notin cbvisit => t \notin BelowBase
    BY <2>3 DEF BaseKnown
  <2>6. RealEdges'
    <3>1. SUFFICES ASSUME NEW u \in Templates, NEW v \in Templates, <<u, v>> \in edges'
                   PROVE  \/ Readable(u) /\ v \in in.deps[u]
                          \/ v = Cbuild /\ u # Cbuild /\ u \notin BelowBase
      BY <1>1, <1>2 DEF RealEdges
    <3>2. CASE <<u, v>> \in edges
      BY <2>3, <3>2 DEF RealEdges
    <3>3. CASE <<u, v>> \in Implicit(t)
      BY <2>2, <2>5, <3>3
    <3>4. CASE (u = t \/ (u \in W /\ Readable(u))) /\ v \in in.deps[u]
      BY <2>3, <3>4
    <3>5. QED
      BY <2>1, <3>1, <3>2, <3>3, <3>4
  <2>7. \A d : Expanded(d) => \A v \in in.deps[d] : <<d, v>> \in edges'
    BY <2>1 DEF Expanded
  <2>8. \A v \in in.deps[t] : <<t, v>> \in edges'
    BY <2>1
  <2>9. Visited'
    <3>1. \A u, v \in Templates : <<u, v>> \in edges' => v \in pvisit' \cup {Cbuild}
      <4>1. SUFFICES ASSUME NEW u \in Templates, NEW v \in Templates, <<u, v>> \in edges'
                     PROVE  v \in pvisit' \cup {Cbuild}
        OBVIOUS
      <4>2. CASE <<u, v>> \in edges
        BY <2>1, <2>3, <4>2 DEF Visited
      <4>3. CASE <<u, v>> \in Implicit(t)
        BY <2>2, <4>3
      <4>4. CASE (u = t \/ (u \in W /\ Readable(u))) /\ v \in in.deps[u]
        BY <2>1, <4>4
      <4>5. QED
        BY <2>1, <4>1, <4>2, <4>3, <4>4
    <3>2. ASSUME NEW d \in (pvisit' \ rpkgs) \cup {Cbuild}, Readable(d), NEW v \in in.deps[d]
          PROVE  <<d, v>> \in edges'
      <4>1. CASE d \in (pvisit \ rpkgs) \cup {Cbuild}
        BY <2>3, <2>7, <3>2, <4>1 DEF Visited
      <4>2. CASE d \in W
        BY <2>1, <3>2, <4>2
      <4>3. QED
        BY <2>1, <3>2, <4>1, <4>2
    <3>3. QED
      BY <1>1, <1>2, <2>1, <3>1, <3>2 DEF Visited, Expanded
  <2>10. Parsed'
    <3>1. ASSUME NEW d \in rpkgs \ unread'
          PROVE  ~Readable(d) \/ d \in With("broken") \/ \A v \in in.deps[d] : <<d, v>> \in edges'
      <4>1. CASE d = t
        BY <2>8, <4>1
      <4>2. CASE d # t
        BY <1>1, <2>3, <2>7, <3>1, <4>2 DEF Parsed, Handled
      <4>3. QED
        BY <4>1, <4>2
    <3>2. \A d \in rpkgs \ unread' : Handled(d)'
      BY <1>1, <1>2, <1>3, <3>1 DEF Handled, Expanded
    <3>3. QED
      BY <1>1, <3>2 DEF Parsed
  <2>11. QED
    BY <1>1, <1>4, <2>4, <2>6, <2>9, <2>10 DEF GraphInv
<1>7. QED
  BY <1>5, <1>6

LEMMA GraphStep == Typed /\ FlagInv /\ GraphInv /\ [Next]_vars => GraphInv'
<1> SUFFICES ASSUME Typed, FlagInv, GraphInv, [Next]_vars PROVE GraphInv'
  OBVIOUS
<1>0. \A t \in Templates : t \in Names
  BY NamesAssumption
<1>1. CASE UNCHANGED vars
  BY <1>1, SameTree, WithSame
  DEF GraphInv, BrokenLines, BaseRead, Sorting, BaseKnown, RealEdges, Visited, Parsed, Handled,
      Expanded, GivenUp, Cyclic, Reach, Closure, Closed, vars, graph
<1>2. CASE Resolve
  <2>1. pc = "resolve" /\ pc' = "resolve" /\ UNCHANGED <<in, graph>>
    BY <1>2 DEF Resolve
  <2>2. With("broken")' = With("broken")
    <3> PICK n : n = Head(todo)
      OBVIOUS
    <3>1. n \in Names /\ (Canon[n] \in Templates \cup Errors)
      BY <1>2, NamesAssumption DEF Resolve, FlagInv, TodoTyped
    <3>2. lines' = lines \/ (\E s \in Errors : Status(n, s))
          \/ (Canon[n] \in Templates /\ Status(Canon[n], "skipped"))
      BY <1>2 DEF Resolve
    <3>3. "broken" \notin Errors /\ "broken" # "skipped"
      BY DEF Errors
    <3>4. QED
      BY <1>0, <3>1, <3>2, <3>3, WithStatus, WithSame
  <2>3. QED
    BY <2>1, <2>2 DEF GraphInv, BrokenLines, BaseRead, Sorting, graph
<1>3. CASE Base
  BY <1>3, BaseGraph
<1>4. CASE NoBase
  BY <1>4, SameTree, WithSame DEF NoBase, GraphInv, BrokenLines, BaseRead, Sorting
<1>5. CASE CycleError
  <2>1. /\ pc = "parse" /\ pc' = "error" /\ UNCHANGED <<in, lines, rpkgs, pvisit, cbvisit, edges>>
        /\ ~in.raw /\ Cyclic
    BY <1>5 DEF CycleError, graph
  <2>2. Cyclic'
    BY <2>1 DEF Cyclic, Reach, Closure, Closed
  <2>3. /\ BrokenLines' /\ BaseRead' /\ BelowBase' = BelowBase
        /\ \A d : Readable(d)' = Readable(d) /\ Expanded(d)' = Expanded(d)
    BY <2>1, SameTree, WithSame DEF GraphInv, BrokenLines, BaseRead, Expanded
  <2>4. Sorting' => Sorting
    BY <2>1, <2>3 DEF Sorting
  <2>5. Sorting => BaseKnown' /\ RealEdges' /\ Visited' /\ Parsed'
    BY <2>1, <2>3 DEF GraphInv, BaseKnown, RealEdges, Visited, Parsed
  <2>6. QED
    BY <2>1, <2>2, <2>3, <2>4, <2>5 DEF GraphInv
<1>6. ASSUME NEW t \in Templates, ParseSkip(t) PROVE GraphInv'
  <2>1. /\ pc = "parse" /\ pc' = "parse" /\ UNCHANGED <<in, graph, rpkgs, failed>> /\ GivenUp
        /\ Status(t, "skipped")
    BY <1>6 DEF ParseSkip, Parsing
  <2>2. With("broken")' = With("broken") /\ GivenUp'
    BY <1>0, <2>1, WithStatus DEF GivenUp
  <2>3. QED
    BY <2>1, <2>2, SameGraph
<1>7. ASSUME NEW t \in Templates, ParseFail(t) PROVE GraphInv'
  <2>1. /\ pc = "parse" /\ pc' = "parse" /\ UNCHANGED <<in, graph, rpkgs>> /\ ~GivenUp
        /\ Status(t, "parse") /\ unread' = unread \ {t} /\ ~Readable(t)
    BY <1>7 DEF ParseFail, Parsing
  <2>2. With("broken")' = With("broken")
    BY <1>0, <2>1, WithStatus
  <2>3. QED
    BY <2>1, <2>2, SameGraph
<1>8. ASSUME NEW t \in Templates, ParseBroken(t) PROVE GraphInv'
  <2>1. /\ pc = "parse" /\ pc' = "parse" /\ UNCHANGED <<in, pvisit, cbvisit, edges, rpkgs>>
        /\ ~GivenUp /\ Status(t, "broken") /\ unread' = unread \ {t} /\ in.health[t] = "broken"
    BY <1>8 DEF ParseBroken, Parsing, graph
  <2>2. With("broken")' = With("broken") \cup {t}
    BY <1>0, <2>1, WithStatus
  <2>3. /\ BrokenLines' /\ BaseRead' /\ BelowBase' = BelowBase
        /\ \A d : Readable(d)' = Readable(d) /\ Expanded(d)' = Expanded(d)
    BY <2>1, <2>2, SameTree DEF GraphInv, BrokenLines, BaseRead, Expanded
  <2>4. Sorting' => Sorting
    BY <2>1, <2>3 DEF Sorting
  <2>5. Sorting => BaseKnown' /\ RealEdges' /\ Visited'
    BY <2>1, <2>3 DEF GraphInv, BaseKnown, RealEdges, Visited
  <2>6. Sorting => \A d \in rpkgs \ unread' : Handled(d)'
    BY <2>1, <2>2, <2>3 DEF GraphInv, Parsed, Handled
  <2>7. QED
    BY <2>1, <2>3, <2>4, <2>5, <2>6 DEF GraphInv, Parsed
<1>9. ASSUME NEW t \in Templates, ParseGood(t) PROVE GraphInv'
  BY <1>9, ParseGoodGraph
<1>10. CASE Order
  <2>1. /\ pc = "parse" /\ pc' = "build" /\ UNCHANGED <<in, graph, rpkgs>> /\ ~GivenUp
        /\ unread = {} /\ lines' = lines \cup ((Listed \ Pending) \X {"done"})
    BY <1>10 DEF Order
  <2>2. With("broken")' = With("broken")
    BY <2>1 DEF With
  <2>3. QED
    BY <2>1, <2>2, SameGraph
<1>11. ASSUME NEW t \in Templates, BuildSkip(t) \/ BuildOk(t) \/ BuildFail(t) PROVE GraphInv'
  <2>1. /\ pc = "build" /\ pc' = "build" /\ UNCHANGED <<in, graph, rpkgs>>
        /\ \E s \in {"skipped", "ok", "failed"} : Status(t, s)
    BY <1>11 DEF BuildSkip, BuildOk, BuildFail, Building
  <2>2. With("broken")' = With("broken")
    BY <1>0, <2>1, WithStatus
  <2>3. QED
    BY <2>1, <2>2, SameGraph
<1>12. CASE End
  <2>1. /\ pc \in {"build", "parse"} /\ pc' \in {"failed", "success"}
        /\ UNCHANGED <<in, graph, rpkgs, lines>>
    BY <1>12 DEF End
  <2>2. With("broken")' = With("broken")
    BY <2>1, WithSame
  <2>3. QED
    BY <2>1, <2>2, SameGraph
<1>13. QED
  BY <1>1, <1>2, <1>3, <1>4, <1>5, <1>6, <1>7, <1>8, <1>9, <1>10, <1>11, <1>12 DEF Next, Ended

LEMMA GraphInit == Init => GraphInv
BY DEF Init, GraphInv, BrokenLines, BaseRead, Sorting, With
-------------------------------------------------------------------------------
\* If the sorter finds a cycle the templates have one: what would close it
\* through base-cbuild would have been below base-cbuild already.
LEMMA RealCycle ==
  ASSUME Typed, GraphInv, Sorting, Cyclic
  PROVE  \E t \in Templates : t \in Closure(RealDeps[t], RealDeps)
<1> DEFINE RR(t) == Closure(RealDeps[t], RealDeps)
<1>0. SUFFICES ASSUME \A t \in Templates : t \notin RR(t) PROVE FALSE
  OBVIOUS
<1>1. PICK t \in Templates : t \in Reach(t)
  BY DEF Cyclic
<1>2. Cbuild \in Templates /\ RealEdges
  BY NamesAssumption DEF GraphInv
<1>3. \A u \in Templates : RealDeps[u] = IF Readable(u) THEN in.deps[u] ELSE {}
  BY InputType
<1>4. ASSUME NEW u \in Templates
      PROVE  RR(u) \subseteq Templates /\ RealDeps[u] \subseteq RR(u)
             /\ \A x \in RR(u) : RealDeps[x] \subseteq RR(u)
  <2>1. RealDeps[u] \in SUBSET Templates /\ RealDeps \in [Templates -> SUBSET Templates]
    BY InputType
  <2>2. Closed(RR(u), RealDeps[u], RealDeps)
    BY <2>1, ClosureClosed
  <2>3. QED
    BY <2>2, ClosureType DEF Closed
<1>5. BelowBase = RR(Cbuild)
  BY DEF BelowBase
<1> HIDE DEF RR
\* An edge is a dependency, or leads from outside BelowBase to base-cbuild.
<1>6. ASSUME NEW u \in Templates, NEW v \in Templates, <<u, v>> \in edges
      PROVE  v \in RealDeps[u] \/ (v = Cbuild /\ u # Cbuild /\ u \notin RR(Cbuild))
  BY <1>2, <1>3, <1>5, <1>6 DEF RealEdges
<1>7. CASE t \in RR(Cbuild) \cup {Cbuild}
  <2>1. RR(t) \subseteq RR(Cbuild)
    <3>1. CASE t = Cbuild
      BY <3>1
    <3>2. CASE t \in RR(Cbuild)
      <4>1. Closed(RR(Cbuild), RealDeps[t], RealDeps)
        BY <1>2, <1>4, <3>2 DEF Closed
      <4>2. QED
        BY <1>2, <1>4, <4>1, ClosureLeast DEF RR
    <3>3. QED
      BY <1>7, <3>1, <3>2
  <2>2. \A v \in Templates : <<t, v>> \in edges => v \in RR(t)
    BY <1>1, <1>4, <1>6, <1>7
  <2>3. \A u \in RR(t), v \in Templates : <<u, v>> \in edges => v \in RR(t)
    BY <1>1, <1>2, <1>4, <1>6, <2>1
  <2>4. Reach(t) \subseteq RR(t)
    BY <1>1, <1>4, <2>2, <2>3, ReachFacts
  <2>5. QED
    BY <1>0, <1>1, <2>4
<1>8. CASE t \notin RR(Cbuild) \cup {Cbuild}
  <2> DEFINE S == RR(t) \cup RR(Cbuild) \cup {Cbuild}
  <2>1. S \in SUBSET Templates
    BY <1>1, <1>2, <1>4
  <2>2. \A v \in Templates : <<t, v>> \in edges => v \in S
    BY <1>1, <1>4, <1>6
  <2>3. \A u \in S, v \in Templates : <<u, v>> \in edges => v \in S
    BY <1>1, <1>2, <1>4, <1>6
  <2>4. Reach(t) \subseteq S
    BY <1>1, <2>1, <2>2, <2>3, ReachFacts
  <2>5. QED
    BY <1>0, <1>1, <1>8, <2>4
<1>9. QED
  BY <1>7, <1>8

\* runner.py:1943: the implicit dependencies on base-cbuild never make a cycle,
\* in any tree: the sorter refuses a graph only when the templates have one.
THEOREM CyclesRealCorrect == Spec => []CyclesReal
<1>1. ASSUME Typed, GraphInv PROVE CyclesReal
  <2>1. SUFFICES ASSUME pc = "error", Readable(Cbuild)
                 PROVE  \E t \in Templates : t \in Closure(RealDeps[t], RealDeps)
    BY DEF CyclesReal, RealDeps
  <2>2. Sorting /\ Cyclic
    BY <1>1, <2>1 DEF GraphInv, Sorting
  <2>3. QED
    BY <1>1, <2>2, RealCycle
<1>2. QED
  BY <1>1, FlagInit, FlagStep, TypedInit, TypedStep, GraphInit, GraphStep, PTL DEF Spec
-------------------------------------------------------------------------------
(***************************************************************************)
(* The order.  Once builds have begun every visited template has its edges *)
(* in the graph, so what a build reaches through dependencies it reaches   *)
(* in the graph too, and the sorter has put none of it after the build.    *)
(***************************************************************************)

OrderInv ==
    (pc = "build" /\ ~in.raw) =>
        /\ ~Cyclic /\ todo \in Seq(recorded)
        /\ \A i, j \in DOMAIN todo : i < j => todo[j] # todo[i] /\ todo[j] \notin Reach(todo[i])
        /\ ~in.force => \A i \in DOMAIN todo : todo[i] \notin repo
        /\ ~in.force => twice = {}
TwiceInv == pc # "build" /\ ~in.raw /\ ~in.force => twice = {}

\* What a template builds upon by its dependencies lies in the graph as well,
\* if they are followed no further than the graph was completed.
LEMMA ReachCovers ==
  ASSUME Typed, GraphInv, Sorting, pc = "build", NEW t \in rpkgs,
         NEW succ \in [Templates -> SUBSET Templates],
         \A d \in Templates : succ[d] # {} =>
            Readable(d) /\ d \notin With("broken") /\ succ[d] \subseteq in.deps[d]
  PROVE  Closure(succ[t], succ) \subseteq Reach(t)
<1>1. t \in Templates /\ t \in pvisit /\ Visited /\ Parsed
  BY DEF Typed, GraphInv, Visited
<1>2. ASSUME NEW d \in (pvisit \cup {Cbuild}) \cap Templates, NEW v \in succ[d]
      PROVE  v \in Templates /\ <<d, v>> \in edges
  <2>1. Readable(d) /\ d \notin With("broken") /\ v \in in.deps[d]
    OBVIOUS
  <2>2. Handled(d)
    BY <1>1 DEF Parsed
  <2>3. QED
    BY <2>1, <2>2 DEF Handled, Expanded
<1>3. Reach(t) \subseteq pvisit \cup {Cbuild} /\ Reach(t) \subseteq Templates
  <2> DEFINE S == (pvisit \cup {Cbuild}) \cap Templates
  <2>1. \A u \in Templates, v \in Templates : <<u, v>> \in edges => v \in S
    BY <1>1 DEF Visited
  <2>2. QED
    BY <1>1, <2>1, ReachFacts
<1>4. succ[t] \subseteq Reach(t)
  BY <1>1, <1>2, ReachFacts
<1>5. \A d \in Reach(t) : succ[d] \subseteq Reach(t)
  BY <1>1, <1>2, <1>3, ReachFacts
<1>6. QED
  BY <1>3, <1>4, <1>5, ClosureLeast DEF Closed

\* What a build of t builds on the way...
LEMMA MissingReached ==
  ASSUME Typed, GraphInv, Sorting, pc = "build", NEW t \in rpkgs
  PROVE  Missing(t) \subseteq Reach(t)
<1> DEFINE Lack(d) == IF Good(d) THEN in.deps[d] \ repo ELSE {}
           succ == [d \in Templates |-> Lack(d)]
<1>1. succ \in [Templates -> SUBSET Templates] /\ t \in Templates
  BY InputType DEF Typed
<1>2. \A d \in Templates : succ[d] = Lack(d)
  OBVIOUS
<1>3. \A d : Good(d) => Readable(d) /\ d \notin With("broken")
  BY DEF GraphInv, BrokenLines, Good, Readable
<1>4. Missing(t) = Closure(succ[t], succ)
  BY <1>1, <1>2 DEF Missing
<1> HIDE DEF succ
<1>5. QED
  BY <1>1, <1>2, <1>3, <1>4, ReachCovers

\* ...and all that can be known of what it builds upon.
LEMMA KnownReached ==
  ASSUME Typed, GraphInv, Sorting, pc = "build", NEW t \in rpkgs
  PROVE  Known(t) \subseteq Reach(t)
<1> DEFINE Deps(d) == IF d \in With("broken") \/ ~Readable(d) THEN {} ELSE in.deps[d]
           succ == [d \in Templates |-> Deps(d)]
<1>1. succ \in [Templates -> SUBSET Templates] /\ t \in Templates
  BY InputType DEF Typed
<1>2. \A d \in Templates : succ[d] = Deps(d)
  OBVIOUS
<1>3. Known(t) = Closure(succ[t], succ)
  BY <1>1, <1>2 DEF Known
<1> HIDE DEF succ
<1>4. QED
  BY <1>1, <1>2, <1>3, ReachCovers

\* Sorted is a sequence, so there are finitely many templates.
LEMMA FiniteTemplates == IsFiniteSet(Templates)
<1>1. Sorted \in [1..Len(Sorted) -> Templates] /\ 1..Len(Sorted) = DOMAIN Sorted /\ Len(Sorted) \in Nat
  BY NamesAssumption
<1>2. Sorted \in Surjection(1..Len(Sorted), Templates)
  BY <1>1 DEF Surjection, Templates, Range
<1>3. IsFiniteSet(1..Len(Sorted))
  BY <1>1, FS_Interval
<1>4. QED
  BY <1>2, <1>3, FS_Surjection

LEMMA OrderStepInv ==
  ASSUME Typed, GraphInv, OrderInv, TwiceInv, [Next]_vars
  PROVE  OrderInv' /\ TwiceInv'
<1>1. CASE UNCHANGED vars
  <2>1. UNCHANGED <<in, pc, todo, recorded, edges, repo, twice>>
    BY <1>1 DEF vars, graph, world
  <2>2. Cyclic' = Cyclic /\ \A t : Reach(t)' = Reach(t)
    BY <2>1 DEF Cyclic, Reach, Closure, Closed
  <2>3. OrderInv'
    BY <2>1, <2>2 DEF OrderInv
  <2>4. TwiceInv'
    BY <2>1 DEF TwiceInv
  <2>5. QED
    BY <2>3, <2>4
<1>2. CASE Order
  <2>1. /\ pc = "parse" /\ pc' = "build" /\ UNCHANGED <<in, graph, recorded, repo, twice>>
        /\ (in.raw \/ ~Cyclic) /\ todo' \in IF in.build THEN Orders(Pending) ELSE {<<>>}
    BY <1>2 DEF Order, world
  <2>2. SUFFICES ASSUME ~in.raw PROVE OrderInv'
    BY <2>1 DEF OrderInv, TwiceInv
  <2>3. ~Cyclic' /\ \A t : Reach(t)' = Reach(t)
    BY <2>1, <2>2 DEF Cyclic, Reach, Closure, Closed, graph
  <2>4. CASE todo' = <<>>
    BY <2>1, <2>2, <2>3, <2>4 DEF OrderInv, TwiceInv
  <2>5. CASE todo' \in Orders(Pending)
    <3>1. Pending \subseteq recorded /\ (~in.force => Pending \cap repo = {})
      BY <2>2 DEF Pending, Listed
    <3>2. /\ todo' \in Bijection(1..Cardinality(Pending), Pending)
          /\ \A i, j \in DOMAIN todo' : i < j => todo'[j] \notin Reach(todo'[i])
      BY <2>2, <2>5 DEF Orders
    <3>3. /\ todo' \in [1..Cardinality(Pending) -> Pending]
          /\ \A i, j \in DOMAIN todo' : todo'[i] = todo'[j] => i = j
      BY <3>2 DEF Bijection, Injection, IsInjective
    <3>4. Cardinality(Pending) \in Nat
      <4>1. IsFiniteSet(Pending)
        BY <3>1, FiniteTemplates, FS_Subset DEF Typed
      <4>2. QED
        BY <4>1, FS_CardinalityType
    <3>5. todo' \in Seq(Pending)
      BY <3>3, <3>4
    <3>6. todo' \in Seq(recorded)
      BY <3>1, <3>3, <3>4
    <3>7. \A i, j \in DOMAIN todo' : i < j => todo'[j] # todo'[i]
      BY <3>3, <3>4
    <3>8. ~in.force => \A i \in DOMAIN todo' : todo'[i] \notin repo
      BY <3>1, <3>3
    <3>9. QED
      BY <2>1, <2>2, <2>3, <3>2, <3>6, <3>7, <3>8 DEF OrderInv, TwiceInv
  <2>6. QED
    BY <2>1, <2>4, <2>5
<1>3. ASSUME NEW t \in Templates, BuildSkip(t) \/ BuildOk(t) \/ BuildFail(t)
      PROVE  OrderInv' /\ TwiceInv'
  <2>1. /\ pc = "build" /\ pc' = "build" /\ UNCHANGED <<in, graph, recorded>>
        /\ todo # <<>> /\ t = Head(todo) /\ todo' = Tail(todo)
    BY <1>3 DEF BuildSkip, BuildOk, BuildFail, Building
  <2>2. SUFFICES ASSUME ~in.raw PROVE OrderInv'
    BY <2>1 DEF OrderInv, TwiceInv
  <2>3. ~Cyclic' /\ \A u : Reach(u)' = Reach(u)
    BY <2>1, <2>2 DEF OrderInv, Cyclic, Reach, Closure, Closed, graph
  <2>4. /\ ~Cyclic /\ todo \in Seq(recorded)
        /\ \A i, j \in DOMAIN todo : i < j => todo[j] # todo[i] /\ todo[j] \notin Reach(todo[i])
        /\ ~in.force => (\A i \in DOMAIN todo : todo[i] \notin repo) /\ twice = {}
    BY <2>1, <2>2 DEF OrderInv
  <2>5. /\ todo' \in Seq(recorded) /\ t = todo[1] /\ 1 \in DOMAIN todo
        /\ \A i \in DOMAIN todo' : i + 1 \in DOMAIN todo /\ todo'[i] = todo[i + 1] /\ 1 < i + 1
    BY <2>1, <2>4
  <2>6. \A i, j \in DOMAIN todo' :
           i < j => todo'[j] # todo'[i] /\ todo'[j] \notin Reach(todo'[i])
    BY <2>4, <2>5
  <2>7. Missing(t) \subseteq Reach(t)
    <3>1. t \in rpkgs
      BY <2>4, <2>5 DEF Typed
    <3>2. Sorting
      BY <2>1, <2>2 DEF Sorting, GraphInv, BaseRead
    <3>3. QED
      BY <2>1, <3>1, <3>2, MissingReached
  <2>8. repo' \subseteq repo \cup Missing(t) \cup {t}
    <3>1. CASE BuildSkip(t)
      BY <3>1 DEF BuildSkip, world
    <3>2. CASE BuildOk(t)
      BY <3>2 DEF BuildOk
    <3>3. CASE BuildFail(t)
      BY <3>3 DEF BuildFail
    <3>4. QED
      BY <1>3, <3>1, <3>2, <3>3
  <2>9. ~in.force => \A i \in DOMAIN todo' : todo'[i] \notin repo'
    BY <2>4, <2>5, <2>7, <2>8
  <2>10. ~in.force => twice' = {}
    <3>1. ~in.force => t \notin repo /\ twice = {}
      BY <2>4, <2>5
    <3>2. twice' \in {twice, twice \cup ({t} \cap repo)}
      BY <1>3 DEF BuildSkip, BuildOk, BuildFail, world
    <3>3. QED
      BY <3>1, <3>2
  <2>11. QED
    BY <2>1, <2>2, <2>3, <2>5, <2>6, <2>9, <2>10 DEF OrderInv
<1>4. CASE End
  BY <1>4 DEF End, OrderInv, TwiceInv, world
<1>5. ASSUME pc # "build", pc' # "build", UNCHANGED <<in, twice>> PROVE OrderInv' /\ TwiceInv'
  BY <1>5 DEF OrderInv, TwiceInv
<1>6. CASE Resolve \/ Base \/ NoBase \/ CycleError
  BY <1>5, <1>6 DEF Resolve, Base, NoBase, CycleError, world
<1>7. ASSUME NEW t \in Templates, ParseSkip(t) \/ ParseFail(t) \/ ParseBroken(t) \/ ParseGood(t)
      PROVE  OrderInv' /\ TwiceInv'
  BY <1>5, <1>7 DEF ParseSkip, ParseFail, ParseBroken, ParseGood, Parsing, world
<1>8. QED
  BY <1>1, <1>2, <1>3, <1>4, <1>6, <1>7 DEF Next, Ended

\* The invariant of the graph and of the order together.
LEMMA OrderInvariant == Spec => [](Typed /\ GraphInv /\ OrderInv /\ TwiceInv)
<1>1. Init => OrderInv /\ TwiceInv
  BY DEF Init, OrderInv, TwiceInv
<1>2. Typed /\ GraphInv /\ OrderInv /\ TwiceInv /\ [Next]_vars => OrderInv' /\ TwiceInv'
  BY OrderStepInv
<1>3. QED
  BY <1>1, <1>2, FlagInit, FlagStep, TypedInit, TypedStep, GraphInit, GraphStep, PTL DEF Spec

\* runner.py:1143, 1938-1964: in sorted mode nothing requested is built before
\* what it builds upon, through whatever unrequested templates, in any tree.
THEOREM BuildOrderCorrect == Spec => []BuildOrder
<1>1. ASSUME Typed, GraphInv, OrderInv PROVE BuildOrder
  <2>1. SUFFICES ASSUME pc = "build", ~in.raw, todo # <<>>, NEW k \in DOMAIN todo
                 PROVE  todo[k] \notin Known(Head(todo))
    BY DEF BuildOrder
  <2>2. /\ ~Cyclic /\ todo \in Seq(recorded)
        /\ \A i, j \in DOMAIN todo : i < j => todo[j] \notin Reach(todo[i])
    BY <1>1, <2>1 DEF OrderInv
  <2>3. Head(todo) = todo[1] /\ 1 \in DOMAIN todo /\ k \in Nat /\ k >= 1 /\ todo[1] \in recorded
    BY <2>1, <2>2
  <2>4. todo[1] \in rpkgs /\ todo[1] \in Templates /\ Sorting
    BY <1>1, <2>1, <2>3 DEF Typed, Sorting, GraphInv, BaseRead
  <2>5. Known(todo[1]) \subseteq Reach(todo[1])
    BY <1>1, <2>1, <2>4, KnownReached
  <2>6. todo[k] \notin Reach(todo[1])
    BY <2>2, <2>3, <2>4 DEF Cyclic
  <2>7. QED
    BY <2>3, <2>5, <2>6
<1>2. QED
  BY <1>1, OrderInvariant, PTL

\* runner.py:2064-2068: so asking is_built once is enough: no build finds its
\* package built on the way of an earlier one.
THEOREM NothingTwiceCorrect == Spec => []NothingTwice
<1>1. OrderInv /\ TwiceInv => NothingTwice
  BY DEF OrderInv, TwiceInv, NothingTwice
<1>2. QED
  BY <1>1, OrderInvariant, PTL
-------------------------------------------------------------------------------
(***************************************************************************)
(* The status lines.  Every template asked for is followed through the     *)
(* loops of the command: it has no line while it goes on to the next loop, *)
(* and one line from when it leaves them.  A command that gives up while   *)
(* it resolves or reads does not come to build.                            *)
(***************************************************************************)

Unwritten(t) == \A s \in Statuses : <<t, s>> \notin lines
Written(t) == OneLine(t, Statuses \ Errors)

ResolveLines == pc = "resolve" /\ ~GivenUp =>
    /\ Asked \subseteq rpkgs \cup {Canon[n] : n \in Range(todo)}
    /\ \A t \in Templates \ Errors : Unwritten(t)
ParseLines == pc = "parse" /\ ~GivenUp =>
    /\ Asked \subseteq rpkgs /\ recorded \cap unread = {}
    /\ \A t \in rpkgs \ Errors : IF t \in unread \cup recorded THEN Unwritten(t) ELSE Written(t)
BuildLines == pc = "build" /\ in.build /\ ~in.raw =>
    /\ Asked \subseteq rpkgs
    /\ \A t \in rpkgs \ Errors : IF t \in Range(todo) THEN Unwritten(t) ELSE Written(t)
NoneRecorded == pc = "resolve" => recorded = {}
Claimed == With("ok") \cup With("done")
ClaimedBuilt == IF pc \in {"resolve", "parse"} THEN Claimed = {} ELSE Claimed \subseteq repo
StatusInv == ResolveLines /\ ParseLines /\ BuildLines /\ NoneRecorded /\ ClaimedBuilt

\* The members of a list are its head and those of its tail.
LEMMA HeadTail ==
  ASSUME NEW S, NEW q \in Seq(S), q # <<>>
  PROVE  Range(q) = {Head(q)} \cup Range(Tail(q))
<1>1. /\ Head(q) = q[1] /\ 1 \in DOMAIN q
      /\ \A i \in DOMAIN q : i = 1 \/ (i - 1 \in DOMAIN Tail(q) /\ Tail(q)[i - 1] = q[i])
      /\ \A i \in DOMAIN Tail(q) : i + 1 \in DOMAIN q /\ Tail(q)[i] = q[i + 1]
  OBVIOUS
<1>2. ASSUME NEW x \in Range(q) PROVE x = Head(q) \/ x \in Range(Tail(q))
  <2>1. PICK i \in DOMAIN q : x = q[i]
    BY DEF Range
  <2>2. CASE i = 1
    BY <1>1, <2>1, <2>2
  <2>3. CASE i # 1
    BY <1>1, <2>1, <2>3 DEF Range
  <2>4. QED
    BY <2>2, <2>3
<1>3. Head(q) \in Range(q)
  BY <1>1 DEF Range
<1>4. ASSUME NEW x \in Range(Tail(q)) PROVE x \in Range(q)
  <2>1. PICK i \in DOMAIN Tail(q) : x = Tail(q)[i]
    BY DEF Range
  <2>2. QED
    BY <1>1, <2>1 DEF Range
<1>5. QED
  BY <1>2, <1>3, <1>4

LEMMA EmptyRange == ASSUME NEW q, q = <<>> PROVE Range(q) = {}
BY DEF Range

\* In a list without repetition the head is not met again.
LEMMA HeadOnce ==
  ASSUME NEW S, NEW q \in Seq(S), q # <<>>, \A i, j \in DOMAIN q : i < j => q[j] # q[i]
  PROVE  Head(q) \notin Range(Tail(q))
<1>1. SUFFICES ASSUME NEW i \in DOMAIN Tail(q), Tail(q)[i] = Head(q) PROVE FALSE
  BY DEF Range
<1>2. Head(q) = q[1] /\ 1 \in DOMAIN q /\ i + 1 \in DOMAIN q /\ Tail(q)[i] = q[i + 1] /\ 1 < i + 1
  OBVIOUS
<1>3. QED
  BY <1>1, <1>2

\* Lines of other names do not count; the first line of a template is its only one.
LEMMA OtherLines ==
  ASSUME NEW t, \A s \in Statuses : <<t, s>> \in lines' <=> <<t, s>> \in lines
  PROVE  Unwritten(t)' = Unwritten(t) /\ Written(t)' = Written(t)
BY DEF Unwritten, Written, OneLine

LEMMA FirstLine ==
  ASSUME NEW t, NEW s \in Statuses \ Errors, Unwritten(t), Status(t, s)
  PROVE  Written(t)'
<1>1. \A r \in Statuses : <<t, r>> \in lines' <=> r = s
  BY DEF Unwritten, Status
<1>2. QED
  BY <1>1 DEF Written, OneLine

\* A template is read: it leaves with its line, or it is recorded.
LEMMA ReadLines ==
  ASSUME Typed, StatusInv, NEW t \in Templates, pc = "parse", pc' = "parse", ~GivenUp, t \in unread,
         UNCHANGED <<in, rpkgs>>, unread' = unread \ {t},
         \/ recorded' = recorded /\ \E s \in {"parse", "broken"} : Status(t, s)
         \/ recorded' = recorded \cup {t} /\ lines' = lines
  PROVE  ParseLines'
<1>1. /\ Asked \subseteq rpkgs /\ recorded \cap unread = {}
      /\ \A u \in rpkgs \ Errors : IF u \in unread \cup recorded THEN Unwritten(u) ELSE Written(u)
  BY DEF StatusInv, ParseLines
<1>2. Asked' = Asked /\ recorded' \cap unread' = {}
  BY <1>1 DEF Asked
<1>3. SUFFICES ASSUME NEW u \in rpkgs \ Errors
               PROVE  IF u \in unread' \cup recorded' THEN Unwritten(u)' ELSE Written(u)'
  BY <1>1, <1>2 DEF ParseLines
<1>4. CASE u # t
  <2>1. \A s \in Statuses : <<u, s>> \in lines' <=> <<u, s>> \in lines
    BY <1>4 DEF Status
  <2>2. QED
    BY <1>1, <1>4, <2>1, OtherLines
<1>5. CASE u = t /\ recorded' = recorded /\ \E s \in {"parse", "broken"} : Status(t, s)
  <2>1. PICK s \in {"parse", "broken"} : Status(t, s)
    BY <1>5
  <2>2. s \in Statuses \ Errors
    BY <2>1 DEF Statuses, Errors
  <2>3. Unwritten(t) /\ t \notin unread' \cup recorded'
    BY <1>1, <1>3, <1>5
  <2>4. QED
    BY <1>5, <2>1, <2>2, <2>3, FirstLine
<1>6. CASE u = t /\ recorded' = recorded \cup {t} /\ lines' = lines
  BY <1>1, <1>3, <1>6, OtherLines
<1>7. QED
  BY <1>4, <1>5, <1>6

LEMMA StatusStep ==
  ASSUME Typed, FlagInv, OrderInv, StatusInv, [Next]_vars
  PROVE  StatusInv'
<1>0. \A t \in Templates : t \in Names
  BY NamesAssumption
<1>1. CASE UNCHANGED vars
  <2>1. UNCHANGED <<in, pc, todo, unread, rpkgs, failed, lines, recorded, repo>>
    BY <1>1 DEF vars, world
  <2>2. (\A s : With(s)' = With(s)) /\ GivenUp' = GivenUp /\ Asked' = Asked
    BY <2>1, WithSame DEF GivenUp, Asked
  <2>3. \A t : Unwritten(t)' = Unwritten(t) /\ Written(t)' = Written(t)
    BY <2>1, OtherLines
  <2>4. ResolveLines' /\ ParseLines' /\ BuildLines'
    BY <2>1, <2>2, <2>3 DEF StatusInv, ResolveLines, ParseLines, BuildLines
  <2>5. QED
    BY <2>1, <2>2, <2>4 DEF StatusInv, NoneRecorded, ClaimedBuilt, Claimed
<1>2. CASE Resolve
  <2> PICK n : n = Head(todo)
    OBVIOUS
  <2>1. /\ pc = "resolve" /\ pc' = "resolve" /\ UNCHANGED <<in, recorded>> /\ todo' = Tail(todo)
        /\ todo # <<>> /\ todo \in Seq(Names) /\ n \in Names
        /\ Canon[n] \in Templates \cup Errors
    BY <1>2, NamesAssumption DEF Resolve, FlagInv, TodoTyped
  <2>2. \/ Canon[n] \in Errors /\ Status(n, Canon[n]) /\ rpkgs' = rpkgs /\ failed' = TRUE
        \/ Canon[n] \in rpkgs /\ UNCHANGED <<rpkgs, lines, failed>>
        \/ GivenUp /\ Status(Canon[n], "skipped") /\ UNCHANGED <<rpkgs, failed>>
        \/ rpkgs' = rpkgs \cup {Canon[n]} /\ UNCHANGED <<lines, failed>>
    BY <1>2 DEF Resolve
  <2>3. ResolveLines'
    <3> SUFFICES ASSUME ~GivenUp'
                 PROVE  /\ Asked \subseteq rpkgs' \cup {Canon[m] : m \in Range(todo')}
                        /\ \A t \in Templates \ Errors : Unwritten(t)'
      BY <2>1 DEF ResolveLines, Asked
    <3>1. ~GivenUp
      BY <2>1, <2>2 DEF GivenUp
    <3>2. /\ Asked \subseteq rpkgs \cup {Canon[m] : m \in Range(todo)}
          /\ \A t \in Templates \ Errors : Unwritten(t)
      BY <2>1, <3>1 DEF StatusInv, ResolveLines
    <3>3. Range(todo) = {n} \cup Range(todo')
      BY <2>1, HeadTail
    <3>4. Canon[n] \in rpkgs' \cup Errors
      BY <2>2, <3>1
    <3>5. Asked \cap Errors = {} /\ rpkgs \subseteq rpkgs'
      BY <2>2 DEF Asked
    <3>6. Asked \subseteq rpkgs' \cup {Canon[m] : m \in Range(todo')}
      BY <3>2, <3>3, <3>4, <3>5
    <3>7. ASSUME NEW t \in Templates \ Errors PROVE Unwritten(t)'
      <4>1. \A s \in Statuses : <<t, s>> \in lines' <=> <<t, s>> \in lines
        <5>1. Canon[t] = t
          BY <3>7, NamesAssumption
        <5>2. CASE Canon[n] \in Errors /\ Status(n, Canon[n])
          <6>1. n # t
            BY <3>7, <5>1, <5>2
          <6>2. QED
            BY <5>2, <6>1 DEF Status
        <5>3. CASE lines' = lines
          BY <5>3
        <5>4. QED
          BY <2>2, <3>1, <5>2, <5>3
      <4>2. QED
        BY <3>2, <3>7, <4>1, OtherLines
    <3>8. QED
      BY <3>6, <3>7
  <2>4. Claimed' = Claimed
    <3>1. {"ok", "done"} \cap {"skipped", "missing", "invalid"} = {}
      OBVIOUS
    <3>2. \A s \in {"ok", "done"} : With(s)' = With(s)
      <4>1. CASE lines' = lines
        BY <4>1, WithSame
      <4>2. CASE Canon[n] \in Errors /\ Status(n, Canon[n])
        BY <2>1, <3>1, <4>2, WithStatus DEF Errors
      <4>3. CASE Status(Canon[n], "skipped")
        BY <3>1, <4>3 DEF With, Status
      <4>4. QED
        BY <2>2, <4>1, <4>2, <4>3
    <3>3. QED
      BY <3>2 DEF Claimed
  <2>5. QED
    BY <2>1, <2>3, <2>4 DEF StatusInv, ParseLines, BuildLines, NoneRecorded, ClaimedBuilt
<1>3. CASE Base
  <2>1. /\ pc = "resolve" /\ pc' = "parse" /\ todo = <<>> /\ unread' = rpkgs
        /\ UNCHANGED <<in, rpkgs, lines, recorded>> /\ (failed => failed')
    BY <1>3 DEF Base
  <2>2. Claimed' = Claimed /\ Asked' = Asked /\ Range(todo) = {} /\ (GivenUp => GivenUp')
    BY <2>1, WithSame, EmptyRange DEF Claimed, Asked, GivenUp
  <2>3. \A t : Unwritten(t)' = Unwritten(t)
    BY <2>1, OtherLines
  <2>4. ParseLines'
    <3> SUFFICES ASSUME ~GivenUp' PROVE ParseLines'
      BY DEF ParseLines
    <3>1. Asked \subseteq rpkgs /\ \A t \in Templates \ Errors : Unwritten(t)
      BY <2>1, <2>2 DEF StatusInv, ResolveLines
    <3>2. recorded = {} /\ rpkgs \subseteq Templates
      BY <2>1 DEF StatusInv, NoneRecorded, Typed
    <3>3. QED
      BY <2>1, <2>2, <2>3, <3>1, <3>2 DEF ParseLines
  <2>5. QED
    BY <2>1, <2>2, <2>4 DEF StatusInv, ResolveLines, BuildLines, NoneRecorded, ClaimedBuilt
<1>4. ASSUME pc' \in {"error", "failed", "success"}, UNCHANGED <<lines, repo>>, pc = "build" \/ Claimed = {}
      PROVE  StatusInv'
  <2>1. Claimed' = Claimed
    BY <1>4, WithSame DEF Claimed
  <2>2. QED
    BY <1>4, <2>1 DEF StatusInv, ResolveLines, ParseLines, BuildLines, NoneRecorded, ClaimedBuilt
<1>5. CASE NoBase \/ CycleError \/ End
  BY <1>4, <1>5 DEF NoBase, CycleError, End, world, StatusInv, ClaimedBuilt
<1>6. ASSUME NEW t \in Templates, ParseSkip(t) \/ ParseFail(t) \/ ParseBroken(t) \/ ParseGood(t)
      PROVE  StatusInv'
  <2>1. /\ pc = "parse" /\ pc' = "parse" /\ UNCHANGED <<in, rpkgs>> /\ unread' = unread \ {t} /\ t \in unread
    BY <1>6 DEF ParseSkip, ParseFail, ParseBroken, ParseGood, Parsing
  <2>2. Claimed' = Claimed
    <3>1. lines' = lines \/ \E s \in {"skipped", "parse", "broken"} : Status(t, s)
      BY <1>6 DEF ParseSkip, ParseFail, ParseBroken, ParseGood
    <3>2. \A s \in {"ok", "done"} : With(s)' = With(s)
      BY <1>0, <3>1, WithStatus, WithSame
    <3>3. QED
      BY <3>2 DEF Claimed
  <2>3. ParseLines'
    <3>1. CASE ParseSkip(t)
      <4>1. GivenUp'
        BY <3>1 DEF ParseSkip, GivenUp
      <4>2. QED
        BY <4>1 DEF ParseLines
    <3>2. CASE ~ParseSkip(t)
      <4>1. /\ ~GivenUp
            /\ \/ recorded' = recorded /\ \E s \in {"parse", "broken"} : Status(t, s)
               \/ recorded' = recorded \cup {t} /\ lines' = lines
        BY <1>6, <3>2 DEF ParseFail, ParseBroken, ParseGood
      <4>2. QED
        BY <2>1, <4>1, ReadLines
    <3>3. QED
      BY <3>1, <3>2
  <2>4. QED
    BY <2>1, <2>2, <2>3 DEF StatusInv, ResolveLines, BuildLines, NoneRecorded, ClaimedBuilt
<1>7. CASE Order
  <2>1. /\ pc = "parse" /\ pc' = "build" /\ unread = {} /\ ~GivenUp
        /\ UNCHANGED <<in, unread, rpkgs, recorded, repo>>
        /\ lines' = lines \cup ((Listed \ Pending) \X {"done"})
        /\ todo' \in IF in.build THEN Orders(Pending) ELSE {<<>>}
    BY <1>7 DEF Order, world
  <2>2. ClaimedBuilt'
    <3>1. With("ok")' = With("ok") /\ With("done")' \subseteq With("done") \cup (Listed \ Pending)
      BY <2>1 DEF With
    <3>2. Listed \ Pending \subseteq repo
      BY DEF Pending
    <3>3. QED
      BY <2>1, <3>1, <3>2 DEF StatusInv, ClaimedBuilt, Claimed
  <2>3. BuildLines'
    <3> SUFFICES ASSUME in.build, ~in.raw
                 PROVE  /\ Asked \subseteq rpkgs
                        /\ \A t \in rpkgs \ Errors :
                              IF t \in Range(todo') THEN Unwritten(t)' ELSE Written(t)'
      BY <2>1 DEF BuildLines, Asked
    <3>1. /\ Asked \subseteq rpkgs
          /\ \A t \in rpkgs \ Errors : IF t \in recorded THEN Unwritten(t) ELSE Written(t)
      BY <2>1 DEF StatusInv, ParseLines
    <3>2. Range(todo') = Pending
      <4>1. todo' \in Bijection(1..Cardinality(Pending), Pending)
        BY <2>1 DEF Orders
      <4>2. /\ todo' \in [1..Cardinality(Pending) -> Pending]
            /\ \A t \in Pending : \E i \in 1..Cardinality(Pending) : todo'[i] = t
        BY <4>1 DEF Bijection, Injection, Surjection
      <4>3. QED
        BY <4>2 DEF Range
    <3>3. Listed = recorded /\ Pending \subseteq recorded
      BY DEF Listed, Pending
    <3>4. ASSUME NEW t \in rpkgs \ Errors
          PROVE  IF t \in Range(todo') THEN Unwritten(t)' ELSE Written(t)'
      <4>1. CASE t \in recorded \ Pending
        <5>1. Unwritten(t) /\ <<t, "done">> \in lines'
          BY <2>1, <3>1, <3>3, <3>4, <4>1
        <5>2. \A r \in Statuses : <<t, r>> \in lines' <=> r = "done"
          BY <2>1, <5>1 DEF Unwritten
        <5>3. "done" \in Statuses \ Errors
          BY DEF Statuses, Errors
        <5>4. QED
          BY <3>2, <4>1, <5>2, <5>3 DEF Written, OneLine
      <4>2. CASE t \notin recorded \ Pending
        <5>1. \A s \in Statuses : <<t, s>> \in lines' <=> <<t, s>> \in lines
          BY <2>1, <3>3, <4>2
        <5>2. QED
          BY <3>1, <3>2, <3>3, <3>4, <4>2, <5>1, OtherLines
      <4>3. QED
        BY <4>1, <4>2
    <3>5. QED
      BY <3>1, <3>4
  <2>4. QED
    BY <2>1, <2>2, <2>3 DEF StatusInv, ResolveLines, ParseLines, NoneRecorded
<1>8. ASSUME NEW t \in Templates, BuildSkip(t) \/ BuildOk(t) \/ BuildFail(t) PROVE StatusInv'
  <2>1. /\ pc = "build" /\ pc' = "build" /\ UNCHANGED <<in, unread, rpkgs, recorded>>
        /\ todo # <<>> /\ t = Head(todo) /\ todo' = Tail(todo) /\ repo \subseteq repo'
    BY <1>8 DEF BuildSkip, BuildOk, BuildFail, Building, world
  <2>2. PICK s \in {"skipped", "ok", "failed"} : Status(t, s) /\ (s = "ok" => t \in repo')
    BY <1>8 DEF BuildSkip, BuildOk, BuildFail
  <2>3. ClaimedBuilt'
    <3>1. \A r \in {"ok", "done"} : With(r)' \subseteq With(r) \cup (IF r = s THEN {t} ELSE {})
      BY <2>2 DEF With, Status
    <3>2. s # "done"
      BY <2>2
    <3>3. QED
      BY <2>1, <2>2, <3>1, <3>2 DEF StatusInv, ClaimedBuilt, Claimed
  <2>4. BuildLines'
    <3> SUFFICES ASSUME in.build, ~in.raw, NEW u \in rpkgs \ Errors
                 PROVE  IF u \in Range(todo') THEN Unwritten(u)' ELSE Written(u)'
      BY <2>1 DEF StatusInv, BuildLines, Asked
    <3>1. /\ Range(todo) = {t} \cup Range(todo') /\ t \notin Range(todo')
      BY <2>1, HeadTail, HeadOnce DEF OrderInv
    <3>2. IF u \in Range(todo) THEN Unwritten(u) ELSE Written(u)
      BY <2>1 DEF StatusInv, BuildLines
    <3>3. CASE u = t
      <4>1. s \in Statuses \ Errors
        BY <2>2 DEF Statuses, Errors
      <4>2. QED
        BY <2>2, <3>1, <3>2, <3>3, <4>1, FirstLine
    <3>4. CASE u # t
      <4>1. \A r \in Statuses : <<u, r>> \in lines' <=> <<u, r>> \in lines
        BY <2>2, <3>4 DEF Status
      <4>2. QED
        BY <3>1, <3>2, <3>4, <4>1, OtherLines
    <3>5. QED
      BY <3>3, <3>4
  <2>5. QED
    BY <2>1, <2>3, <2>4 DEF StatusInv, ResolveLines, ParseLines, NoneRecorded
<1>9. QED
  BY <1>1, <1>2, <1>3, <1>5, <1>6, <1>7, <1>8 DEF Next, Ended

LEMMA StatusInit == Init => StatusInv
<1> SUFFICES ASSUME Init PROVE StatusInv
  OBVIOUS
<1>1. pc = "resolve" /\ todo = in.args /\ lines = {} /\ recorded = {}
  BY DEF Init
<1>2. Claimed = {} /\ \A t : Unwritten(t)
  BY <1>1 DEF Claimed, With, Unwritten
<1>3. QED
  BY <1>1, <1>2
  DEF StatusInv, ResolveLines, ParseLines, BuildLines, NoneRecorded, ClaimedBuilt, Asked

\* Usage.md:502-519, runner.py:2027-2122, 2175-2190: a bulk build in sorted mode
\* that has got to building gives each template asked for exactly one status,
\* calls none built that is not, and asks for what is missing again.
THEOREM FinalStatusCorrect == Spec => []FinalStatus
<1>1. ASSUME Typed, StatusInv PROVE FinalStatus
  <2>1. SUFFICES ASSUME pc = "build", todo = <<>>, in.build, ~in.raw, NEW t \in Asked
                 PROVE  /\ Written(t)
                        /\ t \in Claimed => t \in repo
                        /\ t \in repo \cup Again \cup With("broken")
    BY DEF FinalStatus, Written, Claimed
  <2>2. t \in rpkgs \ Errors /\ Range(todo) = {} /\ Claimed \subseteq repo
    BY <1>1, <2>1, EmptyRange DEF StatusInv, BuildLines, ClaimedBuilt, Asked
  <2>3. Written(t)
    BY <1>1, <2>1, <2>2 DEF StatusInv, BuildLines
  <2>4. PICK s \in Statuses \ Errors : <<t, s>> \in lines
    BY <2>3 DEF Written, OneLine
  <2>5. t \in Names
    BY <1>1, <2>2, NamesAssumption DEF Typed
  <2>6. t \in With(s)
    BY <2>4, <2>5 DEF With
  <2>7. CASE s \in {"ok", "broken"}
    <3>1. s = "ok" => t \in repo
      BY <2>2, <2>6 DEF Claimed
    <3>2. s = "broken" => t \in With("broken")
      BY <2>6
    <3>3. QED
      BY <2>2, <2>3, <2>7, <3>1, <3>2
  <2>8. CASE s \notin {"ok", "broken"}
    <3>1. s \in Statuses \ {"broken", "ok", "invalid", "missing"}
      BY <2>8 DEF Errors
    <3>2. t \in Again
      BY <2>4, <2>5, <3>1, Zenon DEF Again
    <3>3. QED
      BY <2>2, <2>3, <3>2
  <2>9. QED
    BY <2>2, <2>3, <2>7, <2>8
<1>2. Typed /\ FlagInv /\ OrderInv /\ StatusInv /\ [Next]_vars => StatusInv'
  BY StatusStep
<1>3. Spec => []FlagInv
  BY FlagInit, FlagStep, PTL DEF Spec
<1>4. QED
  BY <1>1, <1>2, <1>3, StatusInit, OrderInvariant, PTL DEF Spec
===============================================================================
