------------------------------- MODULE BulkBuild -------------------------------
(***************************************************************************)
(* runner.py, _bulkpkg: bulk-pkg, bulk-print and bulk-raw.                 *)
(*                                                                         *)
(* A bulk command resolves the names it was given, reads their templates,  *)
(* orders them by a graph of build dependencies that it completes with the *)
(* templates in between, and builds what is not built.  It may be told to  *)
(* go on after a failure.  Names, templates and versions are model values; *)
(* the recursion of _add_deps_graph is a closure over what is unvisited.   *)
(***************************************************************************)
EXTENDS Naturals, Sequences, SequencesExt, FiniteSets

CONSTANTS Sorted,    \* the templates, as a sequence in the order of their names
          Cbuild,    \* main/base-cbuild
          Canon,     \* Canon[n]: what sanitize_pkgname makes of the name n
          Inputs     \* the command lines and trees to consider

Templates == Range(Sorted)
Names == DOMAIN Canon
Errors == {"missing", "invalid"}

Graphs == [Templates -> SUBSET Templates]
CommandLines == [deps : Graphs,
                 health : [Templates -> {"good", "broken", "unparseable"}],
                 args : Seq(Names), built : SUBSET Templates,
                 raw : BOOLEAN, build : BOOLEAN, cont : BOOLEAN, force : BOOLEAN]

ASSUME NamesAssumption ==
    /\ Sorted \in Seq(Templates) /\ IsInjective(Sorted) /\ Cbuild \in Templates
    /\ \A n \in Names : Canon[n] \in Templates \cup Errors
    /\ \A t \in Templates : t \in Names /\ Canon[t] = t
ASSUME InputsAssumption ==
    \A i \in Inputs : /\ i.deps \in Graphs /\ i.built \subseteq Templates
                      /\ i.args \in Seq(Names)
                      /\ {i.raw, i.build, i.cont, i.force} \subseteq BOOLEAN

VARIABLES
    in,       \* the command line and the tree: fixed
    pc,       \* "resolve", "parse", "order", "build" or how the command ended
    todo,     \* names to resolve, or templates to build, in order
    unread,   \* resolved templates that are still to be parsed
    rpkgs,    \* the resolved templates
    failed,   \* as in the code
    lines,    \* the status lines written: pairs of a name and a status
    pvisit, cbvisit, edges,   \* visited templates, depg as a set of pairs
    recorded, \* the keys of `templates`
    repo,     \* templates whose current version is in the repositories
    twice     \* auxiliary: built while already there

graph == <<pvisit, cbvisit, edges>>
world == <<repo, twice>>
vars == <<in, pc, todo, unread, rpkgs, failed, lines, graph, recorded, world>>

Init == /\ in \in Inputs
        /\ pc = "resolve" /\ todo = in.args /\ unread = {} /\ rpkgs = {} /\ failed = FALSE /\ lines = {}
        /\ pvisit = {} /\ cbvisit = {} /\ edges = {} /\ recorded = {}
        /\ repo = in.built /\ twice = {}

Good(t) == in.health[t] = "good"
Readable(t) == in.health[t] # "unparseable"
Status(n, s) == lines' = lines \cup {<<n, s>>}

\* What can be reached from start in any number of steps of succ: the least
\* set that holds start and what succ leads to from its members.
Closed(S, start, succ) == start \subseteq S /\ \A t \in S : succ[t] \subseteq S
Closure(start, succ) ==
    LET closed == {S \in SUBSET Templates : Closed(S, start, succ)}
    IN {t \in Templates : \A S \in closed : t \in S}

\* What a failure before this point means for template t.
GivenUp == failed /\ ~in.cont
-------------------------------------------------------------------------------
\* The first loop of _bulkpkg: names become templates.
Resolve ==
    /\ pc = "resolve" /\ todo # <<>>
    /\ LET n == Head(todo)
           t == Canon[n]
       IN \/ /\ t \in Errors
             /\ Status(n, t) /\ failed' = TRUE /\ rpkgs' = rpkgs
          \/ /\ t \in rpkgs
             /\ UNCHANGED <<rpkgs, failed, lines>>
          \/ /\ t \in Templates \ rpkgs /\ GivenUp
             /\ Status(t, "skipped") /\ UNCHANGED <<rpkgs, failed>>
          \/ /\ t \in Templates \ rpkgs /\ ~GivenUp
             /\ rpkgs' = rpkgs \cup {t} /\ UNCHANGED <<failed, lines>>
    /\ todo' = Tail(todo)
    /\ UNCHANGED <<in, pc, unread, graph, recorded, world>>

\* Faulty variant: dependencies that were not requested are not visited.
WalkRequested(t, seen) == (in.deps[t] \cap rpkgs) \ seen

\* _add_deps_graph: the templates it visits for t...
Walk(t, seen) ==
    Closure(in.deps[t] \ seen,
            [d \in Templates |-> IF Readable(d) THEN in.deps[d] \ seen ELSE {}])

\* ...and its effect; a visited template that cannot be read cuts the graph.
AddGraph(t, seen, implicit) ==
    LET visited == Walk(t, seen)
        readable == {t} \cup {d \in visited : Readable(d)}
    IN /\ pvisit' = seen \cup visited \cup rpkgs
       /\ cbvisit' = cbvisit \cup UNION {in.deps[d] : d \in readable}
       /\ edges' = edges \cup implicit \cup UNION {{d} \X in.deps[d] : d \in readable}
Cut(t, seen) == \E d \in Walk(t, seen) : ~Readable(d)

\* Faulty variant: the implicit dependency is added without looking.
ImplicitAlways(t) == IF t # Cbuild THEN {<<t, Cbuild>>} ELSE {}

\* handle_recdeps: everything implicitly depends on base-cbuild, unless
\* base-cbuild depends on it, which cbvisit is meant to say.
Implicit(t) == IF t # Cbuild /\ t \notin cbvisit THEN {<<t, Cbuild>>} ELSE {}

\* base-cbuild enters the graph first; its own template must be readable.
Base ==
    /\ pc = "resolve" /\ todo = <<>> /\ Readable(Cbuild)
    /\ pc' = "parse" /\ unread' = rpkgs
    /\ IF in.raw
         THEN pvisit' = rpkgs /\ UNCHANGED <<failed, cbvisit, edges>>
         ELSE AddGraph(Cbuild, {}, {}) /\ failed' = (failed \/ Cut(Cbuild, {}))
    /\ UNCHANGED <<in, todo, rpkgs, lines, recorded, world>>
NoBase ==
    /\ pc = "resolve" /\ todo = <<>> /\ ~Readable(Cbuild)
    /\ pc' = "error"
    /\ UNCHANGED <<in, todo, unread, rpkgs, failed, lines, graph, recorded, world>>

\* The second loop takes the resolved templates in the order of their names.
Parsing(t) == /\ pc = "parse" /\ t \in unread
              /\ \E i \in DOMAIN Sorted :
                    Sorted[i] = t /\ \A j \in 1..(i - 1) : Sorted[j] \notin unread
              /\ unread' = unread \ {t}

ParseSkip(t) ==
    /\ Parsing(t) /\ GivenUp
    /\ Status(t, "skipped")
    /\ UNCHANGED <<in, pc, todo, rpkgs, failed, graph, recorded, world>>
ParseFail(t) ==
    /\ Parsing(t) /\ ~GivenUp /\ ~Readable(t)
    /\ Status(t, "parse") /\ failed' = TRUE
    /\ UNCHANGED <<in, pc, todo, rpkgs, graph, recorded, world>>

\* `failed` was reset before parsing, and this way out does not restore it.
ParseBroken(t) ==
    /\ Parsing(t) /\ ~GivenUp /\ in.health[t] = "broken"
    /\ Status(t, "broken") /\ failed' = FALSE
    /\ UNCHANGED <<in, pc, todo, rpkgs, graph, recorded, world>>

\* A good template is recorded unless its dependencies cut the graph.
ParseGood(t) ==
    /\ Parsing(t) /\ ~GivenUp /\ Good(t)
    /\ IF in.raw THEN UNCHANGED graph ELSE AddGraph(t, pvisit, Implicit(t))
    /\ IF ~in.raw /\ Cut(t, pvisit)
         THEN Status(t, "parse") /\ failed' = TRUE /\ recorded' = recorded
         ELSE recorded' = recorded \cup {t} /\ UNCHANGED <<lines, failed>>
    /\ UNCHANGED <<in, pc, todo, rpkgs, world>>
-------------------------------------------------------------------------------
Reach(t) == Closure({v \in Templates : <<t, v>> \in edges},
                    [u \in Templates |-> {v \in Templates : <<u, v>> \in edges}])
Cyclic == \E t \in Templates : t \in Reach(t)

\* What the final list may hold, and what of it is not built already.
Listed == IF in.raw THEN recorded \cap Range(in.args) ELSE recorded
Pending == {t \in Listed : in.force \/ t \notin repo}

\* Faulty variant: the input order stands also in sorted mode.
OrdersInput(S) == {SelectSeq(in.args, LAMBDA n : n \in S)}

\* The orders in which TopologicalSorter.static_order may give the members of
\* S; the list as it was given in raw mode.
Orders(S) ==
    IF in.raw THEN {SelectSeq(in.args, LAMBDA n : n \in S)}
    ELSE {q \in Bijection(1..Cardinality(S), S) :
            \A i, j \in DOMAIN q : i < j => q[j] \notin Reach(q[i])}

CycleError ==
    /\ pc = "parse" /\ unread = {} /\ ~GivenUp /\ ~in.raw /\ Cyclic
    /\ pc' = "error"
    /\ UNCHANGED <<in, todo, unread, rpkgs, failed, lines, graph, recorded, world>>

\* The final list; what is built already is left out now, once for all.
Order ==
    /\ pc = "parse" /\ unread = {} /\ ~GivenUp /\ (in.raw \/ ~Cyclic)
    /\ pc' = "build"
    /\ lines' = lines \cup ((Listed \ Pending) \X {"done"})
    /\ todo' \in IF in.build THEN Orders(Pending) ELSE {<<>>}
    /\ UNCHANGED <<in, unread, rpkgs, failed, graph, recorded, world>>
-------------------------------------------------------------------------------
\* What a build of t builds on the way: missing dependencies, recursively
\* (module DepBuild has the details).  One that cannot be built has no say.
Missing(t) ==
    LET Lack(d) == IF Good(d) THEN in.deps[d] \ repo ELSE {}
    IN Closure(Lack(t), [d \in Templates |-> Lack(d)])
Building(t) == pc = "build" /\ todo # <<>> /\ t = Head(todo) /\ todo' = Tail(todo)

\* Faulty variant: without a word.
BuildSkipQuiet(t) ==
    /\ Building(t) /\ GivenUp
    /\ UNCHANGED <<in, pc, unread, rpkgs, failed, lines, graph, recorded, world>>

BuildSkip(t) ==
    /\ Building(t) /\ GivenUp
    /\ Status(t, "skipped")
    /\ UNCHANGED <<in, pc, unread, rpkgs, failed, graph, recorded, world>>
BuildOk(t) ==
    /\ Building(t) /\ ~GivenUp
    /\ t \notin Missing(t) /\ \A d \in Missing(t) : Good(d) /\ d \notin Missing(d)
    /\ Status(t, "ok")
    /\ repo' = repo \cup Missing(t) \cup {t}
    /\ twice' = twice \cup ({t} \cap repo)
    /\ UNCHANGED <<in, pc, unread, rpkgs, failed, graph, recorded>>

\* A build may fail after it has built some of the missing dependencies.
BuildFail(t) ==
    /\ Building(t) /\ ~GivenUp
    /\ \E S \in SUBSET {d \in Missing(t) : Good(d) /\ d \notin Missing(d) \cup {t}} :
          /\ \A d \in S : Missing(d) \subseteq S
          /\ repo' = repo \cup S
    /\ Status(t, "failed") /\ failed' = TRUE
    /\ UNCHANGED <<in, pc, unread, rpkgs, graph, recorded, twice>>

\* Faulty variant: the command fails only if it stopped at the failure.
EndStopped ==
    /\ \/ pc = "build" /\ todo = <<>>
       \/ pc = "parse" /\ unread = {} /\ GivenUp
    /\ pc' = IF GivenUp THEN "failed" ELSE "success"
    /\ UNCHANGED <<in, todo, unread, rpkgs, failed, lines, graph, recorded, world>>

\* "at least one bulk package failed", or the packages are unstaged.
End ==
    /\ \/ pc = "build" /\ todo = <<>>
       \/ pc = "parse" /\ unread = {} /\ GivenUp
    /\ pc' = IF failed THEN "failed" ELSE "success"
    /\ UNCHANGED <<in, todo, unread, rpkgs, failed, lines, graph, recorded, world>>
Ended == pc \in {"error", "failed", "success"} /\ UNCHANGED vars

Next == \/ Resolve \/ Base \/ NoBase
        \/ \E t \in Templates : \/ ParseSkip(t) \/ ParseFail(t) \/ ParseBroken(t)
                                \/ ParseGood(t)
                                \/ BuildSkip(t) \/ BuildOk(t) \/ BuildFail(t)
        \/ CycleError \/ Order \/ End \/ Ended
Spec == Init /\ [][Next]_vars
-------------------------------------------------------------------------------
Statuses == Errors \cup {"skipped", "parse", "broken", "done", "ok", "failed"}
With(s) == {n \in Names : <<n, s>> \in lines}

\* _collect_status: what status:FILE makes of the lines.
Again == {n \in Names : \E s \in Statuses \ {"broken", "ok", "invalid", "missing"} : <<n, s>> \in lines}

\* The templates t builds upon as far as they can be known: through templates
\* that can be read and were not requested only to be refused as broken.
Known(t) == LET Deps(d) == IF d \in With("broken") \/ ~Readable(d) THEN {} ELSE in.deps[d]
            IN Closure(Deps(t), [d \in Templates |-> Deps(d)])

\* runner.py:1143, 1938-1964: in sorted mode a template is built when everything
\* requested that it builds upon, directly or through templates that were not
\* requested, has been dealt with, whatever else was visited before.
BuildOrder ==
    pc = "build" /\ ~in.raw /\ todo # <<>> =>
        \A k \in DOMAIN todo : todo[k] \notin Known(Head(todo))

\* runner.py:1943: the implicit dependencies on base-cbuild never make a cycle:
\* if the sorter refuses the graph, the templates have one.
CyclesReal ==
    LET deps == [d \in Templates |-> IF Readable(d) THEN in.deps[d] ELSE {}]
    IN pc = "error" /\ Readable(Cbuild) => \E t \in Templates : t \in Closure(deps[t], deps)

\* runner.py:2085-2111: a successful command has no failed build, and nothing
\* else that went wrong unless a broken template was met after it; a command
\* that fails names a culprit, unless it is an unrequested one of base-cbuild.
TruthfulEnd ==
    /\ pc = "success" =>
         /\ With("failed") = {}
         /\ With("broken") = {} => \A n \in Names, s \in Statuses :
                <<n, s>> \in lines => s \in {"ok", "done"}
    /\ pc = "failed" => \/ With("failed") \cup With("parse") \cup With("missing") \cup With("invalid") # {}
                        \/ Cut(Cbuild, {})

\* The templates a command asks for, as far as its names mean any.
Asked == {Canon[n] : n \in Range(in.args)} \ Errors
OneLine(t, S) == \E s \in S : \A r \in Statuses : <<t, r>> \in lines <=> r = s

\* Usage.md:502-519, runner.py:2027-2122, 2175-2190: a bulk build in sorted mode
\* that has got to building gives each template asked for one status; what it
\* calls built is built, and what is neither built nor broken its status file
\* asks for again.
FinalStatus ==
    pc = "build" /\ todo = <<>> /\ in.build /\ ~in.raw =>
        \A t \in Asked : /\ OneLine(t, Statuses \ Errors)
                         /\ t \in With("ok") \cup With("done") => t \in repo
                         /\ t \in repo \cup Again \cup With("broken")

\* runner.py:2064-2068: is_built is asked once, before the first build, and yet
\* in sorted mode nothing is built that an earlier build has already built.
NothingTwice == ~in.raw /\ ~in.force => twice = {}
===============================================================================
