------------------------------ MODULE MCBulkBuild ------------------------------
(***************************************************************************)
(* Small instances of BulkBuild.                                           *)
(***************************************************************************)
EXTENDS BulkBuild, Naturals

CONSTANTS cbuild, lib, app, tool,   \* main/base-cbuild and three templates
          link,                     \* a subpackage link of lib
          nowhere, nonsense,        \* a missing template, an invalid name
          MaxEdges                  \* bound: build dependencies in the tree

MCSorted == <<app, cbuild, lib, tool>>
MCCanon == [n \in {cbuild, lib, app, tool, link, nowhere, nonsense} |->
              CASE n = link -> lib [] n = nowhere -> "missing"
                [] n = nonsense -> "invalid" [] OTHER -> n]

Trees == LET T == {cbuild, lib, app, tool}
             E == {e \in T \X T : e[1] # e[2]}
         IN {[t \in T |-> {u \in T : <<t, u>> \in S}] : S \in UNION {kSubset(k, E) : k \in 0..MaxEdges}}
Healthy == [t \in {cbuild, lib, app, tool} |-> "good"]
Conditions == {[Healthy EXCEPT ![t] = h, ![app] = k] :
                 t \in DOMAIN Healthy, h \in {"good", "broken", "unparseable"}, k \in {"good", "unparseable"}}
Input(d, h, a, b, raw, build, cont, force) ==
    [deps |-> d, health |-> h, args |-> a, built |-> b,
     raw |-> raw, build |-> build, cont |-> cont, force |-> force]

\* Any tree, and what is asked for: all of it or a part.
OrderInputs == {Input(d, h, a, b, FALSE, TRUE, c, FALSE) :
                  d \in Trees, h \in Conditions, b \in {{}, {lib}},
                  a \in {MCSorted, <<tool, app>>}, c \in BOOLEAN}
\* Few trees, but any list of names and any mode.
Chain == [t \in DOMAIN Healthy |-> CASE t = app -> {lib} [] t = lib -> {tool} [] OTHER -> {}]
NameInputs == {Input(Chain, h, a, b, raw, build, c, f) :
                 h \in {Healthy, [Healthy EXCEPT ![lib] = "broken"]},
                 a \in [1..3 -> {app, lib, link, tool, nowhere}] \cup {<<nonsense, app>>},
                 b \in {{}, {tool}}, raw \in BOOLEAN, build \in BOOLEAN, c \in BOOLEAN, f \in BOOLEAN}
MCInputs == OrderInputs \cup NameInputs
================================================================================
