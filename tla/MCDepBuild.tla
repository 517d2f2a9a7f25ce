------------------------------ MODULE MCDepBuild ------------------------------
(***************************************************************************)
(* Small instances of DepBuild: every dependency graph of a given shape.   *)
(***************************************************************************)
EXTENDS DepBuild

Pairs == Names \X Names
\* The toolchain is never needed for the target machine.
TargetPairs == {p \in Pairs : p[2] = Toolchain => p[1] = Toolchain}
FromPairs(S) == [n \in Names |-> {m \in Names : <<n, m>> \in S}]
\* Relations with at most one pair, and any relations without pairs <<n, n>>.
Few(S) == {FromPairs({p}) : p \in S} \cup {FromPairs({})}
Many(S) == {FromPairs(T) : T \in SUBSET {p \in S : p[1] # p[2]}}

\* At most one dependency of each kind.
SparseGraphs == [host : Few(Pairs), make : Few(TargetPairs), run : Few(TargetPairs),
                 by_name : BOOLEAN]
\* Any dependencies of one kind, at most one runtime dependency.
DenseGraphs == [host : {FromPairs({})}, make : Many(TargetPairs), run : Few(TargetPairs),
                by_name : BOOLEAN]
\* Two kinds of at most one dependency each.
PairGraphs == {g \in SparseGraphs : \E r \in {g.host, g.make, g.run} : r = FromPairs({})}
SomeGraphs == PairGraphs \cup DenseGraphs
\* The two templates besides the toolchain are alike: of two graphs that only
\* differ by their names one is enough.
Other(n) == CASE n = "a" -> "b" [] n = "b" -> "a" [] OTHER -> n
Renamed(R) == [n \in Names |-> {Other(m) : m \in R[Other(n)]}]
Alike(g) == {g, [host |-> Renamed(g.host), make |-> Renamed(g.make), run |-> Renamed(g.run),
                 by_name |-> g.by_name]}
AllGraphs == {g \in SomeGraphs : g = CHOOSE h \in Alike(g) : TRUE}

\* Nothing turns to packages of the toolchain for the target: there are none.
MCInit == Init /\ <<Toolchain, "target">> \notin repo
MCSpec == MCInit /\ [][Next]_vars /\ WF_vars(Proceed)
===============================================================================
