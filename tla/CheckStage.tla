------------------------------- MODULE CheckStage -------------------------------
(***************************************************************************)
(* core/stage.py, check_stage: would unstaging leave a dependency without  *)
(* a provider?  It is asked for one provider name at a time: `added` and   *)
(* `dropped` are dictionaries, and no step looks at two of their keys.     *)
(*                                                                         *)
(* Every repository is one pair of an overlay and the repository itself.   *)
(* Versions are numbers; what version_compare orders is their order.       *)
(***************************************************************************)
EXTENDS Integers, Sequences, SequencesExt

CONSTANTS Order,      \* the packages, as a sequence in the order of the query
          Versions,   \* versions of providers and constraints
          Inputs      \* what is staged and in the repository, see Init

Packages == Range(Order)
\* A provider without a version is True in the code; None: there is none.
True == 0
None == -1
Comparisons == {"=", "<", "<=", ">", ">=", "~"}
Plain == "plain"    \* a dependency without version

Levels == Versions \cup {True, None}
Questions == [repo : SUBSET Packages, staged : SUBSET Packages, changed : SUBSET Packages,
              old : [Packages -> Levels], new : [Packages -> Levels],
              op : Comparisons \cup {Plain}, ver : Versions]

\* What the constants have to be.
InputsTyped ==
    /\ Versions \subseteq Nat \ {True} /\ Inputs \subseteq Questions
    /\ Order \in Seq(Packages) /\ IsInjective(Order)

VARIABLES
    in,        \* the overlay, the repository and the dependency, fixed
    pc, todo,  \* position
    added, dropped,  \* the version of the name in the two dictionaries, or None
    replaced,  \* packages whose providers change
    result     \* "unstage", "stay", "error" (an exception) or None
vars == <<in, pc, todo, added, dropped, replaced, result>>

\* An input says which packages are in the repository and which are staged; in
\* which version each provides the name there, old and new; whether its other
\* providers changed; and the operator and the version of the dependency.
Init == /\ in \in Inputs
        /\ pc = "collect" /\ todo = Order
        /\ added = None /\ dropped = None /\ replaced = {} /\ result = None
-------------------------------------------------------------------------------
Differ(p) == p \in in.repo => in.old[p] # in.new[p] \/ p \in in.changed

\* Staged packages whose providers differ from those in the repository.
Collect ==
    /\ pc = "collect" /\ todo # <<>>
    /\ LET p == Head(todo)
       IN IF p \in in.staged /\ Differ(p)
            THEN /\ added' = IF in.new[p] # None THEN in.new[p] ELSE added
                 /\ dropped' = IF p \in in.repo /\ in.old[p] # None THEN in.old[p] ELSE dropped
                 /\ replaced' = replaced \cup {p}
            ELSE UNCHANGED <<added, dropped, replaced>>
    /\ todo' = Tail(todo)
    /\ UNCHANGED <<in, pc, result>>

\* "now we have both added and dropped providers, ditch common ones"
Ditch ==
    /\ pc = "collect" /\ todo = <<>>
    /\ IF added = dropped THEN added' = None /\ dropped' = None ELSE UNCHANGED <<added, dropped>>
    /\ pc' = "check"
    /\ UNCHANGED <<in, todo, replaced, result>>

\* The comparisons, by the order of the constraint's version av and a
\* provider's version v: what the dropped provider did not satisfy...
NotDropped(op, av, v) ==
    \/ av < v /\ op \in {"=", "<", "<="}
    \/ av > v /\ op \in {"=", ">", ">="}
    \/ av = v /\ op = ">"

\* ...and what the added one satisfies.
Added(op, av, v) ==
    \/ av < v /\ op \in {">", ">="}
    \/ av > v /\ op \in {"<", "<="}
    \/ av = v /\ op # ">"

End(r) == pc' = "end" /\ result' = r
\* The dependency is fine; `~` is not parsed, so the name is not a dropped one.
Fine == /\ pc = "check"
        /\ \/ dropped = None
           \/ in.op = "~"
           \/ in.op = Plain /\ added # None
           \/ /\ in.op \notin {Plain, "~"}
              /\ \/ dropped # True /\ NotDropped(in.op, in.ver, dropped)
                 \/ added \notin {None, True} /\ Added(in.op, in.ver, added)
        /\ End("unstage")
        /\ UNCHANGED <<in, todo, added, dropped, replaced>>

\* version_compare refuses True.
Refuse == /\ pc = "check" /\ dropped # None /\ in.op \notin {Plain, "~"} /\ added = True
          /\ dropped # True => ~NotDropped(in.op, in.ver, dropped)
          /\ End("error")
          /\ UNCHANGED <<in, todo, added, dropped, replaced>>

\* checkdeps, and then any package that provides the name and stays.
Sketchy == /\ dropped # None
           /\ \/ in.op = Plain /\ added = None
              \/ /\ in.op \notin {Plain, "~"} /\ added # True
                 /\ dropped # True => ~NotDropped(in.op, in.ver, dropped)
                 /\ added # None => ~Added(in.op, in.ver, added)
Provide(p) == \/ p \in in.repo /\ in.old[p] # None
              \/ p \in in.staged /\ in.new[p] # None
Narrow == /\ pc = "check" /\ Sketchy
          /\ End(IF \E p \in Packages \ replaced : Provide(p) THEN "unstage" ELSE "stay")
          /\ UNCHANGED <<in, todo, added, dropped, replaced>>
Ended == pc = "end" /\ UNCHANGED vars

Next == Collect \/ Ditch \/ Fine \/ Refuse \/ Narrow \/ Ended
Spec == Init /\ [][Next]_vars
-------------------------------------------------------------------------------
\* What apk takes for satisfied: the reference.
Satisfied(op, av, v) ==
    /\ v # None
    /\ op # Plain => /\ v # True
                     /\ CASE op = "=" -> v = av [] op = "~" -> v = av
                          [] op = "<" -> v < av [] op = "<=" -> v <= av
                          [] op = ">" -> v > av [] op = ">=" -> v >= av
Before(p) == IF p \in in.repo THEN in.old[p] ELSE None
After(p) == IF p \in in.staged THEN in.new[p] ELSE Before(p)
Held == \E p \in Packages : Satisfied(in.op, in.ver, Before(p))
Holds == \E p \in Packages : Satisfied(in.op, in.ver, After(p))
Sole(F(_)) == \A p, q \in Packages : F(p) # None /\ F(q) # None => p = q

Broken == Held /\ ~Holds

\* Packaging.md:2447 "Version constraints are respected here.": as long as at
\* most one package provides the name, before and after, an overlay that would
\* break a dependency with one of the operators that are parsed is not unstaged.
Respected ==
    pc = "end" /\ Sole(Before) /\ Sole(After) /\ Broken /\ in.op # "~" => result # "unstage"

\* stage.py:227-316: where the answer and the constraint disagree at all.  `~` is
\* never looked at, `<` is taken to hold for an equal version, and for the rest
\* every constraint is taken to have held of a provider without version.
AtBoundaries ==
    pc = "end" /\ Sole(Before) /\ Sole(After) =>
        LET less(F(_)) == in.op = "<" /\ \E p \in Packages : F(p) = in.ver
        IN /\ result = "unstage" => ~Broken \/ in.op = "~" \/ less(After)
           /\ result # "unstage" =>
                Broken \/ less(Before) \/ (in.op # Plain /\ \E p \in Packages : Before(p) = True)
===============================================================================
