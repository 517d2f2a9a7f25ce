---------------------------- MODULE CheckStageProofs ----------------------------
(***************************************************************************)
(* Proofs about core/stage.py, check_stage, for any packages and versions. *)
(*                                                                         *)
(* The loop over the staged packages leaves in `added` and `dropped` the   *)
(* version of some package that changes, or nothing if none has one        *)
(* (Latest).  When one package at most provides the name, these are its    *)
(* versions before and after, unless it does not change; the comparisons   *)
(* of the code are then compared with those of apk: they differ only where *)
(* AtBoundaries says, so `Respected` fails for `<` and nothing else.       *)
(***************************************************************************)
EXTENDS CheckStage, TLAPS

Changing == {p \in in.staged : Differ(p)}
New(S) == {in.new[p] : p \in S}
Old(S) == {in.old[p] : p \in S \cap in.repo}

\* What a dictionary holds for the name, after packages that provide it in S.
Latest(v, S) == \/ v = None /\ S \subseteq {None}
                \/ v # None /\ v \in S

Collected == /\ todo \in Seq(Packages)
             /\ replaced \subseteq Changing /\ Changing \subseteq replaced \cup Range(todo)
             /\ Latest(added, New(replaced)) /\ Latest(dropped, Old(replaced))
Checked == /\ replaced = Changing
           /\ \E a, d : /\ Latest(a, New(Changing)) /\ Latest(d, Old(Changing))
                        /\ IF a = d THEN added = None /\ dropped = None
                           ELSE added = a /\ dropped = d
StageInv == /\ InputsTyped /\ in \in Questions /\ pc \in {"collect", "check", "end"}
            /\ (pc = "collect" => Collected) /\ (pc = "check" => Checked) /\ AtBoundaries
-------------------------------------------------------------------------------
\* The comparisons of the code against those of apk.
LEMMA Comparing ==
  ASSUME NEW av \in Int, NEW v \in Int, NEW op \in Comparisons \ {"~"}, v \notin {None, True}
  PROVE  /\ NotDropped(op, av, v) => ~Satisfied(op, av, v)
         /\ ~NotDropped(op, av, v) => Satisfied(op, av, v) \/ (op = "<" /\ v = av)
         /\ Added(op, av, v) => Satisfied(op, av, v) \/ (op = "<" /\ v = av)
         /\ ~Added(op, av, v) => ~Satisfied(op, av, v)
<1>1. CASE op = "="
  BY <1>1 DEF NotDropped, Added, Satisfied, Plain
<1>2. CASE op = "<"
  BY <1>2 DEF NotDropped, Added, Satisfied, Plain
<1>3. CASE op = "<="
  BY <1>3 DEF NotDropped, Added, Satisfied, Plain
<1>4. CASE op = ">"
  BY <1>4 DEF NotDropped, Added, Satisfied, Plain
<1>5. CASE op = ">="
  BY <1>5 DEF NotDropped, Added, Satisfied, Plain
<1>6. QED
  BY <1>1, <1>2, <1>3, <1>4, <1>5 DEF Comparisons

LEMMA Facts ==
  ASSUME InputsTyped, in \in Questions
  PROVE  /\ in.ver \in Nat /\ in.ver # True /\ in.op \in Comparisons \cup {Plain}
         /\ in.staged \subseteq Packages /\ in.repo \subseteq Packages
         /\ \A p \in Packages : /\ in.old[p] \in Levels /\ in.new[p] \in Levels
                                /\ Before(p) \in Levels /\ After(p) \in Levels
         /\ Levels \subseteq Int
<1>1. in.ver \in Versions /\ Versions \subseteq Nat \ {True} /\ Levels \subseteq Int
  BY DEF InputsTyped, Questions, Levels, True, None
<1>2. \A p \in Packages : in.old[p] \in Levels /\ in.new[p] \in Levels /\ None \in Levels
  BY DEF Questions, Levels
<1>3. QED
  BY <1>1, <1>2 DEF Questions, Before, After

\* What does not change is the same before and after.
LEMMA Same ==
  ASSUME in \in Questions, NEW p \in Packages, p \notin Changing
  PROVE  Before(p) = After(p) /\ (Provide(p) => Before(p) # None)
<1>1. p \notin in.staged \/ (p \in in.repo /\ in.old[p] = in.new[p])
  BY DEF Changing, Differ
<1>2. CASE p \notin in.staged
  BY <1>2 DEF Before, After, Provide
<1>3. CASE p \in in.repo /\ in.old[p] = in.new[p]
  BY <1>3 DEF Before, After, Provide
<1>4. QED
  BY <1>1, <1>2, <1>3
-------------------------------------------------------------------------------
\* With one provider at most, before (b) and after (f), the dictionaries hold
\* its versions, unless it stays as it is; and nobody else provides the name.
LEMMA OneProvider ==
  ASSUME InputsTyped, in \in Questions, Sole(Before), Sole(After), Checked
  PROVE  \E b, f \in Levels :
           /\ \A p \in Packages : Before(p) \in {None, b} /\ After(p) \in {None, f}
           /\ b # None => \E p \in Packages : Before(p) = b
           /\ f # None => \E p \in Packages : After(p) = f
           /\ \/ dropped = None /\ b = f
              \/ dropped = None /\ b = None
              \/ dropped = b /\ b # None
           /\ added = None \/ (added = f /\ f # None)
           /\ dropped # None => /\ added = None => f = None
                                /\ \A p \in Packages \ replaced : ~Provide(p)
<1>1. PICK b \in Levels : /\ \A p \in Packages : Before(p) \in {None, b}
                          /\ b # None => \E p \in Packages : Before(p) = b
  <2>1. CASE \A p \in Packages : Before(p) = None
    <3>1. None \in Levels
      BY DEF Levels
    <3>2. QED
      BY <2>1, <3>1
  <2>2. CASE \E p \in Packages : Before(p) # None
    BY <2>2, Facts DEF Sole
  <2>3. QED
    BY <2>1, <2>2
<1>2. PICK f \in Levels : /\ \A p \in Packages : After(p) \in {None, f}
                          /\ f # None => \E p \in Packages : After(p) = f
  <2>1. CASE \A p \in Packages : After(p) = None
    <3>1. None \in Levels
      BY DEF Levels
    <3>2. QED
      BY <2>1, <3>1
  <2>2. CASE \E p \in Packages : After(p) # None
    BY <2>2, Facts DEF Sole
  <2>3. QED
    BY <2>1, <2>2
<1>3. PICK a, d : /\ Latest(a, New(Changing)) /\ Latest(d, Old(Changing))
                  /\ IF a = d THEN added = None /\ dropped = None
                     ELSE added = a /\ dropped = d
  BY DEF Checked
<1>4. /\ \A p \in Changing : p \in Packages /\ After(p) = in.new[p]
      /\ \A p \in Changing : Before(p) = IF p \in in.repo THEN in.old[p] ELSE None
  BY Facts DEF Changing, Before, After
<1>5. d = None => \A p \in Changing : Before(p) = None
  BY <1>3, <1>4 DEF Latest, Old
<1>6. d # None => d = b /\ \E p \in Changing : Before(p) = b
  <2>1. ASSUME d # None
        PROVE  \E p \in Changing : Before(p) = d
    BY <1>3, <1>4, <2>1 DEF Latest, Old
  <2>2. \A p \in Changing : Before(p) \in {None, b}
    BY <1>1, <1>4
  <2>3. QED
    BY <2>1, <2>2
<1>7. a = None => \A p \in Changing : After(p) = None
  BY <1>3, <1>4 DEF Latest, New
<1>8. a # None => a = f
  <2>1. ASSUME a # None
        PROVE  \E p \in Changing : After(p) = a
    BY <1>3, <1>4, <2>1 DEF Latest, New
  <2>2. \A p \in Changing : After(p) \in {None, f}
    BY <1>2, <1>4
  <2>3. QED
    BY <2>1, <2>2
<1>9. d = None /\ b # None => b = f
  <2>1. \A p \in Packages \ Changing : Before(p) = After(p)
    BY Same
  <2>2. QED
    BY <1>1, <1>2, <1>5, <2>1
<1>10. a = None /\ f # None => b = f /\ \E p \in Packages \ Changing : Before(p) = b
  <2>1. \A p \in Packages \ Changing : Before(p) = After(p)
    BY Same
  <2>2. QED
    BY <1>1, <1>2, <1>7, <2>1
<1>11. ASSUME d # None
       PROVE  (a = None => f = None) /\ \A p \in Packages \ Changing : ~Provide(p)
  <2>1. \A p \in Packages \ Changing : Before(p) = None
    BY <1>1, <1>4, <1>6, <1>11 DEF Sole
  <2>2. QED
    BY <2>1, <1>6, <1>10, <1>11, Same
<1>12. dropped = None => b = f \/ b = None
  BY <1>3, <1>6, <1>8, <1>9
<1>13. dropped # None => a # d /\ dropped = d /\ added = a
  BY <1>3
<1>14. added = None \/ (added = f /\ f # None)
  BY <1>3, <1>8
<1>15. dropped = None \/ (dropped = b /\ b # None)
  BY <1>3, <1>6
<1>16. dropped # None => /\ added = None => f = None
                         /\ \A p \in Packages \ replaced : ~Provide(p)
  BY <1>11, <1>13 DEF Checked
<1>17. QED
  <2>1. \/ dropped = None /\ b = f
        \/ dropped = None /\ b = None
        \/ dropped = b /\ b # None
    BY <1>12, <1>15
  <2>2. WITNESS b \in Levels, f \in Levels
  <2>3. QED
    BY <1>1, <1>2, <2>1, <1>14, <1>16
-------------------------------------------------------------------------------
\* stage.py:227-316: the answer, in terms of these two versions.
LEMMA Answers ==
  ASSUME InputsTyped, in \in Questions, Checked, Fine \/ Refuse \/ Narrow
  PROVE  AtBoundaries'
<1>1. /\ UNCHANGED in /\ pc = "check"
      /\ \/ Fine /\ result' = "unstage"
         \/ Refuse /\ result' = "error"
         \/ Narrow
  <2>1. Fine => UNCHANGED in /\ pc = "check" /\ result' = "unstage"
    BY DEF Fine, End
  <2>2. Refuse => UNCHANGED in /\ pc = "check" /\ result' = "error"
    BY DEF Refuse, End
  <2>3. Narrow => UNCHANGED in /\ pc = "check"
    BY DEF Narrow, End
  <2>4. QED
    BY <2>1, <2>2, <2>3
<1>2. SUFFICES ASSUME Sole(Before), Sole(After)
      PROVE  LET broken == Held /\ ~Holds
                 less(F(_)) == in.op = "<" /\ \E p \in Packages : F(p) = in.ver
             IN /\ result' = "unstage" => ~broken \/ in.op = "~" \/ less(After)
                /\ result' # "unstage" =>
                     broken \/ less(Before)
                     \/ (in.op # Plain /\ \E p \in Packages : Before(p) = True)
  BY <1>1 DEF AtBoundaries, Broken, Held, Holds, Sole, Before, After
<1> DEFINE op == in.op
           av == in.ver
<1>3. PICK b, f \in Levels :
           /\ \A p \in Packages : Before(p) \in {None, b} /\ After(p) \in {None, f}
           /\ b # None => \E p \in Packages : Before(p) = b
           /\ f # None => \E p \in Packages : After(p) = f
           /\ \/ dropped = None /\ b = f
              \/ dropped = None /\ b = None
              \/ dropped = b /\ b # None
           /\ added = None \/ (added = f /\ f # None)
           /\ dropped # None => /\ added = None => f = None
                                /\ \A p \in Packages \ replaced : ~Provide(p)
  BY <1>2, OneProvider
<1>4. /\ b \in Int /\ f \in Int /\ av \in Int /\ av \notin {None, True}
      /\ op \in Comparisons \cup {Plain}
  BY Facts DEF True, None
<1>5. /\ Held <=> Satisfied(op, av, b)
      /\ Holds <=> Satisfied(op, av, f)
  BY <1>3 DEF Held, Holds, Satisfied
<1>6. /\ b = av => \E p \in Packages : Before(p) = in.ver
      /\ f = av => \E p \in Packages : After(p) = in.ver
      /\ b = True => \E p \in Packages : Before(p) = True
  BY <1>3, <1>4 DEF True, None
<1> HIDE DEF op, av
<1>7. SUFFICES
        /\ result' = "unstage" => \/ ~Satisfied(op, av, b) \/ Satisfied(op, av, f)
                                  \/ op = "~" \/ (op = "<" /\ f = av)
        /\ result' # "unstage" => \/ Satisfied(op, av, b) /\ ~Satisfied(op, av, f)
                                  \/ (op = "<" /\ b = av)
                                  \/ (op # Plain /\ b = True)
  BY <1>5, <1>6 DEF op, av
<1>8. /\ ~Satisfied(op, av, None)
      /\ op # Plain => ~Satisfied(op, av, True)
      /\ op = Plain => \A v : v # None => Satisfied(op, av, v)
  BY DEF Satisfied
<1>9. CASE Fine /\ result' = "unstage"
  <2>1. CASE dropped = None
    BY <1>3, <1>8, <1>9, <2>1
  <2>2. CASE op = "~"
    BY <1>9, <2>2
  <2>3. CASE op = Plain /\ added # None
    BY <1>3, <1>8, <1>9, <2>3
  <2>4. CASE op \notin {Plain, "~"} /\ dropped # None
    <3>1. \/ dropped # True /\ NotDropped(op, av, dropped)
          \/ added \notin {None, True} /\ Added(op, av, added)
      BY <1>9, <2>4 DEF Fine, op, av
    <3>2. op \in Comparisons \ {"~"}
      BY <1>4, <2>4
    <3>3. QED
      BY <1>3, <1>4, <1>9, <2>4, <3>1, <3>2, Comparing
  <2>5. QED
    BY <1>9, <2>1, <2>2, <2>3, <2>4 DEF Fine, op
<1>10. CASE Refuse /\ result' = "error"
  <2>1. /\ dropped # None /\ op \in Comparisons \ {"~"} /\ added = True
        /\ dropped # True => ~NotDropped(op, av, dropped)
    BY <1>4, <1>10 DEF Refuse, op, av
  <2>2. f = True /\ b = dropped /\ ~Satisfied(op, av, f) /\ op # Plain
    BY <1>3, <1>8, <2>1 DEF True, None, Comparisons, Plain
  <2>3. QED
    BY <1>3, <1>4, <1>10, <2>1, <2>2, Comparing
<1>11. CASE Narrow
  <2>1. Sketchy /\ dropped # None /\ result' = "stay"
    BY <1>3, <1>11 DEF Narrow, Sketchy, End
  <2>2. b = dropped /\ b # None
    BY <1>3, <2>1
  <2>3. CASE op = Plain
    <3>1. added = None
      BY <2>1, <2>3 DEF Sketchy, op
    <3>2. QED
      BY <1>3, <1>8, <2>1, <2>2, <2>3, <3>1
  <2>4. CASE op # Plain
    <3>1. /\ op \in Comparisons \ {"~"} /\ added # True
          /\ dropped # True => ~NotDropped(op, av, dropped)
          /\ added # None => ~Added(op, av, added)
      BY <1>4, <2>1, <2>4 DEF Sketchy, op, av
    <3>2. ~Satisfied(op, av, f)
      BY <1>3, <1>4, <1>8, <2>1, <3>1, Comparing
    <3>3. b = True \/ Satisfied(op, av, b) \/ (op = "<" /\ b = av)
      BY <1>4, <2>2, <3>1, Comparing
    <3>4. QED
      BY <2>1, <2>4, <3>2, <3>3
  <2>5. QED
    BY <2>3, <2>4
<1>12. QED
  BY <1>1, <1>9, <1>10, <1>11
-------------------------------------------------------------------------------
LEMMA CollectStep == StageInv /\ Collect => Collected'
<1> SUFFICES ASSUME StageInv, Collect PROVE Collected'
  OBVIOUS
<1> PICK p : p = Head(todo)
  OBVIOUS
<1>1. Collected /\ in \in Questions /\ UNCHANGED in /\ todo # <<>> /\ todo' = Tail(todo)
  BY DEF Collect, StageInv
<1>2. /\ todo' \in Seq(Packages) /\ p \in Packages
      /\ Range(todo) \subseteq {p} \cup Range(todo')
  <2>1. /\ todo \in Seq(Packages) /\ todo' = Tail(todo) /\ p = todo[1]
        /\ todo' \in Seq(Packages) /\ Len(todo) \in Nat /\ Len(todo) # 0
        /\ Len(todo') = Len(todo) - 1
    BY <1>1 DEF Collected
  <2>2. \A i \in DOMAIN todo : i = 1 \/ (i - 1 \in DOMAIN todo' /\ todo'[i - 1] = todo[i])
    BY <2>1
  <2>3. QED
    BY <2>1, <2>2 DEF Range
<1>3. Changing' = Changing
  BY <1>1 DEF Changing, Differ
<1>4. CASE p \in in.staged /\ Differ(p)
  <2>1. /\ added' = IF in.new[p] # None THEN in.new[p] ELSE added
        /\ dropped' = IF p \in in.repo /\ in.old[p] # None THEN in.old[p] ELSE dropped
        /\ replaced' = replaced \cup {p}
    BY <1>4 DEF Collect
  <2>2. /\ New(replaced)' = New(replaced) \cup {in.new[p]}
        /\ Old(replaced)' = Old(replaced) \cup (IF p \in in.repo THEN {in.old[p]} ELSE {})
    BY <1>1, <2>1 DEF New, Old
  <2>3. Latest(added, New(replaced))' /\ Latest(dropped, Old(replaced))'
    BY <1>1, <2>1, <2>2 DEF Collected, Latest
  <2>4. QED
    BY <1>1, <1>2, <1>3, <1>4, <2>1, <2>3 DEF Collected, Changing
<1>5. CASE UNCHANGED <<added, dropped, replaced>> /\ ~(p \in in.staged /\ Differ(p))
  <2>1. p \notin Changing
    BY <1>5 DEF Changing
  <2>2. New(replaced)' = New(replaced) /\ Old(replaced)' = Old(replaced)
    BY <1>1, <1>5 DEF New, Old
  <2>3. Latest(added, New(replaced))' /\ Latest(dropped, Old(replaced))'
    BY <1>1, <1>5, <2>2 DEF Collected, Latest
  <2>4. QED
    BY <1>1, <1>2, <1>3, <1>5, <2>1, <2>3 DEF Collected
<1>6. QED
  BY <1>4, <1>5 DEF Collect

LEMMA DitchStep == StageInv /\ Ditch => Checked'
<1> SUFFICES ASSUME StageInv, Ditch PROVE Checked'
  OBVIOUS
<1>1. /\ Collected /\ todo = <<>> /\ UNCHANGED <<in, replaced>>
      /\ IF added = dropped THEN added' = None /\ dropped' = None
         ELSE added' = added /\ dropped' = dropped
  BY DEF Ditch, StageInv
<1>2. replaced = Changing
  <2>1. Range(todo) = {}
    BY <1>1 DEF Range
  <2>2. QED
    BY <1>1, <2>1 DEF Collected
<1>3. /\ Changing' = Changing
      /\ New(Changing)' = New(Changing) /\ Old(Changing)' = Old(Changing)
  BY <1>1 DEF Changing, Differ, New, Old
<1>4. Latest(added, New(Changing)') /\ Latest(dropped, Old(Changing)')
  BY <1>1, <1>2, <1>3 DEF Collected
<1>5. QED
  BY <1>1, <1>2, <1>3, <1>4 DEF Checked, Latest

LEMMA StageStep == StageInv /\ [Next]_vars => StageInv'
<1> SUFFICES ASSUME StageInv, [Next]_vars PROVE StageInv'
  OBVIOUS
<1>1. in \in Questions /\ UNCHANGED in
  BY DEF StageInv, Next, vars, Collect, Ditch, Fine, Refuse, Narrow, Ended
<1>2. CASE Collect
  BY <1>1, <1>2, CollectStep DEF Collect, StageInv, InputsTyped, AtBoundaries
<1>3. CASE Ditch
  BY <1>1, <1>3, DitchStep DEF Ditch, StageInv, InputsTyped, AtBoundaries
<1>4. CASE Fine \/ Refuse \/ Narrow
  BY <1>1, <1>4, Answers DEF Fine, Refuse, Narrow, End, StageInv, InputsTyped
<1>5. CASE UNCHANGED vars
  BY <1>5 DEF vars, StageInv, Collected, Checked, Changing, Differ, New, Old, AtBoundaries,
              Broken, InputsTyped, Held, Holds, Sole, Before, After
<1>6. QED
  BY <1>2, <1>3, <1>4, <1>5 DEF Next, Ended

LEMMA StageInit == InputsTyped /\ Init => StageInv
<1> SUFFICES ASSUME InputsTyped, Init PROVE StageInv
  OBVIOUS
<1>1. /\ in \in Questions /\ pc = "collect" /\ todo = Order
      /\ added = None /\ dropped = None /\ replaced = {}
  BY DEF Init, InputsTyped
<1>2. Order \in Seq(Packages)
  BY DEF InputsTyped
<1>3. Changing \subseteq Packages
  BY <1>1 DEF Changing, Questions
<1>4. QED
  BY <1>1, <1>2, <1>3 DEF StageInv, Collected, AtBoundaries, Latest, New, Old, Packages

\* stage.py:227-316: as long as at most one package provides a name, and the
\* versions are numbers and the packages listed once, the answer and the
\* constraint disagree in the cases AtBoundaries lists and in no other.
THEOREM AtBoundariesCorrect == InputsTyped /\ Spec => []AtBoundaries
<1>1. StageInv => AtBoundaries
  BY DEF StageInv
<1>2. InputsTyped /\ Init => StageInv
  BY StageInit
<1>3. QED
  BY <1>1, <1>2, StageStep, PTL DEF Spec
=============================================================================
