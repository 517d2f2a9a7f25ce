------------------------------ MODULE Repository ------------------------------
(***************************************************************************)
(* What the stage and the repositories promise together (Packaging.md,     *)
(* "Staging"): a package is first staged and then published, it does not   *)
(* get lost in between, and what is published can be installed until its   *)
(* successor is at least on the way.                                       *)
(*                                                                         *)
(* A package is a triple of name, version and the number of its build.     *)
(***************************************************************************)
EXTENDS Naturals

CONSTANTS Repos, Packages

VARIABLES started,   \* packages whose generation has begun
          staged,    \* staged[r]: packages generated and not published
          pub        \* pub[r]: packages that can be installed from repository r
rvars == <<started, staged, pub>>

SameName(x, y) == x[1] = y[1]
SameFile(x, y) == x[1] = y[1] /\ x[2] = y[2]
Newer(x, y) == SameName(x, y) /\ x[3] > y[3]

\* Of each name the latest build.
Newest(S) == {x \in S : \A y \in S : ~Newer(y, x)}

Init == started = {} /\ staged = [r \in Repos |-> {}] /\ pub = [r \in Repos |-> {}]

Begin == /\ started' \in SUBSET Packages /\ started \subseteq started'
         /\ UNCHANGED <<staged, pub>>
Stage(r, x) == /\ x \in started
               /\ staged' = [staged EXCEPT ![r] = @ \cup {x}]
               /\ UNCHANGED <<started, pub>>
\* A staged package may only go if the same version is built again, or if a
\* later build has got as far.
Withdraw(r, x) == /\ \/ \E y \in started : SameFile(x, y) /\ Newer(y, x)
                     \/ \E y \in staged[r] \cup pub[r] : Newer(y, x)
                  /\ staged' = [staged EXCEPT ![r] = @ \ {x}]
                  /\ UNCHANGED <<started, pub>>
Publish(r, X) == /\ X # {}
                 /\ pub' = [pub EXCEPT ![r] = Newest(@ \cup X)]
                 /\ staged' = [staged EXCEPT ![r] = @ \ X]
                 /\ UNCHANGED started

\* A published package may go when its successor is staged, not only after.
Forget(r, x) == /\ \E y \in staged[r] : Newer(y, x)
                /\ pub' = [pub EXCEPT ![r] = @ \ {x}]
                /\ UNCHANGED <<started, staged>>

Next == \/ Begin
        \/ \E r \in Repos, x \in Packages : Stage(r, x) \/ Withdraw(r, x) \/ Forget(r, x)
        \/ \E r \in Repos : \E X \in SUBSET staged[r] : Publish(r, X)
Spec == Init /\ [][Next]_rvars
===============================================================================
