------------------------------ MODULE MCCheckStage ------------------------------
(***************************************************************************)
(* Small instances of CheckStage: two packages that may provide the name,  *)
(* in any version before and after, and every dependency on it.            *)
(***************************************************************************)
EXTENDS CheckStage

CONSTANTS a, b

MCOrder == <<a, b>>
\* What is not there provides nothing, and only what is there can change.
MCInputs == {q \in Questions :
               \A p \in {a, b} : /\ (p \notin q.repo => q.old[p] = None)
                                /\ (p \notin q.staged => q.new[p] = None)
                                /\ (p \in q.changed => (p \in q.repo \cap q.staged /\ q.old[p] = q.new[p]))}
================================================================================
