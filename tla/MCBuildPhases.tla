----------------------------- MODULE MCBuildPhases -----------------------------
(***************************************************************************)
(* Small instances of BuildPhases.                                         *)
(***************************************************************************)
EXTENDS BuildPhases

\* Ordinary templates, and those that differ from them in one respect.
SomeTemplates == {t \in TemplateOptions : \A x, y \in DOMAIN t : t[x] /\ t[y] => x = y}

\* -D, -f, -K, targets and check flags in the combinations that differ.  -f is
\* given for the last target only, where it runs hooks again; a phase that is
\* forced and fails keeps its old sentinel, and no more is to be said of it.
SomeRuns ==
    {o \in [dirty : BOOLEAN, force : BOOLEAN, keep : BOOLEAN,
            step : {"configure", "install", "pkg"}, check : {"skip", "run"}] :
        /\ o.force => (o.step = "pkg" /\ ~o.keep /\ o.check = "skip")
        /\ o.keep => o.step = "pkg"
        /\ o.step \notin {"pkg", "install"} => o.check = "skip"}
================================================================================
