-------------------------------- MODULE Staging --------------------------------
(***************************************************************************)
(* core/stage.py (_do_clear), apk/cli.py (indexes, pruning) and the part   *)
(* of core/build.py that generates and stages packages: the files and      *)
(* indexes of the stage and of the repositories.                           *)
(*                                                                         *)
(* Generation and unstaging exclude each other by the stage lock, so one   *)
(* of them is in progress at a time.  Either may be stopped between any    *)
(* two file operations, killed or by an error.  `index` and                *)
(* `prune-obsolete` take no lock and are assumed to run alone.             *)
(***************************************************************************)
EXTENDS Naturals, FiniteSets

CONSTANTS Repos,      \* repositories: main, main/debug...
          Templates,  \* templates
          Makes,      \* Makes[t]: names of the packages t makes
          RepoOf,     \* RepoOf[n]: the repository of package n
          Versions,   \* versions a template may have when it is built
          NoRepo,     \* not a repository
          MaxBuilds,  \* bound: builds
          MaxStops    \* bound: commands stopped half-way

Names == UNION {Makes[t] : t \in Templates}
Packages == Names \X Versions \X (1..MaxBuilds)

ASSUME MakesAssumption == \A t \in Templates : \A n \in Makes[t] : RepoOf[n] \in Repos
ASSUME NoRepoAssumption == NoRepo \notin Repos
ASSUME BoundsAssumption == MaxBuilds \in Nat /\ MaxStops \in Nat

\* A file is the package it holds; the package's build number is also its
\* place in the order of modification times.  An index is the set of packages
\* it lists; it is never empty, because build_index then removes it.
VARIABLES
    stage, sidx,   \* stage[r], sidx[r]: files and index of the staging overlay
    repo, ridx,    \* repo[r], ridx[r]: files and index of the repository
    started,       \* auxiliary: packages whose generation has begun
    stopped,       \* auxiliary: builds that did not get to the end
    held,          \* auxiliary: held[r]: generated and not published
    pc, cur,       \* what is in progress, and on which repository
    todo,          \* packages to generate, or repositories to index or clear
    builds, stops

files == <<stage, sidx, repo, ridx>>
aux == <<started, stopped, held>>
vars == <<files, aux, pc, cur, todo, builds, stops>>

\* What apk can install from repository r: listed and there.
Installable == [r \in Repos |-> ridx[r] \cap repo[r]]
R == INSTANCE Repository WITH staged <- held, pub <- Installable
Newest(S) == R!Newest(S)
SameFile(x, y) == R!SameFile(x, y)

Empty == [r \in Repos |-> {}]
Init == /\ stage = Empty /\ sidx = Empty /\ repo = Empty /\ ridx = Empty
        /\ started = {} /\ stopped = {} /\ held = Empty
        /\ pc = "idle" /\ cur = NoRepo /\ todo = {} /\ builds = 0 /\ stops = 0

Where(x) == RepoOf[x[1]]
\* Writing a file replaces what has the same file name.
Write(S, x) == {y \in S : ~SameFile(x, y)} \cup {x}
Idle == pc' = "idle" /\ cur' = NoRepo /\ todo' = {}
-------------------------------------------------------------------------------
\* write_make begins: a template is built, maybe in a version it had before.
Generate(t, v) ==
    /\ pc = "idle" /\ builds < MaxBuilds
    /\ builds' = builds + 1
    /\ LET new == {<<n, v, builds + 1>> : n \in Makes[t]}
       IN started' = started \cup new /\ todo' = new
    /\ pc' = "unlink"
    /\ UNCHANGED <<files, stopped, held, cur, stops>>

\* gen_mkpkg: an outdated package of the same file name is removed first.
UnlinkOld(x) ==
    /\ pc = "unlink" /\ x \in todo
    /\ \E y \in stage[Where(x)] : SameFile(x, y)
    /\ stage' = [stage EXCEPT ![Where(x)] = {y \in @ : ~SameFile(x, y)}]
    /\ held' = [held EXCEPT ![Where(x)] = {y \in @ : ~(SameFile(x, y) /\ y \in stage[Where(x)])}]
    /\ UNCHANGED <<sidx, repo, ridx, started, stopped, pc, cur, todo, builds, stops>>
UnlinkEnd ==
    /\ pc = "unlink"
    /\ \A x \in todo, y \in UNION {stage[r] : r \in Repos} : ~SameFile(x, y)
    /\ pc' = "gen"
    /\ UNCHANGED <<files, aux, cur, todo, builds, stops>>

\* make gen: each package is written to its place in the stage.
MakePackage(x) ==
    /\ pc = "gen" /\ x \in todo
    /\ stage' = [stage EXCEPT ![Where(x)] = Write(@, x)]
    /\ held' = [held EXCEPT ![Where(x)] = @ \cup {x}]
    /\ todo' = todo \ {x}
    /\ UNCHANGED <<sidx, repo, ridx, started, stopped, pc, cur, builds, stops>>
GenEnd ==
    /\ pc = "gen" /\ todo = {}
    /\ pc' = "index"
    /\ todo' = {Where(x) : x \in {y \in started : y[3] = builds}}
    /\ UNCHANGED <<files, aux, cur, builds, stops>>

\* _build: the overlays the packages went to are indexed.
IndexStage(r) ==
    /\ pc = "index" /\ r \in todo
    /\ sidx' = [sidx EXCEPT ![r] = Newest(stage[r])]
    /\ IF todo = {r} THEN Idle ELSE todo' = todo \ {r} /\ UNCHANGED <<pc, cur>>
    /\ UNCHANGED <<stage, repo, ridx, aux, builds, stops>>
-------------------------------------------------------------------------------
\* _do_clear: check_stage lets all overlays that have an index go (or none,
\* and then nothing happens).
Clear ==
    /\ pc = "idle" /\ \E r \in Repos : sidx[r] # {}
    /\ pc' = "clear" /\ todo' = {r \in Repos : sidx[r] # {}}
    /\ UNCHANGED <<files, aux, cur, builds, stops>>

\* Faulty variant: the overlay just done stays the current one.
NextRepoKeep(r) == IF todo = {r} THEN Idle
                   ELSE todo' = todo \ {r} /\ pc' = "clear" /\ UNCHANGED cur

\* The next overlay; all are cleared in the end.
NextRepo(r) == IF todo = {r} THEN Idle
               ELSE todo' = todo \ {r} /\ pc' = "clear" /\ cur' = NoRepo

\* There is nothing in the repository: the overlay's directory becomes it.
Migrate(r) ==
    /\ pc = "clear" /\ r \in todo /\ repo[r] = {} /\ ridx[r] = {}
    /\ repo' = [repo EXCEPT ![r] = stage[r]] /\ ridx' = [ridx EXCEPT ![r] = sidx[r]]
    /\ stage' = [stage EXCEPT ![r] = {}] /\ sidx' = [sidx EXCEPT ![r] = {}]
    /\ held' = [held EXCEPT ![r] = @ \ (sidx[r] \cap stage[r])]
    /\ NextRepo(r)
    /\ UNCHANGED <<started, stopped, builds, stops>>

\* Otherwise file after file is moved...
Merge(r) ==
    /\ pc = "clear" /\ r \in todo /\ ~(repo[r] = {} /\ ridx[r] = {})
    /\ pc' = "move" /\ cur' = r
    /\ UNCHANGED <<files, aux, todo, builds, stops>>
Move(x) ==
    /\ pc = "move" /\ x \in stage[cur]
    /\ repo' = [repo EXCEPT ![cur] = Write(@, x)]
    /\ stage' = [stage EXCEPT ![cur] = @ \ {x}]
    /\ held' = [held EXCEPT ![cur] = {y \in @ : y = x \/ ~(SameFile(x, y) /\ y \in repo[cur])}]
    /\ UNCHANGED <<sidx, ridx, started, stopped, pc, cur, todo, builds, stops>>

\* Faulty variant: the index goes while there are files to move.
DropIndexEarly ==
    /\ pc = "move"
    /\ sidx' = [sidx EXCEPT ![cur] = {}]
    /\ pc' = "reindex"
    /\ UNCHANGED <<stage, repo, ridx, aux, cur, todo, builds, stops>>

\* ...the overlay's index goes...
DropIndex ==
    /\ pc = "move" /\ stage[cur] = {}
    /\ sidx' = [sidx EXCEPT ![cur] = {}]
    /\ pc' = "reindex"
    /\ UNCHANGED <<stage, repo, ridx, aux, cur, todo, builds, stops>>

\* Faulty variant: an index that exists is only added to.
ReindexAdd ==
    /\ pc = "reindex"
    /\ ridx' = [ridx EXCEPT ![cur] = @ \cup Newest(repo[cur])]
    /\ held' = [held EXCEPT ![cur] = @ \ repo[cur]]
    /\ NextRepo(cur)
    /\ UNCHANGED <<stage, sidx, repo, started, stopped, builds, stops>>

\* ...and the repository is indexed.
Reindex ==
    /\ pc = "reindex"
    /\ ridx' = [ridx EXCEPT ![cur] = Newest(repo[cur])]
    /\ held' = [held EXCEPT ![cur] = @ \ repo[cur]]
    /\ NextRepo(cur)
    /\ UNCHANGED <<stage, sidx, repo, started, stopped, builds, stops>>

\* The result of this build_index is ignored.
ReindexFail ==
    /\ pc = "reindex" /\ stops < MaxStops
    /\ stops' = stops + 1
    /\ NextRepo(cur)
    /\ UNCHANGED <<files, aux, builds>>
-------------------------------------------------------------------------------
\* do_index: every repository that has an index is indexed again.
Index(r) ==
    /\ pc = "idle" /\ ridx[r] # {}
    /\ ridx' = [ridx EXCEPT ![r] = Newest(repo[r])]
    /\ held' = [held EXCEPT ![r] = @ \ repo[r]]
    /\ UNCHANGED <<stage, sidx, repo, started, stopped, pc, cur, todo, builds, stops>>

\* Faulty variant: the latest is the one with the highest version.
PruneVersion(r, x) ==
    /\ pc = "idle" /\ ridx[r] # {} /\ x \in repo[r]
    /\ \E y \in repo[r] : R!SameName(x, y) /\ y[2] > x[2]
    /\ repo' = [repo EXCEPT ![r] = @ \ {x}]
    /\ held' = [held EXCEPT ![r] = @ \ {x}]
    /\ UNCHANGED <<stage, sidx, ridx, started, stopped, pc, cur, todo, builds, stops>>

\* prune: what is not the latest build of its name goes, one by one.
Prune(r, x) ==
    /\ pc = "idle" /\ ridx[r] # {} /\ x \in repo[r] \ Newest(repo[r])
    /\ repo' = [repo EXCEPT ![r] = @ \ {x}]
    /\ held' = [held EXCEPT ![r] = @ \ {x}]
    /\ UNCHANGED <<stage, sidx, ridx, started, stopped, pc, cur, todo, builds, stops>>

\* A kill or an error ends the command in progress.
Stop == /\ pc # "idle" /\ stops < MaxStops
        /\ stops' = stops + 1
        /\ stopped' = IF pc \in {"unlink", "gen", "index"} THEN stopped \cup {builds} ELSE stopped
        /\ Idle
        /\ UNCHANGED <<files, started, held, builds>>

Next == \/ \E t \in Templates, v \in Versions : Generate(t, v)
        \/ \E x \in Packages : UnlinkOld(x) \/ MakePackage(x) \/ Move(x)
        \/ UnlinkEnd \/ GenEnd \/ (\E r \in Repos : IndexStage(r))
        \/ Clear \/ (\E r \in Repos : Migrate(r) \/ Merge(r))
        \/ DropIndex \/ Reindex \/ ReindexFail
        \/ (\E r \in Repos : Index(r) \/ (\E x \in Packages : Prune(r, x)))
        \/ Stop
Spec == Init /\ [][Next]_vars
-------------------------------------------------------------------------------
Triples(S, r) == S \subseteq {x \in Packages : Where(x) = r}
TypeOK ==
    /\ \A r \in Repos : /\ Triples(stage[r], r) /\ Triples(sidx[r], r) /\ Triples(repo[r], r)
                        /\ Triples(ridx[r], r) /\ Triples(held[r], r)
                        /\ \A x, y \in stage[r] : SameFile(x, y) => x = y
                        /\ \A x, y \in repo[r] : SameFile(x, y) => x = y
    /\ started \subseteq Packages /\ stopped \subseteq 1..builds
    /\ pc \in {"idle", "unlink", "gen", "index", "clear", "move", "reindex"}
    /\ cur \in Repos \cup {NoRepo} /\ (cur \in Repos <=> pc \in {"move", "reindex"})
    /\ todo \subseteq (IF pc \in {"unlink", "gen"} THEN Packages ELSE Repos)
    /\ builds \in 0..MaxBuilds /\ stops \in 0..MaxStops

\* stage.py:336-379, cli.py:270-348: wherever unstaging and indexing are
\* stopped, packages go from the stage to the repository and nowhere else.
RepositorySpec == R!Spec

\* stage.py:361-377: what is not published is there, where the next unstaging
\* or, if this was stopped half-way, the next indexing of the repository finds
\* it; only what a stopped build left may be found by neither.
Findable ==
    \A r \in Repos :
        /\ held[r] \subseteq stage[r] \cup repo[r]
        /\ pc = "idle" /\ sidx[r] = {} => \A x \in held[r] : x \in repo[r] \/ x[3] \in stopped

\* cli.py:300-348: if no command was ever stopped, the indexes list exactly the
\* latest builds, whatever was built again, in any order of versions.
ExactIndexes ==
    stops = 0 /\ pc = "idle" => \A r \in Repos : sidx[r] = Newest(stage[r]) /\ ridx[r] = Newest(repo[r])
===============================================================================
