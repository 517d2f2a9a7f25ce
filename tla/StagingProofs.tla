----------------------------- MODULE StagingProofs -----------------------------
(***************************************************************************)
(* Proofs about core/stage.py and apk/cli.py for any templates, packages,  *)
(* repositories and versions, and any number of builds and stopped         *)
(* commands.                                                               *)
(*                                                                         *)
(* The refinement needs to know of every repository which of its files are *)
(* not yet published (Files, Known) and that builds only grow (Dated); the *)
(* invariants also need to know what is in progress (Found, Exact).        *)
(***************************************************************************)
EXTENDS Staging, WellFoundedInduction, TLAPS

USE NoRepoAssumption, BoundsAssumption

\* x and y are builds of one package, and y is the later one.
Later(y, x) == y[1] = x[1] /\ y[3] > x[3]
Sole(S) == \A x, y \in S : ~Later(y, x)

Overlays == [Repos -> SUBSET Packages]
StagingTypeOK ==
    /\ stage \in Overlays /\ sidx \in Overlays /\ repo \in Overlays
    /\ ridx \in Overlays /\ held \in Overlays
    /\ TypeOK
    /\ pc \in {"unlink", "gen", "index"} => builds > 0

\* Where packages are: each file in one place, a staged one unpublished and
\* newer than the one it is going to replace.
Files(r) ==
    /\ stage[r] \subseteq held[r] \cap started /\ held[r] \subseteq stage[r] \cup repo[r]
    /\ ridx[r] \cap stage[r] = {} /\ held[r] \cap ridx[r] \cap repo[r] = {}
    /\ \A x \in stage[r], y \in repo[r] : SameFile(x, y) => x[3] > y[3]
    /\ Sole(sidx[r]) /\ Sole(ridx[r])

\* What is in a repository is unpublished or indexed, or older than such.
Known(r) == \A w \in repo[r] : \/ w \in held[r] \cup ridx[r]
                               \/ \E z \in repo[r] \cap (held[r] \cup ridx[r]) : Later(z, w)

\* Nothing is from the future, and a build in progress is later than all else.
Dated(r) ==
    /\ \A x \in stage[r] \cup sidx[r] \cup repo[r] \cup ridx[r] : x[3] <= builds
    /\ pc \in {"unlink", "gen"} => \A x \in repo[r] \cup ridx[r] : x[3] < builds
    /\ pc = "unlink" => \A x \in stage[r] : x[3] < builds
    /\ pc = "gen" => \A x \in todo, y \in stage[r] : ~SameFile(x, y)
    /\ pc = "reindex" /\ r = cur => stage[r] = {} /\ sidx[r] = {}

\* What is being made, or was made last; where it goes.
Made == {x \in started : x[3] = builds}
Making == pc \in {"unlink", "gen"} => todo \subseteq Made
Goals == {Where(x) : x \in Made}

\* A staged file is indexed, or going to be, or was left by a stopped build.
Found(r) == sidx[r] = {} => \A x \in stage[r] : \/ x[3] \in stopped
                                                \/ pc = "gen" /\ x[3] = builds
                                                \/ pc = "index" /\ x[3] = builds /\ r \in todo

\* Indexes are exact wherever nothing is in progress and nothing was stopped.
Exact(r) ==
    stops = 0 =>
        /\ sidx[r] = Newest(stage[r]) \/ (pc \in {"unlink", "gen"} /\ r \in Goals)
              \/ (pc = "index" /\ r \in todo) \/ (pc = "move" /\ r = cur)
        /\ ridx[r] = Newest(repo[r]) \/ (pc \in {"move", "reindex"} /\ r = cur)

\* The inductive invariant.
Sound(r) == Files(r) /\ Known(r) /\ Dated(r) /\ Found(r) /\ Exact(r)
StagingInv == StagingTypeOK /\ Making /\ \A r \in Repos : Sound(r)
-------------------------------------------------------------------------------
LEMMA NewestIs ==
  ASSUME NEW S
  PROVE  Newest(S) = {x \in S : \A y \in S : ~Later(y, x)}
BY DEF Newest, R!Newest, R!Newer, R!SameName, Later

LEMMA SameFileIs == \A x, y : SameFile(x, y) <=> (x[1] = y[1] /\ x[2] = y[2])
BY DEF SameFile, R!SameFile

\* A package is its file and the number of its build.
LEMMA PackagesAre ==
  ASSUME NEW x \in Packages
  PROVE  /\ x[3] \in 1..MaxBuilds /\ x[3] \in Nat /\ Where(x) \in Repos
         /\ \A y \in Packages : SameFile(x, y) /\ x[3] = y[3] => x = y
<1>1. \A y \in Packages : y = <<y[1], y[2], y[3]>> /\ y[3] \in 1..MaxBuilds /\ y[1] \in Names
  BY DEF Packages
<1>2. Where(x) \in Repos
  BY <1>1, MakesAssumption DEF Where, Names
<1>3. \A y \in Packages : SameFile(x, y) /\ x[3] = y[3] => x = y
  BY <1>1, SameFileIs
<1>4. QED
  BY <1>1, <1>2, <1>3

\* Packages are finitely many builds, so there is a latest one.
LEMMA LessIs ==
  ASSUME NEW m \in Nat, NEW k \in Nat
  PROVE  <<k, m>> \in OpToRel(<, Nat) <=> k < m
BY Zenon DEF OpToRel

LEMMA LatestExists ==
  ASSUME NEW S \in SUBSET Packages, NEW w \in S
  PROVE  w \in Newest(S) \/ \E z \in Newest(S) : Later(z, w)
<1> DEFINE T == {MaxBuilds - z[3] : z \in {y \in S : y[1] = w[1]}}
<1>1. T \subseteq Nat /\ T # {}
  BY PackagesAre
<1>2. PICK m \in T : \A k \in T : ~(<<k, m>> \in OpToRel(<, Nat))
  <2> HIDE DEF T
  <2> QED BY <1>1, NatLessThanWellFounded, WFMin
<1>3. \A k \in T : m <= k
  <2> HIDE DEF T
  <2>1. m \in Nat /\ \A k \in T : k \in Nat /\ ~(k < m)
    BY <1>1, <1>2, LessIs
  <2>2. QED
    BY <2>1
<1>4. PICK z \in S : z[1] = w[1] /\ m = MaxBuilds - z[3]
  OBVIOUS
<1>5. \A y \in S : y[1] = w[1] => y[3] <= z[3]
  <2> SUFFICES ASSUME NEW y \in S, y[1] = w[1] PROVE y[3] <= z[3]
    OBVIOUS
  <2>1. m <= MaxBuilds - y[3]
    BY <1>3
  <2>2. y[3] \in Nat /\ z[3] \in Nat
    BY PackagesAre
  <2>3. QED
    BY <1>4, <2>1, <2>2
<1>6. z \in Newest(S)
  BY <1>4, <1>5, NewestIs, PackagesAre DEF Later
<1>7. w[3] = z[3] \/ z[3] > w[3]
  BY <1>5, PackagesAre
<1>8. CASE z[3] > w[3]
  BY <1>4, <1>6, <1>8 DEF Later
<1>9. CASE w[3] = z[3]
  BY <1>4, <1>5, <1>9, NewestIs, PackagesAre DEF Later
<1>10. QED
  BY <1>7, <1>8, <1>9

LEMMA NewestSole ==
  ASSUME NEW S \in SUBSET Packages
  PROVE  /\ Newest(S) \in SUBSET S /\ Sole(Newest(S))
         /\ S # {} => Newest(S) # {}
BY NewestIs, LatestExists DEF Sole
-------------------------------------------------------------------------------
LEMMA Typing ==
  ASSUME StagingTypeOK, Next
  PROVE  StagingTypeOK'
<1> USE DEF StagingTypeOK, TypeOK, Overlays, Triples, files, aux
<1>1. ASSUME NEW t \in Templates, NEW v \in Versions, Generate(t, v) PROVE StagingTypeOK'
  <2>1. {<<n, v, builds + 1>> : n \in Makes[t]} \subseteq Packages
    BY <1>1 DEF Packages, Names, Generate
  <2>2. QED
    BY <1>1, <2>1 DEF Generate
<1>2. ASSUME NEW x \in Packages, UnlinkOld(x) PROVE StagingTypeOK'
  BY <1>2, PackagesAre DEF UnlinkOld
<1>3. ASSUME NEW x \in Packages, MakePackage(x) PROVE StagingTypeOK'
  BY <1>3, PackagesAre, SameFileIs DEF MakePackage, Write
<1>4. ASSUME NEW x \in Packages, Move(x) PROVE StagingTypeOK'
  BY <1>4, PackagesAre, SameFileIs DEF Move, Write
<1>5. CASE UnlinkEnd
  BY <1>5 DEF UnlinkEnd
<1>6. CASE GenEnd
  BY <1>6, PackagesAre DEF GenEnd
<1>7. ASSUME NEW r \in Repos, IndexStage(r) PROVE StagingTypeOK'
  BY <1>7, NewestSole DEF IndexStage, Idle
<1>8. CASE Clear
  BY <1>8 DEF Clear
<1>9. ASSUME NEW r \in Repos, Migrate(r) PROVE StagingTypeOK'
  BY <1>9 DEF Migrate, NextRepo, Idle
<1>10. ASSUME NEW r \in Repos, Merge(r) PROVE StagingTypeOK'
  BY <1>10 DEF Merge
<1>11. CASE DropIndex
  BY <1>11 DEF DropIndex
<1>12. CASE Reindex
  BY <1>12, NewestSole DEF Reindex, NextRepo, Idle
<1>13. CASE ReindexFail
  BY <1>13 DEF ReindexFail, NextRepo, Idle
<1>14. ASSUME NEW r \in Repos, Index(r) PROVE StagingTypeOK'
  BY <1>14, NewestSole DEF Index
<1>15. ASSUME NEW r \in Repos, NEW x \in Packages, Prune(r, x) PROVE StagingTypeOK'
  BY <1>15 DEF Prune
<1>16. CASE Stop
  BY <1>16 DEF Stop, Idle
<1>17. QED
  BY <1>1, <1>2, <1>3, <1>4, <1>5, <1>6, <1>7, <1>8, <1>9, <1>10, <1>11, <1>12, <1>13, <1>14,
     <1>15, <1>16 DEF Next
-------------------------------------------------------------------------------
\* What no step touches stays as it is known.
Untouched(r) == /\ stage'[r] = stage[r] /\ sidx'[r] = sidx[r] /\ repo'[r] = repo[r]
                /\ ridx'[r] = ridx[r] /\ held'[r] = held[r] /\ started \subseteq started'
LEMMA Frame ==
  ASSUME NEW r \in Repos, Untouched(r)
  PROVE  /\ Files(r) => Files(r)'
         /\ Known(r) => Known(r)'
BY DEF Untouched, Files, Known, Sole, Later, SameFile, R!SameFile

\* A file is staged or in the repository, not both.
LEMMA Disjoint ==
  ASSUME StagingInv, NEW r \in Repos
  PROVE  /\ stage[r] \cap repo[r] = {}
         /\ stage[r] \cup sidx[r] \cup repo[r] \cup ridx[r] \cup held[r] \subseteq Packages
BY PackagesAre, SameFileIs DEF StagingInv, Sound, Files, StagingTypeOK, Overlays

\* The steps that move no file: a command begins, goes on or ends.
LEMMA GenerateStep ==
  ASSUME StagingInv, NEW t \in Templates, NEW v \in Versions, Generate(t, v), StagingTypeOK'
  PROVE  Making' /\ \A r \in Repos : Sound(r)'
<1> USE DEF Generate, files, aux
<1>1. Making'
  BY DEF Making, Made
<1>2. ASSUME NEW r \in Repos PROVE Sound(r)'
  <2>1. Sound(r) /\ Untouched(r)
    BY DEF StagingInv, Untouched
  <2>2. stage[r] \cup sidx[r] \cup repo[r] \cup ridx[r] \subseteq Packages /\ builds \in Nat
    BY DEF StagingInv, StagingTypeOK, Overlays, TypeOK
  <2>3. \A x \in stage[r] \cup sidx[r] \cup repo[r] \cup ridx[r] : x[3] < builds + 1
    BY <2>1, <2>2, PackagesAre DEF Sound, Dated
  <2>4. Dated(r)'
    BY <2>2, <2>3, PackagesAre DEF Dated
  <2>5. Found(r)' /\ Exact(r)'
    BY <2>1 DEF Sound, Found, Exact
  <2>6. QED
    BY <2>1, <2>4, <2>5, Frame DEF Sound
<1>3. QED
  BY <1>1, <1>2

LEMMA QuietStep ==
  ASSUME StagingInv, StagingTypeOK',
         \/ UnlinkEnd \/ GenEnd \/ Clear \/ ReindexFail \/ Stop
         \/ \E r \in Repos : Merge(r)
  PROVE  Making' /\ \A r \in Repos : Sound(r)'
<1> USE DEF files, aux
<1>1. Making'
  BY DEF StagingInv, Making, Made, UnlinkEnd, GenEnd, Clear, ReindexFail, NextRepo, Idle, Stop, Merge
<1>2. ASSUME NEW r \in Repos PROVE Sound(r)'
  <2>1. Sound(r) /\ Untouched(r)
    BY DEF StagingInv, Untouched, UnlinkEnd, GenEnd, Clear, ReindexFail, Stop, Merge
  <2>2. builds' = builds /\ started' = started /\ stops \in Nat /\ stopped \subseteq stopped'
    BY DEF StagingInv, StagingTypeOK, TypeOK, UnlinkEnd, GenEnd, Clear, ReindexFail, Stop, Merge
  <2>3. Dated(r)'
    BY <2>1, <2>2 DEF Sound, Dated, Untouched, UnlinkEnd, GenEnd, Clear, ReindexFail, NextRepo, Idle,
       Stop, Merge
  <2>4. Found(r)'
    <3>1. CASE GenEnd
      <4>1. \A x \in stage[r] : x[3] = builds => r \in todo'
        BY <2>1, <3>1, PackagesAre
           DEF StagingInv, StagingTypeOK, TypeOK, Triples, Sound, Files, GenEnd
      <4>2. QED
        BY <2>1, <3>1, <4>1 DEF Sound, Found, GenEnd
    <3>2. CASE Stop
      BY <2>1, <3>2 DEF Sound, Found, Stop, Idle
    <3>3. CASE UnlinkEnd
      BY <2>1, <3>3 DEF Sound, Found, UnlinkEnd
    <3>4. CASE ReindexFail
      BY <2>1, <3>4 DEF Sound, Found, ReindexFail
    <3>5. CASE Clear \/ \E q \in Repos : Merge(q)
      BY <2>1, <3>5 DEF Sound, Found, Clear, Merge
    <3>6. QED
      BY <3>1, <3>2, <3>3, <3>4, <3>5
  <2>5. Exact(r)'
    <3>1. CASE GenEnd
      <4>1. todo' = Goals
        BY <3>1 DEF GenEnd, Goals, Made
      <4>2. QED
        BY <2>1, <3>1, <4>1 DEF Sound, Exact, GenEnd
    <3>2. CASE Stop \/ ReindexFail
      BY <2>2, <3>2 DEF Exact, Stop, ReindexFail
    <3>3. CASE UnlinkEnd
      BY <2>1, <3>3 DEF Sound, Exact, UnlinkEnd, Goals, Made
    <3>4. CASE Clear \/ \E q \in Repos : Merge(q)
      BY <2>1, <3>4 DEF Sound, Exact, Clear, Merge
    <3>5. QED
      BY <3>1, <3>2, <3>3, <3>4
  <2>6. QED
    BY <2>1, <2>3, <2>4, <2>5, Frame DEF Sound
<1>3. QED
  BY <1>1, <1>2
-------------------------------------------------------------------------------
\* Generation: an old package of the same file makes way, then the new ones
\* are written, then their overlays are indexed.
LEMMA UnlinkOldStep ==
  ASSUME StagingInv, NEW x \in Packages, UnlinkOld(x), StagingTypeOK'
  PROVE  Making' /\ \A r \in Repos : Sound(r)'
<1> USE DEF UnlinkOld
<1>1. Making' /\ x \in started /\ x[3] = builds
  BY DEF StagingInv, Making, Made
<1>2. ASSUME NEW r \in Repos PROVE Sound(r)'
  <2>1. Sound(r)
    BY DEF StagingInv
  <2>2. CASE r # Where(x)
    <3>1. Untouched(r)
      BY <2>2 DEF Untouched, StagingInv, StagingTypeOK, Overlays
    <3>2. Dated(r)' /\ Found(r)' /\ Exact(r)'
      BY <2>1, <3>1 DEF Sound, Dated, Found, Exact, Goals, Made, Untouched
    <3>3. QED
      BY <2>1, <3>1, <3>2, Frame DEF Sound
  <2>3. CASE r = Where(x)
    <3>1. /\ stage'[r] = {y \in stage[r] : ~SameFile(x, y)}
          /\ held'[r] = {y \in held[r] : ~(SameFile(x, y) /\ y \in stage[r])}
          /\ UNCHANGED <<sidx, repo, ridx, started, stopped, pc, todo, builds, stops>>
      BY <2>3 DEF StagingInv, StagingTypeOK, Overlays
    <3>2. Files(r)'
      BY <2>1, <3>1 DEF Sound, Files
    <3>3. Known(r)'
      BY <2>1, <3>1, Disjoint DEF Sound, Known
    <3>4. Dated(r)' /\ Found(r)'
      BY <2>1, <3>1 DEF Sound, Dated, Found
    <3>5. r \in Goals'
      BY <1>1, <2>3 DEF Goals, Made
    <3>6. Exact(r)'
      BY <2>1, <3>1, <3>5 DEF Sound, Exact
    <3>7. QED
      BY <3>2, <3>3, <3>4, <3>6 DEF Sound
  <2>4. QED
    BY <2>2, <2>3
<1>3. QED
  BY <1>1, <1>2

LEMMA MakePackageStep ==
  ASSUME StagingInv, NEW x \in Packages, MakePackage(x), StagingTypeOK'
  PROVE  Making' /\ \A r \in Repos : Sound(r)'
<1> USE DEF MakePackage
<1>1. Making' /\ x \in started /\ x[3] = builds /\ \A y \in todo : y \in Packages /\ y[3] = builds
  BY DEF StagingInv, Making, Made, StagingTypeOK, TypeOK
<1>2. ASSUME NEW r \in Repos PROVE Sound(r)'
  <2>1. Sound(r)
    BY DEF StagingInv
  <2>2. CASE r # Where(x)
    <3>1. Untouched(r)
      BY <2>2 DEF Untouched, StagingInv, StagingTypeOK, Overlays
    <3>2. Dated(r)' /\ Found(r)' /\ Exact(r)'
      BY <2>1, <3>1 DEF Sound, Dated, Found, Exact, Goals, Made, Untouched
    <3>3. QED
      BY <2>1, <3>1, <3>2, Frame DEF Sound
  <2>3. CASE r = Where(x)
    <3>1. /\ stage'[r] = stage[r] \cup {x} /\ held'[r] = held[r] \cup {x}
          /\ UNCHANGED <<sidx, repo, ridx, started, stopped, pc, builds, stops>>
      BY <2>1, <2>3 DEF StagingInv, StagingTypeOK, Overlays, Write, Sound, Dated
    <3>2. \A y \in repo[r] \cup ridx[r] : y \in Packages /\ x[3] > y[3] /\ x # y
      BY <1>1, <2>1, PackagesAre DEF StagingInv, StagingTypeOK, Overlays, Sound, Dated
    <3>3. Files(r)'
      BY <1>1, <2>1, <3>1, <3>2 DEF Sound, Files
    <3>4. Known(r)'
      BY <2>1, <3>1 DEF Sound, Known
    <3>5. Dated(r)'
      <4>1. \A y \in todo \ {x} : ~SameFile(y, x)
        BY <1>1, PackagesAre
      <4>2. x[3] <= builds
        BY <1>1, PackagesAre
      <4>3. QED
        BY <2>1, <3>1, <4>1, <4>2 DEF Sound, Dated
    <3>6. Found(r)'
      BY <1>1, <2>1, <3>1 DEF Sound, Found
    <3>7. r \in Goals'
      BY <1>1, <2>3 DEF Goals, Made
    <3>8. Exact(r)'
      BY <2>1, <3>1, <3>7 DEF Sound, Exact
    <3>9. QED
      BY <3>3, <3>4, <3>5, <3>6, <3>8 DEF Sound
  <2>4. QED
    BY <2>2, <2>3
<1>3. QED
  BY <1>1, <1>2

LEMMA IndexStageStep ==
  ASSUME StagingInv, NEW q \in Repos, IndexStage(q), StagingTypeOK'
  PROVE  Making' /\ \A r \in Repos : Sound(r)'
<1> USE DEF IndexStage, Idle, aux
<1>1. Making'
  BY DEF Making
<1>2. ASSUME NEW r \in Repos PROVE Sound(r)'
  <2>1. Sound(r) /\ stage[r] \in SUBSET Packages
    BY DEF StagingInv, StagingTypeOK, Overlays
  <2>2. CASE r # q
    <3>1. Untouched(r)
      BY <2>2 DEF Untouched, StagingInv, StagingTypeOK, Overlays
    <3>2. r \in todo => pc' = "index" /\ r \in todo'
      BY <2>2
    <3>3. Dated(r)'
      BY <2>1, <3>1 DEF Sound, Dated, Untouched
    <3>4. Found(r)' /\ Exact(r)'
      BY <2>1, <3>1, <3>2 DEF Sound, Found, Exact, Untouched
    <3>5. QED
      BY <2>1, <3>1, <3>3, <3>4, Frame DEF Sound
  <2>3. CASE r = q
    <3>1. /\ sidx'[r] = Newest(stage[r])
          /\ UNCHANGED <<stage, repo, ridx, held, started, stopped, builds, stops>>
      BY <2>3 DEF StagingInv, StagingTypeOK, Overlays
    <3>2. Files(r)' /\ Known(r)'
      BY <2>1, <3>1, NewestSole DEF Sound, Files, Known
    <3>3. Dated(r)'
      BY <2>1, <3>1, NewestSole DEF Sound, Dated
    <3>4. Found(r)'
      BY <2>1, <3>1, NewestSole DEF Sound, Found
    <3>5. Exact(r)'
      BY <2>1, <3>1 DEF Sound, Exact
    <3>6. QED
      BY <3>2, <3>3, <3>4, <3>5 DEF Sound
  <2>4. QED
    BY <2>2, <2>3
<1>3. QED
  BY <1>1, <1>2
-------------------------------------------------------------------------------
\* Unstaging: the overlay becomes the repository, or its files are moved one by
\* one, and the repository is indexed in the end.
LEMMA MigrateStep ==
  ASSUME StagingInv, NEW q \in Repos, Migrate(q), StagingTypeOK'
  PROVE  Making' /\ \A r \in Repos : Sound(r)'
<1> USE DEF Migrate, NextRepo, Idle
<1>1. Making'
  BY DEF Making
<1>2. ASSUME NEW r \in Repos PROVE Sound(r)'
  <2>1. Sound(r)
    BY DEF StagingInv
  <2>2. CASE r # q
    <3>1. Untouched(r)
      BY <2>2 DEF Untouched, StagingInv, StagingTypeOK, Overlays
    <3>2. Dated(r)'
      BY <2>1, <3>1 DEF Sound, Dated, Untouched
    <3>3. Found(r)' /\ Exact(r)'
      BY <2>1, <3>1 DEF Sound, Found, Exact, Untouched
    <3>4. QED
      BY <2>1, <3>1, <3>2, <3>3, Frame DEF Sound
  <2>3. CASE r = q
    <3>1. /\ repo'[r] = stage[r] /\ ridx'[r] = sidx[r] /\ stage'[r] = {} /\ sidx'[r] = {}
          /\ held'[r] = held[r] \ (sidx[r] \cap stage[r])
          /\ repo[r] = {} /\ UNCHANGED <<started, stopped, builds, stops>>
      BY <2>3 DEF StagingInv, StagingTypeOK, Overlays
    <3>2. Files(r)'
      BY <2>1, <3>1 DEF Sound, Files, Sole
    <3>3. Known(r)'
      BY <2>1, <3>1 DEF Sound, Files, Known
    <3>4. Dated(r)' /\ Found(r)'
      BY <2>1, <3>1 DEF Sound, Dated, Found
    <3>5. Exact(r)'
      BY <2>1, <3>1, NewestIs DEF Sound, Exact
    <3>6. QED
      BY <3>2, <3>3, <3>4, <3>5 DEF Sound
  <2>4. QED
    BY <2>2, <2>3
<1>3. QED
  BY <1>1, <1>2

LEMMA MoveStep ==
  ASSUME StagingInv, NEW x \in Packages, Move(x), StagingTypeOK'
  PROVE  Making' /\ \A r \in Repos : Sound(r)'
<1> USE DEF Move
<1>1. Making' /\ cur \in Repos
  BY DEF Making, StagingInv, StagingTypeOK, TypeOK
<1>2. ASSUME NEW r \in Repos PROVE Sound(r)'
  <2>1. Sound(r)
    BY DEF StagingInv
  <2>2. CASE r # cur
    <3>1. Untouched(r)
      BY <1>1, <2>2 DEF Untouched, StagingInv, StagingTypeOK, Overlays
    <3>2. Dated(r)' /\ Found(r)' /\ Exact(r)'
      BY <2>1, <3>1 DEF Sound, Dated, Found, Exact, Goals, Made, Untouched
    <3>3. QED
      BY <2>1, <3>1, <3>2, Frame DEF Sound
  <2>3. CASE r = cur
    <3>1. /\ repo'[r] = {y \in repo[r] : ~SameFile(x, y)} \cup {x}
          /\ stage'[r] = stage[r] \ {x} /\ x \in stage[r]
          /\ held'[r] = {y \in held[r] : y = x \/ ~(SameFile(x, y) /\ y \in repo[r])}
          /\ UNCHANGED <<sidx, ridx, started, stopped, pc, cur, builds, stops>>
      BY <2>3 DEF StagingInv, StagingTypeOK, Overlays, Write
    <3>2. /\ x \in held[r] /\ x \notin repo[r] /\ x \notin ridx[r] /\ x \in held'[r]
          /\ \A y \in stage[r] : SameFile(y, x) => y = x
      BY <2>1, <3>1, Disjoint, SameFileIs DEF Sound, Files, StagingInv, StagingTypeOK, TypeOK
    <3>3. Files(r)'
      BY <2>1, <3>1, <3>2, Disjoint DEF Sound, Files
    <3>4. Known(r)'
      <4>1. SUFFICES ASSUME NEW w \in repo[r], ~SameFile(x, w)
                     PROVE  \/ w \in held'[r] \cup ridx'[r]
                            \/ \E z \in repo'[r] \cap (held'[r] \cup ridx'[r]) : Later(z, w)
        BY <3>1, <3>2 DEF Known
      <4>2. CASE w \in held[r] \cup ridx[r]
        BY <3>1, <4>1, <4>2
      <4>3. ASSUME NEW z \in repo[r] \cap (held[r] \cup ridx[r]), Later(z, w)
            PROVE  \E y \in repo'[r] \cap (held'[r] \cup ridx'[r]) : Later(y, w)
        <5>1. CASE ~SameFile(x, z)
          BY <3>1, <4>3, <5>1
        <5>2. CASE SameFile(x, z)
          <6>1. x[3] > z[3] /\ x[1] = z[1]
            BY <2>1, <3>1, <5>2, SameFileIs DEF Sound, Files
          <6>2. Later(x, w)
            BY <4>3, <6>1, Disjoint, PackagesAre DEF Later
          <6>3. QED
            BY <3>1, <3>2, <6>2
        <5>3. QED
          BY <5>1, <5>2
      <4>4. QED
        BY <2>1, <4>2, <4>3 DEF Sound, Known
    <3>5. Dated(r)' /\ Found(r)'
      BY <2>1, <3>1 DEF Sound, Dated, Found
    <3>6. Exact(r)'
      BY <2>3, <3>1 DEF Exact
    <3>7. QED
      BY <3>3, <3>4, <3>5, <3>6 DEF Sound
  <2>4. QED
    BY <2>2, <2>3
<1>3. QED
  BY <1>1, <1>2

LEMMA DropIndexStep ==
  ASSUME StagingInv, DropIndex, StagingTypeOK'
  PROVE  Making' /\ \A r \in Repos : Sound(r)'
<1> USE DEF DropIndex, aux
<1>1. Making' /\ cur \in Repos
  BY DEF Making, StagingInv, StagingTypeOK, TypeOK
<1>2. ASSUME NEW r \in Repos PROVE Sound(r)'
  <2>1. Sound(r)
    BY DEF StagingInv
  <2>2. CASE r # cur
    <3>1. Untouched(r)
      BY <1>1, <2>2 DEF Untouched, StagingInv, StagingTypeOK, Overlays
    <3>2. Dated(r)' /\ Found(r)' /\ Exact(r)'
      BY <2>1, <2>2, <3>1 DEF Sound, Dated, Found, Exact, Goals, Made, Untouched
    <3>3. QED
      BY <2>1, <3>1, <3>2, Frame DEF Sound
  <2>3. CASE r = cur
    <3>1. /\ sidx'[r] = {} /\ stage[r] = {} /\ stage' = stage
          /\ UNCHANGED <<repo, ridx, held, started, stopped, cur, builds, stops>>
      BY <2>3 DEF StagingInv, StagingTypeOK, Overlays
    <3>2. Files(r)' /\ Known(r)'
      BY <2>1, <3>1 DEF Sound, Files, Known, Sole
    <3>3. Dated(r)' /\ Found(r)'
      BY <2>1, <3>1 DEF Sound, Dated, Found
    <3>4. Exact(r)'
      BY <2>1, <2>3, <3>1, NewestIs DEF Sound, Exact
    <3>5. QED
      BY <3>2, <3>3, <3>4 DEF Sound
  <2>4. QED
    BY <2>2, <2>3
<1>3. QED
  BY <1>1, <1>2
-------------------------------------------------------------------------------
\* Indexing publishes what is in the repository.
LEMMA Publishing ==
  ASSUME StagingInv, NEW r \in Repos,
         ridx'[r] = Newest(repo[r]), held'[r] = held[r] \ repo[r],
         UNCHANGED <<stage, sidx, repo, started>>
  PROVE  Files(r)' /\ Known(r)'
<1>1. Files(r) /\ repo[r] \in SUBSET Packages
  BY DEF StagingInv, Sound, StagingTypeOK, Overlays
<1>2. /\ ridx'[r] \subseteq repo[r] /\ Sole(ridx'[r])
      /\ \A w \in repo[r] : w \in ridx'[r] \/ \E z \in ridx'[r] : Later(z, w)
  BY <1>1, NewestSole, LatestExists
<1>3. Files(r)'
  BY <1>1, <1>2, Disjoint DEF Files, Sole
<1>4. Known(r)'
  BY <1>2 DEF Known
<1>5. QED
  BY <1>3, <1>4

LEMMA ReindexStep ==
  ASSUME StagingInv, Reindex, StagingTypeOK'
  PROVE  Making' /\ \A r \in Repos : Sound(r)'
<1> USE DEF Reindex, NextRepo, Idle
<1>1. Making' /\ cur \in Repos
  BY DEF Making, StagingInv, StagingTypeOK, TypeOK
<1>2. ASSUME NEW r \in Repos PROVE Sound(r)'
  <2>1. Sound(r) /\ repo[r] \in SUBSET Packages
    BY DEF StagingInv, StagingTypeOK, Overlays
  <2>2. CASE r # cur
    <3>1. Untouched(r)
      BY <1>1, <2>2 DEF Untouched, StagingInv, StagingTypeOK, Overlays
    <3>2. Dated(r)'
      BY <2>1, <3>1 DEF Sound, Dated, Untouched
    <3>3. Found(r)' /\ Exact(r)'
      BY <2>1, <2>2, <3>1 DEF Sound, Found, Exact, Untouched
    <3>4. QED
      BY <2>1, <3>1, <3>2, <3>3, Frame DEF Sound
  <2>3. CASE r = cur
    <3>1. /\ ridx'[r] = Newest(repo[r]) /\ held'[r] = held[r] \ repo[r]
          /\ UNCHANGED <<stage, sidx, repo, started, stopped, builds, stops>>
      BY <2>3 DEF StagingInv, StagingTypeOK, Overlays
    <3>2. Files(r)' /\ Known(r)'
      BY <3>1, Publishing
    <3>3. Dated(r)'
      BY <2>1, <3>1, NewestSole DEF Sound, Dated
    <3>4. Found(r)'
      BY <2>1, <3>1 DEF Sound, Found
    <3>5. Exact(r)'
      BY <2>1, <3>1 DEF Sound, Exact
    <3>6. QED
      BY <3>2, <3>3, <3>4, <3>5 DEF Sound
  <2>4. QED
    BY <2>2, <2>3
<1>3. QED
  BY <1>1, <1>2

LEMMA IndexStep ==
  ASSUME StagingInv, NEW q \in Repos, Index(q), StagingTypeOK'
  PROVE  Making' /\ \A r \in Repos : Sound(r)'
<1> USE DEF Index
<1>1. Making'
  BY DEF Making
<1>2. ASSUME NEW r \in Repos PROVE Sound(r)'
  <2>1. Sound(r) /\ repo[r] \in SUBSET Packages
    BY DEF StagingInv, StagingTypeOK, Overlays
  <2>2. CASE r # q
    <3>1. Untouched(r)
      BY <2>2 DEF Untouched, StagingInv, StagingTypeOK, Overlays
    <3>2. Dated(r)' /\ Found(r)' /\ Exact(r)'
      BY <2>1, <3>1 DEF Sound, Dated, Found, Exact, Untouched
    <3>3. QED
      BY <2>1, <3>1, <3>2, Frame DEF Sound
  <2>3. CASE r = q
    <3>1. /\ ridx'[r] = Newest(repo[r]) /\ held'[r] = held[r] \ repo[r]
          /\ UNCHANGED <<stage, sidx, repo, started, stopped, pc, builds, stops>>
      BY <2>3 DEF StagingInv, StagingTypeOK, Overlays
    <3>2. Files(r)' /\ Known(r)'
      BY <3>1, Publishing
    <3>3. Dated(r)'
      BY <2>1, <3>1, NewestSole DEF Sound, Dated
    <3>4. Found(r)' /\ Exact(r)'
      BY <2>1, <3>1 DEF Sound, Found, Exact
    <3>5. QED
      BY <3>2, <3>3, <3>4 DEF Sound
  <2>4. QED
    BY <2>2, <2>3
<1>3. QED
  BY <1>1, <1>2

\* What is pruned has a successor that is indexed or can still be.
LEMMA PrunedHasLater ==
  ASSUME StagingInv, NEW r \in Repos, NEW x \in repo[r], x \notin Newest(repo[r])
  PROVE  \E z \in repo[r] \cap (held[r] \cup ridx[r]) : Later(z, x) /\ z # x
<1>1. PICK y \in repo[r] : Later(y, x)
  BY NewestIs
<1>2. PICK z \in repo[r] \cap (held[r] \cup ridx[r]) : z = y \/ Later(z, y)
  BY DEF StagingInv, Sound, Known
<1>3. Later(z, x) /\ z # x
  BY <1>1, <1>2, Disjoint, PackagesAre DEF Later
<1>4. QED
  BY <1>2, <1>3

LEMMA PruneStep ==
  ASSUME StagingInv, NEW q \in Repos, NEW x \in Packages, Prune(q, x), StagingTypeOK'
  PROVE  Making' /\ \A r \in Repos : Sound(r)'
<1> USE DEF Prune
<1>1. Making'
  BY DEF Making
<1>2. ASSUME NEW r \in Repos PROVE Sound(r)'
  <2>1. Sound(r) /\ repo[r] \in SUBSET Packages
    BY DEF StagingInv, StagingTypeOK, Overlays
  <2>2. CASE r # q
    <3>1. Untouched(r)
      BY <2>2 DEF Untouched, StagingInv, StagingTypeOK, Overlays
    <3>2. Dated(r)' /\ Found(r)' /\ Exact(r)'
      BY <2>1, <3>1 DEF Sound, Dated, Found, Exact, Untouched
    <3>3. QED
      BY <2>1, <3>1, <3>2, Frame DEF Sound
  <2>3. CASE r = q
    <3>1. /\ repo'[r] = repo[r] \ {x} /\ held'[r] = held[r] \ {x}
          /\ x \in repo[r] \ Newest(repo[r])
          /\ UNCHANGED <<stage, sidx, ridx, started, stopped, pc, builds, stops>>
      BY <2>3 DEF StagingInv, StagingTypeOK, Overlays
    <3>2. PICK z \in repo[r] \cap (held[r] \cup ridx[r]) : Later(z, x) /\ z # x
      BY <3>1, PrunedHasLater
    <3>3. \A w \in repo[r] : Later(x, w) => Later(z, w)
      BY <2>1, <3>2, PackagesAre DEF Later
    <3>4. Files(r)'
      BY <2>1, <3>1, Disjoint DEF Sound, Files
    <3>5. Known(r)'
      BY <2>1, <3>1, <3>2, <3>3 DEF Sound, Known
    <3>6. Dated(r)' /\ Found(r)'
      BY <2>1, <3>1 DEF Sound, Dated, Found
    <3>7. Newest(repo'[r]) = Newest(repo[r])
      BY <3>1, <3>2, <3>3, NewestIs
    <3>8. Exact(r)'
      BY <2>1, <3>1, <3>7 DEF Sound, Exact
    <3>9. QED
      BY <3>4, <3>5, <3>6, <3>8 DEF Sound
  <2>4. QED
    BY <2>2, <2>3
<1>3. QED
  BY <1>1, <1>2
-------------------------------------------------------------------------------
LEMMA Inductive ==
  ASSUME StagingInv, [Next]_vars
  PROVE  StagingInv'
<1>1. CASE Next
  <2>1. StagingTypeOK'
    BY <1>1, Typing DEF StagingInv
  <2>2. Making' /\ \A r \in Repos : Sound(r)'
    BY <1>1, <2>1, GenerateStep, UnlinkOldStep, MakePackageStep, MoveStep, QuietStep, IndexStageStep,
       MigrateStep, DropIndexStep, ReindexStep, IndexStep, PruneStep DEF Next
  <2>3. QED
    BY <2>1, <2>2 DEF StagingInv
<1>2. CASE UNCHANGED vars
  BY <1>2 DEF vars, files, aux, StagingInv, StagingTypeOK, TypeOK, Triples, Making, Made, Goals,
     Sound, Files, Known, Dated, Found, Exact, Sole, Newest, R!Newest
<1>3. QED
  BY <1>1, <1>2

LEMMA Beginning == Init => StagingInv
<1> SUFFICES ASSUME Init PROVE StagingInv
  OBVIOUS
<1>1. StagingTypeOK /\ Making
  BY DEF Init, Empty, StagingTypeOK, Overlays, TypeOK, Triples, Making
<1>2. ASSUME NEW r \in Repos PROVE Sound(r)
  BY NewestIs DEF Init, Empty, Sound, Files, Known, Dated, Found, Exact, Sole
<1>3. QED
  BY <1>1, <1>2 DEF StagingInv

LEMMA Invariance == Spec => []StagingInv
BY Beginning, Inductive, PTL DEF Spec

\* core/stage.py, apk/cli.py: files, indexes and what is in progress have the
\* types of the code, and no directory ever holds two packages of one file name.
THEOREM TypeCorrect == Spec => []TypeOK
<1>1. StagingInv => TypeOK
  BY DEF StagingInv, StagingTypeOK
<1>2. QED
  BY <1>1, Invariance, PTL

\* stage.py:361-377: what is not published is where the next unstaging or
\* indexing finds it, unless it was left by a stopped build.
THEOREM FindableCorrect == Spec => []Findable
<1>1. StagingInv => Findable
  BY DEF StagingInv, Sound, Files, Found, Findable
<1>2. QED
  BY <1>1, Invariance, PTL

\* cli.py:300-348: as long as no command is stopped, indexes list exactly the
\* latest builds.
THEOREM ExactIndexesCorrect == Spec => []ExactIndexes
<1>1. StagingInv => ExactIndexes
  BY DEF StagingInv, Sound, Exact, ExactIndexes
<1>2. QED
  BY <1>1, Invariance, PTL
-------------------------------------------------------------------------------
\* The refinement: what a step of the files means to who installs packages.
Promised == R!Next \/ UNCHANGED R!rvars
Pub(r) == ridx[r] \cap repo[r]

\* A step that changes one repository at most.
Only(q) == /\ \A r \in Repos : r # q => /\ ridx'[r] = ridx[r] /\ repo'[r] = repo[r]
                                       /\ held'[r] = held[r]
           /\ started' = started
LEMMA OnlyOne ==
  ASSUME StagingInv, StagingTypeOK', NEW q \in Repos, Only(q)
  PROVE  /\ Installable' = [Installable EXCEPT ![q] = Pub(q)']
         /\ held' = [held EXCEPT ![q] = held'[q]]
         /\ Installable[q] = Pub(q)
BY DEF StagingInv, StagingTypeOK, Overlays, Only, Installable, Pub

\* Nothing changes for anybody.
LEMMA Stutter ==
  ASSUME UNCHANGED <<ridx, repo, held, started>>
  PROVE  Promised
BY DEF Promised, R!rvars, Installable
LEMMA Nothing ==
  ASSUME StagingInv, StagingTypeOK', NEW q \in Repos, Only(q), Pub(q)' = Pub(q), held'[q] = held[q]
  PROVE  Promised
<1>1. Installable' = Installable
  BY OnlyOne DEF Installable
<1>2. held' = held
  <2>1. held \in Overlays /\ held' \in Overlays /\ \A r \in Repos : held'[r] = held[r]
    BY DEF StagingInv, StagingTypeOK, Only
  <2>2. QED
    BY <2>1 DEF Overlays
<1>3. QED
  BY <1>1, <1>2 DEF Promised, R!rvars, Only

\* A package stops being announced.
LEMMA Withdrawing ==
  ASSUME StagingInv, StagingTypeOK', NEW q \in Repos, Only(q), Pub(q)' = Pub(q),
         NEW x \in Packages, held'[q] = held[q] \ {x},
         \/ \E y \in started : SameFile(x, y) /\ Later(y, x)
         \/ \E y \in held[q] \cup Pub(q) : Later(y, x)
  PROVE  Promised
<1>1. Installable' = Installable
  BY OnlyOne DEF Installable
<1>2. R!Withdraw(q, x)
  BY <1>1, OnlyOne, SameFileIs DEF R!Withdraw, R!SameFile, R!Newer, R!SameName, Later, Only
<1>3. QED
  BY <1>2 DEF Promised, R!Next

\* A published package goes, and its successor is staged.
LEMMA Forgetting ==
  ASSUME StagingInv, StagingTypeOK', NEW q \in Repos, Only(q), held'[q] = held[q],
         NEW x \in Packages, Pub(q)' = Pub(q) \ {x}, \E y \in held[q] : Later(y, x)
  PROVE  Promised
<1>1. held' = held
  BY OnlyOne DEF StagingInv, StagingTypeOK, Overlays
<1>2. R!Forget(q, x)
  BY <1>1, OnlyOne DEF R!Forget, R!Newer, R!SameName, Later, Only
<1>3. QED
  BY <1>2 DEF Promised, R!Next

\* Packages are published, if there are any.
LEMMA PublishingThem ==
  ASSUME StagingInv, StagingTypeOK', NEW q \in Repos, Only(q),
         NEW X \in SUBSET held[q], held'[q] = held[q] \ X, Pub(q)' = Newest(Pub(q) \cup X)
  PROVE  Promised
<1>1. CASE X = {}
  <2>1. Sole(Pub(q))
    BY DEF StagingInv, Sound, Files, Sole, Pub
  <2>2. Pub(q)' = Pub(q) /\ held'[q] = held[q]
    BY <1>1, <2>1, NewestIs DEF Sole
  <2>3. QED
    BY <2>2, Nothing
<1>2. CASE X # {}
  <2>1. R!Publish(q, X)
    BY <1>2, OnlyOne DEF R!Publish, Newest, Only
  <2>2. QED
    BY <2>1 DEF Promised, R!Next
<1>3. QED
  BY <1>1, <1>2
-------------------------------------------------------------------------------
LEMMA GenerateKeeps ==
  ASSUME StagingInv, StagingTypeOK', NEW t \in Templates, NEW v \in Versions, Generate(t, v)
  PROVE  Promised
<1>1. R!Begin
  BY DEF R!Begin, Generate, files, Installable, StagingTypeOK, TypeOK
<1>2. QED
  BY <1>1 DEF Promised, R!Next

LEMMA UnlinkOldKeeps ==
  ASSUME StagingInv, StagingTypeOK', NEW x \in Packages, UnlinkOld(x)
  PROVE  Promised
<1> DEFINE q == Where(x)
<1>1. q \in Repos /\ Only(q) /\ Pub(q)' = Pub(q)
  BY PackagesAre DEF UnlinkOld, Only, Pub, StagingInv, StagingTypeOK, Overlays
<1>2. PICK y \in stage[q] : SameFile(x, y)
  BY DEF UnlinkOld
<1>3. held'[q] = held[q] \ {y}
  BY <1>1, <1>2, SameFileIs DEF UnlinkOld, StagingInv, StagingTypeOK, Overlays, TypeOK
<1>4. x \in started /\ SameFile(y, x) /\ Later(x, y) /\ y \in Packages
  <2>1. x \in started /\ x[3] = builds
    BY DEF UnlinkOld, StagingInv, Making, Made
  <2>2. y[3] < builds /\ y \in Packages
    BY <1>1, <1>2, Disjoint DEF UnlinkOld, StagingInv, Sound, Dated
  <2>3. QED
    BY <1>2, <2>1, <2>2, SameFileIs, PackagesAre DEF Later
<1>5. QED
  BY <1>1, <1>3, <1>4, Withdrawing

LEMMA MakePackageKeeps ==
  ASSUME StagingInv, StagingTypeOK', NEW x \in Packages, MakePackage(x)
  PROVE  Promised
<1>1. Where(x) \in Repos /\ x \in started
  BY PackagesAre DEF MakePackage, StagingInv, Making, Made
<1>2. R!Stage(Where(x), x)
  BY <1>1 DEF R!Stage, MakePackage, Installable
<1>3. QED
  BY <1>1, <1>2 DEF Promised, R!Next

LEMMA MigrateKeeps ==
  ASSUME StagingInv, StagingTypeOK', NEW q \in Repos, Migrate(q)
  PROVE  Promised
<1> DEFINE X == sidx[q] \cap stage[q]
<1>1. /\ Only(q) /\ Pub(q) = {} /\ Pub(q)' = X /\ held'[q] = held[q] \ X
  BY DEF Migrate, Only, Pub, StagingInv, StagingTypeOK, Overlays
<1>2. X \in SUBSET held[q] /\ Newest(X) = X
  BY NewestIs DEF StagingInv, Sound, Files, Sole
<1>3. QED
  BY <1>1, <1>2, PublishingThem

LEMMA MoveKeeps ==
  ASSUME StagingInv, StagingTypeOK', NEW x \in Packages, Move(x)
  PROVE  Promised
<1> PICK q \in Repos : q = cur
  BY DEF Move, StagingInv, StagingTypeOK, TypeOK
<1>1. Only(q)
  BY DEF Move, Only, StagingInv, StagingTypeOK, Overlays
<1>2. /\ repo'[q] = {y \in repo[q] : ~SameFile(x, y)} \cup {x}
      /\ held'[q] = {y \in held[q] : y = x \/ ~(SameFile(x, y) /\ y \in repo[q])}
      /\ ridx'[q] = ridx[q] /\ x \in stage[q]
  BY DEF Move, StagingInv, StagingTypeOK, Overlays, Write
<1>3. x \in held[q] /\ x \in started /\ x \notin ridx[q] /\ x \notin repo[q]
  BY <1>1, <1>2, Disjoint DEF StagingInv, Sound, Files
<1>4. CASE \A y \in repo[q] : ~SameFile(x, y)
  <2>1. Pub(q)' = Pub(q) /\ held'[q] = held[q]
    BY <1>2, <1>3, <1>4 DEF Pub
  <2>2. QED
    BY <1>1, <2>1, Nothing
<1>5. ASSUME NEW y \in repo[q], SameFile(x, y) PROVE Promised
  <2>1. y \in Packages /\ Later(x, y) /\ SameFile(y, x) /\ x # y
    BY <1>1, <1>2, <1>3, <1>5, Disjoint, SameFileIs DEF StagingInv, Sound, Files, Later
  <2>2. \A z \in repo[q] : SameFile(x, z) => z = y
    BY <1>1, <1>5, SameFileIs DEF StagingInv, StagingTypeOK, TypeOK
  <2>3. Pub(q)' = Pub(q) \ {y} /\ held'[q] = held[q] \ {y}
    BY <1>2, <1>3, <1>5, <2>1, <2>2 DEF Pub
  <2>4. CASE y \in ridx[q]
    <3>1. held'[q] = held[q]
      BY <1>1, <1>5, <2>3, <2>4 DEF StagingInv, Sound, Files
    <3>2. QED
      BY <1>1, <1>3, <2>1, <2>3, <3>1, Forgetting
  <2>5. CASE y \notin ridx[q]
    <3>1. Pub(q)' = Pub(q)
      BY <2>3, <2>5 DEF Pub
    <3>2. QED
      BY <1>1, <1>3, <2>1, <2>3, <3>1, Withdrawing
  <2>6. QED
    BY <2>4, <2>5
<1>6. QED
  BY <1>4, <1>5

\* Indexing publishes the latest of what was and what was not published, because
\* whatever else is in the repository is older than one of these.
LEMMA IndexingKeeps ==
  ASSUME StagingInv, StagingTypeOK', NEW q \in Repos, Only(q), repo' = repo,
         ridx'[q] = Newest(repo[q]), held'[q] = held[q] \ repo[q]
  PROVE  Promised
<1> DEFINE X == held[q] \cap repo[q]
<1>1. X \in SUBSET held[q] /\ held'[q] = held[q] \ X
  OBVIOUS
<1>2. Pub(q)' = Newest(repo[q])
  BY NewestIs DEF Pub
<1>3. Newest(repo[q]) = Newest(Pub(q) \cup X)
  <2>1. Pub(q) \cup X = repo[q] \cap (held[q] \cup ridx[q])
    BY DEF Pub
  <2>2. \A w \in repo[q] : \/ w \in Pub(q) \cup X
                           \/ \E z \in Pub(q) \cup X : Later(z, w)
    BY <2>1 DEF StagingInv, Sound, Known
  <2>3. \A w, x, z \in repo[q] : Later(w, x) /\ Later(z, w) => Later(z, x)
    BY Disjoint, PackagesAre DEF Later
  <2>4. QED
    BY <2>1, <2>2, <2>3, NewestIs
<1>4. QED
  BY <1>1, <1>2, <1>3, PublishingThem

LEMMA PruneKeeps ==
  ASSUME StagingInv, StagingTypeOK', NEW q \in Repos, NEW x \in Packages, Prune(q, x)
  PROVE  Promised
<1>1. /\ Only(q) /\ Pub(q)' = Pub(q) \ {x} /\ held'[q] = held[q] \ {x}
      /\ x \in repo[q] /\ x \notin Newest(repo[q])
  BY DEF Prune, Only, Pub, StagingInv, StagingTypeOK, Overlays
<1>2. PICK z \in repo[q] \cap (held[q] \cup ridx[q]) : Later(z, x)
  BY <1>1, PrunedHasLater
<1>3. CASE x \in ridx[q]
  <2>1. x \notin held[q] /\ z \in held[q]
    BY <1>1, <1>2, <1>3 DEF StagingInv, Sound, Files, Sole
  <2>2. QED
    BY <1>1, <1>2, <2>1, Forgetting
<1>4. CASE x \notin ridx[q]
  <2>1. Pub(q)' = Pub(q) /\ z \in held[q] \cup Pub(q)
    BY <1>1, <1>2, <1>4 DEF Pub
  <2>2. QED
    BY <1>1, <1>2, <2>1, Withdrawing
<1>5. QED
  BY <1>3, <1>4

\* Every step keeps the promise of the repository or changes nothing in it.
LEMMA StepKeepsPromise ==
  ASSUME StagingInv, StagingTypeOK', [Next]_vars
  PROVE  Promised
<1>1. CASE UNCHANGED vars
  BY <1>1, Stutter DEF vars, files, aux
<1>2. CASE UnlinkEnd \/ GenEnd \/ Clear \/ DropIndex \/ ReindexFail \/ Stop
           \/ \E r \in Repos : IndexStage(r) \/ Merge(r)
  BY <1>2, Stutter DEF UnlinkEnd, GenEnd, Clear, DropIndex, ReindexFail, Stop, IndexStage, Merge,
     files, aux
<1>3. CASE Reindex
  <2> PICK q \in Repos : q = cur
    BY <1>3 DEF Reindex, StagingInv, StagingTypeOK, TypeOK
  <2>1. /\ Only(q) /\ repo' = repo
        /\ ridx'[q] = Newest(repo[q]) /\ held'[q] = held[q] \ repo[q]
    BY <1>3 DEF Reindex, Only, StagingInv, StagingTypeOK, Overlays
  <2>2. QED
    BY <2>1, IndexingKeeps
<1>4. ASSUME NEW r \in Repos, Index(r) PROVE Promised
  <2>1. /\ Only(r) /\ repo' = repo
        /\ ridx'[r] = Newest(repo[r]) /\ held'[r] = held[r] \ repo[r]
    BY <1>4 DEF Index, Only, StagingInv, StagingTypeOK, Overlays
  <2>2. QED
    BY <2>1, IndexingKeeps
<1>5. QED
  BY <1>1, <1>2, <1>3, <1>4, GenerateKeeps, UnlinkOldKeeps, MakePackageKeeps, MigrateKeeps, MoveKeeps,
     PruneKeeps DEF Next

\* stage.py:336-379, cli.py:270-348: the files of stage and repository, their
\* indexes and every step on them, stopped wherever it may be, implement the
\* repository: packages get from the stage into it and nowhere else.
THEOREM Refinement == Spec => RepositorySpec
<1>1. Init => R!Init
  BY DEF Init, Empty, R!Init, Installable
<1>2. StagingInv /\ StagingTypeOK' /\ [Next]_vars => [R!Next]_(R!rvars)
  BY StepKeepsPromise DEF Promised
<1>3. StagingInv => StagingTypeOK
  BY DEF StagingInv
<1>4. QED
  BY <1>1, <1>2, <1>3, Invariance, PTL DEF Spec, R!Spec, RepositorySpec
===============================================================================
