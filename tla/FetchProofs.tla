------------------------------ MODULE FetchProofs ------------------------------
(***************************************************************************)
(* Proofs about hooks/fetch/000_sources.py for templates with any number   *)
(* of sources of any size, any number of tries and any number of kills.    *)
(*                                                                         *)
(* Verified is not inductive: "done" is reached from three loops, and each *)
(* of them is only right because of what the ones before it have left.     *)
(* Progress says, for every loop, what holds of a source it has and of one *)
(* it has not reached.                                                     *)
(***************************************************************************)
EXTENDS Fetch, TLAPS

USE OrderAssumption, SizeAssumption

Places == {None, "request", "first", "stream", "stalled", "fetched", "failed"}
Downloads == [at : Places, ntry : Int, tried : Int, got : Int, len : Int, clen : Int,
              serves : {None, "good", "bad"}, whole : BOOLEAN]

FetchTypeOK ==
    /\ accept \in BOOLEAN
    /\ file \in [Sources -> Contents \cup {None}] /\ link \in [Sources -> {"good", "bad", None}]
    /\ pc \in {"purge", "link", "fetch", "verify", "done", "error"}
    /\ todo \in Seq(Sources) /\ IsInjective(todo)
    /\ sum \in [Sources -> {"good", "bad"}]
    /\ dl \in [Sources -> Downloads]

\* What is known of a source: untouched by this run; present only if it is
\* right and linked; present as it should be in the end.
Untouched(s) == sum[s] = "good" /\ dl[s].at = None
Sound(s) == file[s] # None => file[s] = "good" /\ link[s] = "good"
Final(s) == /\ file[s] = sum[s] /\ file[s] \notin {"empty", None}
            /\ ~accept => file[s] = "good" /\ link[s] = "good"

Waits(s) == s \in Range(todo)
Purging(s) == Untouched(s) /\ (~Waits(s) => Sound(s))
Linking(s) == IF Waits(s) THEN Untouched(s) /\ Sound(s)
              ELSE (dl[s].at = None /\ Final(s)) \/ (dl[s].at = "request" /\ sum[s] = "good")
Fetching(s) == /\ dl[s].at = None => Final(s)
               /\ dl[s].at # None => sum[s] = "good"
               /\ dl[s].at = "fetched" => file[s] \in Contents
Verifying(s) == /\ dl[s].at \in {None, "fetched"}
                /\ dl[s].at = None => Final(s)
                /\ dl[s].at = "fetched" => file[s] \in Contents
                /\ (dl[s].at = "fetched" /\ Waits(s)) => sum[s] = "good"
                /\ (dl[s].at = "fetched" /\ ~Waits(s) /\ Right(s, file[s])) => Final(s)
Progress(s) == /\ pc = "purge" => Purging(s)
               /\ pc = "link" => Linking(s)
               /\ pc = "fetch" => Fetching(s)
               /\ pc = "verify" => Verifying(s)
               /\ pc = "done" => Final(s)

\* The inductive invariant.
FetchInv == FetchTypeOK /\ \A s \in Sources : Progress(s)
-------------------------------------------------------------------------------
\* A loop over a list without repetitions reaches each of its elements once.
LEMMA HeadOnce ==
  ASSUME NEW q \in Seq(Sources), IsInjective(q), q # <<>>
  PROVE  /\ Head(q) \in Sources /\ Tail(q) \in Seq(Sources) /\ IsInjective(Tail(q))
         /\ Head(q) \in Range(q) /\ Head(q) \notin Range(Tail(q))
         /\ \A s \in Sources : s # Head(q) => (s \in Range(Tail(q)) <=> s \in Range(q))
<1>1. Len(q) \in Nat /\ Len(q) > 0 /\ DOMAIN q = 1..Len(q) /\ Head(q) = q[1]
  OBVIOUS
<1>2. /\ Tail(q) \in Seq(Sources) /\ DOMAIN Tail(q) = 1..(Len(q) - 1)
      /\ \A i \in 1..(Len(q) - 1) : Tail(q)[i] = q[i + 1]
  BY <1>1
<1>3. IsInjective(Tail(q))
  <2> SUFFICES ASSUME NEW i \in 1..(Len(q) - 1), NEW j \in 1..(Len(q) - 1), q[i + 1] = q[j + 1]
               PROVE  i = j
    BY <1>2 DEF IsInjective
  <2>1. i + 1 \in DOMAIN q /\ j + 1 \in DOMAIN q
    BY <1>1
  <2>2. QED
    BY <2>1 DEF IsInjective
<1>4. Head(q) \in Sources /\ Head(q) \in Range(q)
  BY <1>1 DEF Range
<1>5. Head(q) \notin Range(Tail(q))
  <2> SUFFICES ASSUME NEW i \in 1..(Len(q) - 1), q[i + 1] = q[1] PROVE FALSE
    BY <1>1, <1>2 DEF Range
  <2>1. i + 1 \in DOMAIN q /\ 1 \in DOMAIN q /\ i + 1 # 1
    BY <1>1
  <2>2. QED
    BY <2>1 DEF IsInjective
<1>6. ASSUME NEW s \in Sources, s # Head(q) PROVE s \in Range(Tail(q)) <=> s \in Range(q)
  <2>1. ASSUME s \in Range(Tail(q)) PROVE s \in Range(q)
    <3>1. PICK i \in 1..(Len(q) - 1) : s = q[i + 1]
      BY <1>2, <2>1 DEF Range
    <3>2. i + 1 \in DOMAIN q
      BY <1>1
    <3>3. QED
      BY <3>1, <3>2 DEF Range
  <2>2. ASSUME s \in Range(q) PROVE s \in Range(Tail(q))
    <3>1. PICK i \in DOMAIN q : s = q[i]
      BY <2>2 DEF Range
    <3>2. i \in 1..Len(q) /\ i # 1
      BY <1>1, <1>6, <3>1
    <3>3. i - 1 \in 1..(Len(q) - 1) /\ (i - 1) + 1 = i
      BY <1>1, <3>2
    <3>4. Tail(q)[i - 1] = s /\ i - 1 \in DOMAIN Tail(q)
      BY <1>2, <3>1, <3>3
    <3>5. QED
      BY <3>4 DEF Range
  <2>3. QED
    BY <2>1, <2>2
<1>7. QED
  BY <1>2, <1>3, <1>4, <1>5, <1>6

\* A loop that begins has all sources before it.
LEMMA OrderAll == Order \in Seq(Sources) /\ IsInjective(Order) /\ Range(Order) = Sources
BY OrderAssumption DEF Sources

LEMMA NoneLeft == todo = <<>> => \A s \in Sources : ~Waits(s)
BY DEF Waits, Range

LEMMA NewDownload == NoDownload \in Downloads /\ NoDownload.at = None
BY DEF NoDownload, Downloads, Places, Unknown

\* Nothing is known less of a source a step does not touch.
Untouching(s) == /\ accept' = accept /\ pc' = pc /\ file'[s] = file[s] /\ link'[s] = link[s]
                 /\ sum'[s] = sum[s] /\ dl'[s] = dl[s] /\ (Waits(s)' <=> Waits(s))
LEMMA Frame ==
  ASSUME NEW s \in Sources, Progress(s), Untouching(s)
  PROVE  Progress(s)'
BY DEF Progress, Untouching, Purging, Linking, Fetching, Verifying, Untouched, Sound, Final, Right, Waits
-------------------------------------------------------------------------------
\* One step of a loop over the sources: the others are left alone.
LEMMA Reached ==
  ASSUME NEW p, NEW s \in Sources, FetchTypeOK, Reach(p, s)
  PROVE  /\ pc = p /\ pc' = p /\ todo' \in Seq(Sources) /\ IsInjective(todo')
         /\ Waits(s) /\ ~Waits(s)'
         /\ \A r \in Sources : r # s => (Waits(r)' <=> Waits(r))
<1>1. todo \in Seq(Sources) /\ IsInjective(todo) /\ todo # <<>> /\ s = Head(todo)
      /\ todo' = Tail(todo)
  BY DEF FetchTypeOK, Reach
<1>2. QED
  BY <1>1, HeadOnce DEF Reach, Waits

LEMMA PurgeStep ==
  ASSUME FetchInv, NEW s \in Sources, Purge(s)
  PROVE  FetchInv'
<1>1. FetchTypeOK /\ Reach("purge", s) /\ accept' = accept /\ sum' = sum /\ dl' = dl
  BY DEF FetchInv, Purge, given
<1>2. FetchTypeOK'
  BY <1>1, Reached DEF FetchTypeOK, Purge, Contents
<1>3. Purging(s)'
  BY <1>1, Reached DEF Purge, FetchInv, FetchTypeOK, Progress, Purging, Untouched, Sound
<1>4. ASSUME NEW r \in Sources, r # s PROVE Progress(r)'
  <2>1. Untouching(r)
    BY <1>1, <1>4, Reached DEF Purge, FetchTypeOK, Untouching
  <2>2. QED
    BY <2>1, Frame DEF FetchInv
<1>5. Progress(s)'
  BY <1>1, <1>3, Reached DEF Progress
<1>6. QED
  BY <1>2, <1>4, <1>5 DEF FetchInv

LEMMA LinkStep ==
  ASSUME FetchInv, NEW s \in Sources, UseKnown(s) \/ MustFetch(s) \/ IsThere(s)
  PROVE  FetchInv'
<1>1. FetchTypeOK /\ Reach("link", s) /\ accept' = accept
  BY DEF FetchInv, UseKnown, MustFetch, IsThere, given
<1>2. Waits(s) /\ ~Waits(s)' /\ pc = "link" /\ pc' = "link"
  BY <1>1, Reached
<1>3. Untouched(s) /\ Sound(s)
  BY <1>2 DEF FetchInv, Progress, Linking
<1>4. FetchTypeOK'
  <2>1. CASE UseKnown(s)
    BY <1>1, <2>1, Reached DEF FetchTypeOK, UseKnown, Updated, Right, Contents, None
  <2>2. CASE MustFetch(s)
    <3>1. [NoDownload EXCEPT !.at = "request"] \in Downloads
      BY NewDownload DEF Downloads, Places
    <3>2. QED
      BY <1>1, <2>2, <3>1, Reached DEF FetchTypeOK, MustFetch
  <2>3. CASE IsThere(s)
    BY <1>1, <2>3, Reached DEF FetchTypeOK, IsThere, disk
  <2>4. QED
    BY <2>1, <2>2, <2>3
<1>5. Linking(s)'
  <2>1. CASE UseKnown(s)
    BY <1>1, <1>2, <1>3, <2>1
       DEF FetchTypeOK, UseKnown, Updated, Right, Linking, Untouched, Final, Contents, None
  <2>2. CASE MustFetch(s)
    <3>1. [NoDownload EXCEPT !.at = "request"].at = "request"
      BY DEF NoDownload
    <3>2. dl'[s].at = "request" /\ sum'[s] = "good"
      BY <1>1, <1>3, <2>2, <3>1 DEF FetchTypeOK, MustFetch, Untouched
    <3>3. QED
      BY <1>2, <3>2 DEF Linking
  <2>3. CASE IsThere(s)
    BY <1>1, <1>2, <1>3, <2>3 DEF IsThere, disk, Linking, Untouched, Sound, Final, None
  <2>4. QED
    BY <2>1, <2>2, <2>3
<1>6. ASSUME NEW r \in Sources, r # s PROVE Progress(r)'
  <2>1. Untouching(r)
    BY <1>1, <1>6, Reached DEF UseKnown, MustFetch, IsThere, disk, Updated, FetchTypeOK, Untouching
  <2>2. QED
    BY <2>1, Frame DEF FetchInv
<1>7. Progress(s)'
  BY <1>2, <1>5 DEF Progress
<1>8. QED
  BY <1>4, <1>6, <1>7 DEF FetchInv

LEMMA VerifyStep ==
  ASSUME FetchInv, NEW s \in Sources, Verify(s)
  PROVE  FetchInv'
<1>1. FetchTypeOK /\ Reach("verify", s) /\ accept' = accept /\ file' = file /\ dl' = dl
  BY DEF FetchInv, Verify, given
<1>2. Waits(s) /\ ~Waits(s)' /\ pc = "verify" /\ pc' = "verify"
  BY <1>1, Reached
<1>3. Verifying(s)
  BY <1>2 DEF FetchInv, Progress
<1>4. FetchTypeOK'
  <2>1. dl[s].at = "fetched" => file[s] \in Contents
    BY <1>3 DEF Verifying
  <2>2. link' \in [Sources -> {"good", "bad", None}] /\ sum' \in [Sources -> {"good", "bad"}]
    BY <1>1, <2>1 DEF FetchTypeOK, Verify, Updated, Linked, Right, Contents
  <2>3. QED
    BY <1>1, <2>2, Reached DEF FetchTypeOK
<1>5. Verifying(s)'
  <2>1. CASE dl[s].at # "fetched"
    BY <1>1, <1>2, <1>3, <2>1 DEF Verify, Verifying, Final, None
  <2>2. CASE dl[s].at = "fetched" /\ Right(s, file[s])
    BY <1>1, <1>2, <1>3, <2>2
       DEF Verify, Verifying, Final, Updated, Linked, Right, FetchTypeOK, Contents, None
  <2>3. CASE dl[s].at = "fetched" /\ ~Right(s, file[s])
    BY <1>1, <1>2, <1>3, <2>3 DEF Verify, Verifying, Updated, Right, None
  <2>4. QED
    BY <2>1, <2>2, <2>3
<1>6. ASSUME NEW r \in Sources, r # s PROVE Progress(r)'
  <2>1. Untouching(r)
    BY <1>1, <1>6, Reached DEF Verify, Updated, Linked, FetchTypeOK, Untouching
  <2>2. QED
    BY <2>1, Frame DEF FetchInv
<1>7. Progress(s)'
  BY <1>2, <1>5 DEF Progress
<1>8. QED
  BY <1>4, <1>6, <1>7 DEF FetchInv
-------------------------------------------------------------------------------
\* What a step of a download leaves: the download goes on or ends, the file is
\* what it was or what the transfer brought.
Step(s) == /\ pc = "fetch" /\ pc' = pc /\ dl[s].at # None
           /\ accept' = accept /\ link' = link /\ sum' = sum /\ todo' = todo
           /\ \E d \in Downloads : d.at # None /\ dl' = [dl EXCEPT ![s] = d]
           /\ file' = file \/ (\E c \in Contents : file' = [file EXCEPT ![s] = c])
           /\ dl'[s].at = "fetched" => file'[s] \in Contents

\* The assignments to the fields of a download, one by one.
PutAt(d, p) == [d EXCEPT !.at = p]
PutNtry(d, n) == [d EXCEPT !.ntry = n]
PutTried(d, n) == [d EXCEPT !.tried = n]
PutGot(d, n) == [d EXCEPT !.got = n]
PutLen(d, n) == [d EXCEPT !.len = n]
PutClen(d, n) == [d EXCEPT !.clen = n]
PutServes(d, c) == [d EXCEPT !.serves = c]
PutWhole(d, w) == [d EXCEPT !.whole = w]
IsAt(d, p) == d \in Downloads /\ d.at = p

LEMMA PutTypes ==
  ASSUME NEW d, NEW p \in Places, IsAt(d, p)
  PROVE  /\ \A q \in Places : IsAt(PutAt(d, q), q)
         /\ \A n \in Int : /\ IsAt(PutNtry(d, n), p) /\ IsAt(PutTried(d, n), p)
                          /\ IsAt(PutGot(d, n), p) /\ IsAt(PutLen(d, n), p)
                          /\ IsAt(PutClen(d, n), p)
         /\ \A c \in {None, "good", "bad"} : IsAt(PutServes(d, c), p)
         /\ \A w \in BOOLEAN : IsAt(PutWhole(d, w), p)
<1>1. \A q \in Places : IsAt(PutAt(d, q), q)
  BY DEF IsAt, PutAt, Downloads
<1>2. ASSUME NEW n \in Int
      PROVE  /\ IsAt(PutNtry(d, n), p) /\ IsAt(PutTried(d, n), p)
             /\ IsAt(PutGot(d, n), p) /\ IsAt(PutLen(d, n), p)
             /\ IsAt(PutClen(d, n), p)
  <2>1. IsAt(PutNtry(d, n), p)
    BY DEF IsAt, PutNtry, Downloads
  <2>2. IsAt(PutTried(d, n), p)
    BY DEF IsAt, PutTried, Downloads
  <2>3. IsAt(PutGot(d, n), p)
    BY DEF IsAt, PutGot, Downloads
  <2>4. IsAt(PutLen(d, n), p)
    BY DEF IsAt, PutLen, Downloads
  <2>5. IsAt(PutClen(d, n), p)
    BY DEF IsAt, PutClen, Downloads
  <2>6. QED
    BY <2>1, <2>2, <2>3, <2>4, <2>5
<1>3. ASSUME NEW c \in {None, "good", "bad"} PROVE IsAt(PutServes(d, c), p)
  BY DEF IsAt, PutServes, Downloads
<1>4. ASSUME NEW w \in BOOLEAN PROVE IsAt(PutWhole(d, w), p)
  BY DEF IsAt, PutWhole, Downloads
<1>5. QED
  BY <1>1, <1>2, <1>3, <1>4

LEMMA EndedDownload ==
  ASSUME NEW how \in Places, NEW w \in BOOLEAN
  PROVE  IsAt(Ended(how, w), how)
<1>1. IsAt(NoDownload, None) /\ None \in Places
  BY NewDownload DEF IsAt, Places
<1>2. IsAt(PutAt(NoDownload, how), how)
  BY <1>1, PutTypes
<1>3. IsAt(PutWhole(PutAt(NoDownload, how), w), how)
  BY <1>1, <1>2, PutTypes
<1>4. PutWhole(PutAt(NoDownload, how), w) = Ended(how, w)
  BY Zenon DEF PutWhole, PutAt, Ended
<1>5. QED
  BY <1>3, <1>4

LEMMA GoesOn ==
  ASSUME FetchTypeOK, NEW s \in Sources, NEW p \in Places, At(s, p), p # None, Only,
         NEW q \in Places \ {None, "fetched"}, NEW d, IsAt(d, q), Set(s, d)
  PROVE  Step(s)
<1>1. d \in Downloads /\ d.at = q /\ dl'[s] = d
  BY DEF FetchTypeOK, Set, IsAt
<1>2. QED
  BY <1>1 DEF At, Only, Set, Step, given

\* Every answer starts or goes on with a transfer, or ends the download.
LEMMA AnswerStep ==
  ASSUME FetchTypeOK, NEW s \in Sources, NEW c \in {"good", "bad"},
         Again200(s, c) \/ Answer206(s, c) \/ (\E known \in BOOLEAN : Answer200(s, known, c))
  PROVE  Step(s)
<1>1. At(s, "request") /\ Only
  BY DEF Again200, Answer206, Answer200
<1>2. /\ dl[s] \in Downloads /\ IsAt(dl[s], dl[s].at) /\ dl[s].at \in Places
      /\ dl[s].ntry \in Int /\ dl[s].len \in Int /\ dl[s].whole \in BOOLEAN
      /\ 0 \in Int /\ {"stream", "first"} \subseteq Places /\ c \in {None, "good", "bad"}
  BY DEF FetchTypeOK, Downloads, Places, IsAt
<1>3. \E q \in {"stream", "first", "failed"} : \E d \in Downloads : IsAt(d, q) /\ Set(s, d)
  <2>1. CASE Again200(s, c) /\ dl[s].ntry > MaxTries
    <3>1. IsAt(Ended("failed", dl[s].whole), "failed")
      BY <1>2, EndedDownload DEF Places
    <3>2. QED
      BY <2>1, <3>1 DEF Again200, IsAt
  <2>2. CASE Again200(s, c) /\ ~(dl[s].ntry > MaxTries)
    <3> DEFINE d1 == PutAt(dl[s], "stream")
               d2 == PutGot(d1, 0)
               d3 == PutTried(d2, dl[s].ntry)
               d4 == PutClen(d3, dl[s].len)
               d5 == PutServes(d4, c)
    <3>1. Set(s, d5)
      BY <2>2, Zenon DEF Again200, PutAt, PutGot, PutTried, PutClen, PutServes
    <3>2. IsAt(d1, "stream")
      BY <1>2, PutTypes, Zenon
    <3> HIDE DEF d1
    <3>3. IsAt(d2, "stream")
      BY <1>2, <3>2, PutTypes, Zenon
    <3> HIDE DEF d2
    <3>4. IsAt(d3, "stream")
      BY <1>2, <3>3, PutTypes, Zenon
    <3> HIDE DEF d3
    <3>5. IsAt(d4, "stream")
      BY <1>2, <3>4, PutTypes, Zenon
    <3> HIDE DEF d4
    <3>6. IsAt(d5, "stream")
      BY <1>2, <3>5, PutTypes, Zenon
    <3> HIDE DEF d5
    <3>7. QED
      BY <3>1, <3>6 DEF IsAt
  <2>3. CASE Answer206(s, c)
    <3> DEFINE d1 == PutAt(dl[s], "first")
               d2 == PutTried(d1, 0)
               d3 == PutClen(d2, dl[s].len)
               d4 == PutServes(d3, c)
    <3>1. Set(s, d4)
      BY <2>3, Zenon DEF Answer206, PutAt, PutTried, PutClen, PutServes
    <3>2. IsAt(d1, "first")
      BY <1>2, PutTypes, Zenon
    <3> HIDE DEF d1
    <3>3. IsAt(d2, "first")
      BY <1>2, <3>2, PutTypes, Zenon
    <3> HIDE DEF d2
    <3>4. IsAt(d3, "first")
      BY <1>2, <3>3, PutTypes, Zenon
    <3> HIDE DEF d3
    <3>5. IsAt(d4, "first")
      BY <1>2, <3>4, PutTypes, Zenon
    <3> HIDE DEF d4
    <3>6. QED
      BY <3>1, <3>5 DEF IsAt
  <2>4. ASSUME NEW known \in BOOLEAN, Answer200(s, known, c)
        PROVE  \E q \in {"stream", "first", "failed"} :
                 \E d \in Downloads : IsAt(d, q) /\ Set(s, d)
    <3> DEFINE l == IF known THEN Size ELSE Unknown
               m == IF known THEN Size ELSE 0
               d1 == PutAt(dl[s], "stream")
               d2 == PutTried(d1, 0)
               d3 == PutLen(d2, l)
               d4 == PutClen(d3, m)
               d5 == PutServes(d4, c)
    <3>1. Set(s, d5)
      BY <2>4, Zenon DEF Answer200, PutAt, PutTried, PutLen, PutClen, PutServes
    <3>2. l \in Int /\ m \in Int
      BY SizeAssumption DEF Unknown
    <3> HIDE DEF l, m
    <3>3. IsAt(d1, "stream")
      BY <1>2, PutTypes, Zenon
    <3> HIDE DEF d1
    <3>4. IsAt(d2, "stream")
      BY <1>2, <3>3, PutTypes, Zenon
    <3> HIDE DEF d2
    <3>5. IsAt(d3, "stream")
      BY <1>2, <3>2, <3>4, PutTypes, Zenon
    <3> HIDE DEF d3
    <3>6. IsAt(d4, "stream")
      BY <1>2, <3>2, <3>5, PutTypes, Zenon
    <3> HIDE DEF d4
    <3>7. IsAt(d5, "stream")
      BY <1>2, <3>6, PutTypes, Zenon
    <3> HIDE DEF d5
    <3>8. QED
      BY <3>1, <3>7 DEF IsAt
  <2>5. QED
    BY <2>1, <2>2, <2>3, <2>4
<1>4. {"stream", "first", "failed"} \subseteq Places \ {None, "fetched"}
      /\ "request" \in Places /\ "request" # None
  BY DEF Places, None
<1>5. QED
  BY <1>1, <1>3, <1>4, GoesOn

LEMMA TransferStep ==
  ASSUME FetchTypeOK, NEW s \in Sources, Transfer(s) \/ Stall(s)
  PROVE  Step(s)
<1>1. /\ dl[s] \in Downloads /\ IsAt(dl[s], dl[s].at) /\ dl[s].at \in Places
      /\ dl[s].ntry \in Int /\ dl[s].tried \in Int /\ dl[s].got \in Int
      /\ dl[s].ntry + 1 \in Int /\ dl[s].tried + 1 \in Int /\ dl[s].got + 1 \in Int
      /\ {"request", "first", "stream", "stalled", "fetched", "failed"} \subseteq Places \ {None}
  BY DEF FetchTypeOK, Downloads, Places, IsAt, None
<1>2. CASE Exception(s)
  <2>1. PICK p \in {"request", "first", "stream"} : At(s, p)
    BY <1>2 DEF Exception
  <2>2. \E q \in {"failed", "request"} : IsAt(Retry(dl[s]), q)
    <3>1. CASE dl[s].ntry > MaxTries
      BY <1>1, <3>1, EndedDownload DEF Retry
    <3>2. CASE ~(dl[s].ntry > MaxTries)
      <4> DEFINE d1 == PutAt(dl[s], "request")
                 d2 == PutNtry(d1, dl[s].ntry + 1)
      <4>1. Retry(dl[s]) = PutWhole(d2, FALSE)
        BY <3>2, Zenon DEF Retry, PutAt, PutNtry, PutWhole
      <4>2. IsAt(d1, "request")
        BY <1>1, PutTypes, Zenon
      <4> HIDE DEF d1
      <4>3. IsAt(d2, "request")
        BY <1>1, <4>2, PutTypes, Zenon
      <4> HIDE DEF d2
      <4>4. IsAt(PutWhole(d2, FALSE), "request")
        BY <1>1, <4>3, PutTypes, Zenon
      <4>5. QED
        BY <4>1, <4>4
    <3>3. QED
      BY <3>1, <3>2
  <2>3. Set(s, Retry(dl[s])) /\ Only
    BY <1>2 DEF Exception
  <2>4. {"failed", "request"} \subseteq Places \ {None, "fetched"}
    BY DEF Places, None
  <2>5. QED
    BY <1>1, <2>1, <2>2, <2>3, <2>4, GoesOn
<1>3. CASE Unexpected(s)
  <2>1. IsAt(Ended("failed", FALSE), "failed") /\ "failed" \in Places \ {None, "fetched"}
    BY <1>1, EndedDownload
  <2>2. QED
    BY <1>1, <1>3, <2>1, GoesOn DEF Unexpected
<1>4. CASE Read(s)
  <2>1. PICK p \in {"stream", "first"} : At(s, p)
    BY <1>4 DEF Read
  <2> DEFINE d1 == PutAt(dl[s], "stream")
             d2 == PutGot(d1, dl[s].got + 1)
  <2>2. Set(s, d2)
    BY <1>4, Zenon DEF Read, PutAt, PutGot
  <2>3. IsAt(d1, "stream")
    BY <1>1, PutTypes, Zenon
  <2> HIDE DEF d1
  <2>4. IsAt(d2, "stream")
    BY <1>1, <2>3, PutTypes, Zenon
  <2> HIDE DEF d2
  <2>5. "stream" \in Places \ {None, "fetched"} /\ Only
    BY <1>4 DEF Places, None, Read
  <2>6. QED
    BY <1>1, <2>1, <2>2, <2>4, <2>5, GoesOn
<1>5. CASE Resume(s)
  <2> DEFINE w == part[s].size = Size
             d1 == PutAt(dl[s], "request")
             d2 == PutNtry(d1, dl[s].tried + 1)
  <2>1. Set(s, PutWhole(d2, w))
    BY <1>5, Zenon DEF Resume, PutAt, PutNtry, PutWhole
  <2>2. w \in BOOLEAN
    OBVIOUS
  <2>3. IsAt(d1, "request")
    BY <1>1, PutTypes, Zenon
  <2> HIDE DEF d1, w
  <2>4. IsAt(d2, "request")
    BY <1>1, <2>3, PutTypes, Zenon
  <2> HIDE DEF d2
  <2>5. IsAt(PutWhole(d2, w), "request")
    BY <1>1, <2>2, <2>4, PutTypes, Zenon
  <2>6. "request" \in Places \ {None, "fetched"} /\ Only
    BY <1>5 DEF Places, None, Resume
  <2>7. PICK p \in {"stream", "first"} : At(s, p)
    BY <1>5 DEF Resume
  <2>8. QED
    BY <1>1, <2>1, <2>5, <2>6, <2>7, GoesOn
<1>6. CASE Rename(s)
  <2>1. Ended("fetched", FALSE) \in Downloads /\ Ended("fetched", FALSE).at = "fetched"
    BY <1>1, EndedDownload DEF IsAt
  <2>2. Got(s) \in Contents
    BY DEF Got, Contents
  <2>3. file'[s] = Got(s) /\ dl'[s] = Ended("fetched", FALSE)
    BY <1>6 DEF Rename, Set, FetchTypeOK
  <2>4. QED
    BY <1>6, <2>1, <2>2, <2>3 DEF Rename, At, Set, Step, given, None
<1>7. ASSUME NEW c \in {"good", "bad"},
             Again200(s, c) \/ Answer206(s, c) \/ (\E known \in BOOLEAN : Answer200(s, known, c))
      PROVE  Step(s)
  BY <1>7, AnswerStep
<1>8. CASE Stall(s)
  <2>1. IsAt(Ended("stalled", FALSE), "stalled") /\ "stalled" \in Places \ {None, "fetched"}
    BY <1>1, EndedDownload
  <2>2. PICK p \in {"request", "first", "stream"} : At(s, p)
    BY <1>8 DEF Stall
  <2>3. Set(s, Ended("stalled", FALSE)) /\ Only
    BY <1>8 DEF Stall
  <2>4. QED
    BY <1>1, <2>1, <2>2, <2>3, GoesOn
<1>9. QED
  BY <1>2, <1>3, <1>4, <1>5, <1>6, <1>7, <1>8 DEF Transfer
-------------------------------------------------------------------------------
\* A step of a download keeps what is known of it and of all the others.
LEMMA TransferKeeps ==
  ASSUME FetchInv, NEW s \in Sources, Transfer(s) \/ Stall(s)
  PROVE  FetchInv'
<1>1. FetchTypeOK /\ Step(s)
  BY TransferStep DEF FetchInv
<1>2. PICK d \in Downloads : d.at # None /\ dl' = [dl EXCEPT ![s] = d]
  BY <1>1 DEF Step
<1>3. /\ file' \in [Sources -> Contents \cup {None}]
      /\ \A r \in Sources : r # s => file'[r] = file[r]
  BY <1>1 DEF Step, FetchTypeOK
<1>4. FetchTypeOK'
  BY <1>1, <1>2, <1>3 DEF Step, FetchTypeOK
<1>5. Fetching(s)'
  <2>1. sum[s] = "good"
    BY <1>1 DEF Step, FetchInv, Progress, Fetching
  <2>2. dl'[s] = d
    BY <1>1, <1>2 DEF FetchTypeOK
  <2>3. QED
    BY <1>1, <1>2, <2>1, <2>2 DEF Step, Fetching
<1>6. ASSUME NEW r \in Sources, r # s PROVE Progress(r)'
  <2>1. Untouching(r)
    BY <1>1, <1>2, <1>3, <1>6 DEF Step, FetchTypeOK, Untouching, Waits
  <2>2. QED
    BY <2>1, Frame DEF FetchInv
<1>7. Progress(s)'
  BY <1>1, <1>5 DEF Step, Progress
<1>8. QED
  BY <1>4, <1>6, <1>7 DEF FetchInv

\* Between the loops, and when the command is given again.
LEMMA ControlStep ==
  ASSUME FetchInv, Purged \/ LinkEnd \/ FetchEnd \/ VerifyEnd \/ Restart
  PROVE  FetchInv'
<1>1. FetchTypeOK /\ \A s \in Sources : Progress(s)
  BY DEF FetchInv
<1>2. CASE Purged
  <2>1. \A s \in Sources : Untouched(s) /\ Sound(s)
    BY <1>1, <1>2, NoneLeft DEF Purged, Progress, Purging
  <2>2. UNCHANGED <<accept, file, link, sum, dl>>
    BY <1>2 DEF Purged, given, disk
  <2>3. CASE \A s \in Sources : file[s] # None
    <3>1. pc' = "done" /\ todo' = <<>> /\ <<>> \in Seq(Sources) /\ IsInjective(<<>>)
      BY <1>2, <2>3 DEF Purged, IsInjective
    <3>2. FetchTypeOK'
      BY <1>1, <2>2, <3>1 DEF FetchTypeOK
    <3>3. \A s \in Sources : Final(s)'
      BY <2>1, <2>2, <2>3 DEF Untouched, Sound, Final, None
    <3>4. QED
      BY <3>1, <3>2, <3>3 DEF FetchInv, Progress
  <2>4. CASE ~(\A s \in Sources : file[s] # None)
    <3>1. pc' = "link" /\ todo' = Order
      BY <1>2, <2>4 DEF Purged, Start
    <3>2. FetchTypeOK'
      BY <1>1, <2>2, <3>1, OrderAll DEF FetchTypeOK
    <3>3. \A s \in Sources : Linking(s)'
      BY <2>1, <2>2, <3>1, OrderAll DEF Linking, Waits, Untouched, Sound
    <3>4. QED
      BY <3>1, <3>2, <3>3 DEF FetchInv, Progress
  <2>5. QED
    BY <2>3, <2>4
<1>3. CASE LinkEnd
  <2>1. \A s \in Sources : (dl[s].at = None /\ Final(s)) \/ (dl[s].at = "request" /\ sum[s] = "good")
    BY <1>1, <1>3, NoneLeft DEF LinkEnd, Progress, Linking
  <2>2. UNCHANGED <<accept, file, link, sum, dl>> /\ pc' = "fetch" /\ todo' = Order
    BY <1>3 DEF LinkEnd, Start, given, disk
  <2>3. FetchTypeOK'
    BY <1>1, <2>2, OrderAll DEF FetchTypeOK
  <2>4. \A s \in Sources : Fetching(s)'
    BY <2>1, <2>2 DEF Fetching, Final, None
  <2>5. QED
    BY <2>2, <2>3, <2>4 DEF FetchInv, Progress
<1>4. CASE FetchEnd
  <2>1. \A s \in Sources : Fetching(s) /\ dl[s].at \in {None, "fetched", "failed"}
    BY <1>1, <1>4 DEF FetchEnd, Progress
  <2>2. UNCHANGED <<accept, file, link, sum, dl>> /\ todo' = Order /\ pc' \in {"verify", "error"}
        /\ (pc' = "verify" => \A s \in Sources : dl[s].at # "failed")
    BY <1>4 DEF FetchEnd, Start, given, disk
  <2>3. FetchTypeOK'
    BY <1>1, <2>2, OrderAll DEF FetchTypeOK
  <2>4. pc' = "verify" => \A s \in Sources : Verifying(s)'
    BY <2>1, <2>2, OrderAll DEF Fetching, Verifying, Final, Waits, None
  <2>5. QED
    BY <2>2, <2>3, <2>4 DEF FetchInv, Progress
<1>5. CASE VerifyEnd
  <2>1. \A s \in Sources : Verifying(s) /\ ~Waits(s)
    BY <1>1, <1>5, NoneLeft DEF VerifyEnd, Progress
  <2>2. UNCHANGED <<accept, file, link, sum, dl, todo>> /\ pc' \in {"done", "error"}
        /\ (pc' = "done" => \A s \in Sources : dl[s].at = "fetched" => Right(s, file[s]))
    BY <1>5 DEF VerifyEnd, given, disk
  <2>3. FetchTypeOK'
    BY <1>1, <2>2 DEF FetchTypeOK
  <2>4. pc' = "done" => \A s \in Sources : Final(s)'
    BY <2>1, <2>2 DEF Verifying, Final
  <2>5. QED
    BY <2>2, <2>3, <2>4 DEF FetchInv, Progress
<1>6. CASE Restart
  <2>1. UNCHANGED <<accept, file, link>> /\ pc' = "purge" /\ todo' = Order
        /\ sum' = [s \in Sources |-> "good"] /\ dl' = [s \in Sources |-> NoDownload]
    BY <1>6 DEF Restart, Start, given, disk
  <2>2. FetchTypeOK'
    BY <1>1, <2>1, OrderAll, NewDownload DEF FetchTypeOK
  <2>3. \A s \in Sources : Purging(s)'
    BY <2>1, OrderAll, NewDownload DEF Purging, Untouched, Waits
  <2>4. QED
    BY <2>1, <2>2, <2>3 DEF FetchInv, Progress
<1>7. QED
  BY <1>2, <1>3, <1>4, <1>5, <1>6
-------------------------------------------------------------------------------
LEMMA FetchInit == Init => FetchInv
<1> SUFFICES ASSUME Init PROVE FetchInv
  OBVIOUS
<1>1. FetchTypeOK
  BY OrderAll, NewDownload DEF Init, FetchTypeOK
<1>2. \A s \in Sources : Purging(s)
  BY OrderAll, NewDownload DEF Init, Purging, Untouched, Waits
<1>3. QED
  BY <1>1, <1>2 DEF Init, FetchInv, Progress

LEMMA FetchStep == FetchInv /\ [Next]_vars => FetchInv'
<1> SUFFICES ASSUME FetchInv, [Next]_vars PROVE FetchInv'
  OBVIOUS
<1>1. CASE UNCHANGED vars
  <2>1. FetchTypeOK' /\ \A s \in Sources : Untouching(s)
    BY <1>1 DEF vars, given, disk, FetchInv, FetchTypeOK, Untouching, Waits
  <2>2. QED
    BY <2>1, Frame DEF FetchInv
<1>2. CASE Purged \/ LinkEnd \/ FetchEnd \/ VerifyEnd \/ Restart
  BY <1>2, ControlStep
<1>3. ASSUME NEW s \in Sources, Purge(s) PROVE FetchInv'
  BY <1>3, PurgeStep
<1>4. ASSUME NEW s \in Sources, UseKnown(s) \/ MustFetch(s) \/ IsThere(s) PROVE FetchInv'
  BY <1>4, LinkStep
<1>5. ASSUME NEW s \in Sources, Verify(s) PROVE FetchInv'
  BY <1>5, VerifyStep
<1>6. ASSUME NEW s \in Sources, Transfer(s) \/ Stall(s) PROVE FetchInv'
  BY <1>6, TransferKeeps
<1>7. QED
  BY <1>1, <1>2, <1>3, <1>4, <1>5, <1>6 DEF Next, Invoke

\* 000_sources.py:269-379: a fetch that succeeds has verified every source, for
\* any number of sources and downloads in parallel, wherever it was killed
\* before and whatever the servers sent.
THEOREM VerifiedCorrect == Spec => []Verified
<1>1. FetchInv => Verified
  BY DEF FetchInv, Progress, Final, Verified
<1>2. QED
  BY <1>1, FetchInit, FetchStep, PTL DEF Spec
================================================================================
