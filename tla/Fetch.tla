---------------------------------- MODULE Fetch ----------------------------------
(***************************************************************************)
(* hooks/fetch/000_sources.py: the sources of a template are taken from    *)
(* the directory of earlier downloads, from the link farm by_sha256, or    *)
(* from the network, in parallel, with retries and resumed transfers, and  *)
(* verified.  The process may be killed at any time; sources/ is locked,   *)
(* so it runs alone.                                                       *)
(*                                                                         *)
(* A file is abstracted to "good" (its sum is the template's), "bad" (any  *)
(* other, truncated ones included), "empty" or None.                       *)
(***************************************************************************)
EXTENDS Integers, Sequences, Functions

CONSTANTS Order,       \* the sources of the template, a sequence
          Size,        \* the size of every source, in reads of the buffer
          MaxTries,    \* `ntry > 3`
          MaxKills     \* bound: kills and repeated commands

Sources == Range(Order)
ASSUME OrderAssumption == Order \in Seq(Sources) /\ IsInjective(Order)
ASSUME SizeAssumption == Size \in Nat \ {0} /\ MaxTries \in Nat /\ MaxKills \in Nat

None == "none"
Unknown == -1      \* what flens starts with
Contents == {"good", "bad", "empty"}

VARIABLES
    accept,      \* pkg.accept_checksums: fixed
    ranges,      \* ranges[s]: does the server know Range: fixed
    file, link,  \* file[s] in the sources directory, link[s] in by_sha256
    part,        \* part[s]: size and soundness of the .part file
    pc, todo,    \* the loop of invoke that runs, and what it has not reached
    sum,         \* sum[s]: the kind of content pkg.sha256 asks for
    dl,          \* dl[s]: the download of s
    kills         \* kills and repeated commands so far
disk == <<file, link, part>>
given == <<accept, ranges>>
vars == <<given, disk, pc, todo, sum, dl, kills>>

\* A download: where it is; ntry of fetch_url, tried: ntry of fetch_stream;
\* fstatus and flens; clen; what the server sends, from which byte, and whether
\* this answer was good for the whole file.
NoDownload == [at |-> None, ntry |-> 0, tried |-> 0, got |-> 0, len |-> Unknown,
               clen |-> Unknown, serves |-> None, whole |-> FALSE]
Ended(how, whole) == [NoDownload EXCEPT !.at = how, !.whole = whole]
NoPart == [size |-> 0, good |-> TRUE]

Start(p) == pc' = p /\ todo' = Order
Init == /\ accept \in BOOLEAN /\ ranges \in [Sources -> BOOLEAN]
        /\ file \in [Sources -> Contents \cup {None}] /\ link \in [Sources -> {"good", "bad", None}]
        /\ part = [s \in Sources |-> NoPart]
        /\ pc = "purge" /\ todo = Order
        /\ sum = [s \in Sources |-> "good"] /\ dl = [s \in Sources |-> NoDownload]
        /\ kills = 0
-------------------------------------------------------------------------------
Reach(p, s) == pc = p /\ todo # <<>> /\ s = Head(todo) /\ todo' = Tail(todo) /\ pc' = pc

\* Faulty variant: only empty leftovers are purged.
PurgeEmpty(s) ==
    /\ Reach("purge", s)
    /\ IF file[s] # "empty"
         THEN UNCHANGED <<file, link>>
         ELSE file' = [file EXCEPT ![s] = None] /\ link' = link
    /\ UNCHANGED <<given, part, sum, dl, kills>>

\* The first loop: a file with the right sum is linked (make_link), any other
\* is purged.
Purge(s) ==
    /\ Reach("purge", s)
    /\ IF file[s] = "good"
         THEN link' = [link EXCEPT ![s] = "good"] /\ file' = file
         ELSE file' = [file EXCEPT ![s] = None] /\ link' = link
    /\ UNCHANGED <<given, part, sum, dl, kills>>
Purged ==
    /\ pc = "purge" /\ todo = <<>>
    /\ IF \A s \in Sources : file[s] # None THEN pc' = "done" /\ todo' = <<>> ELSE Start("link")
    /\ UNCHANGED <<given, disk, sum, dl, kills>>

\* verify_cksum(s) for a file with content c; it may update the sum.
Right(s, c) == c # "empty" /\ (c = sum[s] \/ accept)
Updated(s, c) == IF Right(s, c) THEN [sum EXCEPT ![s] = c] ELSE sum
Linked(s, c) == IF c = sum[s] THEN [link EXCEPT ![s] = c] ELSE link

\* link_cksum: a known source is linked, and removed everywhere if it is
\* corrupt; what is not there is to be fetched.
UseKnown(s) ==
    /\ Reach("link", s) /\ file[s] = None /\ link[s] # None /\ Right(s, link[s])
    /\ file' = [file EXCEPT ![s] = link[s]] /\ sum' = Updated(s, link[s])
    /\ UNCHANGED <<given, link, part, dl, kills>>
MustFetch(s) ==
    /\ Reach("link", s) /\ file[s] = None /\ (link[s] # None => ~Right(s, link[s]))
    /\ link' = [link EXCEPT ![s] = None]
    /\ dl' = [dl EXCEPT ![s] = [NoDownload EXCEPT !.at = "request"]]
    /\ UNCHANGED <<given, file, part, sum, kills>>
IsThere(s) ==
    /\ Reach("link", s) /\ file[s] # None
    /\ UNCHANGED <<given, disk, sum, dl, kills>>
LinkEnd == /\ pc = "link" /\ todo = <<>>
           /\ Start("fetch")
           /\ UNCHANGED <<given, disk, sum, dl, kills>>
-------------------------------------------------------------------------------
At(s, p) == pc = "fetch" /\ dl[s].at = p
Set(s, d) == dl' = [dl EXCEPT ![s] = d]
Only == UNCHANGED <<given, file, link, pc, todo, sum, kills>>

\* fetch_url, `except`: the request or the transfer fails.  The end of a body
\* that is complete is no reason to.
Retry(d) == IF d.ntry > MaxTries THEN Ended("failed", FALSE)
            ELSE [d EXCEPT !.at = "request", !.ntry = @ + 1, !.whole = FALSE]
Exception(s) == /\ At(s, "request") \/ At(s, "first") \/ (At(s, "stream") /\ dl[s].got < Size)
                /\ Set(s, Retry(dl[s])) /\ part' = part /\ Only

\* fetch_stream: a status that is neither 200 nor 206.
Unexpected(s) == /\ At(s, "request")
                 /\ Set(s, Ended("failed", FALSE)) /\ part' = part /\ Only

\* The first answer, with or without content-length.
Answer200(s, known, c) ==
    /\ At(s, "request") /\ dl[s].ntry = 0
    /\ LET l == IF known THEN Size ELSE Unknown
       IN Set(s, [dl[s] EXCEPT !.at = "stream", !.tried = 0, !.len = l,
                               !.clen = IF known THEN Size ELSE 0, !.serves = c])
    /\ part' = [part EXCEPT ![s] = NoPart] /\ Only

\* The Range header is in order and the server takes notice of it.
Resumable(s) == dl[s].ntry > 0 /\ ranges[s] /\ dl[s].got < dl[s].len


\* "range ignored/not supported, do a normal retry"
Again200(s, c) ==
    /\ At(s, "request") /\ dl[s].ntry > 0 /\ ~(ranges[s] /\ dl[s].len > 0)
    /\ IF dl[s].ntry > MaxTries
         THEN Set(s, Ended("failed", dl[s].whole)) /\ part' = part
         ELSE /\ Set(s, [dl[s] EXCEPT !.at = "stream", !.got = 0, !.tried = dl[s].ntry,
                                      !.clen = dl[s].len, !.serves = c])
              /\ part' = [part EXCEPT ![s] = NoPart]
    /\ Only

\* The server sends what is missing; "we allow unlimited chunks".
Answer206(s, c) ==
    /\ At(s, "request") /\ Resumable(s)
    /\ Set(s, [dl[s] EXCEPT !.at = "first", !.tried = 0, !.clen = dl[s].len, !.serves = c])
    /\ part' = part /\ Only

\* A full buffer.
Read(s) ==
    /\ (At(s, "stream") \/ At(s, "first")) /\ part[s].size < Size
    /\ Set(s, [dl[s] EXCEPT !.at = "stream", !.got = @ + 1])
    /\ part' = [part EXCEPT ![s] = [size |-> @.size + 1, good |-> @.good /\ dl[s].serves = "good"]]
    /\ Only

\* The answer ends, early or not: the transfer is resumed, or is complete.
Got(s) == IF part[s].size = 0 THEN "empty"
          ELSE IF part[s].size = Size /\ part[s].good THEN "good" ELSE "bad"
Incomplete(d) == d.clen # 0 /\ d.got # d.clen
Resume(s) ==
    /\ At(s, "stream") \/ At(s, "first")
    /\ Incomplete(dl[s])
    /\ Set(s, [dl[s] EXCEPT !.at = "request", !.ntry = dl[s].tried + 1,
                            !.whole = (part[s].size = Size)])
    /\ part' = part /\ Only
\* The answer to a resumed request ends before its first byte.
EmptyPart(s) == At(s, "first") /\ Resume(s)

\* urlopen has no timeout: a server that falls silent is waited for.
Stall(s) == /\ \/ At(s, "request") \/ At(s, "first")
               \/ At(s, "stream") /\ (dl[s].got < Size \/ dl[s].clen # Size)
            /\ Set(s, Ended("stalled", FALSE)) /\ part' = part /\ Only
Rename(s) ==
    /\ At(s, "stream") /\ ~Incomplete(dl[s])
    /\ Set(s, Ended("fetched", FALSE))
    /\ file' = [file EXCEPT ![s] = Got(s)] /\ part' = [part EXCEPT ![s] = NoPart]
    /\ UNCHANGED <<given, link, pc, todo, sum, kills>>
-------------------------------------------------------------------------------
\* All tasks have finished: an error of any is an error, else all are verified.
FetchEnd ==
    /\ pc = "fetch" /\ \A s \in Sources : dl[s].at \in {None, "fetched", "failed"}
    /\ IF \E s \in Sources : dl[s].at = "failed" THEN Start("error") ELSE Start("verify")
    /\ UNCHANGED <<given, disk, sum, dl, kills>>
Verify(s) ==
    /\ Reach("verify", s)
    /\ IF dl[s].at = "fetched"
         THEN sum' = Updated(s, file[s]) /\ link' = Linked(s, file[s])
         ELSE UNCHANGED <<sum, link>>
    /\ UNCHANGED <<given, file, part, dl, kills>>
VerifyEnd ==
    /\ pc = "verify" /\ todo = <<>>
    /\ pc' = IF \A s \in Sources : dl[s].at = "fetched" => Right(s, file[s]) THEN "done" ELSE "error"
    /\ UNCHANGED <<given, disk, todo, sum, dl, kills>>

\* The process dies, or ends with an error, and the command is given again.
Restart ==
    /\ pc # "done" /\ kills < MaxKills
    /\ kills' = kills + 1 /\ Start("purge")
    /\ sum' = [s \in Sources |-> "good"] /\ dl' = [s \in Sources |-> NoDownload]
    /\ UNCHANGED <<given, disk>>

Transfer(s) ==
    \/ Exception(s) \/ Unexpected(s) \/ Read(s) \/ Resume(s) \/ Rename(s)
    \/ (\E c \in {"good", "bad"} : \/ Again200(s, c) \/ Answer206(s, c)
                                   \/ (\E known \in BOOLEAN : Answer200(s, known, c)))
Invoke == \/ Purged \/ LinkEnd \/ FetchEnd \/ VerifyEnd
          \/ \E s \in Sources : \/ Purge(s) \/ UseKnown(s) \/ MustFetch(s) \/ IsThere(s)
                                \/ Verify(s) \/ Transfer(s)
Next == Invoke \/ Restart \/ \E s \in Sources : Stall(s)

\* The process and its threads run as long as a server does not let them wait.
Spec == Init /\ [][Next]_vars /\ WF_vars(Invoke)
-------------------------------------------------------------------------------
\* 000_sources.py:42-66, 269-379: whatever lay there, whatever the servers sent
\* and wherever the process was killed, a fetch that succeeds has verified every
\* source, and by_sha256 then keeps what its name says.
Verified ==
    pc = "done" => \A s \in Sources :
        /\ file[s] = sum[s] /\ file[s] \notin {"empty", None}
        /\ ~accept => file[s] = "good" /\ link[s] = "good"


\* 000_sources.py:206-207, "try a few times on failures": a download does not
\* fail when its latest answer was the whole file.
NotInVain == \A s \in Sources : dl[s].at = "failed" => ~dl[s].whole
================================================================================
