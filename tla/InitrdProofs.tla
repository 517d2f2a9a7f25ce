----------------------------- MODULE InitrdProofs -----------------------------
(***************************************************************************)
(* Proofs about PID 1 of the initramfs for command lines of any length and *)
(* any disks.                                                              *)
(*                                                                         *)
(* The first part is about parse_cmdline: after n words the configuration  *)
(* is what the last of them about each thing asks for (ReadOf), by         *)
(* induction on n.  The second part is the invariant of the boot: which of *)
(* the kernel file systems have been mounted and moved (Mounts), and where *)
(* the configuration comes from (Config).                                  *)
(***************************************************************************)
EXTENDS Initrd, WellFoundedInduction, TLAPS

\* Induction over the numbers up to a bound, for a set of numbers.
LEMMA LessIs ==
    ASSUME NEW m \in Nat, NEW j \in Nat
    PROVE  <<j, m>> \in OpToRel(<, Nat) <=> j < m
  BY Zenon DEF OpToRel

LEMMA UpTo ==
    ASSUME NEW N \in Nat, NEW S, 0 \in S, \A n \in Nat : n < N /\ n \in S => n + 1 \in S
    PROVE  0..N \subseteq S
<1> DEFINE T == (0..N) \ S
<1> SUFFICES ASSUME T # {} PROVE FALSE
  OBVIOUS
<1>1. T \subseteq Nat
  OBVIOUS
<1>2. PICK m \in T : \A j \in T : ~(<<j, m>> \in OpToRel(<, Nat))
  <2> HIDE DEF T
  <2> QED BY <1>1, NatLessThanWellFounded, WFMin
<1>3. m \in Nat /\ m # 0 /\ m <= N
  OBVIOUS
<1>4. m - 1 \in T
  <2>1. m - 1 \in Nat /\ m - 1 < N /\ (m - 1) + 1 = m
    BY <1>3
  <2>2. m - 1 \notin S
    BY <2>1
  <2>3. QED
    BY <2>1, <2>2
<1>5. m - 1 < m
  BY <1>3
<1>6. QED
  <2> HIDE DEF T
  <2> QED BY <1>1, <1>2, <1>4, <1>5, LessIs

\* g is what parse_cmdline has made of the first words of a line.
Reading(l, g, m) == g = [n \in 0..m |-> IF n = 0 THEN Default ELSE ParseWord(g[n - 1], l[n])]

\* The recursive function of parse_cmdline is defined by its equation.
LEMMA ParsedIs ==
    ASSUME NEW l, Len(l) \in Nat
    PROVE  /\ Parsed(l)[0] = Default
           /\ \A n \in 1..Len(l) : Parsed(l)[n] = ParseWord(Parsed(l)[n - 1], l[n])
<1> DEFINE N == Len(l)
           S == {m \in 0..N : \E g : Reading(l, g, m)}
<1>1. 0 \in S
  <2> DEFINE g == [n \in 0..0 |-> Default]
  <2>1. Reading(l, g, 0)
    BY DEF Reading
  <2>2. QED
    BY <2>1
<1>2. ASSUME NEW m \in Nat, m < N, m \in S PROVE m + 1 \in S
  <2>1. PICK g : Reading(l, g, m)
    BY <1>2
  <2> DEFINE h == [n \in 0..(m + 1) |-> IF n = 0 THEN Default ELSE ParseWord(g[n - 1], l[n])]
  <2>2. ASSUME NEW n \in 0..m PROVE h[n] = g[n]
    <3>1. n \in 0..(m + 1)
      OBVIOUS
    <3>2. g[n] = IF n = 0 THEN Default ELSE ParseWord(g[n - 1], l[n])
      BY <2>1 DEF Reading
    <3>3. QED
      BY <3>1, <3>2
  <2>3. ASSUME NEW n \in 0..(m + 1), n # 0 PROVE h[n - 1] = g[n - 1]
    <3>1. n - 1 \in 0..m
      BY <2>3
    <3>2. QED
      BY <2>2, <3>1
  <2>4. Reading(l, h, m + 1)
    BY <2>3 DEF Reading
  <2>5. QED
    BY <1>2, <2>4
<1>3. \E g : Reading(l, g, N)
  <2>1. 0..N \subseteq S
    <3> HIDE DEF S, N
    <3> QED BY <1>1, <1>2, UpTo DEF N
  <2>2. QED
    BY <2>1
<1>4. Reading(l, Parsed(l), N)
  BY <1>3 DEF Parsed, Reading
<1>5. QED
  BY <1>4 DEF Reading
-------------------------------------------------------------------------------
Fields == {"root", "root_type", "readonly", "wait_forever", "delay", "timeout", "init",
           "shell_on_error"}

\* What one word does to the fields that the properties are about.
Effect(c, w, e) ==
    /\ DOMAIN e = Fields
    /\ e.readonly = IF w[1] \in {"ro", "rw"} THEN w[1] = "ro" ELSE c.readonly
    /\ e.root_type = IF w[1] \in {"rootfstype"} THEN w[2] ELSE c.root_type
    /\ e.init = IF w[1] = "init" /\ w[2].good THEN w[2].is ELSE c.init
    /\ e.shell_on_error = IF w[1] = "rd.shell=0" THEN FALSE ELSE c.shell_on_error
IsWord(w) == w[1] = "init" => w[2].good \in BOOLEAN
LEMMA WordEffect ==
    ASSUME NEW c, DOMAIN c = Fields, NEW w, IsWord(w)
    PROVE  Effect(c, w, ParseWord(c, w))
<1> USE DEF Effect, IsWord
<1>1. CASE w[1] = "ro"
  BY <1>1 DEF ParseWord, Fields
<1>2. CASE w[1] = "rw"
  BY <1>2 DEF ParseWord, Fields
<1>3. CASE w[1] = "rootwait"
  BY <1>3 DEF ParseWord, Fields
<1>4. CASE w[1] = "rd.shell=0"
  BY <1>4 DEF ParseWord, Fields
<1>5. CASE w[1] = "root"
  BY <1>5 DEF ParseWord, Fields
<1>6. CASE w[1] = "rootfstype"
  BY <1>6 DEF ParseWord, Fields
<1>7. CASE w[1] = "rootdelay"
  BY <1>7 DEF ParseWord, Fields
<1>8. CASE w[1] = "rd.timeout"
  BY <1>8 DEF ParseWord, Fields
<1>9. CASE w[1] = "init"
  BY <1>9 DEF ParseWord, Fields
<1>10. CASE w[1] \notin {"ro", "rw", "rootwait", "rd.shell=0", "root", "rootfstype", "rootdelay",
                         "rd.timeout", "init"}
  BY <1>10 DEF ParseWord
<1>11. QED
  BY <1>1, <1>2, <1>3, <1>4, <1>5, <1>6, <1>7, <1>8, <1>9, <1>10

\* A value that the words at the places C set, and all others leave alone, is
\* what the last of them says.
SaidBy(C, n, i) == i \in C /\ i <= n /\ \A j \in C : j <= n => j <= i
Says(C, N, v, d, say) ==
    /\ C \subseteq 1..N /\ v[0] = d
    /\ \A n \in 1..N : v[n] = IF n \in C THEN say[n] ELSE v[n - 1]
LEMMA LastSays ==
    ASSUME NEW N \in Nat, NEW C, NEW v, NEW d, NEW say, Says(C, N, v, d, say)
    PROVE  (C = {} /\ v[N] = d) \/ \E i \in C : (\A j \in C : j <= i) /\ v[N] = say[i]
<1> USE DEF Says
<1> DEFINE Read(n) == \/ v[n] = d /\ \A j \in C : j > n
                      \/ \E i \in C : SaidBy(C, n, i) /\ v[n] = say[i]
           S == {n \in 0..N : Read(n)}
<1>1. 0 \in S
  OBVIOUS
<1>2. ASSUME NEW n \in Nat, n < N, n \in S PROVE n + 1 \in S
  <2>1. n + 1 \in 1..N /\ n + 1 - 1 = n /\ n + 1 \in 0..N
    BY <1>2
  <2>2. CASE n + 1 \in C
    <3>1. SaidBy(C, n + 1, n + 1) /\ v[n + 1] = say[n + 1]
      BY <2>1, <2>2 DEF SaidBy
    <3>2. QED
      BY <2>1, <2>2, <3>1
  <2>3. CASE n + 1 \notin C
    <3>1. v[n + 1] = v[n]
      BY <2>1, <2>3
    <3>2. \A j \in C : j <= n + 1 <=> j <= n
      BY <2>1, <2>3
    <3>3. CASE v[n] = d /\ \A j \in C : j > n
      <4>1. \A j \in C : j > n + 1
        BY <2>3, <3>3
      <4>2. QED
        BY <2>1, <3>1, <3>3, <4>1
    <3>4. CASE \E i \in C : SaidBy(C, n, i) /\ v[n] = say[i]
      <4>1. PICK i \in C : SaidBy(C, n, i) /\ v[n] = say[i]
        BY <3>4
      <4>2. SaidBy(C, n + 1, i)
        BY <3>2, <4>1 DEF SaidBy
      <4>3. QED
        BY <2>1, <3>1, <4>1, <4>2
    <3>5. QED
      BY <1>2, <3>3, <3>4
  <2>4. QED
    BY <2>2, <2>3
<1>3. N \in S
  <2>1. 0..N \subseteq S
    <3> HIDE DEF S
    <3> QED BY <1>1, <1>2, UpTo
  <2>2. QED
    BY <2>1
<1>4. CASE v[N] = d /\ \A j \in C : j > N
  BY <1>4
<1>5. CASE \E i \in C : SaidBy(C, N, i) /\ v[N] = say[i]
  BY <1>5 DEF SaidBy
<1>6. QED
  BY <1>3, <1>4, <1>5

\* What LastOf finds is the last of the words it is asked for.
Counted(kinds) == {i \in DOMAIN line : line[i][1] \in kinds /\ (line[i][1] = "init" => line[i][2].good)}
LEMMA LastOfIs ==
    ASSUME TypeOK, NEW kinds
    PROVE  /\ Counted(kinds) = {} => LastOf(kinds) = <<None, None>>
           /\ \A i \in Counted(kinds) : (\A j \in Counted(kinds) : j <= i) => LastOf(kinds) = line[i]
<1>1. Counted(kinds) \subseteq Nat
  BY LinesAssumption DEF TypeOK, Counted
<1>2. ASSUME NEW i \in Counted(kinds), \A j \in Counted(kinds) : j <= i
      PROVE  (CHOOSE m \in Counted(kinds) : \A j \in Counted(kinds) : j <= m) = i
  BY <1>1, <1>2
<1>3. QED
  BY <1>2 DEF LastOf, Counted

\* parse_cmdline: of the words about one thing the last one counts.
ReadOf(c) ==
    /\ c.readonly = (LastOf({"ro", "rw"})[1] = "ro")
    /\ c.root_type = LastOf({"rootfstype"})[2]
    /\ c.init = IF Asks("init") /\ LastOf({"init"})[1] = "init" THEN LastOf({"init"})[2].is
                ELSE "/usr/bin/dinit"
    /\ c.shell_on_error = ~Asks("rd.shell=0")
LEMMA ParsedLast ==
    ASSUME TypeOK PROVE ReadOf(ParseCmdline(line))
<1> DEFINE N == Len(line)
           P == Parsed(line)
<1>1. line \in Lines /\ N \in Nat /\ DOMAIN line = 1..N
      /\ \A i \in 1..N : IsWord(line[i])
  BY LinesAssumption DEF TypeOK, IsWord
<1>2. P[0] = Default /\ \A n \in 1..N : P[n] = ParseWord(P[n - 1], line[n])
  BY <1>1, ParsedIs
<1>3. ParseCmdline(line) = P[N]
  BY DEF ParseCmdline
<1> HIDE DEF N, P
<1>4. \A n \in 0..N : DOMAIN P[n] = Fields
  <2> DEFINE S == {n \in 0..N : DOMAIN P[n] = Fields}
  <2>1. 0 \in S
    BY <1>1, <1>2 DEF Default, Fields
  <2>2. ASSUME NEW n \in Nat, n < N, n \in S PROVE n + 1 \in S
    <3>1. n + 1 \in 1..N /\ n + 1 - 1 = n /\ DOMAIN P[n] = Fields /\ n + 1 \in 0..N
      BY <1>1, <2>2
    <3>2. P[n + 1] = ParseWord(P[n], line[n + 1])
      BY <1>2, <3>1
    <3>3. Effect(P[n], line[n + 1], P[n + 1])
      BY <1>1, <3>1, <3>2, WordEffect
    <3>4. QED
      BY <3>1, <3>3 DEF Effect
  <2>3. 0..N \subseteq S
    <3> HIDE DEF S
    <3> QED BY <1>1, <2>1, <2>2, UpTo
  <2>4. QED
    BY <2>3
<1>5. ASSUME NEW n \in 1..N PROVE Effect(P[n - 1], line[n], P[n])
  <2>1. n - 1 \in 0..N
    BY <1>1
  <2>2. DOMAIN P[n - 1] = Fields /\ P[n] = ParseWord(P[n - 1], line[n])
    BY <1>2, <1>4, <2>1
  <2>3. QED
    BY <1>1, <2>2, WordEffect
<1>6. P[N].readonly = (LastOf({"ro", "rw"})[1] = "ro")
  <2> DEFINE C == Counted({"ro", "rw"})
             v == [n \in 0..N |-> P[n].readonly]
             say == [n \in 1..N |-> line[n][1] = "ro"]
             d == FALSE
  <2>1. C \subseteq 1..N /\ \A n \in 1..N : n \in C <=> line[n][1] \in {"ro", "rw"}
    BY <1>1 DEF Counted
  <2>2. Says(C, N, v, d, say)
    <3>1. v[0] = FALSE
      BY <1>1, <1>2 DEF Default
    <3>2. ASSUME NEW n \in 1..N PROVE v[n] = P[n].readonly /\ v[n - 1] = P[n - 1].readonly
      BY <1>1
    <3>3. QED
      BY <1>5, <2>1, <3>1, <3>2 DEF Says, Effect
  <2>3. v[N] = P[N].readonly /\ \A i \in C : say[i] = (line[i][1] = "ro")
    BY <1>1, <2>1
  <2> HIDE DEF C, v, say, d
  <2>4. (C = {} /\ v[N] = d) \/ \E i \in C : (\A j \in C : j <= i) /\ v[N] = say[i]
    BY <1>1, <2>2, LastSays
  <2>5. CASE C = {} /\ v[N] = d
    <3>1. LastOf({"ro", "rw"}) = <<None, None>>
      BY <2>5, LastOfIs DEF C
    <3>2. LastOf({"ro", "rw"})[1] # "ro"
      BY <3>1 DEF None
    <3>3. P[N].readonly = FALSE
      BY <2>3, <2>5 DEF d
    <3>4. QED
      BY <3>2, <3>3
  <2>6. CASE \E i \in C : (\A j \in C : j <= i) /\ v[N] = say[i]
    <3>1. PICK i \in C : (\A j \in C : j <= i) /\ v[N] = say[i]
      BY <2>6
    <3>2. LastOf({"ro", "rw"}) = line[i]
      BY <3>1, LastOfIs DEF C
    <3>3. QED
      BY <2>3, <3>1, <3>2
  <2>7. QED
    BY <2>4, <2>5, <2>6
<1>7. P[N].root_type = LastOf({"rootfstype"})[2]
  <2> DEFINE C == Counted({"rootfstype"})
             v == [n \in 0..N |-> P[n].root_type]
             say == [n \in 1..N |-> line[n][2]]
  <2>1. C \subseteq 1..N /\ \A n \in 1..N : n \in C <=> line[n][1] \in {"rootfstype"}
    BY <1>1 DEF Counted
  <2>2. Says(C, N, v, None, say)
    <3>1. v[0] = None
      BY <1>1, <1>2 DEF Default
    <3>2. ASSUME NEW n \in 1..N PROVE v[n] = P[n].root_type /\ v[n - 1] = P[n - 1].root_type
      BY <1>1
    <3>3. QED
      BY <1>5, <2>1, <3>1, <3>2 DEF Says, Effect
  <2>3. v[N] = P[N].root_type /\ \A i \in C : say[i] = line[i][2]
    BY <1>1, <2>1
  <2> HIDE DEF C, v, say
  <2>4. (C = {} /\ v[N] = None) \/ \E i \in C : (\A j \in C : j <= i) /\ v[N] = say[i]
    BY <1>1, <2>2, LastSays
  <2>5. QED
    BY <2>3, <2>4, LastOfIs DEF C
<1>8. P[N].init = IF Asks("init") /\ LastOf({"init"})[1] = "init" THEN LastOf({"init"})[2].is
                  ELSE "/usr/bin/dinit"
  <2> DEFINE C == Counted({"init"})
             v == [n \in 0..N |-> P[n].init]
             say == [n \in 1..N |-> line[n][2].is]
  <2>1. C \subseteq 1..N /\ \A n \in 1..N : n \in C <=> line[n][1] = "init" /\ line[n][2].good
    BY <1>1 DEF Counted
  <2>2. Says(C, N, v, "/usr/bin/dinit", say)
    <3>1. v[0] = "/usr/bin/dinit"
      BY <1>1, <1>2 DEF Default
    <3>2. ASSUME NEW n \in 1..N PROVE v[n] = P[n].init /\ v[n - 1] = P[n - 1].init
      BY <1>1
    <3>3. QED
      BY <1>5, <2>1, <3>1, <3>2 DEF Says, Effect
  <2>3. v[N] = P[N].init /\ \A i \in C : say[i] = line[i][2].is /\ line[i][1] = "init" /\ i \in DOMAIN line
    BY <1>1, <2>1
  <2> HIDE DEF C, v, say
  <2>4. (C = {} /\ v[N] = "/usr/bin/dinit") \/ \E i \in C : (\A j \in C : j <= i) /\ v[N] = say[i]
    BY <1>1, <2>2, LastSays
  <2>5. CASE C = {} /\ v[N] = "/usr/bin/dinit"
    BY <2>3, <2>5, LastOfIs DEF C, None
  <2>6. CASE \E i \in C : (\A j \in C : j <= i) /\ v[N] = say[i]
    <3>1. PICK i \in C : (\A j \in C : j <= i) /\ v[N] = say[i]
      BY <2>6
    <3>2. LastOf({"init"}) = line[i] /\ Asks("init")
      BY <2>3, <3>1, LastOfIs DEF C, Asks
    <3>3. QED
      BY <2>3, <3>1, <3>2
  <2>7. QED
    BY <2>4, <2>5, <2>6
<1>9. P[N].shell_on_error = ~Asks("rd.shell=0")
  <2> DEFINE C == Counted({"rd.shell=0"})
             v == [n \in 0..N |-> P[n].shell_on_error]
             say == [n \in 1..N |-> FALSE]
             d == TRUE
  <2>1. C \subseteq 1..N /\ \A n \in 1..N : n \in C <=> line[n][1] = "rd.shell=0"
    BY <1>1 DEF Counted
  <2>2. Says(C, N, v, d, say)
    <3>1. v[0] = TRUE
      BY <1>1, <1>2 DEF Default
    <3>2. ASSUME NEW n \in 1..N PROVE v[n] = P[n].shell_on_error /\ v[n - 1] = P[n - 1].shell_on_error
      BY <1>1
    <3>3. QED
      BY <1>5, <2>1, <3>1, <3>2 DEF Says, Effect
  <2>3. v[N] = P[N].shell_on_error /\ (\A i \in C : say[i] = FALSE) /\ (Asks("rd.shell=0") <=> C # {})
    BY <1>1, <2>1 DEF Asks
  <2> HIDE DEF C, v, say, d
  <2>4. (C = {} /\ v[N] = d) \/ \E i \in C : (\A j \in C : j <= i) /\ v[N] = say[i]
    BY <1>1, <2>2, LastSays
  <2>5. QED
    BY <2>3, <2>4 DEF d
<1>10. QED
  BY <1>3, <1>6, <1>7, <1>8, <1>9 DEF ReadOf
-------------------------------------------------------------------------------
LEMMA KernelFsAre ==
    /\ Len(KernelFs) = 4 /\ DOMAIN KernelFs = 1..4
    /\ \A i \in 1..4 : KernelFs[i] \in Range(KernelFs)
    /\ \A f \in Range(KernelFs) : \E i \in 1..4 : KernelFs[i] = f
<1>1. Len(KernelFs) = 4 /\ DOMAIN KernelFs = 1..4
  BY DEF KernelFs
<1>2. QED
  BY <1>1 DEF Range

\* Before the root is mounted there is nothing mounted; then it is as the
\* configuration says, the kernel file systems follow one by one, and the disk
\* is what the process sees.
Looking == {"delay", "look", "check", "sleep", "mount"}
Early == {"prepare", "modules", "cmdline"}
Config ==
    /\ pc \in Looking \cup {"move", "chroot", "exec", "init"} => cfg = ParseCmdline(line)
    /\ pc \in {"move", "chroot", "exec", "init"} => /\ mounted.readonly = cfg.readonly
                                                   /\ cfg.root_type \in {None, mounted.fs}
    /\ pc \in Early \cup Looking => mounted = NotMounted
Mounts ==
    /\ pc = "move" => \A i \in 1..4 : i < k => at[KernelFs[i]] = "disk"
    /\ pc \in {"chroot", "exec", "init"} => \A f \in DOMAIN at : at[f] = "disk"
    /\ pc \in {"exec", "init"} => root = "disk"
IInv == Config /\ Mounts /\ ShellAsAsked

Points == {"prepare", "modules", "cmdline", "delay", "look", "check", "sleep", "mount", "move",
           "chroot", "exec", "init", "failed", "shell", "inshell", "pause", "parked"}

\* A step that goes somewhere and changes nothing else.
LEMMA GotoType ==
    ASSUME TypeOK, NEW p \in Points, Goto(p), UNCHANGED <<env, cfg, where>>
    PROVE  TypeOK'
  BY TimeAssumption DEF TypeOK, Goto, env, where, Points

LEMMA FailInv ==
    ASSUME TypeOK, IInv, Fail PROVE TypeOK' /\ IInv'
<1>1. Goto("failed") /\ UNCHANGED <<env, cfg, where>> /\ pc' = "failed"
  BY DEF Fail, Goto
<1>2. TypeOK'
  BY <1>1, GotoType DEF Points
<1>3. QED
  BY <1>1, <1>2 DEF IInv, Config, Mounts, ShellAsAsked, Early, Looking

\* Steps on the way to the root device, which touch neither mounts nor cfg.
LEMMA OnTheWay ==
    ASSUME TypeOK, IInv, UNCHANGED <<line, disk, cfg, where>>, pc \in Early \cup Looking,
           pc' \in Early \cup Looking, pc \in Early => pc' \in Early
    PROVE  IInv'
<1>1. Config'
  BY DEF IInv, Config, where, Early, Looking
<1>2. Mounts' /\ ShellAsAsked'
  BY DEF Mounts, ShellAsAsked, Early, Looking
<1>3. QED
  BY <1>1, <1>2 DEF IInv

\* Time, and a device that comes or goes, change nothing that is mounted.
LEMMA Outside ==
    ASSUME TypeOK, IInv, UNCHANGED <<line, disk, cfg, pc, k, where>>
    PROVE  IInv'
<1>1. Config' /\ Mounts'
  BY DEF IInv, Config, Mounts, where
<1>2. ShellAsAsked'
  BY DEF IInv, ShellAsAsked, where, Asks, Visible
<1>3. QED
  BY <1>1, <1>2 DEF IInv

\* The emergency shell comes and goes.
LEMMA ShellStep ==
    ASSUME TypeOK, IInv, UNCHANGED <<env, cfg, where>>, pc \in {"shell", "inshell", "pause"},
           NEW p \in {"shell", "inshell", "pause"}, Goto(p)
    PROVE  TypeOK' /\ IInv'
<1>1. TypeOK'
  BY GotoType DEF Points
<1>2. pc' = p
  BY DEF Goto
<1>3. Config' /\ Mounts'
  BY <1>2 DEF Config, Mounts, Early, Looking
<1>4. ShellAsAsked'
  BY <1>2 DEF IInv, ShellAsAsked, where, env, Asks, Visible
<1>5. QED
  BY <1>1, <1>3, <1>4 DEF IInv

\* Every step keeps the types and the invariant.
LEMMA Step == TypeOK /\ IInv /\ [Next]_vars => TypeOK' /\ IInv'
<1> SUFFICES ASSUME TypeOK, IInv, [Next]_vars PROVE TypeOK' /\ IInv'
  OBVIOUS
<1>1. CASE UNCHANGED vars
  <2>1. UNCHANGED <<env, cfg, pc, k, clock, where>>
    BY <1>1 DEF vars
  <2>2. TypeOK'
    BY <2>1 DEF TypeOK, env, where
  <2>3. QED
    BY <2>1, <2>2, Outside DEF env
<1>2. CASE Prepare
  <2>1. TypeOK'
    BY <1>2, KernelFsAre DEF Prepare, TypeOK, env, Places
  <2>2. pc = "prepare" /\ pc' = "prepare" /\ UNCHANGED <<line, cfg, mounted>>
    BY <1>2 DEF Prepare, env
  <2>3. QED
    BY <2>1, <2>2 DEF IInv, Config, Mounts, ShellAsAsked, Early, Looking
<1>3. CASE Prepared
  <2>1. pc = "prepare" /\ Goto("modules") /\ pc' = "modules" /\ UNCHANGED <<env, cfg, where>>
    BY <1>3 DEF Prepared, Goto
  <2>2. QED
    BY <2>1, GotoType, OnTheWay DEF Points, Early, env
<1>4. CASE LoadModules
  <2>1. pc = "modules" /\ Goto("cmdline") /\ pc' = "cmdline" /\ UNCHANGED <<env, cfg, where>>
    BY <1>4 DEF LoadModules, Goto
  <2>2. QED
    BY <2>1, GotoType, OnTheWay DEF Points, Early, env
<1>5. CASE ReadCmdline
  <2>1. /\ pc = "cmdline" /\ cfg' = ParseCmdline(line) /\ pc' \in {"failed", "delay"} /\ k' = 1
        /\ clock' = 0 /\ UNCHANGED <<env, where>>
    BY <1>5 DEF ReadCmdline, Goto
  <2>2. mounted = NotMounted
    BY <2>1 DEF IInv, Config, Early
  <2>3. TypeOK'
    BY <2>1, <2>2, TimeAssumption DEF TypeOK, env, where
  <2>4. Config'
    BY <2>1, <2>2 DEF Config, Early, Looking, env, where, NotMounted
  <2>5. Mounts' /\ ShellAsAsked'
    BY <2>1 DEF Mounts, ShellAsAsked
  <2>6. QED
    BY <2>3, <2>4, <2>5 DEF IInv
<1>6. CASE Delay
  <2>1. pc = "delay" /\ Goto("look") /\ pc' = "look" /\ UNCHANGED <<env, cfg, where>>
    BY <1>6 DEF Delay, Goto
  <2>2. QED
    BY <2>1, GotoType, OnTheWay DEF Points, Looking, Early, env
<1>7. CASE Look
  <2>1. pc = "look" /\ pc' \in {"mount", "check"} /\ UNCHANGED <<env, cfg, where>>
        /\ (Goto("mount") \/ UNCHANGED <<k, clock>>)
    BY <1>7 DEF Look, Goto
  <2>2. TypeOK'
    BY <2>1, TimeAssumption DEF TypeOK, Goto, env, where
  <2>3. QED
    BY <2>1, <2>2, OnTheWay DEF Looking, Early, env
<1>8. CASE Check
  <2>1. pc = "check" /\ UNCHANGED <<env, cfg, where>>
        /\ (Goto("failed") \/ (pc' = "sleep" /\ UNCHANGED <<k, clock>>))
    BY <1>8 DEF Check
  <2>2. CASE Goto("failed")
    BY <2>1, <2>2, FailInv DEF Fail
  <2>3. CASE pc' = "sleep" /\ UNCHANGED <<k, clock>>
    <3>1. TypeOK'
      BY <2>1, <2>3 DEF TypeOK, env, where
    <3>2. QED
      BY <2>1, <2>3, <3>1, OnTheWay DEF Looking, Early, env
  <2>4. QED
    BY <2>1, <2>2, <2>3
<1>9. CASE Wake
  <2>1. pc = "sleep" /\ pc' = "look" /\ clock' \in {clock, clock + 1}
        /\ (clock' = clock + 1 => clock < MaxTime) /\ UNCHANGED <<env, cfg, k, where>>
    BY <1>9 DEF Wake, TypeOK
  <2>2. TypeOK'
    BY <2>1, TimeAssumption DEF TypeOK, env, where
  <2>3. QED
    BY <2>1, <2>2, OnTheWay DEF Looking, Early, env
<1>10. CASE MountRoot
  <2>1. pc = "mount" /\ k <= Len(Candidates) /\ UNCHANGED <<env, cfg, at, root>>
    BY <1>10 DEF MountRoot
  <2>2. CASE /\ Candidates[k] = disk.fs /\ Goto("move")
             /\ mounted' = [fs |-> disk.fs, readonly |-> cfg.readonly]
    <3>1. pc' = "move" /\ k' = 1 /\ clock' = 0
      BY <2>2 DEF Goto
    <3>2. TypeOK'
      BY <2>1, <2>2, <3>1, TimeAssumption DEF TypeOK, env
    <3>3. cfg.root_type \in {None, disk.fs}
      <4>1. CASE cfg.root_type = None
        BY <4>1
      <4>2. CASE cfg.root_type # None
        <5>1. Candidates = <<cfg.root_type>> /\ k = 1
          BY <2>1, <4>2 DEF Candidates, TypeOK
        <5>2. QED
          BY <2>2, <5>1
      <4>3. QED
        BY <4>1, <4>2
    <3>4. Config'
      BY <2>1, <2>2, <3>1, <3>3 DEF IInv, Config, Early, Looking, env
    <3>5. Mounts' /\ ShellAsAsked'
      BY <3>1 DEF Mounts, ShellAsAsked
    <3>6. QED
      BY <3>2, <3>4, <3>5 DEF IInv
  <2>3. CASE k' = k + 1 /\ UNCHANGED <<pc, clock, mounted>>
    <3>1. Len(Candidates) <= 5
      BY DEF Candidates, FsTypes
    <3>2. k' \in 1..6
      BY <2>1, <2>3, <3>1 DEF TypeOK, Candidates, FsTypes
    <3>3. TypeOK'
      BY <2>1, <2>3, <3>2 DEF TypeOK, env
    <3>4. QED
      BY <2>1, <2>3, <3>3, OnTheWay DEF Looking, Early, env, where
  <2>4. QED
    BY <1>10, <2>2, <2>3 DEF MountRoot
<1>11. CASE Move
  <2>1. /\ pc = "move" /\ k \in 1..4 /\ at' = [at EXCEPT ![KernelFs[k]] = "disk"] /\ k' = k + 1
        /\ UNCHANGED <<env, cfg, pc, clock, mounted, root>>
    BY <1>11, KernelFsAre DEF Move, TypeOK
  <2>2. TypeOK'
    BY <2>1, KernelFsAre DEF TypeOK, env, Places
  <2>3. Config' /\ ShellAsAsked'
    BY <2>1 DEF IInv, Config, ShellAsAsked, env
  <2>4. Mounts'
    <3>1. ASSUME NEW i \in 1..4, i < k' PROVE at'[KernelFs[i]] = "disk"
      <4>1. at \in [Range(KernelFs) -> Places] /\ KernelFs[i] \in Range(KernelFs)
        BY KernelFsAre DEF TypeOK
      <4>2. i = k \/ at[KernelFs[i]] = "disk"
        BY <2>1, <3>1 DEF IInv, Mounts
      <4>3. QED
        BY <2>1, <4>1, <4>2
    <3>2. QED
      BY <2>1, <3>1 DEF Mounts
  <2>5. QED
    BY <2>2, <2>3, <2>4 DEF IInv
<1>12. CASE Moved
  <2>1. pc = "move" /\ k > 4 /\ Goto("chroot") /\ pc' = "chroot" /\ UNCHANGED <<env, cfg, where>>
    BY <1>12, KernelFsAre DEF Moved, Goto
  <2>2. TypeOK'
    BY <2>1, GotoType DEF Points
  <2>3. \A f \in DOMAIN at : at[f] = "disk"
    BY <2>1, KernelFsAre DEF IInv, Mounts, TypeOK
  <2>4. Config' /\ Mounts' /\ ShellAsAsked'
    BY <2>1, <2>3 DEF IInv, Config, Mounts, ShellAsAsked, Early, Looking, env, where
  <2>5. QED
    BY <2>2, <2>4 DEF IInv
<1>13. CASE Chroot
  <2>1. pc = "chroot" /\ root' = "disk" /\ pc' = "exec" /\ k' = 1 /\ clock' = 0
        /\ UNCHANGED <<env, cfg, at, mounted>>
    BY <1>13 DEF Chroot, Goto
  <2>2. TypeOK'
    BY <2>1, TimeAssumption DEF TypeOK, env
  <2>3. Config' /\ Mounts' /\ ShellAsAsked'
    BY <2>1 DEF IInv, Config, Mounts, ShellAsAsked, Early, Looking, env
  <2>4. QED
    BY <2>2, <2>3 DEF IInv
<1>14. CASE Exec
  <2>1. pc = "exec" /\ Goto("init") /\ pc' = "init" /\ UNCHANGED <<env, cfg, where>>
    BY <1>14 DEF Exec, Goto
  <2>2. TypeOK'
    BY <2>1, GotoType DEF Points
  <2>3. Config' /\ Mounts' /\ ShellAsAsked'
    BY <2>1 DEF IInv, Config, Mounts, ShellAsAsked, Early, Looking, env, where
  <2>4. QED
    BY <2>2, <2>3 DEF IInv
<1>15. CASE NoType \/ NoMkdir \/ NoInit \/ Error
  BY <1>15, FailInv DEF NoType, NoMkdir, NoInit, Error
<1>16. CASE Failed
  <2>1. pc = "failed" /\ UNCHANGED <<env, cfg, where>>
        /\ IF ReadAgain.shell_on_error THEN Goto("shell") ELSE Goto("parked")
    BY <1>16 DEF Failed
  <2>2. pc' \in {"shell", "parked"} /\ (pc' = "shell" <=> ReadAgain.shell_on_error)
    BY <2>1 DEF Goto
  <2>3. TypeOK'
    BY <2>1, GotoType DEF Points
  <2>4. Config' /\ Mounts'
    BY <2>2 DEF Config, Mounts, Early, Looking
  <2>5. ParseCmdline(line).shell_on_error = ~Asks("rd.shell=0") /\ Default.shell_on_error
    BY ParsedLast DEF ReadOf, Default
  <2>6. UNCHANGED <<line, at, root>>
    BY <2>1 DEF env, where
  <2>7. ShellAsAsked'
    BY <2>2, <2>5, <2>6 DEF ShellAsAsked, ReadAgain, Asks, Visible
  <2>8. QED
    BY <2>3, <2>4, <2>7 DEF IInv
<1>17. CASE StartShell \/ ShellExits \/ Pause
  BY <1>17, ShellStep DEF StartShell, ShellExits, Pause
<1>18. CASE Tick
  <2>1. UNCHANGED <<env, cfg, pc, k, where>> /\ clock' = clock + 1 /\ clock < MaxTime
    BY <1>18 DEF Tick
  <2>2. TypeOK'
    BY <2>1, TimeAssumption DEF TypeOK, env, where
  <2>3. QED
    BY <2>1, <2>2, Outside DEF env
<1>19. CASE Device
  <2>1. /\ UNCHANGED <<line, disk, cfg, pc, k, clock, where>> /\ present' = ~present
        /\ changes' = changes + 1 /\ changes < MaxChanges
    BY <1>19 DEF Device
  <2>2. TypeOK'
    BY <2>1, TimeAssumption DEF TypeOK, where
  <2>3. QED
    BY <2>1, <2>2, Outside
<1>20. QED
  BY <1>1, <1>2, <1>3, <1>4, <1>5, <1>6, <1>7, <1>8, <1>9, <1>10, <1>11, <1>12, <1>13, <1>14, <1>15,
     <1>16, <1>17, <1>18, <1>19 DEF Next, Boot, Recover

\* The types and the invariant hold in every behaviour of the boot.
THEOREM Invariant == Spec => [](TypeOK /\ IInv)
<1>1. Init => TypeOK
  BY TimeAssumption DEF Init, TypeOK, Places
<1>2. Init => IInv
  BY DEF Init, IInv, Config, Mounts, ShellAsAsked, Early, Looking
<1>3. QED
  BY <1>1, <1>2, Step, PTL DEF Spec

\* The configuration is the default one or the command line's, and the root is
\* mounted as the configuration says.
THEOREM TypeCorrect == Spec => []TypeOK
BY Invariant, PTL

\* main.rs:260-288, 307-315: init runs only in a complete root that is mounted
\* as the last words of the command line ask for.
THEOREM HandoffCorrect == Spec => []Handoff
<1>1. TypeOK /\ IInv => Handoff
  <2> SUFFICES ASSUME TypeOK, IInv, pc = "init" PROVE Handoff
    BY DEF Handoff
  <2>1. ReadOf(cfg) /\ mounted.readonly = cfg.readonly /\ cfg.root_type \in {None, mounted.fs}
    BY ParsedLast DEF IInv, Config
  <2>2. root = "disk" /\ \A f \in DOMAIN at : Visible(f)
    BY DEF IInv, Mounts, Visible
  <2>3. QED
    BY <2>1, <2>2 DEF Handoff, ReadOf
<1>2. QED
  BY <1>1, Invariant, PTL

\* main.rs:326-329: there is a shell after an error unless rd.shell=0 is asked
\* for, and against that only if /proc was not at its place.
THEOREM ShellAsAskedCorrect == Spec => []ShellAsAsked
<1>1. IInv => ShellAsAsked
  BY DEF IInv
<1>2. QED
  BY <1>1, Invariant, PTL
===============================================================================
