--------------------------------- MODULE Initrd ---------------------------------
(***************************************************************************)
(* user/myos-initrd, main.rs: PID 1 of the initramfs mounts the kernel     *)
(* file systems, loads modules, waits for the root device, mounts it, and  *)
(* hands over to the real root's init, or ends in emergency_shell.         *)
(*                                                                         *)
(* Any system call may fail, the device comes and goes, and time passes    *)
(* while the process runs or sleeps.  One unit of time is one sleep of the *)
(* waiting loop; clocks stop at MaxTime, which is not less than any delay  *)
(* or timeout.                                                             *)
(***************************************************************************)
EXTENDS Naturals, Sequences, Functions

CONSTANTS Lines,       \* the command lines to consider: sequences of words
          Disks,       \* the disks to consider, see Init
          Timeout,     \* the timeout of BootConfig::default()
          MaxTime,     \* bound: clocks
          MaxChanges   \* bound: how often the device comes or goes

None == "none"
KernelFs == <<"dev", "proc", "sys", "run">>   \* /dev/pts goes with /dev
FsTypes == <<"ext4", "xfs", "btrfs", "f2fs", "squashfs">>

Default == [root |-> None, root_type |-> None, readonly |-> FALSE, wait_forever |-> FALSE,
            delay |-> 0, timeout |-> Timeout, init |-> "/usr/bin/dinit", shell_on_error |-> TRUE]

\* parse_cmdline: what one word does to the configuration.  A word is a pair
\* of its kind and its value; a value has a flag that says whether it is taken
\* (a number parses, init's path is absolute).
ParseWord(cfg, w) ==
    CASE w[1] = "ro"         -> [cfg EXCEPT !.readonly = TRUE]
      [] w[1] = "rw"         -> [cfg EXCEPT !.readonly = FALSE]
      [] w[1] = "rootwait"   -> [cfg EXCEPT !.wait_forever = TRUE]
      [] w[1] = "rd.shell=0" -> [cfg EXCEPT !.shell_on_error = FALSE]
      [] w[1] = "root"       -> [cfg EXCEPT !.root = w[2]]
      [] w[1] = "rootfstype" -> [cfg EXCEPT !.root_type = w[2]]
      [] w[1] = "rootdelay"  -> [cfg EXCEPT !.delay = IF w[2].good THEN w[2].is ELSE 0]
      [] w[1] = "rd.timeout" -> [cfg EXCEPT !.timeout = IF w[2].good THEN w[2].is ELSE Timeout]
      [] w[1] = "init"       -> [cfg EXCEPT !.init = IF w[2].good THEN w[2].is ELSE @]
      [] OTHER               -> cfg
\* The words are taken one after the other.
Parsed(l) == LET after[n \in 0..Len(l)] ==
                   IF n = 0 THEN Default ELSE ParseWord(after[n - 1], l[n])
             IN after
ParseCmdline(l) == Parsed(l)[Len(l)]

\* A kernel command line is a sequence of words, and a value is good or not.
ASSUME LinesAssumption == \A l \in Lines :
    /\ l \in Seq(Range(l))
    /\ \A i \in DOMAIN l : l[i][1] = "init" => l[i][2].good \in BOOLEAN

ASSUME TimeAssumption ==
    /\ MaxTime \in Nat /\ MaxChanges \in Nat /\ Timeout \in 0..MaxTime
    /\ \A l \in Lines : ParseCmdline(l).timeout <= MaxTime /\ ParseCmdline(l).delay <= MaxTime

VARIABLES
    line, disk,       \* the kernel's command line, the root disk: fixed
    present, changes, \* is there a device for the disk, how often this changed
    cfg,              \* the configuration, Default before it was read
    pc, k,            \* where the process is, position in the list it works on
    clock,            \* time since the current sleep or loop began
    at,               \* at[f]: where kernel file system f is mounted
    mounted,          \* how the root is mounted: NotMounted or a record
    root              \* what / means to the process: "initramfs" or "disk"
env == <<line, disk, present, changes>>
where == <<at, mounted, root>>
vars == <<env, cfg, pc, k, clock, where>>

NotMounted == [fs |-> None, readonly |-> FALSE]

\* A disk has a file system, the kernel's directories it already contains, and
\* the programs on it.
Init == /\ line \in Lines /\ disk \in Disks /\ present \in BOOLEAN /\ changes = 0
        /\ cfg = Default /\ pc = "prepare" /\ k = 1 /\ clock = 0
        /\ at = [f \in Range(KernelFs) |-> None] /\ mounted = NotMounted /\ root = "initramfs"
-------------------------------------------------------------------------------
Goto(p) == pc' = p /\ k' = 1 /\ clock' = 0

\* main: any error in boot() ends here.
Fail == Goto("failed") /\ UNCHANGED <<env, cfg, where>>

\* prepare_kernel_filesystems: directories and private propagation, then one
\* mount after the other.
Prepare ==
    /\ pc = "prepare" /\ k <= Len(KernelFs)
    /\ at' = [at EXCEPT ![KernelFs[k]] = "initramfs"]
    /\ k' = k + 1
    /\ UNCHANGED <<env, cfg, pc, clock, mounted, root>>
Prepared == /\ pc = "prepare" /\ k > Len(KernelFs)
            /\ Goto("modules")
            /\ UNCHANGED <<env, cfg, where>>

\* load_modules: no list, or all of it loaded.
LoadModules == /\ pc = "modules"
               /\ Goto("cmdline")
               /\ UNCHANGED <<env, cfg, where>>

\* boot: read /proc/cmdline; wait_for_root refuses an empty root and sleeps.
ReadCmdline == /\ pc = "cmdline"
               /\ cfg' = ParseCmdline(line)
               /\ IF cfg'.root = None THEN Goto("failed") ELSE Goto("delay")
               /\ UNCHANGED <<env, where>>
Delay == /\ pc = "delay" /\ clock >= cfg.delay
         /\ Goto("look")
         /\ UNCHANGED <<env, cfg, where>>

\* root_path: nothing makes the links for UUID= and its like.
PathExists == cfg.root = "device" /\ present

\* Faulty variant: the time is counted from the latest look on.
LookRestart == /\ pc = "look"
               /\ clock' = 0 /\ k' = 1
               /\ pc' = IF PathExists THEN "mount" ELSE "check"
               /\ UNCHANGED <<env, cfg, where>>

\* The loop of wait_for_root: look, then at the clock, then sleep.
Look == /\ pc = "look"
        /\ IF PathExists THEN Goto("mount") ELSE pc' = "check" /\ UNCHANGED <<k, clock>>
        /\ UNCHANGED <<env, cfg, where>>

Check ==
    /\ pc = "check"
    /\ IF ~cfg.wait_forever /\ clock >= cfg.timeout
         THEN Goto("failed") ELSE pc' = "sleep" /\ UNCHANGED <<k, clock>>
    /\ UNCHANGED <<env, cfg, where>>

\* mount_root: the given type, or one type after the other.
Candidates == IF cfg.root_type = None THEN FsTypes ELSE <<cfg.root_type>>

\* Faulty variant: MS_RDONLY is not passed on.
MountRootRw ==
    /\ pc = "mount" /\ k <= Len(Candidates)
    /\ \/ /\ present /\ Candidates[k] = disk.fs
          /\ mounted' = [fs |-> disk.fs, readonly |-> FALSE]
          /\ Goto("move")
       \/ k' = k + 1 /\ UNCHANGED <<pc, clock, mounted>>
    /\ UNCHANGED <<env, cfg, at, root>>

MountRoot ==
    /\ pc = "mount" /\ k <= Len(Candidates)
    /\ \/ /\ present /\ Candidates[k] = disk.fs
          /\ mounted' = [fs |-> disk.fs, readonly |-> cfg.readonly]
          /\ Goto("move")
       \/ k' = k + 1 /\ UNCHANGED <<pc, clock, mounted>>
    /\ UNCHANGED <<env, cfg, at, root>>
NoType == pc = "mount" /\ k > Len(Candidates) /\ Fail
-------------------------------------------------------------------------------
\* switch_root: a directory that is not on the disk is made, if that is
\* possible, and the file system moved to it...
CanMkdir(f) == f \in disk.keeps \/ ~mounted.readonly
Move ==
    /\ pc = "move" /\ k <= Len(KernelFs) /\ CanMkdir(KernelFs[k])
    /\ at' = [at EXCEPT ![KernelFs[k]] = "disk"]
    /\ k' = k + 1
    /\ UNCHANGED <<env, cfg, pc, clock, mounted, root>>
NoMkdir == pc = "move" /\ k <= Len(KernelFs) /\ ~CanMkdir(KernelFs[k]) /\ Fail

\* Faulty variant: the last of them is left behind.
MovedEarly == /\ pc = "move" /\ k >= Len(KernelFs)
              /\ Goto("chroot")
              /\ UNCHANGED <<env, cfg, where>>

\* ...and then the disk is moved to /, which only chroot makes the process see.
Moved == /\ pc = "move" /\ k > Len(KernelFs)
         /\ Goto("chroot")
         /\ UNCHANGED <<env, cfg, where>>
Chroot == /\ pc = "chroot"
          /\ root' = "disk"
          /\ Goto("exec")
          /\ UNCHANGED <<env, cfg, at, mounted>>
Exec == /\ pc = "exec" /\ cfg.init \in disk.bins
        /\ Goto("init")
        /\ UNCHANGED <<env, cfg, where>>
NoInit == pc = "exec" /\ cfg.init \notin disk.bins /\ Fail

\* An error, of any of the calls above.
Error == /\ pc \in {"prepare", "modules", "cmdline", "mount", "move", "chroot", "exec"}
         /\ Fail
-------------------------------------------------------------------------------
\* main: the command line is read again, if it can be.
Visible(f) == at[f] = root
ReadAgain == IF Visible("proc") THEN ParseCmdline(line) ELSE Default

\* Faulty variant: what boot() had read is used.
FailedAsRead ==
    /\ pc = "failed"
    /\ IF cfg.shell_on_error THEN Goto("shell") ELSE Goto("parked")
    /\ UNCHANGED <<env, cfg, where>>
Failed ==
    /\ pc = "failed"
    /\ IF ReadAgain.shell_on_error THEN Goto("shell") ELSE Goto("parked")
    /\ UNCHANGED <<env, cfg, where>>

\* emergency_shell: a shell is started, again and again.
Programs == IF root = "disk" THEN disk.bins ELSE {"/bin/armybox"}
StartShell == /\ pc = "shell"
              /\ IF "/bin/armybox" \in Programs THEN Goto("inshell") ELSE Goto("pause")
              /\ UNCHANGED <<env, cfg, where>>
ShellExits == /\ pc = "inshell"
              /\ Goto("pause")
              /\ UNCHANGED <<env, cfg, where>>

\* One second later.
Pause == /\ pc = "pause"
         /\ Goto("shell")
         /\ UNCHANGED <<env, cfg, where>>

\* thread::sleep(100 ms) and the other processes' share of the time.
Wake == /\ pc = "sleep"
        /\ pc' = "look" /\ clock' = IF clock < MaxTime THEN clock + 1 ELSE clock
        /\ UNCHANGED <<env, cfg, k, where>>
Tick == /\ pc \in {"delay", "look", "check", "sleep"} /\ clock < MaxTime
        /\ clock' = clock + 1
        /\ UNCHANGED <<env, cfg, pc, k, where>>
Device == /\ changes < MaxChanges /\ pc # "init"
          /\ present' = ~present /\ changes' = changes + 1
          /\ UNCHANGED <<line, disk, cfg, pc, k, clock, where>>

Boot == \/ Prepare \/ Prepared \/ LoadModules \/ ReadCmdline \/ Delay
        \/ Look \/ Check \/ Wake \/ MountRoot \/ NoType
        \/ Move \/ NoMkdir \/ Moved \/ Chroot \/ Exec \/ NoInit
Recover == Failed \/ StartShell \/ ShellExits \/ Pause
Next == Boot \/ Error \/ Recover \/ Tick \/ Device

\* PID 1 is scheduled and time goes on; nothing is assumed of the device.
Spec == Init /\ [][Next]_vars /\ WF_vars(Boot) /\ WF_vars(Recover) /\ WF_vars(Tick)
-------------------------------------------------------------------------------
Places == {None, "initramfs", "disk"}
TypeOK ==
    /\ line \in Lines /\ disk \in Disks /\ present \in BOOLEAN /\ changes \in 0..MaxChanges
    /\ cfg \in {Default, ParseCmdline(line)}
    /\ pc \in {"prepare", "modules", "cmdline", "delay", "look", "check", "sleep", "mount", "move",
              "chroot", "exec", "init", "failed", "shell", "inshell", "pause", "parked"}
    /\ k \in 1..6 /\ clock \in 0..MaxTime
    /\ at \in [Range(KernelFs) -> Places] /\ root \in {"initramfs", "disk"}
    /\ mounted = NotMounted \/ (mounted.fs = disk.fs /\ mounted.readonly = cfg.readonly)

\* What a command line asks for: of the words about one thing the last.
LastOf(kinds) == LET K == {i \in DOMAIN line : line[i][1] \in kinds /\ (line[i][1] = "init" => line[i][2].good)}
               IN IF K = {} THEN <<None, None>> ELSE line[CHOOSE i \in K : \A j \in K : j <= i]
Asks(kind) == \E i \in DOMAIN line : line[i][1] = kind

\* main.rs:260-288, 307-315: the real root's init runs only when the disk is /
\* and mounted as the command line says, with all kernel file systems in it;
\* and it is the init that was asked for.
Handoff ==
    pc = "init" =>
        /\ root = "disk" /\ \A f \in DOMAIN at : Visible(f)
        /\ mounted.readonly = (LastOf({"ro", "rw"})[1] = "ro")
        /\ LastOf({"rootfstype"})[2] \in {None, mounted.fs}
        /\ IF Asks("init") /\ LastOf({"init"})[1] = "init" THEN cfg.init = LastOf({"init"})[2].is
           ELSE cfg.init = "/usr/bin/dinit"

\* main.rs:326-329: rd.shell=0 counts also for an error that comes before the
\* command line was parsed, and after the disk has become /; a shell runs
\* against it only if the error came while /proc was not at its place.
ShellAsAsked ==
    /\ pc = "parked" => Asks("rd.shell=0")
    /\ pc \in {"shell", "inshell", "pause"} /\ Asks("rd.shell=0") => ~Visible("proc")

\* main.rs:206-224: the boot ends, in init or in emergency_shell, unless it was
\* told to wait and there is no device.
Settled == pc \in {"init", "parked", "shell", "inshell", "pause"}
Decided == (~Asks("rootwait") \/ <>[](present /\ LastOf({"root"})[2] = "device")) => <>Settled

\* ARCHITECTURE.md:32-34: "If switching root fails, myos-initrd starts
\* Armybox's shell on the console".
Repairable == pc = "pause" => "/bin/armybox" \in Programs
================================================================================
