-------------------------------- MODULE MCInitrd --------------------------------
(***************************************************************************)
(* Small instances of Initrd: a root= and up to two words about it, and    *)
(* disks that differ in what a boot can fail on.                           *)
(***************************************************************************)
EXTENDS Initrd

Good(x) == [good |-> TRUE, is |-> x]
Bad(x) == [good |-> FALSE, is |-> x]
Words == {<<w, None>> : w \in {"ro", "rw", "rootwait", "rd.shell=0", "quiet"}}
    \cup {<<"rootfstype", "squashfs">>, <<"rootdelay", Good(1)>>, <<"rootdelay", Bad("")>>,
          <<"rd.timeout", Good(0)>>, <<"rd.timeout", Bad("")>>,
          <<"init", Good("/usr/bin/sh")>>, <<"init", Bad("bin/sh")>>}
MCLines == {<<>>} \cup {<<<<"root", r>>>> \o s :
                           r \in {"device", "alias"}, s \in UNION {[1..n -> Words] : n \in 0..2}}

All == Range(KernelFs)
Dinit == {"/usr/bin/dinit"}
MCDisks == {[fs |-> "squashfs", keeps |-> All, bins |-> Dinit \cup {"/usr/bin/sh", "/bin/armybox"}],
            [fs |-> "ext4", keeps |-> All \ {"run"}, bins |-> Dinit],
            [fs |-> "zfs", keeps |-> All, bins |-> {}]}
================================================================================
