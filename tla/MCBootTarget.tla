---------------------------- MODULE MCBootTarget ----------------------------
(***************************************************************************)
(* Small instances of BootTarget for TLC.                                  *)
(***************************************************************************)
EXTENDS BootTarget, TLC

CONSTANTS d1, d2, m1, labelA, labelB, t1, t2, t3, t4

MCDevSeq == <<d1, d2>>

MCTagsOf == m1 :> {labelA}

ById(k) == [prefix |-> FALSE, key |-> k]

MCIds == {ById(labelA)}

MCTimeouts == {0}

OnDisk(i) == [kind |-> "disk", id |-> i]

Plain(k) == [kind |-> k, id |-> NoId]

(***************************************************************************)
(* t1: a kernel on a disk.                                                 *)
(* t2: a kernel on the root file system.                                   *)
(* t3: a kernel and a module on disks: one argument too many.              *)
(* t4: a kernel on no disk.                                                *)
(***************************************************************************)
MCArgs ==
    (t1 :> <<OnDisk(ById(labelA))>>) @@
    (t2 :> <<Plain("rootfs")>>) @@
    (t3 :> <<OnDisk(ById(labelA)), OnDisk(ById(labelA))>>) @@
    (t4 :> <<Plain("invalid")>>)
=============================================================================
