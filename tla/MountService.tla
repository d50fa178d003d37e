---------------------------- MODULE MountService ----------------------------
(***************************************************************************)
(* What the rest of kexec-loader relies on: a table of devices and the     *)
(* kernel's mounts, which change for one device at a time, the kernel's    *)
(* side first.  While disks are used the table grows; it shrinks while the *)
(* machine is going down.  An interrupt may come between the two halves of *)
(* a change; the second half is then never made, and the way back to       *)
(* serving is closed.  MountTable (disk.c) implements it.                  *)
(***************************************************************************)
CONSTANT Disks

VARIABLES
    table,      \* devices in the list `mounts`
    kernel,     \* devices the kernel has mounted
    moving,     \* the device whose change is half made, if any
    phase       \* "serve", "shutdown", "restart" (interrupted) or "off"

svars == <<table, kernel, moving, phase>>

Init ==
    /\ table = {}
    /\ kernel = {}
    /\ moving = {}
    /\ phase = "serve"

Stopping == phase \in {"shutdown", "restart"}

\* A device new to the table is mounted; the kernel may have had it in use.
Mount(d) ==
    /\ phase = "serve"
    /\ moving = {} /\ d \notin table
    /\ kernel' \in {kernel, kernel \cup {d}}
    /\ moving' = {d}
    /\ UNCHANGED <<table, phase>>

Enter(d) ==
    /\ phase = "serve"
    /\ moving = {d}
    /\ table' = table \cup {d}
    /\ moving' = {}
    /\ UNCHANGED <<kernel, phase>>

Shutdown ==
    /\ phase = "serve" /\ moving = {}
    /\ phase' = "shutdown"
    /\ UNCHANGED <<table, kernel, moving>>

Interrupt ==
    /\ phase \in {"serve", "shutdown"}
    /\ phase' = "restart"
    /\ moving' = {}
    /\ UNCHANGED <<table, kernel>>

\* The kernel lets go of a device of the table ...
Release(d) ==
    /\ Stopping
    /\ moving = {} /\ d \in table \cap kernel
    /\ kernel' = kernel \ {d}
    /\ moving' = {d}
    /\ UNCHANGED <<table, phase>>

\* ... and then the table does.
Forget(d) ==
    /\ Stopping
    /\ moving = {d}
    /\ table' = table \ {d}
    /\ moving' = {}
    /\ UNCHANGED <<kernel, phase>>

Resume ==
    /\ phase = "shutdown" /\ moving = {}
    /\ phase' = "serve"
    /\ UNCHANGED <<table, kernel, moving>>

Halt ==
    /\ phase # "off" /\ moving = {}
    /\ phase' = "off"
    /\ UNCHANGED <<table, kernel, moving>>

Next ==
    \/ \E d \in Disks : Mount(d) \/ Enter(d) \/ Release(d) \/ Forget(d)
    \/ Shutdown
    \/ Interrupt
    \/ Resume
    \/ Halt

Spec == Init /\ [][Next]_svars
=============================================================================
