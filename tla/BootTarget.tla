----------------------------- MODULE BootTarget -----------------------------
(***************************************************************************)
(* boot_target() (boot.c): the paths of a target are translated, which     *)
(* mounts the disks they name (MountTable); a child runs `kexec -l`; any   *)
(* child is waited for; call_reboot() unmounts everything and reboots.     *)
(* Beside it runs the child of redirect_klog() (misc.c), which exits with  *)
(* status 0 when /proc/kmsg ends.                                          *)
(***************************************************************************)
EXTENDS MountTable

CONSTANTS
    Target,         \* the targets that may be booted
    Args,           \* the arguments of each after "kexec" and "-l"
    MaxArgv,        \* MAX_ARGV
    Slots,          \* bound: kexec children that exist at the same time
    None            \* no target

(***************************************************************************)
(* An argument is text, or a path: on a disk, on the root file system      *)
(* ("rootfs" or "debug", nothing to mount) or invalid (no disk set).       *)
(***************************************************************************)
Arg ==
    [kind : {"text", "rootfs", "invalid"}, id : {NoId}] \cup
    [kind : {"disk"}, id : Id]

ASSUME ArgsAssumption == Args \in [Target -> Seq(Arg)]
ASSUME ArgvAssumption == MaxArgv \in Nat /\ MaxArgv >= 4
ASSUME NoneAssumption == None \notin Target
ASSUME TryOnceAssumption == 0 \in Timeout

VARIABLES
    bpc,        \* where boot_target() is
    target,     \* its argument
    todo,       \* arguments not yet in argv
    argc,       \* arguments in argv
    used,       \* the devices the paths in argv are on
    klog,       \* the kernel log child: "none" if it was not started
    kid,        \* the kexec children
    image,      \* the target whose kernel the kernel holds
    booted      \* the target the machine was rebooted into

bootVars == <<bpc, target, todo, argc, used>>
kidVars  == <<klog, kid>>
allVars  == <<vars, bootVars, kidVars, image, booted>>

Free == [for |-> None, st |-> "free"]

Kid == [for : Target, st : {"running", "loaded", "ok", "failed"}] \cup {Free}

BootInit ==
    /\ Init
    /\ bpc = "menu"
    /\ target = None
    /\ todo = <<>>
    /\ argc = 0
    /\ used = {}
    /\ klog \in {"none", "running"}
    /\ kid = [s \in Slots |-> Free]
    /\ image = None
    /\ booted = None

-----------------------------------------------------------------------------
(***************************************************************************)
(* boot_target().  It runs while mount_by_id() does not (pc = "idle").     *)
(***************************************************************************)
\* The menu, the shell or boot_index= picks a target.
Boot(t) ==
    /\ bpc = "menu" /\ pc = "idle"
    /\ bpc' = "args"
    /\ target' = t
    /\ todo' = Args[t]
    /\ argc' = 2
    /\ used' = {}
    /\ UNCHANGED <<vars, kidVars, image, booted>>

\* CLEANUP: the arguments are freed, and the caller goes on.
Cleanup ==
    /\ bpc' = "menu"
    /\ todo' = <<>>
    /\ argc' = 0
    /\ used' = {}
    /\ UNCHANGED target

\* Mutant: no room is kept for the NULL.
PushToEnd(devs) ==
    IF argc = MaxArgv
      THEN Cleanup
      ELSE /\ bpc' = "args"
           /\ todo' = Tail(todo)
           /\ argc' = argc + 1
           /\ used' = used \cup devs
           /\ UNCHANGED target

\* ARGV_COPY, ARGV_ADD, ARGV_PRINTF: an argument and the NULL behind it.
Push(devs) ==
    IF argc + 1 = MaxArgv
      THEN Cleanup
      ELSE /\ bpc' = "args"
           /\ todo' = Tail(todo)
           /\ argc' = argc + 1
           /\ used' = used \cup devs
           /\ UNCHANGED target

\* An argument that mounts nothing.
PushPlain ==
    /\ bpc = "args" /\ pc = "idle"
    /\ todo # <<>>
    /\ Head(todo).kind \in {"text", "rootfs"}
    /\ Push({})
    /\ UNCHANGED <<vars, kidVars, image, booted>>

PathInvalid ==
    /\ bpc = "args" /\ pc = "idle"
    /\ todo # <<>>
    /\ Head(todo).kind = "invalid"
    /\ Cleanup
    /\ UNCHANGED <<vars, kidVars, image, booted>>

\* MOUNT_VPATH: vfs_translate_path() calls mount_by_id(disk, 0).
MountPath ==
    /\ bpc = "args" /\ pc = "idle"
    /\ todo # <<>>
    /\ Head(todo).kind = "disk"
    /\ Call(Head(todo).id, 0)
    /\ bpc' = "path"
    /\ UNCHANGED <<target, todo, argc, used, kidVars, image, booted>>

\* Mutant: a path's disk is unmounted once the path is translated.
PathDoneUnmounts ==
    /\ bpc = "path" /\ pc = "idle"
    /\ ret # NoDisk
    /\ Push({ret.name})
    /\ kmnt' = kmnt \ {ret.name}
    /\ UNCHANGED <<envVars, mounts, busy, pc, callVars, offVars, keyVars,
                   kidVars, image, booted>>

PathDone ==
    /\ bpc = "path" /\ pc = "idle"
    /\ IF ret = NoDisk THEN Cleanup ELSE Push({ret.name})
    /\ UNCHANGED <<vars, kidVars, image, booted>>

Fork(s) ==
    /\ bpc = "args" /\ pc = "idle"
    /\ todo = <<>>
    /\ kid[s] = Free
    /\ kid' = [kid EXCEPT ![s] = [for |-> target, st |-> "running"]]
    /\ bpc' = "wait"
    /\ UNCHANGED <<vars, target, todo, argc, used, klog, image, booted>>

ForkFails ==
    /\ bpc = "args" /\ pc = "idle"
    /\ todo = <<>>
    /\ Cleanup
    /\ UNCHANGED <<vars, kidVars, image, booted>>

\* What follows wait(): a status other than 0 goes back to the menu.
Status(ok) ==
    IF ok
      THEN /\ CallReboot
           /\ bpc' = "reboot"
           /\ UNCHANGED <<target, todo, argc, used>>
      ELSE Cleanup /\ UNCHANGED vars

\* Mutant: wait() does not wait (WNOHANG).
ReapKidEarly(s) ==
    /\ bpc = "wait" /\ pc = "idle"
    /\ kid[s] # Free
    /\ Status(TRUE)
    /\ UNCHANGED <<kidVars, image, booted>>

\* Mutant: the child is left to be waited for again (WNOWAIT).
ReapKidKeeps(s) ==
    /\ bpc = "wait" /\ pc = "idle"
    /\ kid[s].st \in {"ok", "failed"}
    /\ Status(kid[s].st = "ok")
    /\ UNCHANGED <<kidVars, image, booted>>

\* Mutant: a child that failed is waited for again.
ReapKidOk(s) ==
    /\ bpc = "wait" /\ pc = "idle"
    /\ kid[s].st = "ok"
    /\ kid' = [kid EXCEPT ![s] = Free]
    /\ Status(TRUE)
    /\ UNCHANGED <<klog, image, booted>>

\* wait() collects any kexec child that has ended ...
ReapKid(s) ==
    /\ bpc = "wait" /\ pc = "idle"
    /\ kid[s].st \in {"ok", "failed"}
    /\ kid' = [kid EXCEPT ![s] = Free]
    /\ Status(kid[s].st = "ok")
    /\ UNCHANGED <<klog, image, booted>>

\* ... or the kernel log child.
ReapKlog ==
    /\ bpc = "wait" /\ pc = "idle"
    /\ klog = "ended"
    /\ klog' = "gone"
    /\ Status(TRUE)
    /\ UNCHANGED <<kid, image, booted>>

\* reboot(KEXEC) starts the kernel that is loaded, whichever it is ...
RebootWorks ==
    /\ Reboot
    /\ cmd = "kexec" => image # None
    /\ booted' = IF cmd = "kexec" THEN image ELSE booted
    /\ UNCHANGED <<bootVars, kidVars, image>>

\* ... and fails when there is none: "Reboot failed", and CLEANUP.
RebootReturns ==
    /\ RebootFails
    /\ image = None
    /\ Cleanup
    /\ UNCHANGED <<kidVars, image, booted>>

-----------------------------------------------------------------------------
(***************************************************************************)
(* The children.                                                           *)
(***************************************************************************)
KidLoads(s) ==
    /\ kid[s].st = "running"
    /\ kid' = [kid EXCEPT ![s].st = "loaded"]
    /\ image' = kid[s].for
    /\ UNCHANGED <<vars, bootVars, klog, booted>>

KidExits(s) ==
    /\ kid[s].st \in {"running", "loaded"}
    /\ kid' = [kid EXCEPT
                 ![s].st = IF kid[s].st = "loaded" THEN "ok" ELSE "failed"]
    /\ UNCHANGED <<vars, bootVars, klog, image, booted>>

KlogEnds ==
    /\ klog = "running"
    /\ klog' = "ended"
    /\ UNCHANGED <<vars, bootVars, kid, image, booted>>

Children ==
    Running /\ ((\E s \in Slots : KidLoads(s) \/ KidExits(s)) \/ KlogEnds)

-----------------------------------------------------------------------------
BootSteps ==
    \/ PushPlain
    \/ PathInvalid
    \/ MountPath
    \/ PathDone
    \/ \E s \in Slots : Fork(s) \/ ReapKid(s)
    \/ ForkFails
    \/ ReapKlog
    \/ RebootWorks
    \/ RebootReturns

\* The steps of MountTable that boot_target() waits for, and its environment.
TableSteps ==
    /\ Serve \/ UnmountAll \/ Environment \/ Stopped
    /\ UNCHANGED <<bootVars, kidVars, image, booted>>

BootNext ==
    \/ \E t \in Target : Boot(t)
    \/ BootSteps
    \/ TableSteps
    \/ Children

BootSpec == BootInit /\ [][BootNext]_allVars

(***************************************************************************)
(* PID 1 and its children are scheduled; a child does not run for ever.    *)
(***************************************************************************)
ServeSteps ==
    /\ Serve \/ UnmountAll
    /\ UNCHANGED <<bootVars, kidVars, image, booted>>

BootFairness ==
    /\ WF_allVars(BootSteps \/ ServeSteps)
    /\ \A s \in Slots : WF_allVars(Running /\ KidExits(s))

BootFairSpec == BootSpec /\ BootFairness

-----------------------------------------------------------------------------
(***************************************************************************)
(* Properties.                                                             *)
(***************************************************************************)
\* Every variable has its type; argv has room for the NULL that ends it.
BootTypeOK ==
    /\ TypeOK
    /\ bpc \in {"menu", "args", "path", "wait", "reboot"}
    /\ target \in Target \cup {None}
    /\ todo \in Seq(Arg)
    /\ argc \in 0 .. MaxArgv - 1
    /\ used \subseteq Dev
    /\ klog \in {"none", "running", "ended", "gone"}
    /\ kid \in [Slots -> Kid]
    /\ image \in Target \cup {None}
    /\ booted \in Target \cup {None}

\* The kernel log child has not ended, so wait() has not met it.
KlogSilent == klog \in {"none", "running"}

\* "Boot the target passed to it" (boot.c:69): the machine is rebooted into the
\* target passed to boot_target() last, and into no other.
BootsPassed == booted \in {None, target}

\* That holds until /proc/kmsg ends, however many attempts went before.
BootsTarget == KlogSilent => BootsPassed

\* Until then boot_target() leaves no child behind: the next wait()
\* (boot.c:143) cannot collect the status of an earlier attempt.
NoStrayChild ==
    KlogSilent /\ bpc # "wait" => \A s \in Slots : kid[s] = Free

\* Until then the reboot is asked for only when the child of this very attempt
\* has loaded its kernel.
RebootHasKernel == KlogSilent /\ bpc = "reboot" => image = target

\* An attempt has nothing of the one before it.
OwnAttempt == NoStrayChild /\ RebootHasKernel

\* The disks the arguments are on stay mounted, or busy, from the translation
\* of their path until the child has been waited for, whatever the translation
\* of the later ones mounts.
ArgsStayMounted ==
    (bpc \in {"args", "path", "wait"} /\ ~ShuttingDown /\ Running) =>
        used \subseteq Names(mounts) /\ used \subseteq kmnt \cup busy

\* An attempt ends: in the menu, with the machine off, or in one of the three
\* places where MountTable stops.
AttemptEnds ==
    bpc # "menu" ~> (bpc = "menu" \/ pc \in {"off", "crash", "hang", "stuck"})
=============================================================================
