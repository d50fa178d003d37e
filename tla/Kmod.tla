-------------------------------- MODULE Kmod --------------------------------
(***************************************************************************)
(* The loading of kernel modules at start-up (modprobe.c, and the calls in *)
(* main()): what the initramfs holds, then, once the boot disk is there,   *)
(* what its archives add.  load_kmod() looks for a module in two           *)
(* directories, modprobe_dir() reads one of them, modprobe() first calls   *)
(* load_kmod() for each dependency and then init_module().                 *)
(***************************************************************************)
EXTENDS Tar

CONSTANTS
    Depends,    \* depends= in the .modinfo section of each
    RootFiles,  \* what /modules of the initramfs may hold ...
    TarFiles,   \* ... the archives of the boot disk ...
    BootFiles   \* ... and its directory "modules"

Needs(m) == Range(Depends[m])

ASSUME NoModuleAssumption == NoModule \notin Module
ASSUME DependsAssumption == Depends \in [Module -> Seq(Module)]
ASSUME FilesAssumption ==
    /\ RootFiles \subseteq Directory
    /\ TarFiles \subseteq [Archive -> SUBSET Header]
    /\ BootFiles \subseteq Directory
\* depmod refuses modules that need each other.
ASSUME AcyclicAssumption ==
    \A S \in (SUBSET Module) \ {{}} : \E m \in S : Needs(m) \cap S = {}

VARIABLES
    phase,      \* where main() is
    stack,      \* the calls of load_kmod() that have not returned
    ret,        \* what the last one returned
    kernel,     \* the modules in the kernel
    bootDir,    \* "modules" of the boot disk
    boot        \* has the boot disk been found?

files == <<tarvars, bootDir, boot>>
kvars == <<phase, stack, ret, kernel, files>>

(***************************************************************************)
(* One frame stands for load_kmod(mod), its modprobe_dir(dir, mod), and    *)
(* the modprobe(cur) of the entry being looked at.                         *)
(***************************************************************************)
Frame ==
    [mod : Module \cup {NoModule}, dir : {"rootfs", "boot"},
     left : SUBSET Module,          \* entries that readdir() has yet to give
     any : {0, 1},                  \* "ret" of modprobe_dir()
     cur : Module \cup {NoModule},  \* the name given to modprobe()
     deps : Seq(Module)]            \* dependencies still to be loaded

Content(dir) == IF dir = "rootfs" THEN rootfs ELSE bootDir

\* The entries of dir that pass the name filter f.
Entries(dir, f) ==
    {m \in Module : Content(dir)[m] # "absent" /\ f \in {NoModule, m}}

Open(f, dir) ==
    [mod |-> f, dir |-> dir, left |-> Entries(dir, f), any |-> 0,
     cur |-> NoModule, deps |-> <<>>]

Top == Last(stack)

SetTop(f) == stack' = Append(Front(stack), f)

\* Does init_module() take the file of m in dir?
Works(dir, m) == Content(dir)[m] = "good"

KInit ==
    /\ phase = "initramfs"
    /\ rootfs \in RootFiles
    /\ tars \in TarFiles
    /\ bootDir \in BootFiles
    /\ boot = FALSE
    /\ unread = {} /\ left = {} /\ out = NoFile
    /\ stack = <<Open(NoModule, "rootfs")>>
    /\ ret = "none"
    /\ kernel = {}

-----------------------------------------------------------------------------
(***************************************************************************)
(* load_kmod(), modprobe_dir() and modprobe().                             *)
(***************************************************************************)
\* The process is in modprobe_dir(), between two entries ...
Reading == stack # <<>> /\ Top.cur = NoModule

\* ... or in modprobe(), with no call of load_kmod() to look at.
Loading == stack # <<>> /\ Top.cur # NoModule /\ ret = "none"

\* readdir() gives the entries in any order.  Of a file that init_module() will
\* not take the end may be missing, and with it the dependencies.
ReadEntry(m) ==
    /\ Reading
    /\ m \in Top.left
    /\ \E d \in {Depends[m]} \cup IF Works(Top.dir, m) THEN {} ELSE {<<>>} :
         SetTop([Top EXCEPT !.left = @ \ {m}, !.cur = m, !.deps = d])
    /\ UNCHANGED <<phase, ret, kernel, files>>

\* stat(), open() or mmap() fails: modprobe() is not called.
PassEntry(m) ==
    /\ Reading
    /\ m \in Top.left
    /\ ~Works(Top.dir, m)
    /\ SetTop([Top EXCEPT !.left = @ \ {m}])
    /\ UNCHANGED <<phase, ret, kernel, files>>

LoadDep ==
    /\ Loading
    /\ Top.deps # <<>>
    /\ stack' = Append(stack, Open(Head(Top.deps), "rootfs"))
    /\ UNCHANGED <<phase, ret, kernel, files>>

\* Mutant: a module that is not loaded ends the directory.
DoneStops(r) ==
    SetTop([Top EXCEPT !.any = IF r = 1 THEN 1 ELSE @,
                       !.cur = NoModule, !.deps = <<>>,
                       !.left = IF r = 1 THEN @ ELSE {}])

\* modprobe() returns, and modprobe_dir() goes to the next entry.
Done(r) ==
    SetTop([Top EXCEPT !.any = IF r = 1 THEN 1 ELSE @,
                       !.cur = NoModule, !.deps = <<>>])

DepAnswered == stack # <<>> /\ ret # "none"

\* Mutant: the answer of load_kmod() is not looked at.
DepLoadedIgnored ==
    /\ DepAnswered
    /\ SetTop([Top EXCEPT !.deps = Tail(@)])
    /\ ret' = "none"
    /\ UNCHANGED <<phase, kernel, files>>

\* Mutant: "sec" is not moved to the next name.
DepLoadedStays ==
    /\ DepAnswered
    /\ ret = "yes"
    /\ ret' = "none"
    /\ UNCHANGED <<phase, stack, kernel, files>>

DepLoaded ==
    /\ DepAnswered
    /\ ret = "yes"
    /\ SetTop([Top EXCEPT !.deps = Tail(@)])
    /\ ret' = "none"
    /\ UNCHANGED <<phase, kernel, files>>

DepMissing ==
    /\ DepAnswered
    /\ ret = "no"
    /\ Done(0)
    /\ ret' = "none"
    /\ UNCHANGED <<phase, kernel, files>>

\* Mutant: EEXIST is an error.
InsertTwiceFails ==
    /\ Loading
    /\ Top.deps = <<>>
    /\ Works(Top.dir, Top.cur)
    /\ kernel' = kernel \cup {Top.cur}
    /\ Done(IF Top.cur \in kernel THEN 0 ELSE 1)
    /\ UNCHANGED <<phase, ret, files>>

\* init_module() puts the module in the kernel, or says EEXIST.
Insert ==
    /\ Loading
    /\ Top.deps = <<>>
    /\ Works(Top.dir, Top.cur)
    /\ kernel' = kernel \cup {Top.cur}
    /\ Done(1)
    /\ UNCHANGED <<phase, ret, files>>

InsertFails ==
    /\ Loading
    /\ Top.deps = <<>>
    /\ ~Works(Top.dir, Top.cur)
    /\ Done(0)
    /\ UNCHANGED <<phase, ret, kernel, files>>

EndOfDir == Reading /\ Top.left = {}

\* "if(modprobe_dir(...)) return 1": the boot disk is not looked at.
ReturnYes ==
    /\ EndOfDir
    /\ Top.any = 1
    /\ stack' = Front(stack)
    /\ ret' = "yes"
    /\ UNCHANGED <<phase, kernel, files>>

TryBootDisk ==
    /\ EndOfDir
    /\ Top.any = 0
    /\ Top.dir = "rootfs" /\ boot
    /\ SetTop(Open(Top.mod, "boot"))
    /\ UNCHANGED <<phase, ret, kernel, files>>

ReturnNo ==
    /\ EndOfDir
    /\ Top.any = 0
    /\ Top.dir = "boot" \/ ~boot
    /\ stack' = Front(stack)
    /\ ret' = "no"
    /\ UNCHANGED <<phase, kernel, files>>

-----------------------------------------------------------------------------
(***************************************************************************)
(* main().                                                                 *)
(***************************************************************************)
\* The modules of the initramfs are in; the boot disk is found or not.
FindBootDisk ==
    /\ phase = "initramfs" /\ stack = <<>>
    /\ boot' \in BOOLEAN
    /\ phase' = IF boot' THEN "extract" ELSE "done"
    /\ unread' = IF boot' THEN Archive ELSE {}
    /\ ret' = "none"
    /\ UNCHANGED <<stack, kernel, rootfs, tars, left, out, bootDir>>

\* extract_module_tars(), in the order of readdir() ...
Extract ==
    /\ phase = "extract"
    /\ TarStep
    /\ UNCHANGED <<phase, stack, ret, kernel, bootDir, boot>>

\* ... and then the modules that are there.
Extracted ==
    /\ phase = "extract"
    /\ TarEnds
    /\ phase' = "remaining"
    /\ stack' = <<Open(NoModule, "rootfs")>>
    /\ UNCHANGED <<ret, kernel, files>>

LoadedRemaining ==
    /\ phase = "remaining" /\ stack = <<>>
    /\ phase' = "done"
    /\ ret' = "none"
    /\ UNCHANGED <<stack, kernel, files>>

KDone == phase = "done" /\ UNCHANGED kvars

KStep ==
    \/ \E m \in Module : ReadEntry(m) \/ PassEntry(m)
    \/ LoadDep
    \/ DepLoaded
    \/ DepMissing
    \/ Insert
    \/ InsertFails
    \/ ReturnYes
    \/ TryBootDisk
    \/ ReturnNo
    \/ Extract
    \/ Extracted
    \/ LoadedRemaining

KNext == KStep \/ FindBootDisk \/ KDone

KSpec == KInit /\ [][KNext]_kvars

\* The program runs; only the search for the boot disk may last for ever.
KFairSpec == KSpec /\ WF_kvars(KStep)

-----------------------------------------------------------------------------
(***************************************************************************)
(* Properties.                                                             *)
(***************************************************************************)
\* Every variable has its type; an answer is waited for by the modprobe()
\* that asked, or by main().
KTypeOK ==
    /\ phase \in {"initramfs", "extract", "remaining", "done"}
    /\ stack \in Seq(Frame)
    /\ ret \in {"none", "yes", "no"}
    /\ (stack # <<>> /\ ret # "none") => Top.deps # <<>>
    /\ kernel \subseteq Module
    /\ rootfs \in Directory /\ bootDir \in Directory
    /\ tars \in [Archive -> SUBSET Header] /\ unread \subseteq Archive
    /\ left \subseteq Header /\ out \in File \cup {NoFile}
    /\ boot \in BOOLEAN

\* A module goes into the kernel after everything it depends on (the loop of
\* modprobe(), modprobe.c:192).
DepsLoaded == \A m \in kernel : Needs(m) \subseteq kernel

\* The files there are: in the initramfs, and on the boot disk if it is found.
Usable(m) == rootfs[m] = "good" \/ (boot /\ bootDir[m] = "good")

\* S can be loaded as a whole.
Closed(S) == \A m \in S : Usable(m) /\ Needs(m) \subseteq S

Loadable == UNION {S \in SUBSET Module : Closed(S)}

\* "Returns 1 if the module was loaded, 0 otherwise" (modprobe.c:247): 1 only
\* for a module that is in the kernel, 0 only for one that, with the files
\* there are, cannot be.
AnswerIsRight ==
    (stack # <<>> /\ ret # "none") =>
        IF ret = "yes" THEN Head(Top.deps) \in kernel
                       ELSE Head(Top.deps) \notin Loadable

\* When start-up is over, each module of the initramfs and of the archives
\* that can be loaded is in the kernel, whatever readdir()'s order.
LoadsAll ==
    phase = "done" =>
        \A m \in Loadable : rootfs[m] = "good" => m \in kernel

\* "To install modules, simply copy them to the 'modules' directory on the
\* kexec-loader boot disk" (README.html:112).
CopiedModulesLoaded ==
    phase = "done" =>
        \A m \in Loadable : (boot /\ bootDir[m] = "good") => m \in kernel

\* modprobe() is never called for a module it is already working on, so the
\* recursion is no deeper than the longest chain of dependencies.
NoReentry ==
    \A i, j \in DOMAIN stack :
        (stack[i].cur # NoModule /\ stack[i].cur = stack[j].cur) => i = j

\* Both calls of load_kmod(NULL) in main() return.
LoadingEnds ==
    /\ (phase = "initramfs") ~> (phase = "initramfs" /\ stack = <<>>)
    /\ (phase = "extract") ~> (phase = "done")

\* The archives never touch a module of the initramfs or of an earlier header,
\* and a module that they bring is whole: whichever archive ends early, and
\* wherever it does (only a disk that is full when fclose() writes cuts one).
ModulesStay ==
    [][\A m \in Module :
         rootfs'[m] # rootfs[m] =>
            /\ rootfs[m] = "absent"
            /\ \/ \E t \in Archive : <<m, rootfs'[m]>> \in tars[t]
               \/ TarCut]_kvars
=============================================================================
