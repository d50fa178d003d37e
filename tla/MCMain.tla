------------------------------- MODULE MCMain -------------------------------
(***************************************************************************)
(* main() for TLC, one part of it at a time: the options of the kernel     *)
(* command line, the loading of modules, and the menu.                     *)
(***************************************************************************)
EXTENDS MCKmod, Startup, Menu, TLC

CONSTANTS uuid, serial, zero, one, below, linux, windows, spaced

VARIABLE part

MCTimeouts == {-2, -1, 0, 2}

MCCmdline ==
    [root : {None, uuid}, rootdir : {None, linux}, debug_tty : {None, serial},
     boot_index : {None, zero, one, below, linux},
     boot_target : {None, linux, windows}]

MCAtoi ==
    [w \in {uuid, serial, zero, linux, windows} |-> 0]
        @@ (one :> 1) @@ (below :> -1)

\* "spaced" is a title with a space in it: no option has such a value.
MCTitles == {linux, windows, spaced}
MCLists == {<<linux>>, <<spaced, windows>>, <<windows, linux, linux>>}

MenuIdle ==
    /\ at = "off" /\ start = 1 /\ target = 1 /\ row = First
    /\ shown = <<0, 0>> /\ default = 0 /\ timeout = -1 /\ alert = FALSE
    /\ tty = <<>> /\ getc_buf = <<>> /\ fired = FALSE

StartIdle ==
    /\ place = "menu" /\ cmdline = [o \in Option |-> None] /\ noboot = FALSE
    /\ log = "open" /\ val = None /\ device = None /\ boot_disk = None
    /\ root = None /\ jail = None
    /\ grub_path = FALSE /\ grub_autodetect = 1 /\ targets = <<>>
    /\ boot_index = -1 /\ boot_arg = None /\ picked = 0

KmodIdle ==
    /\ phase = "done" /\ stack = <<>> /\ ret = "none" /\ kernel = {}
    /\ rootfs = [m \in Module |-> "absent"]
    /\ tars = [t \in Archive |-> {}] /\ bootDir = rootfs
    /\ boot = TRUE /\ unread = {} /\ left = {} /\ out = NoFile

MCInit ==
    \/ part = "options" /\ StartInit /\ KmodIdle /\ MenuIdle
    \/ part = "modules" /\ StartIdle /\ KInit /\ MenuIdle
    \/ part = "menu" /\ StartIdle /\ KmodIdle /\ MInit

InModules(A) == part = "modules" /\ A /\ UNCHANGED <<part, svars, mvars>>

InMenuPart(A) == part = "menu" /\ A /\ UNCHANGED <<part, svars, kvars>>

MCNext ==
    \/ part = "options" /\ StartNext /\ UNCHANGED <<part, kvars, mvars>>
    \/ part = "modules" /\ KNext /\ UNCHANGED <<part, svars, mvars>>
    \/ part = "menu" /\ MNext /\ UNCHANGED <<part, svars, kvars>>

parts == <<part, svars, kvars, mvars>>

MCSpec ==
    /\ MCInit /\ [][MCNext]_parts
    /\ WF_parts(InModules(KStep)) /\ WF_parts(InMenuPart(Process))
=============================================================================
