------------------------------ MODULE Startup ------------------------------
(***************************************************************************)
(* main() up to the menu (misc.c), with the options of the kernel command  *)
(* line.  get_cmdline() returns a pointer into one static buffer; so does  *)
(* debug(), which calls it for "debug_tty" as long as its log cannot be    *)
(* opened, and which anything that main() calls may call.                  *)
(***************************************************************************)
EXTENDS Integers, Sequences

CONSTANTS
    Cmdline,    \* the command lines: [Option -> a word or None]
    None,       \* an option that is not given; a null pointer
    Default,    \* "LABEL=kexecloader"
    Atoi,       \* atoi() of the words
    Titles,     \* titles of targets ...
    Lists       \* ... and the lists that a configuration or GRUB may give

Option == {"root", "rootdir", "boot_index", "boot_target", "debug_tty"}

ASSUME OptionsAssumption ==
    /\ Atoi \in [DOMAIN Atoi -> Int]
    /\ Cmdline \subseteq [Option -> DOMAIN Atoi \cup {None}]
    /\ None \notin DOMAIN Atoi \cup Titles

ASSUME ListsAssumption == Lists \subseteq Seq(Titles)

\* "val" is a pointer to the buffer, "rootfs" the name of a device.
ASSUME PointersAssumption ==
    "val" \notin {None, Default} /\ "rootfs" # None

VARIABLES
    place,      \* where main() is
    cmdline,    \* /proc/cmdline
    noboot,     \* is there a file /noboot?
    log,        \* debug_fh: "open" since the start, "closed", or "late"
    val,        \* the static buffer of get_cmdline()
    device,     \* a pointer to it ("val"), or to Default
    boot_disk,  \* what it was found by
    root, jail, \* of the VFS
    grub_path, grub_autodetect,
    targets,    \* their titles
    boot_index, boot_arg,
    picked      \* the number of the target given to boot_target(), or 0

vfs == <<root, jail>>
conf == <<grub_path, grub_autodetect, targets>>
choice == <<boot_index, boot_arg, picked>>
svars == <<place, cmdline, noboot, log, val, device, boot_disk, vfs, conf,
           choice>>

StartInit ==
    /\ place = "root"
    /\ cmdline \in Cmdline
    /\ noboot \in BOOLEAN
    /\ log \in {"open", "closed"}
    /\ val = cmdline["debug_tty"] /\ device = None /\ boot_disk = None
    /\ root = None /\ jail = None
    /\ grub_path = FALSE /\ grub_autodetect = 1 /\ targets = <<>>
    /\ boot_index = -1 /\ boot_arg = None /\ picked = 0

\* get_cmdline(): the buffer is written when the option is there.
Get(n) == val' = IF cmdline[n] = None THEN val ELSE cmdline[n]

Given(n) == IF cmdline[n] = None THEN None ELSE "val"

Text(p) == IF p = "val" THEN val ELSE p

\* debug() with a log that has not been opened.
Opens ==
    /\ log = "closed"
    /\ Get("debug_tty")
    /\ log' \in {"closed", "late"}

-----------------------------------------------------------------------------
GetRoot ==
    /\ place = "root" /\ ~noboot
    /\ Get("root")
    /\ device' = IF cmdline["root"] = None THEN Default ELSE "val"
    /\ place' = "wait"
    /\ UNCHANGED <<cmdline, noboot, log, boot_disk, vfs, conf, choice>>

NoBoot ==
    /\ place = "root" /\ noboot
    /\ root' = "rootfs"
    /\ place' = "conf"
    /\ UNCHANGED <<cmdline, noboot, log, val, device, boot_disk, jail, conf,
                   choice>>

\* mount_by_id(device, -1): get_disks() and mount_disk() call debug() ...
Debug ==
    /\ place \in {"wait", "found"}
    /\ Opens
    /\ UNCHANGED <<place, cmdline, noboot, device, boot_disk, vfs, conf,
                   choice>>

\* ... and the disks are compared with what device points to then; a key ends
\* the wait.
Wait ==
    /\ place = "wait"
    /\ boot_disk' \in {None, Text(device)}
    /\ place' = "found"
    /\ UNCHANGED <<cmdline, noboot, log, val, device, vfs, conf, choice>>

\* Mutant: the directory is asked for before the device is used.
SetRootLate ==
    /\ place = "found"
    /\ Get("rootdir")
    /\ root' = IF device = "val" THEN val' ELSE device
    /\ jail' = cmdline["rootdir"]
    /\ place' = "conf"
    /\ UNCHANGED <<cmdline, noboot, log, device, boot_disk, conf, choice>>

\* vfs_set_root() copies what device points to; then "rootdir" is asked for.
SetRoot ==
    /\ place = "found"
    /\ root' = Text(device)
    /\ Get("rootdir")
    /\ jail' = cmdline["rootdir"]
    /\ place' = "conf"
    /\ UNCHANGED <<cmdline, noboot, log, device, boot_disk, conf, choice>>

\* load_conf(), if there is a disk to load from.
Configure ==
    /\ place = "conf"
    /\ IF boot_disk # None \/ noboot
         THEN /\ grub_path' \in BOOLEAN
              /\ grub_autodetect' \in 0 .. 2
              /\ targets' \in Lists \cup {<<>>}
         ELSE UNCHANGED conf
    /\ place' = "grub"
    /\ UNCHANGED <<cmdline, noboot, log, val, device, boot_disk, vfs, choice>>

\* grub_load() or grub_detect() adds its targets behind those that are there.
Grub ==
    /\ place = "grub"
    /\ jail' = None
    /\ IF \/ grub_path
          \/ grub_autodetect = 2 \/ (targets = <<>> /\ grub_autodetect # 0)
         THEN \E l \in Lists \cup {<<>>} : targets' = targets \o l
         ELSE UNCHANGED targets
    /\ place' = "option"
    /\ UNCHANGED <<cmdline, noboot, log, val, device, boot_disk, root,
                   grub_path, grub_autodetect, choice>>

BootIndex ==
    /\ place = "option" /\ cmdline["boot_index"] # None
    /\ Get("boot_index")
    /\ boot_index' = Atoi[val']
    /\ place' = IF boot_index' >= 0 THEN "supplied" ELSE "menu"
    /\ UNCHANGED <<cmdline, noboot, log, device, boot_disk, vfs, conf,
                   boot_arg, picked>>

BootTarget ==
    /\ place = "option" /\ cmdline["boot_index"] = None
    /\ Get("boot_target")
    /\ boot_arg' = Given("boot_target")
    /\ place' = IF boot_arg' # None THEN "supplied" ELSE "menu"
    /\ UNCHANGED <<cmdline, noboot, log, device, boot_disk, vfs, conf,
                   boot_index, picked>>

\* printd("boot_target supplied ..."), which calls debug().
Supplied ==
    /\ place = "supplied"
    /\ Opens \/ (log # "closed" /\ UNCHANGED <<log, val>>)
    /\ place' = "search"
    /\ UNCHANGED <<cmdline, noboot, device, boot_disk, vfs, conf, choice>>

\* Mutant: the first target has the index 1.
IsWantedFrom1(i) ==
    i = boot_index \/ (boot_arg # None /\ targets[i] = Text(boot_arg))

IsWanted(i) ==
    i - 1 = boot_index \/ (boot_arg # None /\ targets[i] = Text(boot_arg))

\* The loop over the targets ends at the first one that is wanted.
Search ==
    /\ place = "search"
    /\ LET found == {i \in DOMAIN targets : IsWanted(i)}
       IN  IF found = {} THEN UNCHANGED picked
           ELSE \E i \in found : (\A j \in found : i <= j) /\ picked' = i
    /\ place' = "menu"
    /\ UNCHANGED <<cmdline, noboot, log, val, device, boot_disk, vfs, conf,
                   boot_index, boot_arg>>

InMenu == place = "menu" /\ UNCHANGED svars

StartNext ==
    \/ GetRoot \/ NoBoot \/ Debug \/ Wait \/ SetRoot
    \/ Configure \/ Grub
    \/ BootIndex \/ BootTarget \/ Supplied \/ Search
    \/ InMenu

StartSpec == StartInit /\ [][StartNext]_svars

-----------------------------------------------------------------------------
(***************************************************************************)
(* Properties.                                                             *)
(***************************************************************************)
\* A log that could not be opened at the start, with a debug_tty= to open it.
Reopening == log # "open" /\ cmdline["debug_tty"] # None

\* The disk that is waited for, and the root device of the VFS, are the one
\* that root= names, or the default: main() keeps a pointer into the buffer of
\* get_cmdline() while it waits, and only a debug() that tries to open its log
\* again puts the text of debug_tty= there (misc.c:89).
RootIsAsked ==
    LET asked == IF cmdline["root"] = None THEN Default ELSE cmdline["root"]
        may == IF Reopening /\ cmdline["root"] # None
                 THEN {asked, cmdline["debug_tty"]} ELSE {asked}
    IN  /\ boot_disk \in may \cup {None}
        /\ root \in may \cup {None, "rootfs"}
        /\ root = "rootfs" => noboot \/ "rootfs" \in may

\* "Automatically boot a target by it's index number (starting at 0)", or "by
\* it's title.  This is ignored if boot_index is also supplied"
\* (README.html:328): that target, the first one of its title, and none if
\* there is none; but with a log to open, the title is lost (misc.c:154).
BootsAsked ==
    LET index == cmdline["boot_index"]
        title == cmdline["boot_target"]
        named == {i \in DOMAIN targets : targets[i] = title}
        wanted == IF index # None
                    THEN {i \in DOMAIN targets : i - 1 = Atoi[index]}
                    ELSE {i \in named : \A j \in named : i <= j}
    IN  (place = "menu" /\ (index # None \/ ~Reopening)) =>
          IF wanted = {} THEN picked = 0 ELSE picked \in wanted
=============================================================================
