# Verification of kexec-loader

kexec-loader is a boot loader made of a Linux kernel and one program, which
runs as PID 1 from an initramfs.  It finds the boot disk, reads a
configuration, loads kernel modules, shows a menu or a shell, and boots the
chosen kernel with `kexec`.  This directory holds TLA+ modules that model the
program's parts, TLC configurations that check them on small instances, and
proofs for every instance.  `PROJECT.json` maps each definition to the source
lines it stands for.

## 1. Inventory

One process does everything; what runs beside it is the kernel, the person
at the keyboard, the terminal, the drives, two kinds of child process (the
kernel log copier and `kexec -l`, with `mdadm` as an option) and one signal
handler (SIGINT, sent by ctrl-alt-del).

| Component | Source | State | Operations | Used by |
|---|---|---|---|---|
| start-up and configuration | `misc.c` | `boot_disk`, `timeout`, `targets`, `kmods`, `grub_*`, the static buffer of `get_cmdline()` | `main`, `load_conf`, `get_cmdline`, `debug`, `redirect_klog`, `sighandler`, `call_reboot` | everything |
| lists and strings | `misc.c` | | `list_*`, `kl_*` | everything |
| disk table | `disk.c` | `mounts` | `get_disks`, `mount_disk`, `mount_by_id`, `unmount_all` | vfs, grub, main, boot |
| virtual file system | `vfs.c` | `vfs_root`, `vfs_jail` | `vfs_translate_path` and the `vfs_*` wrappers | everything that opens a file |
| booting | `boot.c` | argument vector, child | `boot_target` | menu, shell, main |
| menu | `menu.c` | `start`, `target`, `row`, `timeout` | `menu_main` | main |
| console | `console.c` | `getc_buf`, `alert`, the terminal | `console_getpos`, `console_getchar`, `console_erase` | menu, shell, disk, grub |
| kernel modules | `modprobe.c` | modules in the kernel | `load_kmod`, `modprobe_dir`, `modprobe` | main |
| archives | `tar.c` | files in `/modules` | `extract_tar` | main |
| GRUB configurations | `grub.c` | device map, targets | `grub_load`, `grub_detect`, `load_menu`, `load_grub2_cfg`, `lookup_gdev` | main |
| shell | `shell.c` | `target`, history, line buffer | `shell_main`, `read_cmd`, completion | main, menu |
| patterns | `globcmp.c` | | `globcmp` | shell (`find`) |
| key map | `keymap.c` | | `load_keymap` | main |
| stack trace | `trace.c` | | `enable_trace` | main |

How they meet.  Every path goes through `vfs_translate_path()`, which mounts
the disk a path names with `mount_by_id()`; `boot_target()` translates the
paths of a target, forks `kexec -l`, waits for a child and calls
`call_reboot()`, which unmounts everything.  The menu, the wait for a disk and
the search for GRUB poll the same terminal that `console_getpos()` reads its
answers from.  `load_kmod()` and `modprobe()` call each other through the
dependencies of a module.

What is hard: drives change between two system calls; `mount()`, `umount()`,
`fork()` and `reboot()` fail; SIGINT unmounts everything in the middle of
anything; `wait()` collects whichever child ends first; keys arrive while the
terminal's answers are awaited; a list is shortened while it is walked.

What makes each component correct:

* disk table: no device twice, the list and the kernel agree but for the device
  that is being mounted or unmounted, a wait ends with a key or the disk, all is
  unmounted before a reboot;
* booting: the machine is rebooted into a kernel only after that kernel was
  loaded; every way out frees the arguments and returns to the menu;
* kernel modules: a module goes in after what it depends on, and everything
  loadable is loaded;
* console: keys keep their order, none is lost, the program is never stuck;
* menu: the highlighted line is the chosen target and is on the screen; a key
  stops the countdown;
* virtual file system: no path leaves its disk, nor the jail;
* patterns: `globcmp` agrees with what `*` and `?` mean in a shell;
* configurations: an option never lands in the wrong target;
* GRUB devices: a GRUB device name is mapped to one disk.

## 2. Modules

| Module | Models | Extends or uses |
|---|---|---|
| `Keyboard` | `console_getchar`, `console_erase` and their two queues, key by key | |
| `MountService` | what the program relies on: a table and the kernel's mounts, changed in two halves | |
| `MountTable` | `disk.c`, the list helpers, `call_reboot`, `sighandler` | `Keyboard` (extended), `MountService` (refined) |
| `BootTarget` | `boot_target`, its children, the child of `redirect_klog` | `MountTable` (extended) |
| `Tar` | `extract_tar` and `extract_module_tars`, archive by archive and header by header | |
| `Kmod` | `modprobe.c`, and `main` where it loads modules | `Tar` (extended) |
| `Menu` | `menu_main` | `Keyboard` (extended) |
| `LoadConf` | `load_conf` | |
| `Grub` | `grub.c`: the search, `device.map`, `menu.lst`, `grub.cfg` | `Keyboard` (extended) |
| `Startup` | `main` with the kernel command line, `get_cmdline`, `debug` | |
| `Vfs` | `vfs_translate_path`, `append_path`, the root device and the jail | |
| `Glob` | `globcmp`, `mycmp` | |
| `Find` | the shell's `find`, `ls` and `cat` as far as they take paths | `Vfs`, `Glob` (extended) |
| `Console` | `console_getpos`, `console_getchar`, byte by byte | |
| `Editor` | what a command line promises: text on both sides of a cursor, a history | |
| `LineEdit` | `read_cmd`: its buffer, its keys, the rows of the screen | `Editor` (refined) |
| `DiskProofs` | theorems | `BootTarget` and so `MountTable`, TLAPS |
| `KmodProofs`, `LoadConfProofs`, `GrubProofs` | theorems | the module named, TLAPS |
| `MainProofs` | theorems | `Startup`, `Menu`, TLAPS |
| `FindProofs` | theorems | `Find` and so `Vfs` and `Glob`, TLAPS |
| `ConsoleProofs`, `LineEditProofs` | theorems | the module named, TLAPS |
| `MCMountTable`, `MCBootTarget`, `MCKmod`, `MCLoadConf`, `MCGrub` | small instances for TLC | the module named |
| `MCMain` | small instances of `Kmod`, `Menu`, `Startup` | the three |
| `MCShell` | small instances of `Find`, `Console`, `LineEdit` | the three |

Each module has one variable for the place in the code (`pc`, `bpc`, `phase`,
`at`, `place`, `doing`); its values are the places where something else can
come in between, or where a call that may fail is made.  Everything between two
such places is one action, with all that the handler does.  A mutant (comment
`Mutant:`) is a plausible slip in the definition that follows it;
`PROJECT.json` says which property it breaks.

Only `BootTarget` and `MountTable`, `Kmod` and `Tar`, and `Find`, `Vfs` and
`Glob` run together.  The others share no variables: `main()` runs options,
configuration, GRUB, modules and menu one after the other, and what one leaves
for the next is a constant of the next (`Timeouts`, `N`, `Lists`, `Jails`),
with any value the one before can leave.

The keyboard is modelled twice.  `Console` has the bytes, the answer of the
terminal and the parsing; `Keyboard` is what the loops of `MountTable`, `Menu`
and `Grub` need of it, with one symbol for a key: the terminal's queue, which
`poll()` watches; `getc_buf`, into which `console_erase()` moves what it finds;
`console_getchar()`, which waits for a second byte behind ESC and passes over a
sequence that it does not know; and the ESC typed just before an answer, with
which `console_erase()` never returns (`LoneEscape`, the place `stuck`).  The
three modules have one instance of the same text, so what `Console` excepts
none of them denies.

`MCMain` and `MCShell` use this.  Each holds three modules that never run at
the same time, and a variable `part`, chosen at the start, that says which one
does; the other two keep an initial or idle state in which their properties
say nothing.  The states of such a run are the sum of those of the three, not
their product, and every property is checked on its own part as if the other
two were not there.

| Run | Instance | Described in |
|---|---|---|
| `mount` | two and three drives, two media, two keys of five kinds | section 3 |
| `mount_contract`, `mount_hang`, `mount_sigint` | the same; a comment each that does not hold | section 3 |
| `boot`, `boot_klog` | four targets, two drives, two children | section 4 |
| `main` | three modules; six menu targets; 120 command lines | sections 5, 6, 9 |
| `kmod_copied` | three modules | section 5 |
| `conf` | files of five and of seven lines | section 7 |
| `conf_map` | files of two lines | section 7 |
| `grub` | two disks, files of six lines | section 8 |
| `shell` | three keys; a buffer of five bytes; paths of three names | sections 10 to 12 |

Each passing run spends its properties on hazards.  Most type invariants
(`TypeOK`, `KTypeOK`, `MTypeOK`, `ConfTypeOK`, `StartTypeOK`, `VTypeOK`,
`CTypeOK`) are therefore in no cfg: they are proved, which is more.
`LineOK`, `BootTypeOK` and `GTypeOK` are checked, because they also bound a
buffer, argv and the lines.

## 3. The disk table: `MountTable`

`pc` has the places of `mount_by_id()` and `call_reboot()` at which another
actor can come between: `scan` and `rescan` are the two calls of
`get_disks()`, `wait` the `poll()`, `key` the `console_getchar()` behind it,
`mount` the call of `mount_disk()`, `add` the change of the list after
`mount()`, `lookup` the last loop, `umount` one turn of the loop of
`unmount_all()`, `del` its `list_del()`, `reboot` the system call.  `crash` is
the null pointer dereference, `hang` the endless loop of `list_del()`, and
`stuck` a `console_erase()` that does not return.

The kernel's mounts (`kmnt`) and the list (`mounts`) are changed in two steps,
as the code does, the kernel first; `Between` is the device in the middle of
one.  SIGINT may come there: from disk.c:292 on there are a `debug()`, with its
system calls, and a `malloc()`, and a signal sent while a slow `mount()` is at
work is delivered when it returns.  The device is then in `missed`, for good.

A disk is its name and the tags (`LABEL=...`, `UUID=...`) probed when it was
found; an ID is a tag or a name, with or without a file system type in front
(`fstype:`; a label with a colon in it is such an ID too).  The environment
plugs, unplugs and swaps media at any step (`Swap`), types (`PressKey`) and
presses ctrl-alt-del (`Sigint`).  `mount()` may work, fail, or say EBUSY;
`umount()` may refuse any node.

Left out: `/proc/diskstats` that cannot be read is the miss of `ScanMiss`;
`mknod` in `/dev` does not fail; `mount()` of a drive without a medium fails;
a restart asked for by SIGINT does not fail (PID 1 may reboot), so the handler
never returns to what it interrupted; memory freed by the handler is therefore
not used again.  The handler itself may interrupt `malloc()`, or the assignments
inside `list_add()` and `list_del()`, and then finds a heap or a list that is
half changed: one such assignment is one step here.  `mdadm` only changes which devices there are.

Checked by `mount`, in three instances between which the variable `part` of
`MCMountTable` chooses at the start:

* two drives, two media that share a label, which is enough for a media change
  to hide a disk, and IDs with and without a file system type;
* two drives that come and go and two keys, the least for a byte behind ESC and
  for a key in each queue, of five kinds: the escape key, a sequence that is not
  known, HOME, an arrow, and a character.  Timeouts: a wait of one second and
  one for ever; a longer countdown repeats the same step;
* three drives that come and go, the least for a node that is neither the first
  nor the second, and IDs that are names.

What it shows:

* `LookupMissesOnlyOnSwap`: see the findings; nothing else hides a disk.
* `TableMatchesKernel`: each file system of the kernel is in the list and each
  node of the list is mounted or was busy, but for the device of `Between` and
  the one of `missed`; only SIGINT makes that last, and for one device.
* `RebootLeavesOnlyRefused`: the walk over a list that shrinks skips no node.
* `KeyEndsWait`: a key ends the wait.  Not so an ESC with nothing behind it and
  a sequence that is not known, with which `console_getchar()` waits for
  another key while nobody polls, although disk.c:329 says "Press any key to
  abort"; and not when an ESC is typed just before the line that says "Waiting"
  is erased.  The property states both.

Fairness: the process is the only program running, so a call it serves goes
on (`WF`); a drive that is plugged in again and again is in the end seen
while it is there and `/proc/diskstats` readable (`SF` on `ScanHit`).
Callers, drives and the keyboard are not fair.

Three runs show what the code does against its comments:
`mount_contract` (after a media change the loop at disk.c:361 runs off the
list), `mount_hang` (`list_del()` never ends on a third node) and `mount_sigint`
(a file system is left mounted that `unmount_all()` never tried).

Proved, for all constants: the properties of `mount` except the two
that are liveness (`KeyEndsWait`, `WaitsOnlyForMissing`), and that
`MountTable` implements `MountService`, in which a change has two halves and an
interrupt may come between them.  The inductive invariant `IInv` adds to the
properties what they rest on: a disk about to be mounted matches the ID asked
for, the device between the two halves of a change is the one at hand, the
nodes before the cursor of `unmount_all()` have refused, nothing returns from
the restart of SIGINT.

## 4. Booting: `BootTarget`

`bpc` walks through `boot_target()`: the arguments one by one (`todo`, `argc`;
a path calls `mount_by_id()` of `MountTable` and waits for its result), the
fork, `wait()`, the reboot.  `kid` holds the children running `kexec -l`;
`klog` is the child that copies `/proc/kmsg`, which ends with status 0;
`image` is the kernel that was loaded last.  `wait()` takes any child that has
ended (`Status`), as the C function does.  `vfs_translate_path()` is what
`boot.c` needs of it: the disk of a path, or failure.

`boot` checks that argv never overflows, that the disks of its arguments stay
in the table, and that every attempt ends.  That the machine boots what was
asked for (`BootsTarget`), that no child is left over, and that a reboot has a
kernel of this very attempt (`OwnAttempt`), is claimed only while the log child
has not ended (`KlogSilent`):
`boot_klog` shows what happens when it has.  The instance has four targets (on
a disk, on the root file system, one argument too many, no disk), a small
`MaxArgv` so that the limit is met, and two children at a time: one of this
attempt and one left behind by an earlier one.

Fairness: a child ends in the end, and so does each step of the process.

Proved: a behaviour of `BootTarget` is one of `MountTable`
(`BootUsesTable`), so all of section 3 holds while targets are booted; types;
`BootsTarget` and `OwnAttempt` (`NoStrayChild` and `RebootHasKernel`), from the
order of children (`OrderOK`: no child is left once it was waited for, the one waited
for is of this attempt, and the image is of the target once its child has
loaded it); `ArgsStayMounted`,
from the table's invariant, which keeps a listed device listed.

A reboot that fails returns to the menu only once the kernel log child was
taken for kexec, so `BootsTarget` and `OwnAttempt`, with `KlogSilent`, say
nothing of what it leaves; `AttemptEnds`, `ArgsStayMounted`, the properties of
the table and the run `boot_klog` do.  A call that `console_erase()` stops for
good (`stuck`) ends no attempt; nobody types in this instance, section 3 has
the keys.

## 5. Kernel modules: `Tar` and `Kmod`

`stack` holds the calls that have not returned; one frame stands for
`load_kmod(mod)`, its `modprobe_dir()` and the `modprobe()` of the entry at
hand.  `readdir()` gives entries in any order.  A file is good or bad.  A bad
one may be one that cannot be found, opened or mapped, and is passed over
(`PassEntry`); or one that `init_module()` refuses, after its dependencies were
loaded, of which it may have lost the list (`ReadEntry`, `InsertFails`).  `phase` is the place in
`main()`: the modules of the initramfs, then, with a boot disk, its archives,
then the load of what remains.  Left out: reading ELF sections and module
parameters.  A name is a model value; two spellings of a name are two names,
as in the code.

`Tar` unpacks the archives header by header: a file that is there already and
a hard link are skipped, any other is written to `/tarfile.tmp` and renamed
when it is complete.  An archive may end early at any of these steps, for any
reason, and the next one is opened; `fclose()` is the one failure the code does
not look for (`TarCut`), and then the file is renamed without its end.  Each
archive has a set of headers, any number of them for one name, so a file may be
skipped because an earlier archive brought it, or taken from a later one
because the earlier one failed.  The archives and their headers come in any
order; the bytes of headers and the decompression are left out.

Assumed: dependencies have no cycle (`AcyclicAssumption`), as depmod demands of
the modules of a kernel; with a cycle `load_kmod()` would not return.

The part `modules` of `main` has three modules of which two share a dependency,
the directories of the initramfs and of the boot disk with good, bad and missing
files, and four pairs of archives: empty; with the same module in both, good in
one and bad in the other; with a hard link; and with two headers for one name.
So a dependency is met loaded, not yet loaded, broken and missing, before and
after the archives.
`kmod_copied` shows that a module copied to the boot disk is left out when the
initramfs has any.

Proved: the safety properties `DepsLoaded`, `AnswerIsRight` and `LoadsAll`;
that archives never touch a module that is there and bring whole ones
(`ModulesStay`); and that the recursion never meets a module twice
(`NoReentry`, which is in no run).  `KInv` adds: what `readdir()` has given to
a frame was tried, so what of it can be loaded is in the kernel
(`FramesGood`); a frame's module is the dependency the frame below waits for
(`Chained`); the answer fits the module asked for (`AnswerFits`); what is
loaded in each `phase` (`Phases`); and what is being written has no file yet
(`Writing`).  The argument is one over the stack; acyclicity is used where a
module could be below itself.  That loading ends is model-checked only.

## 6. Menu: `Menu`

`start`, `target` and `row` are indices into the list of `N` targets; the
window is the lines 6 to `Rows - 2` of the screen, and `Rows >= 10` is
assumed (smaller screens have no room for the frame).  The keys are those of
`Keyboard`: all that is drawn begins with `console_erase()` (`Erase`), which
moves the keys in the terminal to `getc_buf`, where `poll()` does not see them,
and which does not return when the last of them is an ESC (`Hang`).
`boot_target()` and the shell are what they may return; the shell asks for the
cursor too and may stop in the same way.

So a key typed between two `poll()` calls does not stop the countdown, although
the screen says "Press any key to abort" (menu.c:67); no property asks for it.

The part `menu` of `main` has six targets in a window of three lines: it
scrolls both ways, and there is a target above, in, and below the window.  Two
keys of seven kinds fill both queues, and are enough for the byte behind ESC.
`MenuAnswers` says that the menu gets to its keys, to a boot, to the key an
alert asks for - or to the one place, `stuck`, where an ESC has stopped it.
Fairness is that of the process alone; nobody has to
press a key.

Proved for any `N` and `Rows`: the window follows the selection and shows it
(`SelectionShown`); the countdown boots the default and starts once
(`CountsOnce`).  `MInv` adds `Counting`: the countdown runs only while the
selection is still the default.

## 7. Configuration: `LoadConf`

One action per directive.  What a setting is set to is kept as the number of
the line it came from (0 before), so "has the settings of its own block" can
be said; a line's text is abstract except for what the code tells apart (`on`,
`off`, a number, a path, blanks at the end).  `topen` is the title of the
target under construction.  As in the code, a `title` without text leaves the
block before it open, and `timeout off` with a blank behind it is 0, not off.

`conf` checks every file of up to five lines over an alphabet with each
directive right and wrong: a complete block with a line that is rejected, or
before or behind one that is not complete.  At most one of the lines is not of a
target (`MaxOther`), as such lines change nothing but their own variable.  A
complete block is a title, a root and a kernel, so five lines never hold two:
files of nothing but these three, right and wrong, have up to seven lines, so
two complete blocks and a line between, and `AllTargets` says that the targets
are the complete blocks in their order.  `conf_map` shows that no
`grub-map` line is ever accepted.

`NoSilentLine` takes a line for heard if its effect is there at the end - a
value counts only if it is the one the line gives - or it was reported.  Two
excuses are left: a setting that a later, accepted line of the same block (of
the file, for `timeout` and the two like it) sets again, and the lines below a
title that was reported.

Proved for files of any length: types, and that the targets are the complete
blocks in their order with their own settings and modules (`OwnLines`,
`AllTargets`).  `BlocksOK` says it
of the block under construction (`OpenOK`), of those read (`ClosedOK`) and of
their list (`ListedOK`).  That no line is lost without a word
(`NoSilentLine`) rests on `AllKept`, which says for every line read so far
what became of it (`Kept`): it was reported, or a list has it, or it belongs
to the block of a title (`Owned`); a line of a block is reported exactly when
no title owns it, so the line that overrides another one was itself accepted.

## 8. GRUB: `Grub`

`at` is the phase: `search` and `probe` are the loop of `grub_detect()` over
disks that come and go, `key` the `console_getchar()` that ends it; `load`,
`wait`, `rescan` and `abort` are the `mount_by_id()` of `grub_load()`, with its
wait, its polls and a `mount()` that may fail; `map` reads `device.map`, `find ...` opens the configuration files,
`menu` and `cfg` read one line per step.  Values are line numbers as in
`LoadConf`.  A device name is a record of drive, partition and BSD partition;
its spelling (`parse_gdev()`) is left out, what `lookup_gdev()` compares is
`Agrees`.  The device map is a set: the first entry that agrees is taken, and
all that matters is whether one does.

A variable of `grub.cfg` keeps its value from one entry to the next; the code
clears them at the end of an entry, not at its start, so the lines that count
for an entry begin where the one before ended (`Own`).  `OwnLines` is about this
rule, which is kexec-loader's: to GRUB a `set root=` above the entries is for all
of them; to `load_grub2_cfg()` for the first one only, and the second is then
refused for want of a root (grub.c:429).

Left out: the disk that a search found is in the table, so the `mount_by_id()`
of its `grub_load()` returns at once (`ProbeFinds`); that the table may know the
disk by other tags, and the null pointer then, is in `MountTable`.

`grub` has two disks, one with each kind of file, and up to six lines
(`device.map` counted too): two entries of three lines, or one entry with
lines around it.  Lines that are not title, root, kernel or the end of an
entry are rare: one per file.  `DefaultCounted` compares with a count of all
titles; `OwnLines` has three parts, one for each kind of file and one for a
`kernel` line whose path is refused after its arguments were taken.  `SearchEnds` says that a
disk that stays is found, and that a key ends the search and the wait, with the
exceptions of `KeyEndsWait`; it needs that the process runs, and that `mount()`
does not refuse a disk for ever (`SF` on `ProbeFinds`).

Proved for any disks and for files of any length: types (`GTypeOK`), that a
target has the lines of its own entry (`OwnLines`), that the complete entries
are offered once and in their order (`OfferedOnce`), and that the mark of the
default is where a count of all titles puts it (`DefaultCounted`).  The
invariant `FilesOK` has one form for each of the phases: nothing read
(`FreshOK`), `menu.lst` (`MenuOK`), `grub.cfg` (`CfgOK`).  Each of the last
two says of the open entry, of those closed and of their list what `BlocksOK`
says in section 7, with two things more.  The variables of `grub.cfg` are
those of the lines since the last entry was closed (`CSince`), which need not
be those since its title.  And the default is what the last `default` line
says, compared with the number of titles before an entry, so a lemma is needed
on how one more line changes that count.  `ArgsOK` is the part of `OwnLines`
about arguments that another `kernel` line left behind.

`ValuesAssumption` came from the proof: a timeout is a number, and `NoTitle` is
none, or a title and a number could be the same default.

## 9. Start-up: `Startup`

`place` is the place in `main()`.  The one hard thing there is a buffer:
`get_cmdline()` answers with a pointer into a static array, and `main()` keeps
such a pointer while it waits for the boot disk (misc.c:89) and while it prints
what it is about to boot (misc.c:154).  `val` is that array; `device` and
`boot_arg` are either the pointer (`"val"`) or something else, and `Text` reads
through it.  `debug()` calls `get_cmdline()` too, every time that its log is
not open; a log that is open stays open.

`Cmdline` is any set of command lines.  A word is what `get_cmdline()` copies,
so it has no blank; `Atoi` gives its number, which is 0 for what is no number.
A title may be a word or not (`Titles`).  `load_conf()` and GRUB are what they
may leave: any of `Lists`.

The part `options` of `main` has 120 command lines.  `RootIsAsked` and
`BootsAsked` hold with the exception they state: with a log that could not be
opened at the start and a `debug_tty=` to open it with, what the program waits
for, or what it boots, may be the text of `debug_tty=`.  A `boot_index=` that
is no number boots the first target, a title with a blank can never be asked
for, and `root=rootfs` is a root device like others: the properties say so.

Proved for any command line, titles and numbers: both.  `SInv` adds where the
pointers point until they are used: `Rooting` up to `vfs_set_root()`,
`Choosing` up to the loop over the targets.

Left out: a `/proc/cmdline` that cannot be opened (`debug()` and
`get_cmdline()` would call each other for ever), an option that is there
without a value, and the search of one option's name in another's value.

## 10. Paths: `Vfs`, `Find`, `Glob`

`Vfs` is one call of `vfs_translate_path()`, component by component.  `todo` is
what `append_path()` has yet to look at, `path_nodes` what `..` may take back.
A name is a sequence of characters only so that `Glob` can look into it;
`Device` is what stands between parentheses.  A name of 32 characters or more
(`LongName`) leaves `disk_buf` without an end, so any disk may be found, or
none.  The disks that can be mounted are constant during a run: that they come
and go is the subject of `MountTable`.

* `InJail`: once the jail is on the path, no `..` takes any of it off.
* `PathMeans`: the path is on the disk that was named, and is what the names
  mean, `Meaning` being a reference that does not count (a name stays unless
  some stretch that begins with it has as many `..` as names).  One form is
  excepted: `..` behind `.` takes back the `.`, so `a/./..` is `a`.

`Find` adds the callers.  `ls` and `cat` translate a path; `find_files()` reads
a directory, stats and compares every entry and calls itself for a directory,
which is a stack of frames (`dirs`).  An entry that cannot be found
(`CannotStat`) is left out and the next one read; this happens on a disk whose
name is cut, which may be another disk at each translation.  `Glob` is `globcmp()`: each turn of its
loop is a step.

* `GlobMeans`: the answer is that of a shell, except that a `*` at the end of
  the text matches whatever comes after the `*` in the pattern (globcmp.c:66).
* `FindsAll`: every path below the directory, at any depth, whose name matches
  is printed, in whatever order `readdir()` gives entries, and no other but
  those that `GlobMeans` excepts.  A disk whose name is cut promises nothing.

`find` does not work without a directory, as README.html says it does
(README.html:182); `cmd_find()` prints its usage.

The part `paths` of `shell` has 9 devices with every path of up to three names
in every one of five jails, two of them with `..` (first, in the middle); every
pattern of up to four characters over two letters and the two wildcards against
every name of up to three letters; and a tree three levels deep, on a disk with
a short name and on one with a name that is cut.  Longer patterns repeat the
same turns of the loop.

Proved for any names, disks and jails of any length: types, `InJail` and
`PathMeans`.  `VInv` adds `DiskFirst`: while a path is put together its disk is
in front of what `..` may take back.  `NamesInv` says what the path is at each
place: while the jail is read, what the jail's names so far mean (`JailRead`);
while the path is read, the jail and then what its names so far mean
(`NamesRead`), of which `..` may take back the last `path_nodes`, and none of
the jail's (`JailStays`); at the end, both (`NamesMeant`).

The lemmas compare a code that counts with a reference that does not.  A name
stays when no stretch that begins with it has as many `..` as names
(`Balanced`, `Kept`).  So one more name stays and changes no other
(`NameStays`), and one more `..` takes back the last one that stayed, and no
other (`UpStays`, `UpTakes`, `SomeBalanced`), which is what `append_path()`
does with its counter.  Both are by induction over the number of names, in the
form "the least name for which it fails" (`LeastOf`, `AllNumbers`).  For this
`Meaning` picks the names that stay by their positions (`Picked`).

Proved for any text and any pattern, with any number of stars: `GlobMeans`.
The reference `Matches` is a recursive function over the characters of the
pattern, and `MatchesIsWay` says what it computes: the text matches just when
there is a `Way` through it, a place in the text after each character of the
pattern, the next one where that character may lead (`Goes`).  `GlobInv` relates the two
pointers to it: `str` and `expr` are what is left from places `p` and `q`, a
way leads there from the start, and if the text matches at all, a way leads
from there to the end.  The second half is what is hard about `globcmp()`: it
takes the first place behind a `*` where what lies up to the next `*` fits, and
never comes back to it.  That no match is lost is an exchange: any way to the
end can be bent to go through the first place that fits (`StarFindsMeans`).

Proved for any tree and any directory: `FindsAll`, and that `Find` uses `Vfs`
as it is specified (`FindUsesPaths`), so that what is proved of paths is true
of every path that `find`, `ls` and `cat` take.  `FInv` says that the frames
are on the disk that was asked for; `SearchInv` that what is in them is in the
tree (`InTree`), that what is printed was taken (`OnlyTaken`), and that each
path below the directory was seen or waits (`AllSeen`): in the entries left of
a frame, at the entry being looked at, or below one of those.  The paths that
find puts together are read literally because no entry of a tree is `.` or
`..` and every entry is in a directory, which `TreeAssumption` says and
`readdir()` with shell.c:692 does.

## 11. The console: `Console`

The terminal answers "where is the cursor?" on the stream that the keys come
on.  `tty` is that stream, `getc_buf` what `console_getpos()` has read and put
aside, `held` what it has read and not decided about, with the parsing of
escape sequences byte by byte; `doing` is the place in the two functions.  Keys
are the six kinds of byte sequence the functions tell apart: a character, the
escape key, an arrow, HOME (END and DEL are the same), and one of three bytes
and one of four (INSERT, PgUp, PgDn) that are not known.  A key may be typed between any two bytes.

* `KeysInOrder`: `console_getchar()` gives the keys that were typed, in order
  and all of them.  Four things break it, and the property names them: a key of
  four bytes that is not known, the last of which is given as a character
  (console.c:222); more bytes than `getc_buf` holds; the escape key, which takes
  the first byte of an answer or of another key with it; and HOME, END and DEL,
  whose fourth byte is read past what waits in `getc_buf` (console.c:217).  The
  last three do so only once `console_getpos()` was called.
  The first is against the comment at console.c:222, "hope it's only 3 bytes".
* `GetposEnds`: `console_getpos()` returns, unless the escape key was typed:
  the answer behind it is not recognised, and there is no other.

Fairness: the terminal answers, and the process runs while it has a byte to
read.  Nobody has to type.  `shell` does not check for deadlock, because a
process that waits for a key nobody types really stops.

`GetcSize` is 6 so that three keys can fill the buffer, `TbufSize` 3 so that an
answer can be too long.  The model has one byte for row, `;` and column.

Proved for buffers of any size, any keys and any number of calls: types and
bounds (`CTypeOK`), from how much is held at each place (`HeldSoFar`), and
`KeysInOrder`.  What a key gives and what it sends are joined over the keys
typed (`Each`); the lemmas before the invariant say what joining gives when a
key is added or the first one is taken away.

`KeysInOrder` says nothing of the bytes between the keyboard and the caller, so
`KeysInv` does: read on from here, what has been sent and not been read gives
exactly the keys that the caller has not got yet.  Outside of
`console_getpos()` the rest of the stream is `getc_buf` and then `tty`, after
what has been begun of a key (`Reads`).  Inside it the bytes are in `getc_buf`,
`held` and `tty`, in this order, with the answer of the terminal somewhere in
`tty` (`Asks`), or `held` and the head of `tty` are the answer itself
(`Parses`).  The key invariant of the second case is that the cut at the answer
is one between keys: without the escape key and HOME nothing that is whole ends
in ESC or `[` (`SendsWhole`), so what is held when the answer begins is
complete and goes back to `getc_buf` in its place.  No key sends the byte that
tells an answer from a key (`LeftSent`), so keys are never taken for an answer;
and `getc_buf` takes back all that is held because what is left is never more
than was sent.

## 12. The command line: `Editor` and `LineEdit`

`Editor` is what a user expects: text to the left and right of a cursor, keys
that change it, a history.  `LineEdit` is `read_cmd()`: a buffer of bytes with
`memmove()` and `strlcpy()`, `cmdlen` and `offset`, `history`, and the rows of
the screen, which the program never asks the terminal for but counts itself.
`Text` cuts the buffer at the cursor, which is the refinement mapping.  The
code also puts a NUL into the line if one is typed (Ctrl-@, or a BREAK on a
serial line; shell.c:342): `cmdlen` is then more than `strlen()`, and
`kl_strdup()` (shell.c:364) enters the line up to the NUL only.  `ScreenAssumption`
leaves this out, and nothing here holds for such a line.  What a
completion offers is a constant; what it does to the line is modelled.

* `LineOK`: `cmdlen` is the length of the string, its end is in the buffer and
  the cursor is in the text, whatever a completion had to cut off.  DEL on a
  full buffer reads the byte behind it (`over`), and this does no harm.
* `EditorSpec`: the buffer is what `Editor` says.
* `CursorFollows`: at the end of a line the prompt is where `read_cmd()` thinks
  it is.  In the middle of a line that no longer fits on the screen it is not:
  `replace_input()` writes a `\n` for each row that is missing and takes as
  many off `srow`, but the terminal scrolls only when the cursor is on the last
  row (shell.c:395).

The part `line` of `shell` has a buffer of five bytes, a history of two lines,
and a screen of three rows and two columns, so that every line but the shortest
wraps and the longest scrolls.  `MaxEntered` bounds the length of lines that
enter the history.

Proved for every size of buffer, history and screen and any completions:
`LineOK`, and that `LineEdit` implements `Editor` (`LineImplementsEditor`).
`LInv` says that the buffer holds exactly one text with its end, and that every
line of the history fits into the buffer again.  The proof of the refinement
takes the keys one by one; its lemmas say what joining, cutting and shortening
do to a text in a buffer.  `CursorFollows` rests on `ScreenOK`: the end of the
text is on the screen, and a cursor behind the text is on the row of its end,
or on the last row that the text fills.  It is true only on a screen of two columns or
more and with a prompt shorter than a row, which `ScreenAssumption` says: with
one column, or a prompt that fills the row, the cursor is a row further down
than `read_cmd()` counts.

## 13. Hazards and findings

`PROJECT.json` lists the hazards at their lines with the properties that would
catch them, and a note where a property excepts the case that goes wrong.  Two
have none: the title in the static buffer (the exception of `BootsAsked`) and a
NUL that is typed.  Six of the code's disagreements with its own comments and
documentation have a run that shows them (`mount_contract`, `mount_hang`,
`mount_sigint`, `boot_klog`, `kmod_copied`, `conf_map`).  Others are stated
as the exceptions of a property, in the sections above: `RootIsAsked`,
`BootsAsked`, `PathMeans`, `GlobMeans`, `KeysInOrder`, `GetposEnds`,
`KeyEndsWait`, `SearchEnds`, `MenuAnswers`, `CursorFollows`.

## 14. What is proved and what is only checked

Every listed theorem is checked by TLAPS with the SMT backend (Z3), Zenon and
LS4, from the named assumptions of the modules about their constants (sizes are
positive, names are not the special ones, dependencies have no cycle), which
TLC evaluates for the instances.

Only model-checked:

* liveness (`KeyEndsWait`, `WaitsOnlyForMissing`, `AttemptEnds`, `LoadingEnds`,
  `MenuAnswers`, `SearchEnds`, `GetposEnds`): out of the prover's reach.

Every invariant of a passing run is proved for all constants.

Induction over numbers is not out of reach: a set of natural numbers that is
not empty has a least one (`LeastOf`, from the well-foundedness of `<` as a set
of pairs), so a set with 0 and the number after each of its numbers has all of
them (`AllNumbers`).  The meaning of a path of any length, what a pattern of
any length matches, what find has seen, and the last line of a GRUB file, rest
on it, and so does what joining the bytes of any number of keys gives.  A
recursive function over numbers is proved to be one in the same way
(`MatchesIsWay`).

Two assumptions came out of the proofs, because what was to be proved was false
without them: `ScreenAssumption` (the sizes of the screen; that no NUL is typed
is an abstraction, see section 12) and `ValuesAssumption`.
So did the branch of `CannotStat`, without which no proof that the search goes
on to the next entry could be complete, and the exception of `FindsAll` for a
disk whose name is cut.

`BootsTarget` and `OwnAttempt` hold until the kernel log child ends.

## 15. Not modelled

* the key map: a table of names and one ioctl per line of a file, no state;
* the stack trace: prints and stops;
* the patches to kexec, mdadm and blkid and the build scripts: other programs;
* of the shell: the settings its commands put into their target (one assignment
  each, as in `LoadConf`) and which names a completion offers;
* of the signal handler: that it may interrupt `malloc()` or the assignments of
  a list operation, neither of which it may call again safely;
* of the command line: a NUL that is typed;
* of the console: colours, attributes, the size of the screen (output only);
* of modules: ELF sections and parameters; of archives: bytes, checksums and
  decompression; of device names: their spelling;
* of disks: the text of sizes and the probing, which `blkid` does.

## 16. Plan

Done, of the plan this project began with: the disk table, booting, modules,
menu and configuration with their proofs; GRUB; paths, patterns and `find`;
the console; the command line and its refinement; archives; start-up.

Since then, with proofs of their own: GRUB's files, `NoSilentLine`, `InJail`,
`PathMeans`, `GlobMeans`, `FindsAll`, `CursorFollows` and `KeysInOrder`; and the
mounts, keys and archives in as many steps as the code takes.

Next, in this order:

1. The composition of `Menu` with `BootTarget`, the menu's abstract boot
   replaced by the module, and a refinement that shows `Keyboard` to be what
   `Console` does.
2. The parser of ELF sections in `modprobe()` and the commands of the shell
   that change its target.
