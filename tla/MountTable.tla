----------------------------- MODULE MountTable -----------------------------
(***************************************************************************)
(* The table of mounted disks of kexec-loader: disk.c, the list helpers of *)
(* misc.c it is kept with, and call_reboot(), which empties it.            *)
(*                                                                         *)
(* One process (PID 1) uses the table.  What makes it hard is around it:   *)
(* drives come and go and change their media between two of its system     *)
(* calls, mount() and umount() may refuse, keys are typed at any time, and *)
(* SIGINT (ctrl-alt-del) runs call_reboot() in the middle of anything,     *)
(* between a system call and the change of the list that goes with it too. *)
(***************************************************************************)
EXTENDS Integers, Sequences, FiniteSets, Keyboard

CONSTANTS
    DevSeq,     \* the device names, in the order /proc/diskstats lists them
    Media,      \* file systems that may sit in a drive
    Tag,        \* "LABEL=..." and "UUID=..." strings
    TagsOf,     \* the tags blkid reads from a medium
    Id,         \* the disk IDs callers ask for
    Timeout,    \* the timeouts callers pass
    Empty,      \* a drive without a medium
    Absent      \* a drive that is not plugged in

Dev == {DevSeq[i] : i \in DOMAIN DevSeq}

Key == Tag \cup Dev

Forever == -1

ASSUME DevAssumption == DevSeq \in Seq(Dev)
ASSUME MediaAssumption == TagsOf \in [Media -> SUBSET Tag]
ASSUME IdAssumption == Id \subseteq [prefix : BOOLEAN, key : Key]
ASSUME TimeoutAssumption == Timeout \subseteq Nat \cup {Forever}

VARIABLES
    drive,      \* what each drive holds
    kmnt,       \* the devices the kernel has mounted (on /mnt/<device>)
    mounts,     \* the list `mounts`
    pc,         \* where the process is
    id,         \* disk_id of the call being served
    left,       \* its timeout
    found,      \* the disk get_disks() returned
    ret,        \* what mount_by_id() returned last
    cursor,     \* the node `ptr` of unmount_all() points at
    cmd,        \* the argument of call_reboot()
    busy,       \* history: devices recorded because mount() said EBUSY
    refused,    \* history: devices this unmount_all() could not unmount
    missed      \* history: the device SIGINT left between kernel and list

envVars  == <<drive>>
callVars == <<id, left, found, ret>>
offVars  == <<cursor, cmd, refused, missed>>
listVars == <<kmnt, mounts, busy>>
vars == <<drive, kmnt, mounts, pc, id, left, found, ret, cursor, cmd, tty,
          getc_buf, busy, refused, missed>>

(***************************************************************************)
(* Disks.  A kl_disk is its name and the tags probed when it was found.    *)
(***************************************************************************)
Disk == [name : Dev, tags : SUBSET Tag]

NoDisk == [name |-> Absent, tags |-> {}]

NoId == [prefix |-> FALSE, key |-> Absent]

\* compare_disk_id().  An ID with a "fstype:" prefix is compared as it is,
\* prefix included, so it is no disk's name and no disk's tag.
Compare(disk, i) == ~i.prefix /\ (i.key \in disk.tags \/ i.key = disk.name)

Probe(d) ==
    [name |-> d, tags |-> IF drive[d] \in Media THEN TagsOf[drive[d]] ELSE {}]

\* The drives get_disks(filter) stops at: it drops the prefix before comparing.
Hits(i) ==
    {n \in DOMAIN DevSeq :
        /\ drive[DevSeq[n]] # Absent
        /\ Compare(Probe(DevSeq[n]), [i EXCEPT !.prefix = FALSE])}

IsFirst(n, S) == n \in S /\ \A m \in S : n <= m

Names(list) == {list[n].name : n \in DOMAIN list}

Listed(list, i) == {n \in DOMAIN list : Compare(list[n], i)}

(***************************************************************************)
(* list_del().  The loop that looks for the node never advances: it ends   *)
(* only when the node is the root or the root's successor.                 *)
(***************************************************************************)
\* Mutant: the search in list_del() gives up on everything but the root.
ListDelEndsAtRoot(n) == n = 1

ListDelEnds(n) == n <= 2

Remove(list, n) ==
    [m \in 1 .. Len(list) - 1 |-> IF m < n THEN list[m] ELSE list[m + 1]]

-----------------------------------------------------------------------------
Running == pc \notin {"off", "crash"}

\* The loop that waits for the disk, but for console_getchar() in it.
Polling == pc \in {"wait", "rescan"}

ShuttingDown == pc \in {"umount", "del", "hang", "reboot"}

\* The device the kernel has mounted and the list has not got yet, or the one
\* the kernel has let go of and the list still has.
Between ==
    IF pc = "add" THEN {found.name}
    ELSE IF pc \in {"del", "hang"} THEN {mounts[cursor].name}
    ELSE {}

Init ==
    /\ drive \in [Dev -> Media \cup {Empty, Absent}]
    /\ kmnt = {}
    /\ mounts = <<>>
    /\ pc = "idle"
    /\ id = NoId
    /\ left = 0
    /\ found = NoDisk
    /\ ret = NoDisk
    /\ cursor = 1
    /\ cmd = "none"
    /\ tty = <<>>
    /\ getc_buf = <<>>
    /\ busy = {}
    /\ refused = {}
    /\ missed = {}

-----------------------------------------------------------------------------
(***************************************************************************)
(* The drives and the keyboard.                                            *)
(***************************************************************************)
\* A drive appears, disappears or changes its medium.  The kernel gives the
\* name of a device that is still mounted to no other device.
Swap(d) ==
    /\ Running
    /\ \E m \in Media \cup {Empty, Absent} :
        /\ m # drive[d]
        /\ drive[d] = Absent => d \notin kmnt
        /\ drive' = [drive EXCEPT ![d] = m]
    /\ UNCHANGED <<listVars, pc, callVars, offVars, keyVars>>

PressKey ==
    /\ Running
    /\ Press
    /\ UNCHANGED <<envVars, listVars, pc, callVars, offVars>>

-----------------------------------------------------------------------------
(***************************************************************************)
(* mount_by_id().                                                          *)
(***************************************************************************)
\* The call returns, and its local variables are gone.
Return(disk) ==
    /\ pc' = "idle"
    /\ ret' = disk
    /\ id' = NoId
    /\ left' = 0
    /\ found' = NoDisk

\* The disk is in the list already.
CallHit(i) ==
    /\ pc = "idle"
    /\ \E n \in DOMAIN mounts :
        /\ IsFirst(n, Listed(mounts, i))
        /\ Return(mounts[n])
    /\ UNCHANGED <<envVars, listVars, offVars, keyVars>>

CallMiss(i, t) ==
    /\ pc = "idle"
    /\ Listed(mounts, i) = {}
    /\ id' = i
    /\ left' = t
    /\ pc' = "scan"
    /\ UNCHANGED <<envVars, listVars, found, ret, offVars, keyVars>>

Call(i, t) == CallHit(i) \/ CallMiss(i, t)

\* get_disks() returns the first drive that matches.
Found ==
    /\ \E n \in DOMAIN DevSeq :
        /\ IsFirst(n, Hits(id))
        /\ found' = Probe(DevSeq[n])
    /\ pc' = "mount"
    /\ UNCHANGED <<envVars, listVars, id, left, ret, offVars>>

\* Mutant: the disk found while waiting is dropped.
ScanHitOnce == pc = "scan" /\ Found /\ UNCHANGED keyVars

\* The line that says "Waiting" is erased, if there is one.
ScanHit ==
    \/ pc = "scan" /\ Found /\ UNCHANGED keyVars
    \/ pc = "rescan" /\ Found /\ Erase

\* No drive matches, or /proc/diskstats cannot be read: give up, or start to
\* wait.
ScanMiss ==
    /\ pc = "scan"
    /\ IF left = 0
         THEN Return(NoDisk) /\ UNCHANGED keyVars
         ELSE pc' = "wait" /\ Erase /\ UNCHANGED callVars
    /\ UNCHANGED <<envVars, listVars, offVars>>

\* poll() saw no key for a second.  A negative timeout never reaches zero.
PollQuiet ==
    /\ pc = "wait"
    /\ left # 0
    /\ tty = <<>>
    /\ left' = IF left = Forever THEN Forever ELSE left - 1
    /\ pc' = "rescan"
    /\ UNCHANGED <<envVars, listVars, id, found, ret, offVars, keyVars>>

RescanMiss ==
    /\ pc = "rescan"
    /\ pc' = "wait"
    /\ UNCHANGED <<envVars, listVars, callVars, offVars, keyVars>>

\* poll() sees that the terminal has a key.
Polled ==
    /\ pc = "wait"
    /\ left # 0
    /\ tty # <<>>
    /\ pc' = "key"
    /\ UNCHANGED <<envVars, listVars, callVars, offVars, keyVars>>

\* Mutant: a key ends the wait only when there is a time limit.
PollKeyTimed == left > 0 /\ Polled

PollKey == Polled

\* console_getchar() takes the oldest key, which may be one of getc_buf; it
\* goes on waiting for a sequence it knows, and for the byte behind an ESC.
TakeKey ==
    /\ pc = "key"
    /\ \/ DropDead /\ UNCHANGED pc
       \/ (\E k \in Keystroke : GetChar(k)) /\ pc' = "aborted"
    /\ UNCHANGED <<envVars, listVars, callVars, offVars>>

\* The wait is over without a disk.
GiveUp ==
    /\ pc = "aborted" \/ (pc = "wait" /\ left = 0)
    /\ Erase
    /\ Return(NoDisk)
    /\ UNCHANGED <<envVars, listVars, offVars>>

\* console_erase() does not return.
EraseHangs ==
    /\ \/ pc = "scan" /\ left # 0
       \/ pc = "rescan" /\ Hits(id) # {}
       \/ pc = "wait" /\ left = 0
       \/ pc = "aborted"
    /\ LoneEscape(tty)
    /\ pc' = "stuck"
    /\ UNCHANGED <<envVars, listVars, callVars, offVars, keyVars>>

-----------------------------------------------------------------------------
(***************************************************************************)
(* mount_disk().                                                           *)
(***************************************************************************)
SkipMount ==
    /\ pc = "mount"
    /\ pc' = "lookup"
    /\ UNCHANGED <<envVars, listVars, callVars, offVars, keyVars>>

\* Mutant: names are compared as prefixes, sda1 with sda.
AlreadyMountedPrefix == mounts # <<>> /\ SkipMount

AlreadyMounted == found.name \in Names(mounts) /\ SkipMount

\* mount() worked, or it failed with EBUSY, which is taken for success.
MountOk(isBusy) ==
    /\ pc = "mount"
    /\ found.name \notin Names(mounts)
    /\ drive[found.name] \in Media
    /\ kmnt' = IF isBusy THEN kmnt ELSE kmnt \cup {found.name}
    /\ busy' = IF isBusy THEN busy \cup {found.name} ELSE busy \ {found.name}
    /\ pc' = "add"
    /\ UNCHANGED <<envVars, mounts, callVars, offVars, keyVars>>

\* list_add_copy(), after debug() and its system calls.
ListAdd ==
    /\ pc = "add"
    /\ mounts' = Append(mounts, found)
    /\ pc' = "lookup"
    /\ UNCHANGED <<envVars, kmnt, busy, callVars, offVars, keyVars>>

MountFails ==
    /\ pc = "mount"
    /\ found.name \notin Names(mounts)
    /\ Return(NoDisk)
    /\ UNCHANGED <<envVars, listVars, offVars, keyVars>>

\* The loop at the end of mount_by_id() walks off the list when no node
\* matches the ID, and compares a null pointer.
Lookup ==
    /\ pc = "lookup"
    /\ IF Listed(mounts, id) = {}
         THEN pc' = "crash" /\ UNCHANGED callVars
         ELSE \E n \in DOMAIN mounts :
                /\ IsFirst(n, Listed(mounts, id))
                /\ Return(mounts[n])
    /\ UNCHANGED <<envVars, listVars, offVars, keyVars>>

-----------------------------------------------------------------------------
(***************************************************************************)
(* call_reboot(): unmount_all(), then the reboot system call.              *)
(***************************************************************************)
\* A call SIGINT interrupts is never resumed.
StartReboot(c) ==
    /\ pc' = "umount"
    /\ cmd' = c
    /\ cursor' = 1
    /\ refused' = {}
    /\ missed' = Between
    /\ id' = NoId /\ left' = 0 /\ found' = NoDisk
    /\ UNCHANGED <<envVars, listVars, ret, keyVars>>

\* boot_target() has loaded a kernel.
CallReboot == pc = "idle" /\ StartReboot("kexec")

\* SIGINT; the handler ignores further ones.  It may interrupt anything, the
\* kexec reboot's own unmount_all() included, and never returns to it.  One
\* that comes while mount() or umount() is at work is delivered after it.
Sigint == Running /\ cmd # "restart" /\ StartReboot("restart")

\* umount() worked for the node at the cursor.
UmountOk ==
    /\ pc = "umount"
    /\ cursor \in DOMAIN mounts
    /\ mounts[cursor].name \in kmnt
    /\ kmnt' = kmnt \ {mounts[cursor].name}
    /\ pc' = "del"
    /\ UNCHANGED <<envVars, mounts, busy, callVars, offVars, keyVars>>

Deletes ==
    /\ pc = "del"
    /\ UNCHANGED <<envVars, kmnt, busy, callVars, cmd, refused, missed,
                   keyVars>>

\* Mutant: the walk steps to the node after the one that took the freed place.
ListDelSkips ==
    /\ Deletes
    /\ mounts' = Remove(mounts, cursor)
    /\ cursor' = cursor + 1
    /\ pc' = "umount"

\* list_del() removes the node, or hangs looking for it.
ListDel ==
    /\ Deletes
    /\ IF ListDelEnds(cursor)
         THEN mounts' = Remove(mounts, cursor) /\ pc' = "umount"
         ELSE pc' = "hang" /\ UNCHANGED mounts
    /\ UNCHANGED cursor

\* umount() failed: the file system is in use, or was never mounted.
Refused ==
    /\ pc = "umount"
    /\ cursor \in DOMAIN mounts
    /\ refused' = refused \cup {mounts[cursor].name}
    /\ UNCHANGED <<envVars, kmnt, busy, pc, callVars, cmd, missed, keyVars>>

\* Mutant: the node is deleted although umount() failed.
UmountFailsForgets ==
    Refused /\ mounts' = Remove(mounts, cursor) /\ UNCHANGED cursor

UmountFails == Refused /\ cursor' = cursor + 1 /\ UNCHANGED mounts

UmountDone ==
    /\ pc = "umount"
    /\ cursor \notin DOMAIN mounts
    /\ pc' = "reboot"
    /\ UNCHANGED <<envVars, listVars, callVars, offVars, keyVars>>

Reboot ==
    /\ pc = "reboot"
    /\ pc' = "off"
    /\ UNCHANGED <<envVars, listVars, callVars, offVars, keyVars>>

\* reboot(KEXEC) fails when no kernel is loaded: back to the menu.
RebootFailsWith(list) ==
    /\ pc = "reboot"
    /\ cmd = "kexec"
    /\ pc' = "idle"
    /\ mounts' = list
    /\ cmd' = "none" /\ cursor' = 1 /\ refused' = {}
    /\ UNCHANGED <<envVars, kmnt, busy, callVars, missed, keyVars>>

\* Mutant: the list is dropped with the reboot that did not happen.
RebootFailsNukes == RebootFailsWith(<<>>)

RebootFails == RebootFailsWith(mounts)

Stopped == ~Running /\ UNCHANGED vars

-----------------------------------------------------------------------------
Serve ==
    \/ ScanHit
    \/ ScanMiss
    \/ PollQuiet
    \/ RescanMiss
    \/ PollKey
    \/ TakeKey
    \/ GiveUp
    \/ EraseHangs
    \/ AlreadyMounted
    \/ \E isBusy \in BOOLEAN : MountOk(isBusy)
    \/ ListAdd
    \/ MountFails
    \/ Lookup

UnmountAll == UmountOk \/ ListDel \/ UmountFails \/ UmountDone

Unmount == UnmountAll \/ Reboot \/ RebootFails

Program ==
    \/ \E i \in Id, t \in Timeout : Call(i, t)
    \/ Serve
    \/ CallReboot
    \/ Unmount

Environment == (\E d \in Dev : Swap(d)) \/ PressKey \/ Sigint

Next == Program \/ Environment \/ Stopped

Spec == Init /\ [][Next]_vars

(***************************************************************************)
(* The process runs: a call it is serving goes on, and a disk that stays   *)
(* plugged in is in /proc/diskstats whenever that file can be read.        *)
(***************************************************************************)
Fairness == WF_vars(Serve \/ Unmount) /\ SF_vars(ScanHit)

FairSpec == Spec /\ Fairness

-----------------------------------------------------------------------------
(***************************************************************************)
(* Properties.                                                             *)
(***************************************************************************)
\* Every variable has its type.
TypeOK ==
    /\ drive \in [Dev -> Media \cup {Empty, Absent}]
    /\ kmnt \subseteq Dev
    /\ mounts \in Seq(Disk)
    /\ pc \in {"idle", "scan", "wait", "rescan", "key", "aborted", "mount",
               "add", "lookup", "umount", "del", "hang", "reboot", "off",
               "crash", "stuck"}
    /\ id \in Id \cup {NoId}
    /\ left \in Nat \cup {Forever}
    /\ found \in Disk \cup {NoDisk}
    /\ ret \in Disk \cup {NoDisk}
    /\ cursor \in Nat \ {0}
    /\ cmd \in {"none", "kexec", "restart"}
    /\ KeysOK
    /\ busy \subseteq Dev
    /\ refused \subseteq Dev
    /\ missed \subseteq Dev

\* No device is in the list twice: the list, not the kernel, is what stops
\* mount_disk() from mounting a device again (disk.c:281).
UniqueNames ==
    \A m, n \in DOMAIN mounts : mounts[m].name = mounts[n].name => m = n

\* The kernel has nothing mounted that unmount_all() could not reach through
\* the list, but for the device whose mount() has returned and which is not in
\* the list yet (disk.c:292-297) - for good, if SIGINT comes just then.
KernelListed == kmnt \subseteq Names(mounts) \cup Between \cup missed

\* Every node of the list stands for a file system the kernel has mounted, or
\* for a mount() that said EBUSY (disk.c:292), but for the one whose umount()
\* has returned and which list_del() has not removed (disk.c:374-383).
ListedMounted ==
    Names(mounts) \subseteq kmnt \cup busy \cup Between \cup missed

\* SIGINT, and nothing else, makes that last: for one device, whatever was
\* mounted and unmounted before.
OneMissed == missed # {} => cmd = "restart" /\ \E d \in Dev : missed = {d}

\* The list and the kernel agree as far as the four say, through every mount
\* and umount that fails and every SIGINT between two steps.
TableMatchesKernel ==
    UniqueNames /\ KernelListed /\ ListedMounted /\ OneMissed


\* The search that ends mount_by_id() (disk.c:361) misses only when the ID has
\* a file system type prefix, or when the device was mounted before with other
\* tags than the ones just probed: its medium was changed.
LookupMissesOnlyOnSwap ==
    (pc = "lookup" /\ Listed(mounts, id) = {}) =>
        \/ id.prefix
        \/ \E n \in DOMAIN mounts :
              mounts[n].name = found.name /\ mounts[n].tags # found.tags

\* When the system call that reboots is made, the only file systems still
\* mounted are those whose umount() this very unmount_all() saw fail, and the
\* one SIGINT kept out of the list: the walk over a list that shrinks under it
\* skips no node (disk.c:370-385).
RebootLeavesOnlyRefused == pc = "reboot" => kmnt \subseteq refused \cup missed

\* "Unmount all filesystems" (disk.c:366): none is mounted at the reboot whose
\* umount() was not even tried.
UnmountsAll == pc = "reboot" => kmnt \subseteq refused

\* unmount_all() can hang in list_del() only after two umount() failed.
HangNeedsTwoRefusals ==
    pc = "hang" => \E a, b \in refused : a # b

\* A key that reaches the terminal during the wait ends it (disk.c:332), but
\* for the cases of console_getchar() and console_erase(): an ESC with nothing
\* behind it, or a sequence console_getchar() does not know, leaves the process
\* waiting for another key without polling (console.c:208), and an ESC typed
\* just before the line is erased stops it for good (console.c:85).
KeyEndsWait ==
    ((Polling /\ tty # <<>>) \/ (pc = "key" /\ HasKey)) ~>
        (~Polling /\ (pc = "key" => ~HasKey))

\* A wait without a time limit goes on for ever only if the disk it waits for
\* is missing again and again.
WaitsOnlyForMissing == []<>(~Polling) \/ []<>(Hits(id) = {})

\* "Prepare the system for reboot and call reboot" (misc.c:377): unmount_all()
\* ends, whatever umount() says.
UnmountAllEnds == pc = "umount" ~> pc \in {"reboot", "off"}

-----------------------------------------------------------------------------
Phase ==
    IF ~Running THEN "off"
    ELSE IF cmd = "restart" THEN "restart"
    ELSE IF ShuttingDown THEN "shutdown"
    ELSE "serve"

Service == INSTANCE MountService WITH
    Disks  <- Dev,
    table  <- Names(mounts),
    kernel <- kmnt,
    moving <- Between,
    phase  <- Phase

\* disk.c implements the mount service: seen through the names in its list, it
\* moves one device at a time, the kernel first, and SIGINT may come between.
ServiceSpec == Service!Spec
=============================================================================
