-------------------------------- MODULE Grub --------------------------------
(***************************************************************************)
(* grub.c: the search for a GRUB installation, its device.map, and the     *)
(* lines of its menu.lst or grub.cfg.  As in LoadConf, what a setting is   *)
(* set to is kept as the number of the line that set it, 0 before.         *)
(***************************************************************************)
EXTENDS Integers, Sequences, FiniteSets, Keyboard

CONSTANTS
    Disk,       \* the file systems that may come and go
    Install,    \* the files of the GRUB directory on each, if it has one
    NoDisk,     \* none of them
    Gdev,       \* GRUB device names
    Floppy,     \* those among them that are floppy drives
    MapLine, MenuLine, CfgLine,     \* the lines that may be in each file
    NoTitle,    \* no text
    Timeouts,   \* what "timeout" may be after kexec-loader.conf
    MaxLines,   \* bound: lines of device.map and menu.lst or grub.cfg
    Rare,       \* bound: lines of which there are MaxRare ...
    MaxRare     \* ... at most

(***************************************************************************)
(* A device name has a drive, a partition and a BSD partition: NoPart if   *)
(* they are left out, and the partition a number or a letter.              *)
(***************************************************************************)
CONSTANTS Drive, Number, Letter, NoPart

ASSUME GdevAssumption ==
    Gdev \subseteq [drive : Drive, part : Number \cup Letter \cup {NoPart},
                    sub : Number \cup Letter \cup {NoPart}]
ASSUME InstallAssumption ==
    Install \in [Disk -> SUBSET {"device.map", "menu.lst", "grub.cfg"}]
ASSUME NoDiskAssumption == NoDisk \notin Disk
ASSUME BoundsAssumption == {MaxLines, MaxRare} \subseteq Nat

CONSTANTS Plain, Bad    \* no device in front; one that parse_gdev() refuses

(***************************************************************************)
(* Lines.  "val" is what follows the directive; a value has a device or    *)
(* not, a number if read with atoi(), and is a text otherwise.  In         *)
(* grub.cfg, "open" is a quote without an end; "words" are those of        *)
(* `search`: "--set=root" is <<"set", "root">>.                            *)
(***************************************************************************)
CONSTANTS Text          \* titles

MenuName == {"timeout", "default", "title", "root", "kernel", "initrd",
             "module", "chainloader", "other"}
MenuShape ==
    [name : MenuName, empty : BOOLEAN, dev : Gdev \cup {Plain, Bad},
     num : Int]

SearchBy == {"file", "label", "uuid"}
CfgName ==
    {"menuentry", "}", "chainloader", "set root", "set default",
     "set timeout", "set other", "linux", "initrd", "search", "other"}
\* The directives whose values may be in quotes.
Quoted == {"menuentry", "set root", "set default", "set timeout", "set other",
           "linux", "initrd"}
CfgShape ==
    [name : CfgName, open : BOOLEAN, empty : BOOLEAN, num : Int \cup {NoTitle},
     text : Text \cup {NoTitle}, by : SearchBy \cup {"unknown"},
     words : Seq(SearchBy \cup {"set", "root", "word"})]

ASSUME ValuesAssumption == Timeouts \subseteq Int /\ NoTitle \notin Int
ASSUME LinesAssumption ==
    /\ MapLine \subseteq Gdev \cup {Bad}
    /\ MenuLine \subseteq MenuShape
    /\ CfgLine \subseteq CfgShape
    /\ \A l \in CfgLine : /\ l.open => l.name \in Quoted
                          /\ l.name = "set timeout" => l.num \in Int

VARIABLES
    at,         \* where grub_detect() or grub_load() is
    present,    \* the file systems that are there
    left,       \* those grub_detect() has yet to look at
    disk,       \* the one of the installation
    mapLines,   \* lines of device.map read
    devmap,     \* the names in "grub_devmap"
    file,       \* lines of menu.lst or grub.cfg read
    topen,      \* line of the title of the entry being read, or 0
    skip,       \* "tskip", "skip_entry"
    set,        \* its settings
    modules,    \* the lines of its modules
    flag,       \* TARGET_DEFAULT
    tnum,       \* titles so far
    def,        \* the default, by number or by title
    targets,
    timeout,
    reported    \* lines an error message was printed for

search == <<present, left, disk, keyVars>>
block  == <<topen, skip, set, modules, flag>>
gvars  == <<at, search, mapLines, devmap, file, block, tnum, def, targets,
            timeout, reported>>

Setting == {"root", "kernel", "args", "initrd"}

NoSettings == [n \in Setting |-> 0]

NoDefault == [num |-> -1, text |-> NoTitle]

GInit ==
    /\ present \in SUBSET Disk
    /\ \/ at = "search" /\ disk = NoDisk    \* grub-autodetect ...
       \/ at \in {"load", "map"} /\ disk \in Disk  \* ... or grub-path, whose
                                                  \* disk may be in the table
    /\ left = {}
    /\ tty = <<>> /\ getc_buf = <<>>
    /\ mapLines = 0 /\ devmap = {}
    /\ file = <<>>
    /\ topen = 0 /\ skip = FALSE /\ set = NoSettings /\ modules = <<>>
    /\ flag = FALSE
    /\ tnum = 0 /\ def = NoDefault
    /\ targets = <<>>
    /\ timeout \in Timeouts
    /\ reported = {}

-----------------------------------------------------------------------------
(***************************************************************************)
(* grub_detect() and grub_load().                                          *)
(***************************************************************************)
read ==
  <<mapLines, devmap, file, block, tnum, def, targets, timeout, reported>>

\* poll() sees that the terminal has a key.
SearchKey ==
    /\ at = "search" /\ tty # <<>>
    /\ at' = "key"
    /\ UNCHANGED <<search, read>>

\* Mutant: a key does not end the search.
SearchDisksBlind ==
    /\ at = "search"
    /\ left' = present
    /\ at' = "probe"
    /\ UNCHANGED <<present, disk, keyVars, read>>

\* poll() times out, and get_disks() lists what is there.
SearchDisks ==
    /\ at = "search" /\ tty = <<>>
    /\ left' = present
    /\ at' = "probe"
    /\ UNCHANGED <<present, disk, keyVars, read>>

\* The keys still there are of no use from here on: one state stands for all.
Unheard == tty' = <<>> /\ getc_buf' = <<>>

\* vfs_exists() mounts the disk, if it still is there and mount() works; the
\* mount_by_id() of grub_load() then finds it in the table at once.
ProbeFinds(d) ==
    /\ at = "probe" /\ d \in left
    /\ d \in present /\ Install[d] # {}
    /\ left' = left \ {d}
    /\ disk' = d
    /\ at' = "map"
    /\ Unheard
    /\ UNCHANGED <<present, read>>

ProbeMisses(d) ==
    /\ at = "probe" /\ d \in left
    /\ left' = left \ {d}
    /\ UNCHANGED <<at, present, disk, keyVars, read>>

ProbedAll ==
    /\ at = "probe" /\ left = {}
    /\ at' = "search"
    /\ UNCHANGED <<search, read>>

\* mount_by_id(device, -1) finds the disk, and mount() works or fails.
LoadFinds ==
    /\ disk \in present
    /\ at' \in {"map", "done"}
    /\ Unheard
    /\ UNCHANGED <<present, left, disk, read>>

\* A line that says "Waiting" is erased first.
LoadMounts ==
    /\ at = "load" \/ (at = "rescan" /\ ~LoneEscape(tty))
    /\ LoadFinds

\* Or it does not find the disk: it waits ...
LoadWaits ==
    /\ at = "load"
    /\ Erase
    /\ at' = "wait"
    /\ UNCHANGED <<present, left, disk, read>>

\* ... looks again every second ...
LoadAgain ==
    /\ \/ at = "wait" /\ tty = <<>> /\ at' = "rescan"
       \/ at = "rescan" /\ at' = "wait"
    /\ UNCHANGED <<search, read>>

\* ... and gives up when poll() sees a key.
LoadKey ==
    /\ at = "wait" /\ tty # <<>>
    /\ at' = "abort"
    /\ UNCHANGED <<search, read>>

\* console_getchar(), and the line erased if there is one.
TakeKey ==
    /\ \/ /\ at \in {"key", "abort"}
          /\ DropDead
          /\ UNCHANGED at
       \/ /\ at = "key"
          /\ \E k \in Keystroke : GetChar(k)
          /\ at' = "done"
       \/ /\ at = "abort"
          /\ \E k \in Keystroke : GetCharErase(k)
          /\ at' = "done"
    /\ UNCHANGED <<present, left, disk, read>>

\* console_erase() does not return.
EraseHangs ==
    /\ \/ at = "load" /\ LoneEscape(tty)
       \/ at = "rescan" /\ disk \in present /\ LoneEscape(tty)
       \/ at = "abort" /\ HasKey /\ LoneEscape(Remaining.tty)
    /\ at' = "stuck"
    /\ UNCHANGED <<search, read>>

There(f) == disk \in present /\ f \in Install[disk]

\* load_devmap(): a line, good or wrong.
MapEntry(g) ==
    /\ at = "map" /\ There("device.map")
    /\ mapLines < MaxRare
    /\ mapLines' = mapLines + 1
    /\ devmap' = devmap \cup ({g} \ {Bad})
    /\ UNCHANGED <<at, search, file, block, tnum, def, targets, timeout,
                   reported>>

\* Its end, or there is none.
MapEnd ==
    /\ at = "map"
    /\ at' = "find cfg"
    /\ UNCHANGED <<search, read>>

\* Nothing looks at the drives from here on: one state stands for whatever they
\* do.
Forget == present' = {disk} /\ left' = {} /\ UNCHANGED <<disk, keyVars>>

\* grub.cfg comes before menu.lst; with a disk that is gone it is not found.
FindCfg ==
    /\ at = "find cfg"
    /\ IF There("grub.cfg")
         THEN at' = "cfg" /\ Forget
         ELSE at' = "find menu" /\ UNCHANGED search
    /\ UNCHANGED read

FindMenu ==
    /\ at = "find menu"
    /\ at' = IF There("menu.lst") THEN "menu" ELSE "done"
    /\ Forget
    /\ UNCHANGED read

\* Drives come and go, until the file is open: a read that fails later ends it.
Plug ==
    /\ at \in {"search", "probe", "load", "wait", "rescan", "find cfg",
               "find menu"}
    /\ \E d \in Disk :
        present' = IF d \in present THEN present \ {d} ELSE present \cup {d}
    /\ UNCHANGED <<at, left, disk, keyVars, read>>

Type ==
    /\ at \in {"search", "probe", "load", "wait", "rescan", "key", "abort"}
    /\ Press
    /\ UNCHANGED <<at, present, left, disk, read>>

-----------------------------------------------------------------------------
(***************************************************************************)
(* lookup_gdev(): an entry that agrees in what the name has; or the number *)
(* of a partition on a drive that is mapped; or a floppy drive.            *)
(***************************************************************************)
Agrees(e, g) ==
    /\ e.drive = g.drive
    /\ g.part \in {NoPart, e.part}
    /\ g.sub \in {NoPart, e.sub}

Known(g) ==
    \/ \E e \in devmap : Agrees(e, g)
    \/ /\ g.part \in Number /\ g.sub = NoPart
       /\ \E e \in devmap : e.part = NoPart /\ e.drive = g.drive
    \/ g \in Floppy

\* Is v a device lookup_gdev() finds?
IsDevice(v) == v.dev \in Gdev /\ Known(v.dev)

\* GRUB_CONV_PATH takes a path without a device as it is.
IsPath(v) == v.dev = Plain \/ IsDevice(v)

-----------------------------------------------------------------------------
(***************************************************************************)
(* What both files have in common.                                         *)
(***************************************************************************)
\* Mutant: lnum is one ahead.
lnumAhead == Len(file) + 2

lnum == Len(file) + 1

Bounded(l) ==
    /\ mapLines + Len(file) < MaxLines
    /\ l \in Rare =>
         LET rare == {i \in DOMAIN file : file[i] \in Rare}
         IN  mapLines + Cardinality(rare) < MaxRare

NextLine(l, f, n) ==
    /\ at = f
    /\ l.name = n
    /\ Bounded(l)
    /\ file' = Append(file, l)
    /\ UNCHANGED <<at, search, mapLines, devmap>>

Nothing == UNCHANGED <<block, tnum, def, targets, timeout, reported>>

Report ==
    /\ reported' = reported \cup {lnum}
    /\ UNCHANGED <<block, tnum, def, targets, timeout>>

\* Mutant: a skipped entry is added.
AddSkipped ==
    IF topen = 0
      THEN UNCHANGED <<targets, reported>>
    ELSE IF set["root"] = 0 \/ set["kernel"] = 0
      THEN reported' = reported \cup {topen} /\ UNCHANGED targets
      ELSE /\ targets' = Append(targets,
                [title |-> topen, set |-> set, modules |-> modules,
                 default |-> flag])
           /\ UNCHANGED reported

\* GRUB_ADD_TARGET, and the same at the end of an entry of grub.cfg.
Add ==
    IF topen = 0 \/ skip
      THEN UNCHANGED <<targets, reported>>
    ELSE IF set["root"] = 0 \/ set["kernel"] = 0
      THEN reported' = reported \cup {topen} /\ UNCHANGED targets
      ELSE /\ targets' = Append(targets,
                [title |-> topen, set |-> set, modules |-> modules,
                 default |-> flag])
           /\ UNCHANGED reported

-----------------------------------------------------------------------------
(***************************************************************************)
(* load_menu().                                                            *)
(***************************************************************************)
MenuTimeout(l) ==
    /\ NextLine(l, "menu", "timeout")
    /\ IF timeout # -1 THEN Nothing
       ELSE IF l.empty THEN Report
       ELSE /\ timeout' = l.num
            /\ UNCHANGED <<block, tnum, def, targets, reported>>

MenuDefault(l) ==
    /\ NextLine(l, "menu", "default")
    /\ IF l.empty THEN Report
       ELSE /\ def' = [num |-> l.num, text |-> NoTitle]
            /\ UNCHANGED <<block, tnum, targets, timeout, reported>>

MenuTitle(l) ==
    /\ NextLine(l, "menu", "title")
    /\ IF l.empty THEN Report
       ELSE /\ Add
            /\ topen' = lnum /\ skip' = FALSE
            /\ set' = NoSettings /\ modules' = <<>>
            /\ flag' = (tnum = def.num)
            /\ tnum' = tnum + 1
            /\ UNCHANGED <<def, timeout>>

\* GRUB_CHECK_TOPEN and GRUB_CHECK_ARG, and a line number for setting n.
Set(n) == set' = [set EXCEPT ![n] = lnum]

MenuRoot(l) ==
    /\ NextLine(l, "menu", "root")
    /\ IF topen = 0 \/ (~l.empty /\ ~IsDevice(l)) THEN Report
       ELSE /\ IF l.empty THEN skip' = TRUE /\ UNCHANGED set
                          ELSE Set("root") /\ UNCHANGED skip
            /\ UNCHANGED <<topen, modules, flag, tnum, def, targets, timeout,
                           reported>>

\* The command line is set before the device is looked up.
MenuKernel(l) ==
    /\ NextLine(l, "menu", "kernel")
    /\ IF topen = 0 \/ l.empty THEN Report
       ELSE /\ set' = [set EXCEPT !["args"] = lnum,
                                  !["kernel"] = IF IsPath(l) THEN lnum ELSE @]
            /\ reported' = IF IsPath(l) THEN reported ELSE reported \cup {lnum}
            /\ UNCHANGED <<topen, skip, modules, flag, tnum, def, targets,
                           timeout>>

MenuInitrd(l) ==
    /\ NextLine(l, "menu", "initrd")
    /\ IF topen = 0 \/ l.empty \/ ~IsPath(l) THEN Report
       ELSE /\ Set("initrd")
            /\ UNCHANGED <<topen, skip, modules, flag, tnum, def, targets,
                           timeout, reported>>

MenuModule(l) ==
    /\ NextLine(l, "menu", "module")
    /\ IF topen = 0 \/ l.empty \/ ~IsPath(l) THEN Report
       ELSE /\ modules' = Append(modules, lnum)
            /\ UNCHANGED <<topen, skip, set, flag, tnum, def, targets, timeout,
                           reported>>

MenuChainloader(l) ==
    /\ NextLine(l, "menu", "chainloader")
    /\ skip' = TRUE
    /\ UNCHANGED <<topen, set, modules, flag, tnum, def, targets, timeout,
                   reported>>

MenuOther(l) == NextLine(l, "menu", "other") /\ Nothing

\* fgets() fails; the last target is added.
MenuEnd ==
    /\ at = "menu"
    /\ at' = "done"
    /\ Add
    /\ UNCHANGED <<search, mapLines, devmap, file, block, tnum, def, timeout>>

-----------------------------------------------------------------------------
(***************************************************************************)
(* load_grub2_cfg().                                                       *)
(***************************************************************************)
\* grub2_val() finds no closing quote: the rest of the file is not read.
CfgQuote(l) ==
    /\ at = "cfg" /\ l.open
    /\ Bounded(l)
    /\ file' = Append(file, l)
    /\ at' = "done"
    /\ Report
    /\ UNCHANGED <<search, mapLines, devmap>>

CfgLineOf(l, n) == NextLine(l, "cfg", n) /\ ~l.open

\* Mutant: the title is counted before it is compared.
IsDefaultAfter(l) ==
    tnum + 1 = def.num \/ (def.text # NoTitle /\ def.text = l.text)

IsDefault(l) ==
    tnum = def.num \/ (def.text # NoTitle /\ def.text = l.text)

\* Settings that came before the title stay.
CfgEntry(l) ==
    /\ CfgLineOf(l, "menuentry")
    /\ topen' = lnum /\ skip' = FALSE
    /\ flag' = (flag \/ IsDefault(l))
    /\ tnum' = tnum + 1
    /\ UNCHANGED <<set, modules, def, targets, timeout, reported>>

\* Mutant: the settings are not cleared.
CfgCloseKeeps(l) ==
    /\ CfgLineOf(l, "}")
    /\ IF topen = 0 THEN Nothing
       ELSE /\ Add
            /\ topen' = 0 /\ modules' = <<>> /\ flag' = FALSE
            /\ UNCHANGED <<set, skip, tnum, def, timeout>>

\* A brace that closes no entry is passed over.
CfgClose(l) ==
    /\ CfgLineOf(l, "}")
    /\ IF topen = 0 THEN Nothing
       ELSE /\ Add
            /\ topen' = 0 /\ set' = NoSettings /\ modules' = <<>>
            /\ flag' = FALSE
            /\ UNCHANGED <<skip, tnum, def, timeout>>

CfgChainloader(l) ==
    /\ CfgLineOf(l, "chainloader")
    /\ skip' = TRUE
    /\ UNCHANGED <<topen, set, modules, flag, tnum, def, targets, timeout,
                   reported>>

\* An empty value clears settings ns.
CfgSets(l, ns) ==
    /\ set' = [n \in Setting |-> IF n \notin ns THEN set[n]
                                 ELSE IF l.empty THEN 0 ELSE lnum]
    /\ UNCHANGED <<topen, skip, modules, flag, tnum, def, targets, timeout,
                   reported>>

CfgRoot(l) == CfgLineOf(l, "set root") /\ CfgSets(l, {"root"})

CfgLinux(l) == CfgLineOf(l, "linux") /\ CfgSets(l, {"kernel", "args"})

CfgInitrd(l) == CfgLineOf(l, "initrd") /\ CfgSets(l, {"initrd"})

\* By number, by title, or of a submenu ("a>b"), which is not supported.
CfgDefault(l) ==
    /\ CfgLineOf(l, "set default")
    /\ IF l.num # NoTitle
         THEN def' = [num |-> l.num, text |-> NoTitle] /\ UNCHANGED reported
         ELSE /\ def' = [num |-> -1, text |-> l.text]
              /\ reported' = IF l.text = NoTitle THEN reported \cup {lnum}
                                                 ELSE reported
    /\ UNCHANGED <<block, tnum, targets, timeout>>

CfgTimeout(l) ==
    /\ CfgLineOf(l, "set timeout")
    /\ timeout' = IF timeout = -1 THEN l.num ELSE timeout
    /\ UNCHANGED <<block, tnum, def, targets, reported>>

\* Does `search` set the root?  The last word is what it searches for.
SetsRoot(l) ==
    \E i, j \in DOMAIN l.words :
        /\ i < j /\ l.words[i] = "set"
        /\ \/ l.words[j] = "root"
           \/ j = Len(l.words) /\ l.words[j] = "word"

\* What it searches by: the last option, or the name of the command.
By(l) ==
    LET S == {i \in DOMAIN l.words : l.words[i] \in SearchBy}
    IN  IF S = {} THEN l.by
        ELSE l.words[CHOOSE i \in S : \A j \in S : j <= i]

CfgSearch(l) ==
    /\ CfgLineOf(l, "search")
    /\ IF ~SetsRoot(l) THEN Nothing
       ELSE IF By(l) \in {"label", "uuid"} THEN CfgSets(l, {"root"})
       ELSE Report

CfgOther(l) ==
    CfgLineOf(l, l.name) /\ l.name \in {"set other", "other"} /\ Nothing

\* fgets() fails; an entry that is still open is dropped.
CfgEnd ==
    /\ at = "cfg"
    /\ at' = "done"
    /\ UNCHANGED <<search, read>>

-----------------------------------------------------------------------------
Loaded == at \in {"done", "stuck"} /\ UNCHANGED gvars

MenuStep(l) ==
    \/ MenuTimeout(l) \/ MenuDefault(l) \/ MenuTitle(l) \/ MenuRoot(l)
    \/ MenuKernel(l) \/ MenuInitrd(l) \/ MenuModule(l)
    \/ MenuChainloader(l) \/ MenuOther(l)

CfgStep(l) ==
    \/ CfgQuote(l) \/ CfgEntry(l) \/ CfgClose(l) \/ CfgChainloader(l)
    \/ CfgRoot(l) \/ CfgLinux(l) \/ CfgInitrd(l) \/ CfgDefault(l)
    \/ CfgTimeout(l) \/ CfgSearch(l) \/ CfgOther(l)

GProcess ==
    \/ SearchKey \/ SearchDisks
    \/ \E d \in Disk : ProbeFinds(d) \/ ProbeMisses(d)
    \/ ProbedAll
    \/ LoadMounts \/ LoadWaits \/ LoadAgain \/ LoadKey
    \/ TakeKey \/ EraseHangs
    \/ (\E g \in MapLine : MapEntry(g)) \/ MapEnd
    \/ FindCfg \/ FindMenu
    \/ at = "menu" /\ ((\E l \in MenuLine : MenuStep(l)) \/ MenuEnd)
    \/ at = "cfg" /\ ((\E l \in CfgLine : CfgStep(l)) \/ CfgEnd)

GNext == GProcess \/ Plug \/ Type \/ Loaded

GSpec == GInit /\ [][GNext]_gvars

\* The program runs, and a disk that stays is not refused by mount() for ever;
\* drives and keys are not fair.
GFairSpec ==
    GSpec /\ WF_gvars(GProcess) /\ \A d \in Disk : SF_gvars(ProbeFinds(d))
-----------------------------------------------------------------------------
(***************************************************************************)
(* What the lines of a file f mean.                                        *)
(***************************************************************************)
IsCfg(f) == f # <<>> /\ f[1] \in CfgLine

Titles(f) ==
    {i \in DOMAIN f : IF IsCfg(f) THEN f[i].name = "menuentry" /\ ~f[i].open
                                 ELSE f[i].name = "title" /\ ~f[i].empty}

\* The braces of grub.cfg that close an entry.
Closes(f) ==
    {c \in DOMAIN f :
        /\ f[c].name = "}"
        /\ \E t \in Titles(f) :
             t < c /\ \A i \in DOMAIN f : t < i /\ i < c => f[i].name # "}"}

\* The lines that count for title t.  In grub.cfg those above it are among
\* them, from the end of the entry before.
Own(f, t) ==
    IF IsCfg(f)
      THEN {i \in DOMAIN f : \A c \in Closes(f) : c < i <=> c < t}
      ELSE {i \in DOMAIN f : t < i /\ \A u \in Titles(f) : ~(t < u /\ u <= i)}

MenuSets(l, n) ==
    /\ ~l.empty
    /\ \/ n = "args" /\ l.name = "kernel"
       \/ n = "root" /\ l.name = n /\ IsDevice(l)
       \/ n \in {"kernel", "initrd", "module"} /\ l.name = n /\ IsPath(l)

CfgSetsTo(l, n) ==
    /\ ~l.open
    /\ \/ n = "root" /\ l.name = "set root"
       \/ n = "root" /\ l.name = "search" /\ SetsRoot(l)
            /\ By(l) \in {"label", "uuid"}
       \/ n \in {"kernel", "args"} /\ l.name = "linux"
       \/ n = "initrd" /\ l.name = n

Given(f, t, n) ==
    {i \in Own(f, t) : IF IsCfg(f) THEN CfgSetsTo(f[i], n)
                                  ELSE MenuSets(f[i], n)}

Last(S) == CHOOSE i \in S : \A j \in S : j <= i

\* The line setting n has at the end; 0 if there is none or its value is empty.
Value(f, t, n) ==
    LET S == Given(f, t, n)
    IN  IF S = {} THEN 0 ELSE IF f[Last(S)].empty THEN 0 ELSE Last(S)

\* Is the entry of another boot loader, or without a device?
Skipped(f, t) ==
    \E i \in Own(f, t) :
        /\ t < i
        /\ \/ f[i].name = "chainloader"
           \/ f[i].name = "root" /\ f[i].empty

\* Is the entry of title t in the file as a whole?
Ended(f, t) ==
    IsCfg(f) => /\ \E c \in Closes(f) : t < c
                /\ \A u \in Titles(f) \cap Own(f, t) : u <= t

Complete(f, t) == Value(f, t, "root") # 0 /\ Value(f, t, "kernel") # 0

\* Does the last default above title u name it?
Named(f, u) ==
    LET D == {i \in DOMAIN f :
                /\ i < u
                /\ IF IsCfg(f) THEN f[i].name = "set default" /\ ~f[i].open
                               ELSE f[i].name = "default" /\ ~f[i].empty}
        d == f[Last(D)]
    IN  /\ D # {}
        /\ IF d.num # NoTitle
              THEN d.num = Cardinality({t \in Titles(f) : t < u})
              ELSE d.text # NoTitle /\ d.text = f[u].text

\* s holds the numbers of S in the order of the lines.
IsListOf(s, S) ==
    /\ {s[k] : k \in DOMAIN s} = S
    /\ \A j, k \in DOMAIN s : j < k => s[j] < s[k]

-----------------------------------------------------------------------------
(***************************************************************************)
(* Properties.                                                             *)
(***************************************************************************)
LineNo == 0 .. Len(file)

\* Every variable has its type; KeysOK has those of the keyboard.
GTypeOK ==
    /\ at \in {"search", "probe", "load", "wait", "rescan", "key", "abort",
               "map", "find cfg", "find menu", "menu", "cfg", "done", "stuck"}
    /\ present \subseteq Disk /\ left \subseteq Disk
    /\ disk \in Disk \cup {NoDisk}
    /\ at \in {"load", "wait", "rescan", "map", "find cfg", "find menu", "menu",
               "cfg"} =>
         disk # NoDisk
    /\ mapLines \in Nat /\ devmap \subseteq Gdev
    /\ file \in Seq(MenuLine) \cup Seq(CfgLine)
    /\ topen \in LineNo /\ skip \in BOOLEAN /\ flag \in BOOLEAN
    /\ set \in [Setting -> LineNo] /\ modules \in Seq(LineNo)
    /\ tnum \in LineNo
    /\ def.num \in Int /\ def.text \in Text \cup {NoTitle}
    /\ targets \in Seq([title : LineNo, set : [Setting -> LineNo],
                        modules : Seq(LineNo), default : BOOLEAN])
    /\ timeout \in Int
    /\ reported \subseteq LineNo

OwnSettings(k) ==
    \A n \in Setting : targets[k].set[n] = Value(file, targets[k].title, n)

\* A target of menu.lst has the settings and modules of its own title and of no
\* other, whatever lines were refused or skipped in between.
MenuOwnLines ==
    ~IsCfg(file) =>
        \A k \in DOMAIN targets :
            /\ OwnSettings(k)
            /\ IsListOf(targets[k].modules,
                        Given(file, targets[k].title, "module"))

\* A target of grub.cfg has nothing from the entries before it, although one
\* variable serves them all: its lines begin where the last entry ended.
CfgOwnLines ==
    IsCfg(file) => \A k \in DOMAIN targets : OwnSettings(k)

\* The targets are the entries that are complete, and of no other boot loader,
\* each once and in their order, whichever way the end of the file is reached.
OfferedOnce ==
    at = "done" =>
        IsListOf([k \in DOMAIN targets |-> targets[k].title],
                 {t \in Titles(file) : /\ Complete(file, t)
                                       /\ ~Skipped(file, t)
                                       /\ Ended(file, t)})

\* The default counts every title, those that are skipped too, and is that of
\* the last line above; a target is marked only if such a line names it.
DefaultCounted ==
    \A k \in DOMAIN targets :
        targets[k].default <=>
            \E u \in Titles(file) :
                /\ u = targets[k].title
                   \/ (IsCfg(file) /\ u \in Own(file, targets[k].title))
                /\ Named(file, u)

\* A kernel is given the arguments of another kernel's line only after that
\* line was reported.
KernelOwnArgs ==
    \A k \in DOMAIN targets :
        LET s == targets[k].set
        IN  s["args"] = s["kernel"] \/ s["args"] \in reported

\* A target has what its own lines give it, in both kinds of file.  This is what
\* kexec-loader promises, not what GRUB does: to GRUB a `set root=` above the
\* entries is for all of them, here it is for the first (grub.c:429).
OwnLines == MenuOwnLines /\ CfgOwnLines /\ KernelOwnArgs

\* A key that reaches the terminal ends the search, and the wait for the disk of
\* the installation ("Press any key to abort", grub.c:605, disk.c:329), but for
\* an ESC with nothing behind it or a sequence that console_getchar() does not
\* know, which leave it waiting for another key (console.c:208), and for a
\* console_erase() that hangs (console.c:85).
KeyEndsSearch ==
    LET Heeds == {"search", "probe", "wait", "rescan"}
        Takes == {"key", "abort"}
    IN  ((at \in Heeds /\ tty # <<>>) \/ (at \in Takes /\ HasKey)) ~>
            (at \notin Heeds /\ (at \in Takes => ~HasKey))

\* The search ends when an installation is there to stay.
FindsInstall ==
    \A d \in Disk :
        Install[d] # {} => []<>~(at \in {"search", "probe"} /\ d \in present)

SearchEnds == KeyEndsSearch /\ FindsInstall
=============================================================================
