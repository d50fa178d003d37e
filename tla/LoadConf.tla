------------------------------ MODULE LoadConf ------------------------------
(***************************************************************************)
(* load_conf() (misc.c): the lines of kexec-loader.conf, one after the     *)
(* other.  A line is its directive and the words behind it.  What a        *)
(* setting is set to is kept as the number of the line that set it, 0      *)
(* before: its text is that of the line.                                   *)
(***************************************************************************)
EXTENDS Integers, Sequences, FiniteSets

CONSTANTS
    Line,       \* the lines that may be in the file
    Off,        \* the word "off" ...
    AnyOff,     \* ... in upper or lower case
    AnyOn,      \* the word "on" in upper or lower case
    Path,       \* the words that begin with a device: "(...) ..."
    Gdev,       \* the words that parse_gdev() takes
    Atoi,       \* atoi() of each word
    MaxLines,   \* bound: lines in the file
    MaxOther    \* bound: lines among them that are not of a target

\* The settings of a target: INIT_TARGET clears them all.
Option  == {"root", "kernel", "initrd", "cmdline", "append"}
Flag    == {"default", "reset-vga"}
Setting == Option \cup Flag

Global    == {"timeout", "grub-path", "grub-map", "grub-autodetect"}
Directive == Setting \cup Global \cup {"title", "module", "kmod"}

\* "trail": is there a blank after the last word?
LineShape ==
    [name : Directive \cup {"blank", "unknown"}, words : Seq(DOMAIN Atoi),
     trail : BOOLEAN]

ASSUME LineAssumption == Line \subseteq LineShape
ASSUME AtoiAssumption == Atoi \in [DOMAIN Atoi -> Int]
ASSUME OffAssumption == Off \in AnyOff /\ AnyOff \cap AnyOn = {}
ASSUME LinesAssumption == MaxLines \in Nat /\ MaxOther \in Nat

VARIABLES
    file,       \* the lines read so far
    at,         \* "read", or "done" at the end of the file
    topen,      \* line of the title of the target under construction, or 0
    set,        \* its settings
    modules,    \* the lines of its modules
    targets,
    kmods,      \* the lines of "kmods"
    timeout,
    grub_path,  \* the line it is from
    devmap,     \* the lines of "grub_devmap"
    autodetect, \* grub_autodetect
    reported    \* the lines an error message was printed for

block   == <<topen, set, modules>>
grub    == <<grub_path, devmap, autodetect>>
confVars == <<file, at, block, targets, kmods, timeout, grub, reported>>

NoSettings == [n \in Setting |-> 0]

ConfInit ==
    /\ file = <<>>
    /\ at = "read"
    /\ topen = 0 /\ set = NoSettings /\ modules = <<>>
    /\ targets = <<>>
    /\ kmods = <<>>
    /\ timeout = -1
    /\ grub_path = 0 /\ devmap = <<>> /\ autodetect = 1
    /\ reported = {}

-----------------------------------------------------------------------------
OfTarget == Setting \cup {"title", "module", "kmod"}

Bounded(l) ==
    /\ Len(file) < MaxLines
    /\ l.name \in OfTarget
         \/ Cardinality({i \in DOMAIN file : file[i].name \notin OfTarget})
              < MaxOther

\* fgets() gives a line for directive n.
NextLine(l, n) ==
    /\ at = "read"
    /\ Bounded(l)
    /\ l.name = n
    /\ file' = Append(file, l)
    /\ UNCHANGED at

lnum == Len(file) + 1

\* printD(), and the next line.
Report ==
    /\ reported' = reported \cup {lnum}
    /\ UNCHANGED <<block, targets, kmods, timeout, grub>>

\* CFG_CHECK_ARGS, given the words that are left in the buffer.
HasArgs(words, n) == Len(words) >= n

\* next_value() ends the value it is called on after its first word.
Cut(words) == SubSeq(words, 1, IF words = <<>> THEN 0 ELSE 1)

Blank(l) ==
    /\ NextLine(l, "blank")
    /\ UNCHANGED <<block, targets, kmods, timeout, grub, reported>>

Unknown(l) == NextLine(l, "unknown") /\ Report

\* Only "off" and nothing behind it is off; atoi() makes 0 of any other text.
Limit(l) == IF l.words = <<Off>> /\ ~l.trail THEN -2 ELSE Atoi[Head(l.words)]

Timeout(l) ==
    /\ NextLine(l, "timeout")
    /\ IF ~HasArgs(l.words, 1)
         THEN Report
         ELSE /\ timeout' = Limit(l)
              /\ UNCHANGED <<block, targets, kmods, grub, reported>>

GrubPath(l) ==
    /\ NextLine(l, "grub-path")
    /\ IF ~HasArgs(l.words, 1) \/ Head(l.words) \notin Path
         THEN Report
         ELSE /\ grub_path' = lnum
              /\ UNCHANGED <<block, targets, kmods, timeout, devmap,
                             autodetect, reported>>

\* next_value() is called before CFG_CHECK_ARGS(2).
GrubMap(l) ==
    /\ NextLine(l, "grub-map")
    /\ IF ~HasArgs(Cut(l.words), 2) \/ Head(l.words) \notin Gdev
         THEN Report
         ELSE /\ devmap' = Append(devmap, lnum)
              /\ UNCHANGED <<block, targets, kmods, timeout, grub_path,
                             autodetect, reported>>

GrubAutodetect(l) ==
    /\ NextLine(l, "grub-autodetect")
    /\ IF Len(l.words) # 1 \/ l.trail \/ Head(l.words) \notin AnyOn \cup AnyOff
         THEN Report
         ELSE /\ autodetect' = IF Head(l.words) \in AnyOn THEN 2 ELSE 0
              /\ UNCHANGED <<block, targets, kmods, timeout, grub_path, devmap,
                             reported>>

\* Mutant: a target is put before those that are there.
AddTargetFirst ==
    IF set["root"] = 0 \/ set["kernel"] = 0
      THEN /\ reported' = reported \cup {topen}
           /\ UNCHANGED targets
      ELSE /\ targets' = <<[title |-> topen, set |-> set,
                            modules |-> modules]>> \o targets
           /\ UNCHANGED reported

\* Mutant: a target that is left out is not reported.
AddTargetQuiet ==
    IF set["root"] = 0 \/ set["kernel"] = 0
      THEN UNCHANGED <<targets, reported>>
      ELSE /\ targets' = Append(targets, [title |-> topen, set |-> set,
                                          modules |-> modules])
           /\ UNCHANGED reported

\* CFG_ADD_TARGET: a target that lacks its root or kernel is left out.
AddTarget ==
    IF set["root"] = 0 \/ set["kernel"] = 0
      THEN /\ reported' = reported \cup {topen}
           /\ UNCHANGED targets
      ELSE /\ targets' = Append(targets, [title |-> topen, set |-> set,
                                          modules |-> modules])
           /\ UNCHANGED reported

\* A title without a text leaves the target before it open.
Title(l) ==
    /\ NextLine(l, "title")
    /\ IF ~HasArgs(l.words, 1)
         THEN Report
         ELSE /\ IF topen # 0
                   THEN AddTarget
                   ELSE UNCHANGED <<targets, reported>>
              /\ topen' = lnum /\ set' = NoSettings /\ modules' = <<>>
              /\ UNCHANGED <<kmods, timeout, grub>>

\* Mutant: the first of two lines counts.
SetOptionOnce(l, n) ==
    /\ NextLine(l, n)
    /\ IF topen = 0 \/ (n \in Option /\ ~HasArgs(l.words, 1))
         THEN Report
         ELSE /\ set' = [set EXCEPT ![n] = IF @ = 0 THEN lnum ELSE @]
              /\ UNCHANGED <<topen, modules, targets, kmods, timeout, grub,
                             reported>>

SetOption(l, n) ==
    /\ NextLine(l, n)
    /\ IF topen = 0 \/ (n \in Option /\ ~HasArgs(l.words, 1))
         THEN Report
         ELSE /\ set' = [set EXCEPT ![n] = lnum]
              /\ UNCHANGED <<topen, modules, targets, kmods, timeout, grub,
                             reported>>

Module(l) ==
    /\ NextLine(l, "module")
    /\ IF topen = 0 \/ ~HasArgs(l.words, 1)
         THEN Report
         ELSE /\ modules' = Append(modules, lnum)
              /\ UNCHANGED <<topen, set, targets, kmods, timeout, grub,
                             reported>>

Kmod(l) ==
    /\ NextLine(l, "kmod")
    /\ IF topen = 0 \/ ~HasArgs(l.words, 1)
         THEN Report
         ELSE /\ kmods' = Append(kmods, lnum)
              /\ UNCHANGED <<block, targets, timeout, grub, reported>>

\* fgets() fails; the last target is added.
EndOfFile ==
    /\ at = "read"
    /\ at' = "done"
    /\ IF topen # 0 THEN AddTarget ELSE UNCHANGED <<targets, reported>>
    /\ UNCHANGED <<file, block, kmods, timeout, grub>>

Returned == at = "done" /\ UNCHANGED confVars

ConfNext ==
    \/ \E l \in Line :
        \/ Blank(l) \/ Unknown(l)
        \/ Timeout(l) \/ GrubPath(l) \/ GrubMap(l) \/ GrubAutodetect(l)
        \/ Title(l)
        \/ \E n \in Setting : SetOption(l, n)
        \/ Module(l) \/ Kmod(l)
    \/ EndOfFile
    \/ Returned

ConfSpec == ConfInit /\ [][ConfNext]_confVars

-----------------------------------------------------------------------------
(***************************************************************************)
(* What the lines of a file f mean.                                        *)
(***************************************************************************)
Titles(f) == {i \in DOMAIN f : f[i].name = "title" /\ f[i].words # <<>>}

\* The lines that belong to the title on line t.
BlockOf(f, t) ==
    {i \in DOMAIN f : t < i /\ \A u \in Titles(f) : ~(t < u /\ u <= i)}

\* The lines of that block that set n: a flag needs no argument.
Given(f, t, n) ==
    {i \in BlockOf(f, t) :
        f[i].name = n /\ (n \in Flag \/ f[i].words # <<>>)}

Complete(f, t) == Given(f, t, "root") # {} /\ Given(f, t, "kernel") # {}

IsLast(i, S) == IF S = {} THEN i = 0 ELSE i \in S /\ \A j \in S : j <= i

\* s holds the numbers of S in the order of the lines.
IsListOf(s, S) ==
    /\ {s[k] : k \in DOMAIN s} = S
    /\ \A j, k \in DOMAIN s : j < k => s[j] < s[k]

-----------------------------------------------------------------------------
(***************************************************************************)
(* Properties.                                                             *)
(***************************************************************************)
LineNo == 0 .. Len(file)

\* Every variable has its type; every line number is that of a line.
ConfTypeOK ==
    /\ file \in Seq(Line)
    /\ at \in {"read", "done"}
    /\ topen \in LineNo
    /\ set \in [Setting -> LineNo]
    /\ modules \in Seq(LineNo)
    /\ targets \in Seq([title : LineNo, set : [Setting -> LineNo],
                        modules : Seq(LineNo)])
    /\ kmods \in Seq(LineNo)
    /\ timeout \in Int
    /\ grub_path \in LineNo
    /\ devmap \in Seq(LineNo)
    /\ autodetect \in 0 .. 2
    /\ reported \subseteq LineNo

\* A target has the settings of its own block and of no other, and of two lines
\* for the same setting the later one, whatever lines were rejected in between.
OwnSettings ==
    \A k \in DOMAIN targets : \A n \in Setting :
        IsLast(targets[k].set[n], Given(file, targets[k].title, n))

\* Its modules are those of its own block, in their order: a multiboot kernel
\* counts on it.
OwnModules ==
    \A k \in DOMAIN targets :
        IsListOf(targets[k].modules, Given(file, targets[k].title, "module"))

\* A target is its own block, and nothing else.
OwnLines == OwnSettings /\ OwnModules

\* At the end of the file the targets are the blocks that have a root and a
\* kernel, each once and in their order, which the menu and boot_index= use.
AllTargets ==
    at = "done" =>
        IsListOf([k \in DOMAIN targets |-> targets[k].title],
                 {t \in Titles(file) : Complete(file, t)})

\* The lines whose effect is there when load_conf() returns.
Effective ==
    LET owned(t, i) == \/ i = t.title
                       \/ \E n \in Setting : t.set[n] = i
                       \/ \E k \in DOMAIN t.modules : t.modules[k] = i
        limits(l)   == /\ l.name = "timeout" /\ l.words # <<>>
                       /\ timeout = Limit(l)
        switches(l) == /\ l.name = "grub-autodetect" /\ l.words # <<>>
                       /\ \/ autodetect = 2 /\ Head(l.words) \in AnyOn
                          \/ autodetect = 0 /\ Head(l.words) \in AnyOff
    IN  {i \in DOMAIN file :
           \/ \E k \in DOMAIN targets : owned(targets[k], i)
           \/ \E k \in DOMAIN kmods : kmods[k] = i
           \/ \E k \in DOMAIN devmap : devmap[k] = i
           \/ limits(file[i]) \/ switches(file[i])
           \/ i = grub_path}

\* What may be set again: by a later line that is accepted, of the same block
\* if it is a setting of a target.
SetAgain(i) ==
    \E j \in DOMAIN file :
        /\ i < j /\ file[j].name = file[i].name /\ j \notin reported
        /\ \/ file[i].name \in {"timeout", "grub-path", "grub-autodetect"}
           \/ /\ file[i].name \in Setting
              /\ \E t \in Titles(file) : {i, j} \subseteq BlockOf(file, t)

\* No line is lost without a word: one that has no effect was reported, or
\* sets what is set again, or is a line of a target whose title was reported.
NoSilentLine ==
    at = "done" =>
        \A i \in DOMAIN file :
            \/ file[i].name = "blank"
            \/ i \in Effective \cup reported
            \/ SetAgain(i)
            \/ /\ file[i].name \in Setting \cup {"module"}
               /\ \E t \in Titles(file) \cap reported : i \in BlockOf(file, t)

\* "grub-map <GRUB device> <device>" will "Map a GRUB device name"
\* (README.html:215): so does a line with both arguments and a device name that
\* parse_gdev() takes.
GrubMapMaps ==
    \A i \in DOMAIN file :
        (file[i].name = "grub-map" /\ Len(file[i].words) = 2
         /\ file[i].words[1] \in Gdev) =>
            \E k \in DOMAIN devmap : devmap[k] = i
=============================================================================
