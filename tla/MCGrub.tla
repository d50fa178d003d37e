------------------------------- MODULE MCGrub -------------------------------
(***************************************************************************)
(* Files of a few lines for TLC: a disk with device.map and menu.lst, and  *)
(* one with grub.cfg.                                                      *)
(***************************************************************************)
EXTENDS Grub, TLC

CONSTANTS d1, d2, hd0, fd0, p0, title

G(d, p) == [drive |-> d, part |-> p, sub |-> NoPart]

MCGdev == {G(hd0, NoPart), G(hd0, p0), G(fd0, NoPart)}
MCFloppy == {G(fd0, NoPart)}
MCMapLines == {G(hd0, NoPart), Bad}

MCInstall == (d1 :> {"device.map", "menu.lst"}) @@ (d2 :> {"grub.cfg"})

\* "timeout" was not in kexec-loader.conf, so that of GRUB counts.
MCTimeouts == {-1}

M(n, v, k) == [name |-> n, empty |-> FALSE, dev |-> v, num |-> k]
E(n) == [name |-> n, empty |-> TRUE, dev |-> Plain, num |-> 0]

MCCommon == {M("title", Plain, 0), M("root", G(fd0, NoPart), 0),
             M("kernel", Plain, 0)}

MenuLines == MCCommon \cup
    {E("title"), E("root"), M("root", G(hd0, p0), 0), M("kernel", Bad, 0),
     M("module", Plain, 0), M("initrd", Plain, 0), M("default", Plain, 1),
     M("timeout", Plain, 10), M("chainloader", Plain, 1), M("other", Plain, 0)}

C(n) == [name |-> n, open |-> FALSE, empty |-> FALSE, num |-> NoTitle,
         text |-> NoTitle, by |-> "unknown", words |-> <<>>]

MCCfgCommon ==
    {[C("menuentry") EXCEPT !.text = title], C("}"), C("set root"), C("linux")}

CfgLines == MCCfgCommon \cup
    {[C("menuentry") EXCEPT !.open = TRUE],
     [C("set root") EXCEPT !.empty = TRUE],
     [C("set default") EXCEPT !.num = 1],
     [C("set default") EXCEPT !.text = title],
     C("set default"), [C("set timeout") EXCEPT !.num = 5],
     C("chainloader"), C("initrd"), C("other"),
     [C("search") EXCEPT !.words = <<"set", "root", "uuid", "word">>],
     C("search"), [C("search") EXCEPT !.words = <<"set", "word">>]}

RareLines == (MenuLines \ MCCommon) \cup (CfgLines \ MCCfgCommon)

\* TLC computes the three sets once if a cfg names them in this way.
MCMenuLines == MenuLines
MCCfgLines == CfgLines
MCRare == RareLines
=============================================================================
