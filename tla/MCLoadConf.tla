----------------------------- MODULE MCLoadConf -----------------------------
(***************************************************************************)
(* Files of five lines for TLC, from an alphabet in which each directive   *)
(* is both right and wrong, and of seven lines that make targets.          *)
(***************************************************************************)
EXTENDS LoadConf, TLC

CONSTANTS off, OFF, on, hd0, word

MCAtoi == (off :> 0) @@ (OFF :> 0) @@ (on :> 0) @@ (hd0 :> 0) @@ (word :> 10)

L(n, ws) == [name |-> n, words |-> ws, trail |-> FALSE]

\* The directives of targets: their blocks, and what is outside them.
MCTargetLines ==
    {L(n, <<>>) : n \in {"title", "root", "default"}} \cup
    {L(n, <<word>>) : n \in {"title", "root", "kernel", "module", "kmod"}}

\* Those that make targets, for files long enough for two.
MCOrderLines ==
    {L("title", <<>>), L("root", <<>>)} \cup
    {L(n, <<word>>) : n \in {"title", "root", "kernel"}}

\* The other lines.
MCOtherLines ==
    {L("blank", <<>>), L("unknown", <<>>),
     L("timeout", <<>>), L("timeout", <<off>>), L("timeout", <<word>>),
     [name |-> "timeout", words |-> <<off>>, trail |-> TRUE],
     L("grub-path", <<hd0>>), L("grub-path", <<word>>),
     L("grub-autodetect", <<on>>), L("grub-autodetect", <<OFF>>),
     L("grub-autodetect", <<word>>),
     L("grub-map", <<hd0>>), L("grub-map", <<hd0, word>>)}

MCLines == MCTargetLines \cup MCOtherLines

\* A file of more than MCShort lines has only those that make targets.
MCShort == 5

MakesTargets == file \in Seq(MCOrderLines)

MCNext ==
    \/ Len(file) < MCShort /\ ConfNext
    \/ Len(file) >= MCShort /\ MakesTargets /\ ConfNext /\ MakesTargets'
    \/ EndOfFile
    \/ Returned

MCSpec == ConfInit /\ [][MCNext]_confVars
=============================================================================
