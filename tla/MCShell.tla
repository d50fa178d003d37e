------------------------------ MODULE MCShell ------------------------------
(***************************************************************************)
(* Three parts of the shell for TLC, checked one at a time: how bytes      *)
(* become keys, what the keys do to the line, and what its paths are.      *)
(***************************************************************************)
EXTENDS Find, Console, LineEdit, TLC

CONSTANTS D, L      \* two disks

VARIABLE part

parts == <<part, fvars, cvars, lvars>>

-----------------------------------------------------------------------------
MCCompletion == {<<>>, <<"a">>, <<"a", "a">>}

MCDisk == {D, L}
MCLongName == {L}
MCChar == {"a", "A", "b", "."}
MCLower == [c \in MCChar \cup {"*"} |-> IF c = "A" THEN "a" ELSE c]

\* A directory with one file, and a tree with directories in directories.
FileName == UNION {[1 .. n -> {"a", "b"}] : n \in 1 .. 3} \cup {<<"A">>}
Small == {(<<>> :> "dir") @@ (<<n>> :> "file") : n \in FileName}
Large ==
    LET a == <<"a">>  b == <<"b">>
    IN  (<<>> :> "dir") @@ (<<a>> :> "dir") @@ (<<b>> :> "dir") @@
        (<<a, b>> :> "file") @@ (<<b, a>> :> "dir") @@
        (<<b, a, b>> :> "file") @@ (<<b, b>> :> "file")
MCTree == Small \cup {Large}

\* Patterns of up to four characters.
Patterns == UNION {[1 .. n -> {"a", "b", "*", "?"}] : n \in 1 .. 4}

MCJails == {<<>>, <<<<"b">>>>, <<<<"b">>, <<"a">>>>,
            <<<<"b">>, DotDot, <<"a">>>>, <<DotDot, <<"b">>>>}

Plain(n) == [prefix |-> "", name |-> n]
Devices == {Plain(n) : n \in {D, L, NoName, "rootfs", "debug"}} \cup
           {[prefix |-> "nojail,", name |-> n] : n \in {D, NoName}}
Devs == Devices \cup {NoDevice, Unclosed}
Nodes == UNION {[1 .. n -> {<<"a">>, Dot, DotDot}] : n \in 0 .. 3}

Searches ==
    IF tree = Large
      THEN {<<d, n>> : d \in {<<>>, <<<<"b">>>>, <<<<"a">>, <<"b">>>>},
                       n \in {<<"b">>, <<"*">>, <<"a", "*", "b">>}}
      ELSE {<<<<>>, n>> : n \in Patterns}

PathsNext ==
    \/ /\ tree = Large /\ vfs_root.name = NoName
       /\ \E d \in Devices : Root(d)
    \/ tree = Large /\ \E j \in Jails : Jail(j)
    \/ /\ tree = Large
       /\ \E d \in Devs, n \in Nodes : Access([dev |-> d, nodes |-> n])
    \/ \E d \in {D, L}, s \in Searches :
         /\ mounted = {D} /\ (d = L => s = <<<<<<"b">>>>, <<"b">>>>)
         /\ FindCmd([dev |-> Plain(d), nodes |-> s[1]], s[2])
    \/ Working
    \/ Finished

-----------------------------------------------------------------------------
\* A part that is not checked is in one of its initial states.
MCInit ==
    /\ part \in {"keys", "line", "paths"}
    /\ FindInit /\ CInit /\ LineInit
    /\ tree # Large => mounted = {D}
    /\ part # "paths" => tree = Large /\ mounted = {D}
    /\ part # "line" => prompt = 0

InKeys(A) == part = "keys" /\ A /\ UNCHANGED <<part, fvars, lvars>>

MCNext ==
    \/ part = "keys" /\ CNext /\ UNCHANGED <<part, fvars, lvars>>
    \/ part = "line" /\ LineNext /\ UNCHANGED <<part, fvars, cvars>>
    \/ part = "paths" /\ PathsNext /\ UNCHANGED <<part, cvars, lvars>>

MCSpec ==
    /\ MCInit /\ [][MCNext]_parts
    /\ WF_parts(InKeys(Answer)) /\ WF_parts(InKeys(Process))
=============================================================================
