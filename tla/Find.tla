-------------------------------- MODULE Find --------------------------------
(***************************************************************************)
(* The commands of the shell that take paths (shell.c): ls and cat give    *)
(* theirs to vfs_translate_path(), find reads a directory and the ones     *)
(* below it, and gives each name to globcmp().                             *)
(***************************************************************************)
EXTENDS Vfs, Glob

CONSTANTS
    Tree        \* [path -> {"dir", "file"}] of a disk: the trees there may be

\* What lies below is in directories, and find_files() leaves out "." and "..".
ASSUME TreeAssumption ==
    \A t \in Tree :
      /\ DOMAIN t \subseteq Seq(Node \ {<<>>, Dot, DotDot})
      /\ \A q \in DOMAIN t : \A n \in 0 .. Len(q) - 1 :
           SubSeq(q, 1, n) \in DOMAIN t /\ t[SubSeq(q, 1, n)] = "dir"

VARIABLES
    tree,       \* of every disk
    at,         \* where the shell is
    goal,       \* the arguments of find
    dirs,       \* the calls of find_files() that have not returned
    printed     \* what it has found

finder == <<at, goal, dirs, printed>>
fvars == <<vvars, gvars, tree, finder>>

FindInit ==
    /\ VInit /\ GlobInit
    /\ tree \in Tree
    /\ at = "prompt"
    /\ goal = [path |-> asked, name |-> <<>>]
    /\ dirs = <<>> /\ printed = {}

\* What the kernel has at a path; names with "." it reads as they are meant.
At(p) == WithoutHere(Tail(p))
IsDir(p) == At(p) \in DOMAIN tree /\ tree[At(p)] = "dir"

Entries(p) ==
    {Last(q) : q \in {r \in DOMAIN tree \ {<<>>} : Front(r) = At(p)}}

Top == Last(dirs)

\* "%s/%s"
Below(p, n) == [p EXCEPT !.nodes = Append(@, n)]

Root(d) ==
    /\ at = "prompt"
    /\ SetRoot(d)
    /\ UNCHANGED <<gvars, tree, finder>>

Jail(j) ==
    /\ at = "prompt"
    /\ SetJail(j)
    /\ UNCHANGED <<gvars, tree, finder>>

\* ls, cat, and everything else that opens a path.
Access(p) ==
    /\ at = "prompt"
    /\ Translate(p)
    /\ at' = "access"
    /\ UNCHANGED <<gvars, tree, goal, dirs, printed>>

Accessed ==
    /\ at = "access" /\ place = "idle"
    /\ at' = "done"
    /\ UNCHANGED <<vvars, gvars, tree, goal, dirs, printed>>

\* cmd_find() on a disk; main() has taken the jail away before the shell.
FindCmd(p, n) ==
    /\ at = "prompt" /\ vfs_jail = <<>>
    /\ Translate(p)
    /\ at' = "open" /\ goal' = [path |-> p, name |-> n]
    /\ UNCHANGED <<gvars, tree, dirs, printed>>

OpenDir ==
    /\ at = "open" /\ place = "idle"
    /\ answer = "path" /\ IsDir(path)
    /\ at' = "read"
    /\ dirs' = Append(dirs, [path |-> asked, left |-> Entries(path)])
    /\ UNCHANGED <<vvars, gvars, tree, goal, printed>>

\* "Cannot open": find_files() returns.
CannotOpen ==
    /\ at = "open" /\ place = "idle"
    /\ ~(answer = "path" /\ IsDir(path))
    /\ at' = IF dirs = <<>> THEN "done" ELSE "read"
    /\ UNCHANGED <<vvars, gvars, tree, goal, dirs, printed>>

\* readdir(), then vfs_stat() of the new path.
ReadDir(n) ==
    /\ at = "read" /\ n \in Top.left
    /\ dirs' = Append(Front(dirs), [Top EXCEPT !.left = @ \ {n}])
    /\ Translate(Below(Top.path, n))
    /\ at' = "stat"
    /\ UNCHANGED <<gvars, tree, goal, printed>>

Exists == answer = "path" /\ At(path) \in DOMAIN tree

Stat ==
    /\ at = "stat" /\ place = "idle"
    /\ Exists
    /\ Compare(Last(asked.nodes), goal.name)
    /\ at' = "match"
    /\ UNCHANGED <<vvars, tree, goal, dirs, printed>>

\* "Cannot stat": the next name.
CannotStat ==
    /\ at = "stat" /\ place = "idle"
    /\ ~Exists
    /\ at' = "read"
    /\ UNCHANGED <<vvars, gvars, tree, goal, dirs, printed>>

\* Mutant: only a directory that matches is read.
MatchedOnlyBelow ==
    /\ at = "match" /\ verdict # "none"
    /\ printed' = IF verdict = "yes" THEN printed \cup {asked} ELSE printed
    /\ IF IsDir(path) /\ verdict = "yes"
         THEN at' = "open" /\ Translate(asked)
         ELSE at' = "read" /\ UNCHANGED vvars
    /\ UNCHANGED <<gvars, tree, goal, dirs>>

\* A directory is read whether or not its name matches.
Matched ==
    /\ at = "match" /\ verdict # "none"
    /\ printed' = IF verdict = "yes" THEN printed \cup {asked} ELSE printed
    /\ IF IsDir(path)
         THEN at' = "open" /\ Translate(asked)
         ELSE at' = "read" /\ UNCHANGED vvars
    /\ UNCHANGED <<gvars, tree, goal, dirs>>

CloseDir ==
    /\ at = "read"
    /\ Top.left = {}
    /\ dirs' = Front(dirs)
    /\ at' = IF dirs' = <<>> THEN "done" ELSE "read"
    /\ UNCHANGED <<vvars, gvars, tree, goal, printed>>

Working ==
    \/ VStep /\ UNCHANGED <<gvars, tree, finder>>
    \/ at = "match" /\ GlobStep /\ UNCHANGED <<vvars, tree, finder>>
    \/ Accessed
    \/ OpenDir
    \/ CannotOpen
    \/ at = "read" /\ \E n \in Top.left : ReadDir(n)
    \/ Stat
    \/ CannotStat
    \/ Matched
    \/ CloseDir

Finished == at = "done" /\ UNCHANGED fvars

FindNext ==
    \/ \E d \in Device : Root(d)
    \/ \E j \in Jails : Jail(j)
    \/ \E p \in Path : Access(p)
    \/ \E d \in Disk, s \in Seq(Node), n \in Seq(DOMAIN Lower) :
         FindCmd([dev |-> [prefix |-> "", name |-> d], nodes |-> s], n)
    \/ Working
    \/ Finished

FindSpec == FindInit /\ [][FindNext]_fvars

-----------------------------------------------------------------------------
(***************************************************************************)
(* Properties.                                                             *)
(***************************************************************************)
\* find prints every path below its directory, at any depth, whose last name
\* matches the pattern, whatever the order of readdir(), and no other, save
\* those whose names globcmp() takes for too much (see GlobMeans); not so for a
\* disk with too long a name (see PathMeans).
FindsAll ==
    LET dir == goal.path.nodes
        below == {q \in DOMAIN tree : IsStrictPrefix(dir, q)}
        Printed(q) == [goal.path EXCEPT !.nodes = q] \in printed
    IN  (at = "done" /\ answer = "path" /\ ~Cut /\ dir \in DOMAIN tree) =>
          \A q \in below :
            /\ Matches(Last(q), goal.name) => Printed(q)
            /\ Printed(q) => Taken(Last(q), goal.name)
=============================================================================
