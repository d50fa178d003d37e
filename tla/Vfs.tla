-------------------------------- MODULE Vfs --------------------------------
(***************************************************************************)
(* The paths of kexec-loader (vfs.c): "(device)/a/b", or "/a/b" on the VFS *)
(* root device.  vfs_translate_path() turns one into the path that the     *)
(* kernel is given: the directory of the disk, the jail, and the names,    *)
(* where ".." takes back a name that the same append_path() has put there. *)
(***************************************************************************)
EXTENDS Integers, SequencesExt, FiniteSetsExt

CONSTANTS
    Disk,       \* what mount_by_id() may be given
    LongName,   \* those of 32 characters or more
    Char,       \* the characters of names, "." among them
    Jails,      \* what vfs_set_jail() may be given, and <<>>: no jail
    NoDevice,   \* a path without "("
    NoName,     \* the empty name, as in "()", or a null pointer
    Unclosed    \* a path with "(" and no ")"

Node == Seq(Char)
Dot    == <<".">>
DotDot == <<".", ".">>

\* What stands between "(" and ")", or is given to vfs_set_root().
Device ==
    [prefix : {"", "nojail,"}, name : Disk \cup {NoName, "rootfs", "debug"}]

Path == [dev : Device \cup {NoDevice, Unclosed}, nodes : Seq(Node)]

ASSUME NamesAssumption ==
    /\ LongName \subseteq Disk
    /\ "." \in Char
    /\ Jails \subseteq Seq(Node) /\ <<>> \in Jails
    /\ {NoName, "rootfs", "debug"} \cap Disk = {}
    /\ {NoDevice, Unclosed} \cap Device = {} /\ NoDevice # Unclosed

VARIABLES
    vfs_root,   \* a device
    vfs_jail,   \* its names
    mounted,    \* the disks that mount_by_id() finds
    place,      \* where vfs_translate_path() is
    asked,      \* path_in
    todo,       \* the names that append_path() has yet to look at
    path,       \* the directory of a disk, and names
    path_nodes, \* how many of them ".." may take back
    answer      \* of the last call

call == <<place, asked, todo, path, path_nodes, answer>>
vvars == <<vfs_root, vfs_jail, mounted, call>>

VInit ==
    /\ vfs_root = [prefix |-> "", name |-> NoName]
    /\ vfs_jail = <<>>
    /\ mounted \in SUBSET Disk
    /\ place = "idle"
    /\ asked = [dev |-> NoDevice, nodes |-> <<>>]
    /\ todo = <<>> /\ path = <<>> /\ path_nodes = 0
    /\ answer = "none"

SetRoot(d) ==
    /\ place = "idle"
    /\ vfs_root' = d
    /\ answer' = "none"
    /\ UNCHANGED <<vfs_jail, mounted, place, asked, todo, path, path_nodes>>

SetJail(j) ==
    /\ place = "idle"
    /\ vfs_jail' = j
    /\ answer' = "none"
    /\ UNCHANGED <<vfs_root, mounted, place, asked, todo, path, path_nodes>>

Translate(p) ==
    /\ place = "idle"
    /\ place' = "device" /\ asked' = p
    /\ todo' = <<>> /\ path' = <<>> /\ path_nodes' = 0 /\ answer' = "none"
    /\ UNCHANGED <<vfs_root, vfs_jail, mounted>>

-----------------------------------------------------------------------------
\* The device that "disk" points to.
Used == IF asked.dev = NoDevice THEN vfs_root ELSE asked.dev

\* strncpy() leaves disk_buf without an end when the name does not fit; the
\* name of the VFS root device is not copied.
Cut == asked.dev # NoDevice /\ Used.name \in LongName

Jailed == vfs_jail # <<>> /\ Used.prefix = ""

Return(a) ==
    /\ place' = "idle" /\ answer' = a
    /\ UNCHANGED <<vfs_root, vfs_jail, mounted, asked, todo, path_nodes>>

\* "nojail," in front of an empty name is a name like others at first.
Unnamed == Used.name = NoName /\ Used.prefix = ""

Refuse ==
    /\ place = "device"
    /\ \/ asked.dev = Unclosed /\ Return("EINFILE")
       \/ asked.dev # Unclosed /\ Unnamed /\ Return("ENDISK")
    /\ UNCHANGED path

HasDevice ==
    /\ place = "device"
    /\ asked.dev # Unclosed /\ ~Unnamed

\* "debug": the path as it is.
Raw ==
    /\ HasDevice
    /\ Used.name = "debug"
    /\ path' = asked.nodes
    /\ Return("raw")

\* disk_root(): a name that was cut goes to mount_by_id() as its first 32
\* characters and what follows them on the stack.
Found(d) ==
    /\ HasDevice
    /\ \/ d = "rootfs" /\ d = Used.name
       \/ d \in mounted /\ (d = Used.name \/ Cut)
    /\ place' = IF Jailed THEN "jail" ELSE "path"
    /\ todo' = IF Jailed THEN vfs_jail ELSE asked.nodes
    /\ path' = <<d>>
    /\ UNCHANGED <<vfs_root, vfs_jail, mounted, asked, path_nodes, answer>>

NotFound ==
    /\ HasDevice
    /\ Cut \/ Used.name \in {NoName} \cup (Disk \ mounted)
    /\ Return("missing")
    /\ UNCHANGED path

-----------------------------------------------------------------------------
Appending == place \in {"jail", "path"} /\ todo # <<>>

\* Mutant: the name is put on the path and not counted.
NameUncounted ==
    /\ Appending
    /\ Head(todo) # DotDot
    /\ path' = Append(path, Head(todo))
    /\ todo' = Tail(todo)
    /\ UNCHANGED <<vfs_root, vfs_jail, mounted, place, asked, answer,
                   path_nodes>>

AppendName ==
    /\ Appending
    /\ Head(todo) # DotDot
    /\ path' = Append(path, Head(todo))
    /\ path_nodes' = path_nodes + 1
    /\ todo' = Tail(todo)
    /\ UNCHANGED <<vfs_root, vfs_jail, mounted, place, asked, answer>>

AppendUp ==
    /\ Appending
    /\ Head(todo) = DotDot
    /\ IF path_nodes > 0
         THEN path' = Front(path) /\ path_nodes' = path_nodes - 1
         ELSE UNCHANGED <<path, path_nodes>>
    /\ todo' = Tail(todo)
    /\ UNCHANGED <<vfs_root, vfs_jail, mounted, place, asked, answer>>

\* Mutant: one counter for the jail and the path.
JailEndsCounting ==
    /\ place = "jail" /\ todo = <<>>
    /\ place' = "path"
    /\ todo' = asked.nodes
    /\ UNCHANGED <<vfs_root, vfs_jail, mounted, asked, path, answer,
                   path_nodes>>

\* The second append_path() counts for itself.
JailEnds ==
    /\ place = "jail" /\ todo = <<>>
    /\ place' = "path"
    /\ todo' = asked.nodes
    /\ path_nodes' = 0
    /\ UNCHANGED <<vfs_root, vfs_jail, mounted, asked, path, answer>>

Translated ==
    /\ place = "path" /\ todo = <<>>
    /\ Return("path")
    /\ UNCHANGED path

VStep ==
    \/ Refuse
    \/ Raw
    \/ \E d \in Disk \cup {"rootfs"} : Found(d)
    \/ NotFound
    \/ AppendName
    \/ AppendUp
    \/ JailEnds
    \/ Translated

VNext ==
    \/ \E d \in Device : SetRoot(d)
    \/ \E j \in Jails : SetJail(j)
    \/ \E p \in Path : Translate(p)
    \/ VStep

VSpec == VInit /\ [][VNext]_vvars

-----------------------------------------------------------------------------
(***************************************************************************)
(* Properties.                                                             *)
(***************************************************************************)
VTypeOK ==
    /\ vfs_root \in Device
    /\ vfs_jail \in Jails
    /\ mounted \subseteq Disk
    /\ place \in {"idle", "device", "jail", "path"}
    /\ asked \in Path
    /\ todo \in Seq(Node)
    /\ path \in Seq(Node \cup Disk \cup {"rootfs"})
    /\ path_nodes \in Nat
    /\ answer \in {"none", "EINFILE", "ENDISK", "missing", "raw", "path"}

\* The elements of s whose numbers are in I, in their order.
Picked(s, I) ==
    [n \in 1 .. Cardinality(I) |->
       s[CHOOSE i \in I : Cardinality({j \in I : j <= i}) = n]]

\* What names say when ".." takes back the nearest name before it that has
\* not been taken back: s[i] stays unless some s[i..j] has as many ".." as
\* names.
Stays(s, i) ==
    /\ s[i] # DotDot
    /\ \A j \in i .. Len(s) :
         LET ups == {k \in i .. j : s[k] = DotDot}
         IN  2 * Cardinality(ups) < j - i + 1

Meaning(s) == Picked(s, {i \in DOMAIN s : Stays(s, i)})

\* Once the jail is on the path, no name of the path that was asked for takes
\* it off again, ".." neither; only "nojail," does without it (vfs.c:82).
InJail ==
    ((place = "path" \/ answer = "path") /\ Jailed) =>
        IsPrefix(<<path[1]>> \o Meaning(vfs_jail), path)

WithoutHere(s) == Picked(s, {i \in DOMAIN s : s[i] # Dot})

\* The answer is a path on the disk that was named, and no answer only if that
\* disk is not there; with a name of 32 characters or more in "(" and ")" it is
\* one on some disk (vfs.c:105).
OnItsDisk ==
    /\ answer = "path" =>
         /\ path # <<>> /\ path[1] \in mounted \cup {"rootfs"}
         /\ ~Cut => path[1] = Used.name
    /\ (answer = "missing" /\ ~Cut) => Used.name \notin mounted

\* The answer is the path that was meant: on its disk, below its jail, "." and
\* ".." read as the kernel reads them in a tree without links.  Not so for a
\* disk with too long a name, and for ".." after ".", which takes back the ".":
\* every path with both is left out.
PathMeans ==
    LET dots == {Dot, DotDot} \subseteq Range(asked.nodes)
        jail == IF Jailed THEN Meaning(vfs_jail) ELSE <<>>
        nodes == Meaning(WithoutHere(asked.nodes))
    IN  /\ OnItsDisk
        /\ (answer = "path" /\ ~Cut) =>
              dots \/ WithoutHere(Tail(path)) = WithoutHere(jail) \o nodes
=============================================================================
