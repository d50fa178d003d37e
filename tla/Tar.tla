-------------------------------- MODULE Tar --------------------------------
(***************************************************************************)
(* The archives of the boot disk (tar.c), extracted one after another to   *)
(* /modules of the initramfs: each file is written to /tarfile.tmp and     *)
(* gets its name when it is complete.                                      *)
(***************************************************************************)
EXTENDS Integers, Sequences, SequencesExt

CONSTANTS
    Module,     \* the names of modules
    NoModule,   \* the null pointer: every module
    Archive     \* the archives

(***************************************************************************)
(* A directory says of each module whether it holds a file for it, and     *)
(* whether init_module() takes that file; one that cannot be opened or     *)
(* mapped is bad too.  An archive has files and hard links, and may have   *)
(* several headers for the same name.                                      *)
(***************************************************************************)
Directory == [Module -> {"absent", "good", "bad"}]
File == Module \X {"good", "bad"}
Header == Module \X {"good", "bad", "link"}
NoFile == <<NoModule, "absent">>

VARIABLES
    rootfs,     \* /modules of the initramfs
    tars,       \* the headers of each archive
    unread,     \* the archives that readdir() has yet to give
    left,       \* the headers of one that are still to be read
    out         \* the file that is being written to /tarfile.tmp

tarvars == <<rootfs, tars, unread, left, out>>

TarOpen(t) ==
    /\ left = {} /\ out = NoFile
    /\ t \in unread
    /\ unread' = unread \ {t}
    /\ left' = tars[t]
    /\ UNCHANGED <<rootfs, tars, out>>

\* A hard link is skipped, and a file that is there, of the initramfs or of an
\* earlier header, is not extracted again.
TarHeader(h) ==
    /\ out = NoFile
    /\ h \in left
    /\ left' = left \ {h}
    /\ out' = IF h[2] # "link" /\ rootfs[h[1]] = "absent" THEN h ELSE NoFile
    /\ UNCHANGED <<rootfs, tars, unread>>

\* The file is complete, and renamed.
TarRename ==
    /\ out # NoFile
    /\ rootfs' = [rootfs EXCEPT ![out[1]] = out[2]]
    /\ out' = NoFile
    /\ UNCHANGED <<tars, unread, left>>

\* The answer of fclose() is not looked at: what it could not write is missing.
TarCut ==
    /\ out # NoFile
    /\ rootfs' = [rootfs EXCEPT ![out[1]] = "bad"]
    /\ out' = NoFile
    /\ UNCHANGED <<tars, unread, left>>

\* Mutant: files are written under their names.
TarFailCut ==
    /\ left # {} \/ out # NoFile
    /\ left' = {}
    /\ out' = NoFile
    /\ rootfs' = IF out = NoFile THEN rootfs
                 ELSE [rootfs EXCEPT ![out[1]] = "bad"]
    /\ UNCHANGED <<tars, unread>>

\* An archive that cannot be opened, read, checked or written ends there; what
\* it gave before stays, and the next archive is opened.
TarFail ==
    /\ left # {} \/ out # NoFile
    /\ left' = {}
    /\ out' = NoFile
    /\ UNCHANGED <<rootfs, tars, unread>>

TarStep ==
    \/ \E t \in Archive : TarOpen(t)
    \/ \E h \in Header : TarHeader(h)
    \/ TarRename
    \/ TarCut
    \/ TarFail

TarEnds == unread = {} /\ left = {} /\ out = NoFile
=============================================================================
