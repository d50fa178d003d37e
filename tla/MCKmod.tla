------------------------------- MODULE MCKmod -------------------------------
(***************************************************************************)
(* Three modules for TLC.  "scsi" is needed by "disk" and by "ata", which  *)
(* needs "disk" too.                                                       *)
(***************************************************************************)
EXTENDS Kmod, TLC

CONSTANTS scsi, disk, ata, first, second

MCModule == {scsi, disk, ata}

MCDepends == (scsi :> <<>>) @@ (disk :> <<scsi>>) @@ (ata :> <<scsi, disk>>)

MCArchive == {first, second}

\* Any initramfs; two archives that replace a driver or bring a new one, and
\* have files of the same name; a boot disk with a copy of any of two drivers.
MCRootFiles == Directory

Good(m) == <<m, "good">>
Bad(m) == <<m, "bad">>
Link(m) == <<m, "link">>

Tars(a, b) == (first :> a) @@ (second :> b)

MCTarFiles ==
    {Tars({}, {}),
     Tars({Good(disk), Bad(scsi)}, {Bad(disk), Good(ata)}),
     Tars({Link(disk), Good(ata)}, {Good(disk), Good(scsi)}),
     Tars({Good(disk), Bad(disk)}, {Good(scsi)})}

MCBootFiles == {d \in Directory : d[ata] = "absent"}
=============================================================================
