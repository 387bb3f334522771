---------------------------- MODULE OfflineDevice ----------------------------
(***************************************************************************)
(* A device or image file as mkfs.nilfs2 and nilfs-tune see it: tools that *)
(* write to it directly and must not do so while it is mounted.            *)
(***************************************************************************)
EXTENDS Integers, SequencesExt

VARIABLE
    odev    \* the device, its mounts, and the name it was given by

NoDevice == [kind |-> "none", full |-> TRUE, mount |-> "none"]

\* A block device, or an image file, given by its full name or by another
\* one (relative, or a link); mounted directly, through a loop device, or not.
OdevInit ==
    /\ odev \in [kind : {"blk", "file"}, full : BOOLEAN, mount : {"none", "direct", "loop"}]
    /\ odev.kind = "blk" => odev.mount # "loop" /\ odev.full
    /\ odev.kind = "file" => odev.mount # "direct"

OdevOff == odev = NoDevice

\* check_mount(): by device number; a file behind a loop device by comparing
\* the name of the backing file with the one given.
check_mount ==
    CASE odev.mount = "none"   -> "no"
      [] odev.mount = "direct" -> "yes"
      [] odev.mount = "loop"   -> IF odev.full THEN "yes" ELSE "no"

\* Meanwhile somebody mounts it or unmounts it.
KernelMount ==
    /\ odev.kind # "none" /\ odev.mount = "none"
    /\ odev' = [odev EXCEPT !.mount = IF odev.kind = "blk" THEN "direct" ELSE "loop"]

KernelUmount ==
    /\ odev.mount # "none"
    /\ odev' = [odev EXCEPT !.mount = "none"]
==============================================================================
