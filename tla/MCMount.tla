------------------------------- MODULE MCMount -------------------------------
\* Mount with the command lines that the helpers tell apart.
EXTENDS Mount

CONSTANTS d1, d2, P

Req(op, d) == [op |-> op, dir |-> d, ro |-> FALSE, remount |-> FALSE,
               bind |-> FALSE, fake |-> FALSE, nogc |-> FALSE, pp |-> NoPeriod,
               rdonly |-> FALSE, lazy |-> FALSE]

\* Of the mounts and remounts of d2 only the ones that are not refused.
MCRequests ==
    {Req("mount", d1), Req("umount", d1), Req("umount", d2),
     [Req("mount", d1) EXCEPT !.pp = P],
     [Req("mount", d1) EXCEPT !.nogc = TRUE],
     [Req("mount", d2) EXCEPT !.ro = TRUE],
     [Req("mount", d1) EXCEPT !.remount = TRUE],
     [Req("mount", d1) EXCEPT !.remount = TRUE, !.fake = TRUE],
     [Req("mount", d1) EXCEPT !.remount = TRUE, !.ro = TRUE],
     [Req("umount", d1) EXCEPT !.rdonly = TRUE],
     [Req("umount", d1) EXCEPT !.lazy = TRUE]}

\* A second read-write mount.
RwRequests == {Req("mount", d) : d \in Dir} \cup {Req("umount", d) : d \in Dir}

==============================================================================
