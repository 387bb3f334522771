----------------------------- MODULE MCMountMtab -----------------------------
\* MountMtab: one helper after another works on the read-write mount of the
\* device, while another attaches and detaches a snapshot.
EXTENDS MountMtab

CONSTANTS h1, h2, d1, d2

Req(op, d) == [op |-> op, dir |-> d, ro |-> FALSE, remount |-> FALSE,
               nogc |-> FALSE, pp |-> NoPeriod, rdonly |-> FALSE]

MCRequests ==
    [h \in Helper |->
        IF h = h1
        THEN {Req("mount", d1), Req("umount", d1),
              [Req("mount", d1) EXCEPT !.remount = TRUE],
              [Req("umount", d1) EXCEPT !.rdonly = TRUE]}
        ELSE {[Req("mount", d2) EXCEPT !.ro = TRUE], Req("umount", d2)}]

==============================================================================
