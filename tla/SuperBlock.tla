------------------------------ MODULE SuperBlock ------------------------------
(***************************************************************************)
(* nilfs-tune and lib/sb.c: the two copies of the super block are read,    *)
(* the fields asked for are edited, both copies are read again, and these  *)
(* fields are replaced in each.  The copies differ in what the kernel      *)
(* writes to one of them at a time (the position of the newest log).       *)
(***************************************************************************)
EXTENDS OfflineDevice

CONSTANTS
    TuneEdits,   \* -O options: sequences of [neg, name]
    MaxCommits   \* super block updates of the kernel during a run

ASSUME TuneAssumption == TuneEdits \subseteq Seq([neg : BOOLEAN, name : STRING])

VARIABLES
    sbs,         \* the two copies on the device
    tune         \* the run of nilfs-tune

Features == {"block_count", "FEATURE_R5", "FEATURE_I3"}
ok_features == {"block_count"}            \* may be set and cleared

NoTune == [pc |-> "off", commits |-> 0]
SbCopy(label, features, cno, magic, sum) ==
    [label |-> label, features |-> features, cno |-> cno, magic |-> magic, sum |-> sum]

\* The copies: one may be missing or unreadable (magic), or damaged (sum),
\* and either may be the newer one.
SbInit ==
    /\ \E f \in {{}, {"FEATURE_R5"}}, n \in {<<1, 2>>, <<2, 1>>},
          m, s \in [1 .. 2 -> BOOLEAN] :
          sbs = [i \in 1 .. 2 |-> SbCopy("a", f, n[i], m[i], s[i])]
    /\ \A i \in 1 .. 2 : ~sbs[i].magic => ~sbs[i].sum
    /\ sbs[1].sum \/ sbs[2].sum
    /\ OdevInit
    \* parse_options()
    /\ \E mask \in SUBSET {"label", "features"}, force \in BOOLEAN, e \in TuneEdits :
        /\ "features" \in mask <=> e # <<>>
        /\ tune = [pc |-> "check", mask |-> mask, force |-> force, fs_features |-> e, word |-> 1,
                   sbp |-> sbs[1], sbps |-> sbs, ret |-> "none", commits |-> 0,
                   \* history
                   first |-> sbs, wrote |-> FALSE, wasmounted |-> FALSE, since |-> 0]

SbOff == sbs = <<>> /\ tune = NoTune

TuneExit(ret) == tune' = [tune EXCEPT !.pc = "exit", !.ret = ret]

-----------------------------------------------------------------------------
\* Mutation of edit_one: what may not be set is only reported.
edit_one_lenient(set, e) ==
    IF e.name = "none" THEN [ret |-> "ok", set |-> {}]
    ELSE IF e.name \notin Features THEN [ret |-> "cannot parse", set |-> set]
    ELSE [ret |-> "ok", set |-> IF e.neg THEN set \ {e.name} ELSE set \cup {e.name}]

\* One word of nilfs_edit_feature(): "none" clears all of them, allowed or not.
edit_one(set, e) ==
    IF e.name = "none" THEN [ret |-> "ok", set |-> {}]
    ELSE IF e.name \notin Features THEN [ret |-> "cannot parse", set |-> set]
    ELSE IF e.name \notin ok_features THEN [ret |-> "not allowed", set |-> set]
    ELSE [ret |-> "ok", set |-> IF e.neg THEN set \ {e.name} ELSE set \cup {e.name}]

\* main(): unless forced, a tool that will write looks for a mount first.
TuneCheck ==
    /\ tune.pc = "check"
    /\ \/ IF ~tune.force /\ tune.mask # {} /\ check_mount = "yes" THEN TuneExit("mounted")
          ELSE tune' = [tune EXCEPT !.pc = "read", !.wasmounted = check_mount = "yes"]
       \/ ~tune.force /\ tune.mask # {} /\ TuneExit("cannot check")
    /\ UNCHANGED <<sbs, odev>>

\* __nilfs_sb_read(): a copy counts if its magic number is right and, for the
\* second, if it lies behind the segments (both in "magic").
sb_read(i) == sbs[i].magic

\* nilfs_sb_read() and the edits of modify_nilfs().
TuneEdit ==
    /\ tune.pc = "read"
    /\ IF ~sb_read(1) /\ ~sb_read(2) THEN TuneExit("cannot open")
       ELSE IF tune.mask = {} THEN TuneExit("ok")
       ELSE LET sbp == IF sb_read(1) THEN sbs[1] ELSE sbs[2]
            IN  tune' = [tune EXCEPT !.pc = IF "features" \in tune.mask THEN "edit" ELSE "reread",
                                     !.sbp = [sbp EXCEPT !.label = IF "label" \in tune.mask THEN "b" ELSE @]]
    /\ UNCHANGED <<sbs, odev>>

\* update_feature_set(): the words of the option one after another.  They
\* change an array of its own, which a failure throws away together with the
\* super block read.
nilfs_edit_feature ==
    /\ tune.pc = "edit"
    /\ IF tune.word > Len(tune.fs_features) THEN tune' = [tune EXCEPT !.pc = "reread"]
       ELSE LET ed == edit_one(tune.sbp.features, tune.fs_features[tune.word])
            IN  IF ed.ret # "ok" THEN TuneExit(ed.ret)
                ELSE tune' = [tune EXCEPT !.word = @ + 1, !.sbp = [@ EXCEPT !.features = ed.set]]
    /\ UNCHANGED <<sbs, odev>>

\* nilfs_sb_write(): the copies are read again,
TuneReread ==
    /\ tune.pc = "reread"
    /\ IF ~sb_read(1) /\ ~sb_read(2) THEN TuneExit("cannot write")
       ELSE tune' = [tune EXCEPT !.pc = "write1", !.sbps = sbs, !.since = tune.commits]
    /\ UNCHANGED <<sbs, odev>>

\* Mutation of masked: the edited copy goes to both places.
masked_all(i) == [tune.sbp EXCEPT !.sum = TRUE]

\* ... the fields of the mask are replaced, the checksum computed,
masked(i) ==
    [tune.sbps[i] EXCEPT !.label = IF "label" \in tune.mask THEN tune.sbp.label ELSE @,
                         !.features = IF "features" \in tune.mask THEN tune.sbp.features ELSE @,
                         !.sum = TRUE]

\* Mutation of write_next: the second copy is left to the kernel.
write_next_first(i) == "exit"

write_next(i) == IF i = 1 THEN "write2" ELSE "exit"

\* ... and each copy that was readable is written.
TuneWrite(i) ==
    /\ tune.pc = IF i = 1 THEN "write1" ELSE "write2"
    /\ \/ /\ sbs' = IF tune.sbps[i].magic THEN [sbs EXCEPT ![i] = masked(i)] ELSE sbs
          /\ tune' = [tune EXCEPT !.pc = write_next(i), !.wrote = @ \/ tune.sbps[i].magic,
                                  !.ret = IF write_next(i) = "exit" THEN "ok" ELSE @]
       \/ tune.sbps[i].magic /\ TuneExit("cannot write") /\ UNCHANGED sbs
    /\ UNCHANGED odev

TuneKilled ==
    /\ tune.pc \notin {"off", "exit"}
    /\ TuneExit("killed")
    /\ UNCHANGED <<sbs, odev>>

\* The kernel, while mounted: one copy gets the position of a newer log.
KernelCommit ==
    /\ odev.mount # "none" /\ tune.pc # "off" /\ tune.commits < MaxCommits
    /\ \E i \in 1 .. 2 :
        /\ sbs[i].magic
        /\ sbs' = [sbs EXCEPT ![i].cno = 3 + tune.commits, ![i].sum = TRUE]
    /\ tune' = [tune EXCEPT !.commits = @ + 1]
    /\ UNCHANGED odev

TuneStep ==
    TuneCheck \/ TuneEdit \/ nilfs_edit_feature \/ TuneReread \/ (\E i \in 1 .. 2 : TuneWrite(i)) \/ TuneKilled

SbNext ==
    TuneStep \/ KernelCommit
    \/ (tune.pc \notin {"off", "exit"} /\ (KernelMount \/ KernelUmount) /\ UNCHANGED <<sbs, tune>>)

SbSpec == SbInit /\ [][SbNext]_<<sbs, tune, odev>>

-----------------------------------------------------------------------------
\* The tool changes the fields it was asked to change and no others: the
\* position of the newest log stays what it was in each copy, although the
\* copies differ.  (Only what the kernel writes between the second reading
\* and the writing is lost: the check for mounts comes before both.)
TuneKeepsLogs ==
    [][\A i \in 1 .. Len(sbs) :
          TuneStep /\ tune.commits = tune.since =>
              /\ sbs'[i].cno = sbs[i].cno /\ sbs'[i].magic = sbs[i].magic
              /\ "label" \notin tune.mask => sbs'[i].label = sbs[i].label
              /\ "features" \notin tune.mask => sbs'[i].features = sbs[i].features]_<<sbs, tune, odev>>

\* Success means that every readable copy has the new values and a good
\* checksum; a refusal, that nothing was written, in particular not to a
\* device found mounted.
TuneAnswer ==
    tune.pc = "exit" =>
        /\ tune.ret = "ok" /\ tune.mask # {} => \A i \in 1 .. 2 : sbs[i].magic =>
              /\ sbs[i].sum
              /\ "label" \in tune.mask => sbs[i].label = "b"
              /\ "features" \in tune.mask => sbs[i].features = tune.sbp.features
        /\ tune.ret \in {"mounted", "cannot check", "cannot open", "cannot parse", "not allowed"} =>
              ~tune.wrote
        /\ tune.wrote /\ tune.wasmounted => tune.force

\* No edit sets or clears a feature the tool does not know how to convert
\* ("none" excepted).
TuneFeaturesAllowed ==
    tune.pc \notin {"off", "check"} /\ ~(\E k \in DOMAIN tune.fs_features : tune.fs_features[k].name = "none") =>
        \A i \in 1 .. 2 : sbs[i].features \ ok_features = tune.first[i].features \ ok_features

\* What nilfs-tune reports is what it has done, and it did nothing it may not.
TuneSound == TuneAnswer /\ TuneFeaturesAllowed
===============================================================================
