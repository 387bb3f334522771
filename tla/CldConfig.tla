------------------------------- MODULE CldConfig -------------------------------
(***************************************************************************)
(* sbin/cldconfig.c and nilfs_cleanerd_reconfig(): the configuration file  *)
(* of the cleaner daemon is read, when it starts and on every reload, line *)
(* by line into the configuration in use, which is first set to the        *)
(* defaults.  The file may be replaced or cut short by an editor meanwhile.*)
(***************************************************************************)
EXTENDS Integers, Sequences

CONSTANTS
    CldFiles,       \* contents: sequences of [kw, ok, arg] (ok: can be parsed)
    CldOverride,    \* values of the -p option (ULONG_MAX: not given)
    CldGeom,        \* [nsegments, blocksize, bps] of the file system
    ULL,            \* stands for 2^64: sizes in bytes wrap around
    MaxReloads      \* bound: times the configuration is read again

VARIABLES
    conffile,       \* the file: [there, lines]
    cld             \* the daemon's configuration, and the reloading of it

ULONG_MAX == ULL - 1
NSEGMENTS_PER_CLEAN_MAX == 32
NoConf == [there |-> FALSE, lines |-> <<>>]
CldFile(f) == [there |-> TRUE, lines |-> f]
seg_size == CldGeom.blocksize * CldGeom.bps

\* Keywords (each stands for those handled alike).
TimeKeys == {"protection_period", "cleaning_interval"}
SegsKeys == {"min_clean_segments", "max_clean_segments"}
BlksKeys == {"min_reclaimable_blocks"}
NumKeys  == {"nsegments_per_clean"}
FlagKeys == {"use_set_suinfo"}
NameKeys == {"selection_policy"}
CldKeys == TimeKeys \cup SegsKeys \cup BlksKeys \cup NumKeys \cup FlagKeys \cup NameKeys

-----------------------------------------------------------------------------
\* nilfs_convert_units_to_bytes(): larger units are like these.
unit_bytes == [kB |-> 1000, KiB |-> 1024, MB |-> 1000000, MiB |-> 1048576]
units_to_bytes(p) == (p.num * unit_bytes[p.unit]) % ULL

\* A line whose argument can be parsed has one of the kind its keyword takes.
ASSUME CldAssumption ==
    /\ CldGeom.nsegments \in Nat /\ CldGeom.blocksize \in Nat \ {0} /\ CldGeom.bps \in Nat \ {0}
    /\ ULL \in Nat \ {0} /\ MaxReloads \in Nat
    /\ \A f \in CldFiles :
          /\ f = [i \in 1 .. Len(f) |-> f[i]] /\ Len(f) \in Nat
          /\ \A i \in 1 .. Len(f) : f[i].ok =>
                /\ f[i].kw \in NumKeys => f[i].arg \in Nat
                /\ f[i].kw \in SegsKeys \cup BlksKeys =>
                      f[i].arg.num \in Nat /\ f[i].arg.unit \in {"none", "%"} \cup DOMAIN unit_bytes

\* Mutation of size_to_nsegments: rounded down.
size_to_nsegments_down(p) ==
    CASE p.unit = "none" -> p.num
      [] p.unit = "%"    -> (CldGeom.nsegments * p.num) \div 100
      [] OTHER           -> units_to_bytes(p) \div seg_size

\* nilfs_convert_size_to_nsegments()
size_to_nsegments(p) ==
    CASE p.unit = "none" -> p.num
      [] p.unit = "%"    -> (CldGeom.nsegments * p.num + 99) \div 100
      [] OTHER           -> ((units_to_bytes(p) + seg_size - 1) % ULL) \div seg_size

\* nilfs_convert_size_to_blocks_per_segment()
size_to_blocks(p) ==
    CASE p.unit = "none" -> p.num
      [] p.unit = "%"    -> (CldGeom.bps * p.num + 99) \div 100
      [] OTHER -> ((units_to_bytes(p) % seg_size) + CldGeom.blocksize - 1) \div CldGeom.blocksize

\* nilfs_cldconfig_get_size_argument(): a ratio is at most 100 %.
size_ok(line) == line.ok /\ (line.arg.unit = "%" => line.arg.num <= 100)

\* nilfs_cldconfig_set_default()
cld_default ==
    [protection_period |-> 3600, cleaning_interval |-> 5,
     min_clean_segments |-> size_to_nsegments([num |-> 10, unit |-> "%"]),
     max_clean_segments |-> size_to_nsegments([num |-> 20, unit |-> "%"]),
     min_reclaimable_blocks |-> size_to_blocks([num |-> 10, unit |-> "%"]),
     nsegments_per_clean |-> 2, use_set_suinfo |-> 0, selection_policy |-> "timestamp"]

\* Mutation of cld_reset: a flag is not reset.
cld_reset_sticky(config) == [cld_default EXCEPT !.use_set_suinfo = config.use_set_suinfo]

\* Nothing is kept of the configuration in use.
cld_reset(config) == cld_default

\* Whether a line sets its parameter, and to what.
line_good(line) ==
    CASE line.kw \in SegsKeys \cup BlksKeys -> size_ok(line)
      [] line.kw \in FlagKeys -> TRUE
      [] OTHER -> line.kw \in CldKeys /\ line.ok

line_value(line) ==
    CASE line.kw \in SegsKeys -> size_to_nsegments(line.arg)
      [] line.kw \in BlksKeys -> size_to_blocks(line.arg)
      [] line.kw \in NumKeys  -> IF line.arg > NSEGMENTS_PER_CLEAN_MAX
                                 THEN NSEGMENTS_PER_CLEAN_MAX ELSE line.arg
      [] line.kw \in FlagKeys -> 1
      [] OTHER                -> line.arg

\* Only the handlers of times fail.
line_stops(line) == line.kw \in TimeKeys /\ ~line.ok

\* nilfs_cldconfig_handle_keyword()
handle_keyword(config, line) ==
    IF line_good(line) THEN [config EXCEPT ![line.kw] = line_value(line)] ELSE config

-----------------------------------------------------------------------------
\* What nilfs_cleanerd_config() and nilfs_cleanerd_reconfig() pass on.
Applied(config) ==
    [set_suinfo |-> config.use_set_suinfo, ncleansegs |-> config.nsegments_per_clean,
     cleaning_interval |-> config.cleaning_interval,
     min_reclaimable_blocks |-> config.min_reclaimable_blocks]

\* nilfs_cleanerd_create() has cleared its object, and reads the file first.
NoConfig ==
    [protection_period |-> 0, cleaning_interval |-> 0, min_clean_segments |-> 0,
     max_clean_segments |-> 0, min_reclaimable_blocks |-> 0, nsegments_per_clean |-> 0,
     use_set_suinfo |-> 0, selection_policy |-> "none"]

Conffiles == {NoConf} \cup {CldFile(f) : f \in CldFiles}

CldInit ==
    /\ conffile \in Conffiles
    /\ \E o \in CldOverride :
          cld = [pc |-> "stat", config |-> NoConfig, inuse |-> Applied(NoConfig), override |-> o,
                 pos |-> 1, ret |-> "none", before |-> NoConfig, edited |-> FALSE, reloads |-> 0]

CldOff == conffile = NoConf /\ cld = [pc |-> "off"]

\* nilfs_cldconfig_read(): stat(), the defaults, and fopen(), which may fail.
\* A daemon that is refused its first configuration does not start.
CldStat ==
    /\ cld.pc = "stat"
    /\ cld' = IF ~conffile.there
              THEN [cld EXCEPT !.pc = IF cld.ret = "none" THEN "exit" ELSE "end", !.ret = "refused"]
              ELSE [cld EXCEPT !.pc = "open", !.config = cld_reset(@)]
    /\ UNCHANGED conffile

CldOpen ==
    /\ cld.pc = "open"
    /\ \/ cld' = [cld EXCEPT !.pc = IF ~conffile.there THEN "apply" ELSE "read"]
       \/ cld' = [cld EXCEPT !.pc = "apply", !.edited = TRUE]       \* cannot open
    /\ UNCHANGED conffile

\* nilfs_cldconfig_do_read(): the next line.
CldRead ==
    /\ cld.pc = "read"
    /\ cld' = IF cld.pos > Len(conffile.lines) THEN [cld EXCEPT !.pc = "apply"]
              ELSE LET line == conffile.lines[cld.pos] IN
                   IF line_stops(line) THEN [cld EXCEPT !.pc = "apply"]
                   ELSE [cld EXCEPT !.config = handle_keyword(@, line), !.pos = @ + 1]
    /\ UNCHANGED conffile

\* The rest of nilfs_cleanerd_config() and nilfs_cleanerd_reconfig().
CldApply ==
    LET c == [cld.config EXCEPT !.protection_period = IF cld.override # ULONG_MAX THEN cld.override ELSE @]
    IN
    /\ cld.pc = "apply"
    /\ cld' = [cld EXCEPT !.pc = "end", !.ret = "ok", !.config = c, !.inuse = Applied(c)]
    /\ UNCHANGED conffile

\* A SIGHUP, or the command of nilfs-clean, reads the file again.
CldReload ==
    /\ cld.pc = "end" /\ cld.reloads < MaxReloads
    /\ cld' = [cld EXCEPT !.pc = "stat", !.pos = 1, !.before = cld.config, !.edited = FALSE,
                          !.reloads = @ + 1]
    /\ UNCHANGED conffile

\* An editor: the file disappears, or has another content.
CldEdit ==
    /\ cld.pc \in {"stat", "open", "read"} /\ ~cld.edited
    /\ conffile' \in Conffiles /\ conffile' # conffile
    /\ cld' = [cld EXCEPT !.edited = cld.pc # "stat"]

CldNext == CldStat \/ CldOpen \/ CldRead \/ CldApply \/ CldReload \/ CldEdit

CldSpec == CldInit /\ [][CldNext]_<<conffile, cld>>

-----------------------------------------------------------------------------
\* Line i of file f is reached and sets keyword k.
Sets(f, k, i) ==
    /\ f[i].kw = k /\ line_good(f[i])
    /\ \A j \in 1 .. i : ~line_stops(f[j])

\* Of the first n lines, i is the last one that does; none does.
SetLast(f, k, i, n) == i \in 1 .. n /\ Sets(f, k, i) /\ \A j \in i + 1 .. n : ~Sets(f, k, j)
NeverSet(f, k, n) == \A i \in 1 .. n : ~Sets(f, k, i)

\* Parameter k is as the first n lines of file f have it.
AsWritten(config, k, f, n) ==
    \/ NeverSet(f, k, n) /\ config[k] = cld_default[k]
    \/ \E i \in 1 .. n : SetLast(f, k, i, n) /\ config[k] = line_value(f[i])

\* After a reload every parameter has the value of its last good line, else
\* the default, and never one of the configuration before; the -p option
\* keeps its precedence; what the daemon works with is what it has configured;
\* and a refused reload leaves everything alone.
ReloadResult ==
    cld.pc = "end" =>
        /\ cld.inuse = Applied(cld.config)
        /\ cld.override # ULONG_MAX => cld.config.protection_period = cld.override
        /\ cld.ret = "refused" => cld.config = cld.before
        /\ cld.ret = "ok" /\ ~cld.edited => \A k \in CldKeys :
              k # "protection_period" \/ cld.override = ULONG_MAX =>
                  AsWritten(cld.config, k, conffile.lines, Len(conffile.lines))

\* A size in bytes is covered by so many segments, without one too many.
Covers(segs, bytes) == segs * seg_size >= bytes /\ (segs - 1) * seg_size < bytes

\* In between too, also with a file that is replaced half-way: the number of
\* segments per pass never exceeds the arrays it is used for.  A size given
\* with a unit is covered by the segments it becomes (unless it is larger than
\* a number can be).
ConfigBounded ==
    /\ cld.config.nsegments_per_clean \in 0 .. NSEGMENTS_PER_CLEAN_MAX
    /\ cld.pc = "end" /\ cld.ret = "ok" /\ ~cld.edited =>
          \A k \in SegsKeys, i \in 1 .. Len(conffile.lines) :
             LET p     == conffile.lines[i].arg
                 bytes == p.num * unit_bytes[p.unit]
             IN  /\ SetLast(conffile.lines, k, i, Len(conffile.lines))
                 /\ p.unit \in DOMAIN unit_bytes
                 /\ bytes + seg_size <= ULL
                 => Covers(cld.config[k], bytes)

\* A reload gives the configuration of the file, within the bounds of the code.
ConfigSound == cld.pc # "off" => ReloadResult /\ ConfigBounded
=================================================================================
