------------------------------ MODULE SnapshotGc ------------------------------
(***************************************************************************)
(* One snapshot root on disk, the hosts that boot on it and the collectors *)
(* that look for abandoned roots (boot, cleanup_stale_snapshot_dirs,       *)
(* cleanup_orphaned_snapshot_roots and the staging lock of host.rs).  A    *)
(* collector is the gc command or the boot of a host on another root: the  *)
(* boot of a host skips the root it boots on.                              *)
(*                                                                         *)
(* The lock is an advisory flock on a file beside the root, taken without  *)
(* waiting.  A flock belongs to the inode that was opened, and a collector *)
(* unlinks the file after it has removed the root.                         *)
(***************************************************************************)
EXTENDS Integers, FiniteSets

CONSTANTS
    Host,           \* processes that boot on the root, each with its pid
    Collector,      \* processes that collect
    MaxLockFiles,       \* bound: lock files ever created
    ZeroAge         \* TRUE: the retention time is zero, so every root is old

ASSUME GcAssumption == MaxLockFiles \in Nat \ {0} /\ ZeroAge \in BOOLEAN

Nobody == "nobody"
Inode == 1..MaxLockFiles

VARIABLES
    root,       \* the root: there, older than the retention, staged dirs by pid, journal
    lockFile,   \* the inode behind the lock file's name, or 0
    inodes,     \* lock files created so far
    flock,      \* inode -> the process that holds its lock
    host,       \* boot's progress: [at, inode]
    gc          \* a collector's progress: [at, inode, quiet]

gcVars == <<root, lockFile, inodes, flock, host, gc>>

Gone == [there |-> FALSE, old |-> FALSE, staged |-> {}, journal |-> FALSE]
IdleGc == [at |-> "idle", inode |-> 0, quiet |-> TRUE]

\* lock_pid_is_live; a pid is not used again.
Alive(h) == host[h].at \notin {"off", "dead"}

\* Something happened on the root: what collectors have seen is out of date.
Disturb == gc' = [c \in Collector |-> [gc[c] EXCEPT !.quiet = FALSE]]

Release(p) == [i \in Inode |-> IF flock[i] = p THEN Nobody ELSE flock[i]]

\* open_lock_file creates the file when its name is free.
OpenFile ==
    /\ lockFile # 0 \/ inodes < MaxLockFiles
    /\ inodes' = IF lockFile = 0 THEN inodes + 1 ELSE inodes
    /\ lockFile' = IF lockFile = 0 THEN inodes + 1 ELSE lockFile

------------------------------------------------------------------------------
(* boot *)

\* create_dir_all of the root.
MakeRoot(h) ==
    /\ host[h].at = "off"
    /\ root' = [root EXCEPT !.there = TRUE, !.old = root.there /\ @]
    /\ host' = [host EXCEPT ![h].at = "made"]
    /\ Disturb
    /\ UNCHANGED <<lockFile, inodes, flock>>

\* cleanup_stale_snapshot_dirs: what dead processes have staged here.
CleanupStale(h) ==
    /\ host[h].at = "made"
    /\ LET stale == {s \in root.staged : ~ Alive(s)}
       IN  root' = [root EXCEPT !.staged = @ \ stale, !.old = @ /\ stale = {}]
    /\ host' = [host EXCEPT ![h].at = "clean"]
    /\ Disturb
    /\ UNCHANGED <<lockFile, inodes, flock>>

\* snapshot_staging_lock::hold, in its two system calls; a boot that does
\* not get the lock goes on without it.
OpenLock(h) ==
    /\ host[h].at = "clean"
    /\ OpenFile
    /\ host' = [host EXCEPT ![h] = [at |-> "open", inode |-> lockFile']]
    /\ UNCHANGED <<root, flock, gc>>

TryLock(h) ==
    /\ host[h].at = "open"
    /\ flock' = IF flock[host[h].inode] = Nobody
                THEN [flock EXCEPT ![host[h].inode] = h] ELSE flock
    /\ host' = [host EXCEPT ![h].at = "locked"]
    /\ UNCHANGED <<root, lockFile, inodes, gc>>

\* build_snapshot makes its directory, and the root again if it has gone.
Stage(h) ==
    /\ host[h].at = "locked"
    /\ root' = [root EXCEPT !.there = TRUE, !.old = FALSE, !.staged = @ \cup {h}]
    /\ host' = [host EXCEPT ![h].at = "staging"]
    /\ Disturb
    /\ UNCHANGED <<lockFile, inodes, flock>>

\* The plugins are staged into it and loaded.  A plugin that does not load,
\* and a directory that has gone, fail the boot, which removes its
\* directory.  A boot that succeeds replays the journal, which clears it, or
\* reports that it could not.  Either end drops the lock.
LoadStaged(h) ==
    /\ host[h].at = "staging"
    /\ \/ /\ root' = [root EXCEPT !.staged = @ \ {h}, !.old = @ /\ h \notin root.staged]
          /\ host' = [host EXCEPT ![h].at = "dead"]
       \/ /\ h \in root.staged
          /\ \E kept \in {FALSE, root.journal} :
                root' = [root EXCEPT !.journal = kept, !.old = @ /\ kept = root.journal]
          /\ host' = [host EXCEPT ![h].at = "live"]
    /\ flock' = Release(h)
    /\ Disturb
    /\ UNCHANGED <<lockFile, inodes>>

\* A live host begins an iteration, which journals, or ends one.
WriteJournal(h) ==
    /\ host[h].at = "live"
    /\ root' = [root EXCEPT !.there = TRUE, !.old = FALSE, !.journal = TRUE]
    /\ Disturb
    /\ UNCHANGED <<lockFile, inodes, flock, host>>

ClearJournal(h) ==
    /\ host[h].at = "live" /\ root.journal
    /\ root' = [root EXCEPT !.old = FALSE, !.journal = FALSE]
    /\ Disturb
    /\ UNCHANGED <<lockFile, inodes, flock, host>>

\* The drop of a host removes what it has staged; a killed one leaves it.
Stop(h) ==
    /\ host[h].at = "live"
    /\ root' = [root EXCEPT !.staged = @ \ {h}, !.old = @ /\ h \notin root.staged]
    /\ host' = [host EXCEPT ![h].at = "dead"]
    /\ Disturb
    /\ UNCHANGED <<lockFile, inodes, flock>>

HostDies(h) ==
    /\ Alive(h)
    /\ host' = [host EXCEPT ![h].at = "dead"]
    /\ flock' = Release(h)
    /\ UNCHANGED <<root, lockFile, inodes, gc>>

------------------------------------------------------------------------------
(* cleanup_orphaned_snapshot_roots, for this root *)

\* Mutant: the scan looks for live owners only.
ScanOwnersOnly(c) ==
    /\ gc[c].at = "idle" /\ root.there
    /\ \A h \in root.staged : ~ Alive(h)
    /\ gc' = [gc EXCEPT ![c] = [at |-> "scanned", inode |-> 0, quiet |-> TRUE]]
    /\ UNCHANGED <<root, lockFile, inodes, flock, host>>

\* A root with a live owner or a journal is passed over.
Scan(c) ==
    /\ gc[c].at = "idle" /\ root.there
    /\ \A h \in root.staged : ~ Alive(h)
    /\ ~ root.journal
    /\ gc' = [gc EXCEPT ![c] = [at |-> "scanned", inode |-> 0, quiet |-> TRUE]]
    /\ UNCHANGED <<root, lockFile, inodes, flock, host>>

\* dir_is_older_than; without an mtime the root counts as recent.
CheckAge(c) ==
    /\ gc[c].at = "scanned"
    /\ gc' = IF root.there /\ (ZeroAge \/ root.old)
             THEN [gc EXCEPT ![c].at = "aged"] ELSE [gc EXCEPT ![c] = IdleGc]
    /\ UNCHANGED <<root, lockFile, inodes, flock, host>>

\* try_acquire_for_gc
OpenForGc(c) ==
    /\ gc[c].at = "aged"
    /\ OpenFile
    /\ gc' = [gc EXCEPT ![c].at = "open", ![c].inode = lockFile']
    /\ UNCHANGED <<root, flock, host>>

LockForGc(c) ==
    /\ gc[c].at = "open"
    /\ IF flock[gc[c].inode] = Nobody
       THEN /\ flock' = [flock EXCEPT ![gc[c].inode] = c]
            /\ gc' = [gc EXCEPT ![c].at = "locked"]
       ELSE /\ gc' = [gc EXCEPT ![c] = IdleGc]
            /\ UNCHANGED flock
    /\ UNCHANGED <<root, lockFile, inodes, host>>

\* A dry run only counts; a root that has gone cannot be removed.
Leave(c) ==
    /\ gc[c].at = "locked"
    /\ flock' = Release(c)
    /\ gc' = [gc EXCEPT ![c] = IdleGc]
    /\ UNCHANGED <<root, lockFile, inodes, host>>

RemoveRoot(c) ==
    /\ gc[c].at = "locked" /\ root.there
    /\ root' = Gone
    /\ gc' = [d \in Collector |->
                IF d = c THEN [gc[c] EXCEPT !.at = "removed"] ELSE [gc[d] EXCEPT !.quiet = FALSE]]
    /\ UNCHANGED <<lockFile, inodes, flock, host>>

\* The lock file goes by name, and with the guard the lock.
UnlinkLock(c) ==
    /\ gc[c].at = "removed"
    /\ lockFile' = 0
    /\ flock' = Release(c)
    /\ gc' = [gc EXCEPT ![c] = IdleGc]
    /\ UNCHANGED <<root, inodes, host>>

Ages ==
    /\ root.there /\ ~ root.old
    /\ root' = [root EXCEPT !.old = TRUE]
    /\ UNCHANGED <<lockFile, inodes, flock, host, gc>>

------------------------------------------------------------------------------
GcInit ==
    /\ root = Gone
    /\ lockFile = 0 /\ inodes = 0
    /\ flock = [i \in Inode |-> Nobody]
    /\ host = [h \in Host |-> [at |-> "off", inode |-> 0]]
    /\ gc = [c \in Collector |-> IdleGc]

GcNext ==
    \/ \E h \in Host :
        \/ MakeRoot(h) \/ CleanupStale(h) \/ OpenLock(h) \/ TryLock(h)
        \/ Stage(h) \/ LoadStaged(h)
        \/ WriteJournal(h) \/ ClearJournal(h) \/ Stop(h) \/ HostDies(h)
    \/ \E c \in Collector :
        \/ Scan(c) \/ CheckAge(c) \/ OpenForGc(c) \/ LockForGc(c)
        \/ Leave(c) \/ RemoveRoot(c) \/ UnlinkLock(c)
    \/ Ages

GcSpec == GcInit /\ [][GcNext]_gcVars

------------------------------------------------------------------------------
(* Properties *)

GcTypeOK ==
    /\ root \in [there : BOOLEAN, old : BOOLEAN, staged : SUBSET Host, journal : BOOLEAN]
    /\ lockFile \in 0..MaxLockFiles /\ inodes \in 0..MaxLockFiles
    /\ flock \in [Inode -> Host \cup Collector \cup {Nobody}]
    /\ \A h \in Host : host[h].at \in {"off", "made", "clean", "open", "locked", "staging",
                                       "live", "dead"}
    /\ \A c \in Collector : gc[c].at \in {"idle", "scanned", "aged", "open", "locked", "removed"}

\* A collector whose root nobody has touched since its scan removes neither
\* the directory of a running host nor a journal that a boot would replay:
\* a crash in the window, other collectors and lock files that were
\* unlinked under somebody's hands included.
QuietRootIsOrphan ==
    [][\A c \in Collector :
         (gc[c].at = "locked" /\ gc[c].quiet /\ gc'[c].at = "removed") =>
            /\ ~ root.journal
            /\ \A h \in root.staged : ~ Alive(h)]_gcVars

\* host.rs:8171: with the lock held until the removal has ended, no boot can
\* begin to stage in between.  The directory of a host that has begun to
\* stage is still there.
StagedDirKept == \A h \in Host : host[h].at \in {"staging", "live"} => h \in root.staged
==============================================================================
