--------------------------- MODULE ArtifactBuild ---------------------------
(***************************************************************************)
(* The artifact directory that several processes share: `prepare_artifacts`*)
(* and `rebuild_plugin_workspace` under the build lock file, the operations*)
(* that write the same files without it (`build_plugins` of the agent,     *)
(* `refresh_artifact_index`), and `create_plugin` with the lock of the     *)
(* workspace manifest.                                                     *)
(*                                                                         *)
(* A source, a built library and a hash are the version of the content     *)
(* they come from; a plugin has two contents, so an edit can be undone.    *)
(* The probe (sizes and times of the inputs) is a stamp that every write   *)
(* to an input renews.  A crashed process never comes back: another member *)
(* of Proc is the restarted one.                                           *)
(***************************************************************************)
EXTENDS Naturals, FiniteSets

CONSTANTS
    Proc,        \* processes (one operation each)
    Crates,      \* plugins whose directory may exist
    Shipped,     \* the plugins in the workspace from the start
    MaxEdits,    \* bound: source edits
    MaxCrashes,  \* bound: processes killed
    Nil

ASSUME BuildAssumption ==
    /\ Shipped \subseteq Crates /\ Shipped # {}
    /\ Nil \notin Proc \cup [by : Proc, text : BOOLEAN]
    /\ MaxEdits \in Nat /\ MaxCrashes \in Nat

Content == {0, 1}

VARIABLES
    src, stamp,    \* inputs of each plugin: content and probe
    target,        \* what cargo last built
    artifact,      \* artifacts/<plugin>.so, None when missing
    buildIndex,         \* artifacts/index.json: None or an entry per plugin
    lock,          \* .artifacts-build.lock: None or [by, text]
    members,       \* workspace.members of plugins/Cargo.toml
    whole,         \* plugins whose scaffold passes validate_scaffold
    dirs,          \* plugin directories
    mlock,         \* holder of the flock on Cargo.toml.create-lock
    proc,          \* the control state and locals of each process
    edits, crashes,
    stolen,        \* ghost: a reclaim removed another lock than it inspected
    odd,           \* ghost: artifacts staged without their fingerprint in index
    unhashed       \* ghost: artifacts staged without their hash in index

files == <<src, stamp, target, artifact, buildIndex>>
tree == <<members, whole, dirs, mlock>>
ghosts == <<edits, crashes, stolen, odd, unhashed>>
buildVars == <<files, lock, tree, proc, ghosts>>

Entry == [sha : Content \cup {Nil}, fp : Content, probe : Nat]
IdleProc == [pc |-> "idle", op |-> "none", arg |-> Nil, saw |-> Nil,
         plan |-> {}, dirty |-> {}, todo |-> {}, fp |-> Nil, probe |-> Nil, idx |-> Nil]

BuildInit ==
    /\ src = [p \in Crates |-> 0] /\ stamp = [p \in Crates |-> 0]
    /\ target = [p \in Crates |-> 0]
    /\ artifact = [p \in Crates |-> IF p \in Shipped THEN 0 ELSE Nil]
    /\ buildIndex \in {Nil, [p \in Shipped |-> [sha |-> 0, fp |-> 0, probe |-> 0]]}
    /\ lock = Nil /\ members = Shipped /\ whole = Shipped /\ dirs = Shipped /\ mlock = Nil
    /\ proc = [i \in Proc |-> IdleProc]
    /\ edits = 0 /\ crashes = 0 /\ stolen = FALSE /\ odd = {} /\ unhashed = {}

ProcAt(i, pc) == proc[i].pc = pc
Goto(i, pc) == proc' = [proc EXCEPT ![i] =
    IF pc \in {"idle", "drop", "dead"} THEN [IdleProc EXCEPT !.op = "done", !.pc = pc]
    ELSE [@ EXCEPT !.pc = pc]]
Dead(i) == ProcAt(i, "dead")

\* Between a successful acquire and the drop of the guard.
Locked == {"probe", "fingerprint", "build", "stage", "write", "drop"}
Holders == {i \in Proc : proc[i].pc \in Locked}

-----------------------------------------------------------------------------
(* Callers.                                                                *)

\* A developer or an agent writes a source file of p; the other content may
\* be the one that was there before.
Edit(p) ==
    /\ edits < MaxEdits /\ p \in dirs
    /\ src' = [src EXCEPT ![p] = 1 - @]
    /\ stamp' = [stamp EXCEPT ![p] = @ + 1]
    /\ edits' = edits + 1
    /\ odd' = odd \cup {p : i \in {j \in Holders : p \in proc[j].dirty
                                        /\ proc[j].pc \in {"fingerprint", "build"}}}
    /\ UNCHANGED <<target, artifact, buildIndex, lock, tree, proc, crashes, stolen, unhashed>>

Start(i, op, p) ==
    /\ proc[i] = IdleProc
    /\ \/ op \in {"prepare", "full"} /\ p = Nil
       \/ op \in {"rebuild", "agent"} /\ p \in members
       \/ op = "refresh" /\ p = Nil /\ buildIndex # Nil
       \/ op = "create" /\ p \in Crates \ Shipped
    /\ proc' = [proc EXCEPT ![i] = [IdleProc EXCEPT
          !.op = op, !.arg = p,
          !.pc = CASE op \in {"prepare", "full", "rebuild"} -> "acquire"
                   [] op = "agent" -> "cargo" [] op = "refresh" -> "hash"
                   [] op = "create" -> "mkdir"]]
    /\ UNCHANGED <<files, lock, tree, ghosts>>

\* An error return before the lock is held.
Fail(i) == Goto(i, "idle") /\ UNCHANGED <<files, lock, tree, ghosts>>

-----------------------------------------------------------------------------
(* ArtifactBuildLock.                                                      *)

\* create_new succeeds: the file exists and is empty until the pid is in it.
CreateLock(i) ==
    /\ ProcAt(i, "acquire") /\ lock = Nil
    /\ lock' = [by |-> i, text |-> FALSE]
    /\ Goto(i, "sign")
    /\ UNCHANGED <<files, tree, ghosts>>

\* The pid goes to the file this process created, linked or not.
SignLock(i) ==
    /\ ProcAt(i, "sign")
    /\ lock' = IF lock # Nil /\ lock.by = i THEN [lock EXCEPT !.text = TRUE] ELSE lock
    /\ Goto(i, IF proc[i].op = "rebuild" THEN "build" ELSE "probe")
    /\ UNCHANGED <<files, tree, ghosts>>

\* write_all, flush or sync_all fails: the empty file stays.
SignFails(i) == ProcAt(i, "sign") /\ Fail(i)

\* maybe_remove_stale_lock, the reading half: a pid that is dead, or no pid
\* and older than the legacy window (nobody is still about to sign it).
Stale(l) == IF l.text THEN Dead(l.by) ELSE ~ ProcAt(l.by, "sign")
InspectLock(i) ==
    /\ ProcAt(i, "acquire") /\ lock # Nil /\ Stale(lock)
    /\ proc' = [proc EXCEPT ![i].pc = "reclaim", ![i].saw = lock.by]
    /\ UNCHANGED <<files, lock, tree, ghosts>>

\* ... and the removing half: whatever file has the name by then.
ReclaimLock(i) ==
    /\ ProcAt(i, "reclaim")
    /\ lock' = Nil
    /\ stolen' = (stolen \/ (lock # Nil /\ lock.by # proc[i].saw))
    /\ proc' = [proc EXCEPT ![i].pc = "acquire", ![i].saw = Nil]
    /\ UNCHANGED <<files, tree, edits, crashes, odd, unhashed>>

\* ArtifactBuildLockTimeout after LOCK_WAIT_TIMEOUT.
LockTimeout(i) == ProcAt(i, "acquire") /\ lock # Nil /\ ~ Stale(lock) /\ Fail(i)

\* Drop removes the file only if it still records this pid.
DropOwnLock(i) == IF lock # Nil /\ lock.text /\ lock.by = i THEN Nil ELSE lock
DropLock(i) ==
    /\ ProcAt(i, "drop")
    /\ lock' = DropOwnLock(i)
    /\ Goto(i, "idle")
    /\ UNCHANGED <<files, tree, ghosts>>

-----------------------------------------------------------------------------
(* prepare_artifacts_locked.                                               *)

\* PackageResolver::resolve refuses the workspace when one scaffold is missing.
Resolves == members \subseteq whole

\* The graph, the index and the probes; a full rebuild empties artifacts/.
Probe(i) ==
    LET full == proc[i].op = "full" \/ buildIndex = Nil
    IN /\ ProcAt(i, "probe")
       /\ IF Resolves
          THEN /\ proc' = [proc EXCEPT ![i].pc = "fingerprint", ![i].plan = members,
                              ![i].probe = stamp, ![i].idx = IF full THEN Nil ELSE buildIndex]
               /\ artifact' = IF full THEN [p \in Crates |-> Nil] ELSE artifact
               /\ buildIndex' = IF full THEN Nil ELSE buildIndex
          ELSE Goto(i, "drop") /\ UNCHANGED <<artifact, buildIndex>>
       /\ UNCHANGED <<src, stamp, target, lock, tree, ghosts>>

\* compute_dirty_state: no entry, no artifact, or other inputs than recorded.
DirtyState(i, p) ==
    LET idx == proc[i].idx
    IN \/ idx = Nil \/ artifact[p] = Nil
       \/ p \notin DOMAIN idx
       \/ idx[p].probe # proc[i].probe[p] /\ idx[p].fp # src[p]

Fingerprint(i) ==
    /\ ProcAt(i, "fingerprint")
    /\ proc' = [proc EXCEPT ![i].pc = "build",
                   ![i].dirty = {p \in proc[i].plan : DirtyState(i, p)},
                   ![i].todo = {p \in proc[i].plan : DirtyState(i, p)},
                   ![i].fp = src]
    /\ UNCHANGED <<files, lock, tree, ghosts>>

\* One cargo build of the dirty packages (of the one package for a rebuild).
Build(i) ==
    LET built == IF proc[i].op = "rebuild" THEN {proc[i].arg} ELSE proc[i].dirty
    IN /\ ProcAt(i, "build")
       /\ target' = [p \in Crates |-> IF p \in built THEN src[p] ELSE target[p]]
       /\ proc' = [proc EXCEPT ![i].pc = "stage", ![i].todo = built]
       /\ UNCHANGED <<src, stamp, artifact, buildIndex, lock, tree, ghosts>>
BuildFails(i) ==
    /\ ProcAt(i, "build") /\ (proc[i].op = "rebuild" \/ proc[i].dirty # {})
    /\ Goto(i, "drop") /\ UNCHANGED <<files, lock, tree, ghosts>>

\* stage_then_rename_file and, in a prepare, the docs written back beside the
\* sources; the contract check that follows may fail with the library in place.
StageArtifact(i, p, ok) ==
    /\ ProcAt(i, "stage") /\ p \in proc[i].todo
    /\ artifact' = [artifact EXCEPT ![p] = target[p]]
    /\ stamp' = IF ok /\ proc[i].op # "rebuild" THEN [stamp EXCEPT ![p] = @ + 1] ELSE stamp
    /\ odd' = odd \cup {p} /\ unhashed' = unhashed \cup {p}
    /\ IF ok THEN proc' = [proc EXCEPT ![i].todo = @ \ {p}] ELSE Goto(i, "drop")
    /\ UNCHANGED <<src, target, buildIndex, lock, tree, edits, crashes, stolen>>

\* Mutant: the probe is taken when the entry is written.
LateProbeEntry(i, p) ==
    IF p \in proc[i].dirty
    THEN [sha |-> artifact[p], fp |-> proc[i].fp[p], probe |-> stamp[p]]
    ELSE [proc[i].idx[p] EXCEPT !.probe = proc[i].probe[p]]
\* The entry of a rebuilt plugin records the artifact's hash, the fingerprint
\* taken before the build and the probe taken before that; a reused entry
\* only renews its probe.
NextEntry(i, p) ==
    IF p \in proc[i].dirty
    THEN [sha |-> artifact[p], fp |-> proc[i].fp[p], probe |-> proc[i].probe[p]]
    ELSE [proc[i].idx[p] EXCEPT !.probe = proc[i].probe[p]]
WriteIndex(i) ==
    /\ ProcAt(i, "stage") /\ proc[i].todo = {} /\ proc[i].op # "rebuild"
    /\ buildIndex' = [p \in proc[i].plan |-> NextEntry(i, p)]
    /\ odd' = odd \ {p \in proc[i].dirty : artifact[p] = proc[i].fp[p]}
    /\ unhashed' = unhashed \ proc[i].dirty
    /\ Goto(i, "drop")
    /\ UNCHANGED <<src, stamp, target, artifact, lock, tree, edits, crashes, stolen>>

\* refresh_artifact_hash_for_plugin: the hash of one entry, nothing else.
\* Without an index or an entry there is nothing to refresh.
RefreshOne(p) ==
    IF buildIndex # Nil /\ p \in DOMAIN buildIndex THEN [buildIndex EXCEPT ![p].sha = artifact[p]] ELSE buildIndex
RefreshHash(i) ==
    /\ ProcAt(i, "stage") /\ proc[i].todo = {} /\ proc[i].op = "rebuild"
    /\ buildIndex' = RefreshOne(proc[i].arg)
    /\ unhashed' = unhashed \ {proc[i].arg}
    /\ Goto(i, "drop")
    /\ UNCHANGED <<src, stamp, target, artifact, lock, tree, edits, crashes, stolen, odd>>

-----------------------------------------------------------------------------
(* Operations that do not take the build lock.                             *)

\* agent_build_plugins: cargo, then copy and rename over artifacts/<p>.so.
AgentCargo(i) ==
    /\ ProcAt(i, "cargo")
    /\ target' = [target EXCEPT ![proc[i].arg] = src[proc[i].arg]]
    /\ Goto(i, "sync")
    /\ UNCHANGED <<src, stamp, artifact, buildIndex, lock, tree, ghosts>>
AgentSync(i) ==
    /\ ProcAt(i, "sync")
    /\ artifact' = [artifact EXCEPT ![proc[i].arg] = target[proc[i].arg]]
    /\ odd' = odd \cup {proc[i].arg} /\ unhashed' = unhashed \cup {proc[i].arg}
    /\ Goto(i, "idle")
    /\ UNCHANGED <<src, stamp, target, buildIndex, lock, tree, edits, crashes, stolen>>

\* refresh_artifact_index: read the index, hash every artifact, write it back;
\* a missing artifact is an error.
RefreshRead(i) ==
    /\ ProcAt(i, "hash")
    /\ IF buildIndex = Nil \/ \E p \in DOMAIN buildIndex : artifact[p] = Nil
       THEN Goto(i, "idle")
       ELSE proc' = [proc EXCEPT ![i].pc = "rewrite",
                ![i].idx = [p \in DOMAIN buildIndex |-> [buildIndex[p] EXCEPT !.sha = artifact[p]]]]
    /\ UNCHANGED <<files, lock, tree, ghosts>>
RefreshWrite(i) ==
    /\ ProcAt(i, "rewrite")
    /\ buildIndex' = proc[i].idx
    /\ LET clobbered == {p \in DOMAIN buildIndex' : \/ buildIndex = Nil \/ p \notin DOMAIN buildIndex
                                               \/ buildIndex'[p] # [buildIndex[p] EXCEPT !.sha = artifact[p]]}
       IN odd' = odd \cup clobbered /\ unhashed' = unhashed \cup clobbered
    /\ Goto(i, "idle")
    /\ UNCHANGED <<src, stamp, target, artifact, lock, tree, edits, crashes, stolen>>

-----------------------------------------------------------------------------
(* create_plugin.                                                          *)

\* The skeleton: Cargo.toml and src/lib.rs, neither tests nor docs.
MakeDir(i) ==
    /\ ProcAt(i, "mkdir")
    /\ IF proc[i].arg \in dirs THEN Goto(i, "idle") /\ UNCHANGED dirs
       ELSE Goto(i, "flock") /\ dirs' = dirs \cup {proc[i].arg}
    /\ UNCHANGED <<files, lock, members, whole, mlock, ghosts>>
\* Mutant: the read-modify-write runs without the flock.
ManifestUnlocked(i) == TRUE
FreeManifest(i) == mlock = Nil
LockManifest(i) ==
    /\ ProcAt(i, "flock") /\ FreeManifest(i)
    /\ mlock' = i /\ proc' = [proc EXCEPT ![i].pc = "member", ![i].plan = members]
    /\ UNCHANGED <<files, lock, members, whole, dirs, ghosts>>
AddMember(i) ==
    /\ ProcAt(i, "member")
    /\ members' = proc[i].plan \cup {proc[i].arg}
    /\ mlock' = Nil /\ Goto(i, "idle")
    /\ UNCHANGED <<files, lock, whole, dirs, ghosts>>

\* External: an iteration or a developer adds the missing docs and tests.
Complete(p) ==
    /\ p \in dirs \ whole
    /\ whole' = whole \cup {p}
    /\ UNCHANGED <<files, lock, members, dirs, mlock, proc, ghosts>>

-----------------------------------------------------------------------------
\* A killed process leaves its files; the kernel releases its flock.
Killed(i) ==
    /\ crashes < MaxCrashes /\ proc[i].pc \notin {"idle", "dead"}
    /\ crashes' = crashes + 1
    /\ Goto(i, "dead")
    /\ mlock' = IF mlock = i THEN Nil ELSE mlock
    /\ UNCHANGED <<files, lock, members, whole, dirs, edits, stolen, odd, unhashed>>

Step(i) ==
    \/ CreateLock(i) \/ SignLock(i) \/ SignFails(i) \/ InspectLock(i) \/ ReclaimLock(i)
    \/ LockTimeout(i) \/ DropLock(i)
    \/ Probe(i) \/ Fingerprint(i) \/ Build(i) \/ BuildFails(i) \/ WriteIndex(i) \/ RefreshHash(i)
    \/ \E p \in Crates, ok \in BOOLEAN : StageArtifact(i, p, ok)
    \/ AgentCargo(i) \/ AgentSync(i) \/ RefreshRead(i) \/ RefreshWrite(i)
    \/ MakeDir(i) \/ LockManifest(i) \/ AddMember(i)

BuildNext ==
    \/ \E p \in Crates : Edit(p) \/ Complete(p)
    \/ \E i \in Proc, op \in {"prepare", "full", "rebuild", "agent", "refresh", "create"},
          p \in Crates \cup {Nil} : Start(i, op, p)
    \/ \E i \in Proc : Step(i) \/ Killed(i)

BuildSpec == BuildInit /\ [][BuildNext]_buildVars

-----------------------------------------------------------------------------
(* Properties.                                                             *)

Pcs == {"idle", "acquire", "sign", "reclaim", "cargo", "sync", "hash", "rewrite",
        "mkdir", "flock", "member", "dead"} \cup Locked

\* Type invariant of the shared files and the processes.
BuildTypeOK ==
    /\ src \in [Crates -> Content] /\ target \in [Crates -> Content]
    /\ artifact \in [Crates -> Content \cup {Nil}]
    /\ buildIndex = Nil \/ (DOMAIN buildIndex \subseteq Crates /\ \A p \in DOMAIN buildIndex : buildIndex[p] \in Entry)
    /\ lock = Nil \/ lock \in [by : Proc, text : BOOLEAN]
    /\ members \subseteq dirs /\ whole \subseteq dirs /\ mlock \in Proc \cup {Nil}
    /\ \A i \in Proc : proc[i].pc \in Pcs

\* Two processes are inside the build lock only after a reclaim removed the
\* lock file of a process that was at work: neither a crash, a failed write
\* of the pid, a timeout nor a drop lets a second builder in.
SoleBuilder == stolen \/ Cardinality(Holders) <= 1

\* When nobody is building, the hash in the index is the hash of the artifact
\* (the loader refuses any other), except for a plugin whose artifact was last
\* staged by something that did not get to write its entry.
IndexMatches ==
    ~ stolen /\ Holders = {} /\ buildIndex # Nil =>
        \A p \in DOMAIN buildIndex : buildIndex[p].sha = artifact[p] \/ p \in unhashed

\* A plugin the next prepare would reuse has an artifact built from its
\* present source, with the same exceptions and the edits that raced a build.
ReusedIsCurrent ==
    ~ stolen /\ Holders = {} /\ buildIndex # Nil =>
        \A p \in DOMAIN buildIndex \ odd :
            artifact[p] # Nil /\ (buildIndex[p].probe = stamp[p] \/ buildIndex[p].fp = src[p])
                => artifact[p] = src[p]

\* The build lock of tooling.rs keeps artifacts and index together: one builder
\* at a time, entries that match, and nothing stale that a build would reuse.
BuildsSound == BuildTypeOK /\ SoleBuilder /\ IndexMatches /\ ReusedIsCurrent

\* Concurrent create_plugin calls, killed or not, never lose a member.
NoMemberLost == [][members \subseteq members']_buildVars

=============================================================================
