----------------------------- MODULE DurableFile -----------------------------
(***************************************************************************)
(* How the runtime replaces a file: it writes a file beside it and renames *)
(* that over the target.  Five places do so; they differ in the name of    *)
(* the file beside it, in calling fsync, in who may write at once, and in  *)
(* what a failed rename leaves.                                            *)
(*                                                                         *)
(* A name leads to an inode.  A killed writer leaves what it has written.  *)
(* A power failure may undo renames and leaves any part of a file that was *)
(* not synced; it is not modelled for the places without fsync, whose      *)
(* files it can tear.                                                      *)
(***************************************************************************)
EXTENDS Integers, FiniteSets

CONSTANTS Writer, Values, Original, Kinds, MaxInode

ASSUME FileAssumption ==
    /\ Original \notin Values /\ MaxInode \in Nat \ {0}
    /\ Kinds \subseteq {"journal", "manifest", "heal", "save", "soul"}

Whole == Values \cup {Original}
Inodes == 1..MaxInode
Text == Whole \cup {"empty", "part"}
NoName == 0
NotWriting == [at |-> "idle", open |-> NoName]

VARIABLES
    kind,     \* the place
    named,   \* inode behind the name of the file
    beside,   \* name of a file beside it -> inode, or NoName
    data,     \* inode -> what is in the page cache
    synced,   \* inodes whose contents are on the disk
    older,    \* inodes that a power failure may bring back as the target
    fresh,    \* inodes in use
    step,     \* writer -> where it is, and the inode it has open
    value     \* writer -> what it writes

fileVars == <<kind, named, beside, data, synced, older, fresh, step, value>>

\* plugin_iteration::atomic_write: one name; the iteration that writes is the
\* only one that runs.
Journal == [own |-> FALSE, syncs |-> TRUE, alone |-> TRUE, cleans |-> FALSE]

\* host::atomic_write_bytes: a name per process, under workspace_manifest_lock.
Manifest == [own |-> FALSE, syncs |-> TRUE, alone |-> TRUE, cleans |-> TRUE]

\* Auto-heal of the loader.  Its lock is not relied on: a lock file that cannot
\* be opened is passed over.
Heal == [own |-> TRUE, syncs |-> FALSE, alone |-> FALSE, cleans |-> TRUE]

\* Auto-save of a session: a name per write.
Save == [own |-> TRUE, syncs |-> FALSE, alone |-> FALSE, cleans |-> TRUE]

\* FileSoulProvider::set: one name per soul.
SoulFile == [own |-> FALSE, syncs |-> FALSE, alone |-> FALSE, cleans |-> FALSE]

Place == [journal |-> Journal, manifest |-> Manifest, heal |-> Heal, save |-> Save,
          soul |-> SoulFile][kind]

\* Name of the file a writer writes beside the target; unique_staging_path.
TmpName(w) == IF Place.own THEN w ELSE 0

DurableInit ==
    /\ kind \in Kinds
    /\ named = 1 /\ beside = [n \in Writer \cup {0} |-> NoName]
    /\ data = [i \in Inodes |-> IF i = 1 THEN Original ELSE "empty"]
    /\ synced = {1} /\ older = {} /\ fresh = 1
    /\ step = [w \in Writer |-> NotWriting] /\ value = [w \in Writer |-> Original]

\* File::create: the file beside the target is made, or emptied.
Create(w, v) ==
    /\ step[w] = NotWriting
    /\ Place.alone => \A other \in Writer : step[other] = NotWriting
    /\ LET old == beside[TmpName(w)]
           i   == IF old = NoName THEN fresh + 1 ELSE old
       IN  /\ i <= MaxInode
           /\ beside' = [beside EXCEPT ![TmpName(w)] = i]
           /\ fresh' = IF old = NoName THEN fresh + 1 ELSE fresh
           /\ data' = [data EXCEPT ![i] = "empty"]
           /\ synced' = synced \ {i}
           /\ step' = [step EXCEPT ![w] = [at |-> "write", open |-> i]]
    /\ value' = [value EXCEPT ![w] = v]
    /\ UNCHANGED <<kind, named, older>>

Writing(w) == step[w].at = "write"

\* write_all, in two halves: what it writes goes to the inode it has open.
WriteSome(w) ==
    /\ Writing(w) /\ data[step[w].open] = "empty"
    /\ data' = [data EXCEPT ![step[w].open] = "part"]
    /\ UNCHANGED <<kind, named, beside, synced, older, fresh, step, value>>

WriteRest(w) ==
    /\ Writing(w) /\ data[step[w].open] # "empty"
    /\ data' = [data EXCEPT ![step[w].open] = value[w]]
    /\ step' = [step EXCEPT ![w].at = IF Place.syncs THEN "sync" ELSE "rename"]
    /\ UNCHANGED <<kind, named, beside, synced, older, fresh, value>>

\* sync_all.
Sync(w) ==
    /\ step[w].at = "sync"
    /\ synced' = synced \cup {step[w].open}
    /\ step' = [step EXCEPT ![w].at = "rename"]
    /\ UNCHANGED <<kind, named, beside, data, older, fresh, value>>

\* Mutant: the file is renamed before it is synced.
RenameAtOnce(w) == step[w].at \in {"sync", "rename"}

RenameReady(w) == step[w].at = "rename"

\* rename fails when another writer has taken the file under the name.
Rename(w) ==
    /\ RenameReady(w) /\ beside[TmpName(w)] # NoName
    /\ named' = beside[TmpName(w)]
    /\ older' = older \cup {named}
    /\ beside' = [beside EXCEPT ![TmpName(w)] = NoName]
    /\ step' = [step EXCEPT ![w] = NotWriting]
    /\ UNCHANGED <<kind, data, synced, fresh, value>>

\* An error at any step, or the death of the writer's process.  Only a failed
\* rename removes the file, and not at every place.
Abandon(w) ==
    /\ step[w] # NotWriting
    /\ step' = [step EXCEPT ![w] = NotWriting]
    /\ beside' \in {beside} \cup
                   (IF step[w].at = "rename" /\ Place.cleans
                    THEN {[beside EXCEPT ![TmpName(w)] = NoName]} ELSE {})
    /\ UNCHANGED <<kind, named, data, synced, older, fresh, value>>

\* The directory reaches the disk by itself.
WriteBack ==
    /\ older' = {}
    /\ UNCHANGED <<kind, named, beside, data, synced, fresh, step, value>>

\* What a file holds after a power failure.
Survives(i, text) == IF i \in synced THEN text = data[i] ELSE text \in {"empty", "part", data[i]}

PowerFails ==
    /\ Place.syncs
    /\ named' \in {named} \cup older /\ older' = {}
    /\ data' \in {d \in [Inodes -> Text] : \A i \in Inodes : Survives(i, d[i])}
    /\ beside' = [n \in Writer \cup {0} |-> IF beside[n] = named' THEN NoName ELSE beside[n]]
    /\ synced' = Inodes
    /\ step' = [w \in Writer |-> NotWriting]
    /\ UNCHANGED <<kind, fresh, value>>

DurableNext ==
    \/ \E w \in Writer :
         \/ \E v \in Values : Create(w, v)
         \/ WriteSome(w) \/ WriteRest(w) \/ Sync(w) \/ Rename(w) \/ Abandon(w)
    \/ WriteBack
    \/ PowerFails

DurableSpec == DurableInit /\ [][DurableNext]_fileVars

-----------------------------------------------------------------------------
DurableTypeOK ==
    /\ kind \in Kinds /\ named \in Inodes
    /\ beside \in [Writer \cup {0} -> Inodes \cup {NoName}]
    /\ data \in [Inodes -> Text] /\ synced \subseteq Inodes /\ older \subseteq Inodes
    /\ fresh \in Inodes
    /\ step \in [Writer -> [at : {"idle", "write", "sync", "rename"}, open : Inodes \cup {NoName}]]
    /\ value \in [Writer -> Whole]

\* "After this returns Ok, the file at `path` is either the previous contents or
\* the new contents - never a truncated partial write" (plugin_iteration.rs,
\* atomic_write), whoever else writes it and whatever is killed in between.
WholeFile == data[named] \in Whole

\* The replacement of a file is atomic for its readers: writing beside the
\* target, fsync and rename implement AtomicFile, power failures included.
File == INSTANCE AtomicFile WITH value <- data[named], fallback <- {data[i] : i \in older}
ReplacesAtomically == File!AtomicFileSpec

=============================================================================
