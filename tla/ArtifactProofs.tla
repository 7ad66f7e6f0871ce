---------------------------- MODULE ArtifactProofs ----------------------------
(***************************************************************************)
(* Writing beside a file and renaming over it implements the atomic file,  *)
(* for every place but the one where writers share a name and run at once. *)
(* And the lock of the artifact directory keeps artifacts and index        *)
(* together, as the lock of the manifest keeps its members.  And what the  *)
(* resolver hands to the loader is a forest in loading order.  And an      *)
(* automatic edit lands where it may go and on what it was prepared for.   *)
(***************************************************************************)
EXTENDS DurableFile, ArtifactBuild, PackageResolver, EditPolicy, FiniteSetTheorems, SequenceTheorems,
        WellFoundedInduction, TLAPS

\* What is behind the name, or may come back behind it, is whole, nobody has
\* it open, and at a place that syncs it is on the disk.
Kept(i) ==
    /\ data[i] \in Whole
    /\ \A n \in Writer \cup {0} : beside[n] # i
    /\ Place.syncs => i \in synced

\* A writer has open the inode behind its own name beside the file; past
\* write_all the inode holds the value, past sync_all it is on the disk.
Progress(w) ==
    /\ step[w].at = "idle" => step[w] = NotWriting
    /\ step[w].at # "idle" => /\ step[w].open # NoName
                              /\ beside[TmpName(w)] = step[w].open
                              /\ value[w] \in Values
    /\ step[w].at \in {"sync", "rename"} => data[step[w].open] = value[w]
    /\ step[w].at = "rename" /\ Place.syncs => step[w].open \in synced

DurableInv ==
    /\ DurableTypeOK /\ kind # "soul"
    /\ Kept(named) /\ named <= fresh
    /\ \A i \in older : Kept(i) /\ i <= fresh
    /\ \A n \in Writer \cup {0} : beside[n] <= fresh
    /\ \A m, n \in Writer \cup {0} : beside[m] = beside[n] => m = n \/ beside[m] = NoName
    /\ \A w \in Writer : Progress(w)
    /\ Place.alone => \A v, w \in Writer : v = w \/ step[v] = NotWriting \/ step[w] = NotWriting

\* A writer's inode is not behind the name of another writer that has one of
\* its own, and writers without one are not at work together.
LEMMA PlaceKinds ==
    ASSUME DurableInv
    PROVE  /\ Place.own \in BOOLEAN /\ Place.syncs \in BOOLEAN /\ Place.alone \in BOOLEAN
           /\ Place.own \/ Place.alone
           /\ ~ (Place.own /\ Place.syncs)
<1>1. kind \in {"journal", "manifest", "heal", "save"} BY FileAssumption DEF DurableInv, DurableTypeOK
<1>2. CASE kind = "journal" BY <1>2 DEF Place, Journal
<1>3. CASE kind = "manifest" BY <1>3 DEF Place, Manifest
<1>4. CASE kind = "heal" BY <1>4 DEF Place, Heal
<1>5. CASE kind = "save" BY <1>5 DEF Place, Save
<1> QED BY <1>1, <1>2, <1>3, <1>4, <1>5

\* No two writers have one inode open.
LEMMA OwnInode ==
    ASSUME DurableInv, NEW v \in Writer, NEW w \in Writer, v # w,
           step[v].at # "idle", step[w].at # "idle"
    PROVE  step[v].open # step[w].open
<1>1. ~ Place.alone BY DEF DurableInv, NotWriting
<1>2. Place.own BY <1>1, PlaceKinds
<1> QED BY <1>2 DEF DurableInv, Progress, TmpName

\* The invariant holds at first.
LEMMA DurableInitial == "soul" \notin Kinds /\ DurableInit => DurableInv
BY FileAssumption
   DEF DurableInit, DurableInv, DurableTypeOK, Kept, Progress, Whole, Inodes, Text, NotWriting, NoName

\* The place, and with it the names beside the file, never changes.
LEMMA SamePlace ==
    ASSUME UNCHANGED kind
    PROVE  Place' = Place /\ \A w : TmpName(w)' = TmpName(w)
BY DEF Place, TmpName

\* Every step of a writer, a write-back and a power failure keep it.
LEMMA DurableStep == DurableInv /\ [DurableNext]_fileVars => DurableInv'
<1> SUFFICES ASSUME DurableInv, [DurableNext]_fileVars PROVE DurableInv' OBVIOUS
<1>0. /\ Place' = Place /\ \A w : TmpName(w)' = TmpName(w)
      /\ \A w \in Writer : TmpName(w) \in Writer \cup {0}
      /\ kind' = kind
  <2>1. kind' = kind
    BY DEF DurableNext, fileVars, Create, WriteSome, WriteRest, Sync, Rename, Abandon,
           WriteBack, PowerFails
  <2> QED BY <2>1, SamePlace DEF TmpName
<1> USE DEF DurableTypeOK, Whole, Text, NoName
<1>1. ASSUME NEW w \in Writer, NEW v \in Values, Create(w, v) PROVE DurableInv'
  <2> DEFINE old == beside[TmpName(w)]
             i   == IF old = NoName THEN fresh + 1 ELSE old
  <2>1. i \in Inodes /\ i # NoName /\ i # named /\ i \notin older
    BY <1>0, <1>1, FileAssumption DEF Create, DurableInv, Kept, Inodes
  <2>2. /\ beside' = [beside EXCEPT ![TmpName(w)] = i]
        /\ data' = [data EXCEPT ![i] = "empty"]
        /\ synced' = synced \ {i}
        /\ step' = [step EXCEPT ![w] = [at |-> "write", open |-> i]]
        /\ value' = [value EXCEPT ![w] = v]
        /\ fresh' = (IF old = NoName THEN fresh + 1 ELSE fresh)
        /\ UNCHANGED <<kind, named, older>> BY <1>1 DEF Create
  <2>3. i <= fresh' /\ fresh <= fresh' /\ fresh' \in Inodes
    BY <1>0, <2>1, <2>2, FileAssumption DEF DurableInv, Inodes
  <2>4. \A n \in Writer \cup {0} : n # TmpName(w) => beside[n] # i
    BY <1>0, <2>1, FileAssumption DEF DurableInv, Inodes
  <2> HIDE DEF i
  <2>5. DurableTypeOK' BY <1>0, <2>1, <2>2, <2>3 DEF DurableInv
  <2>6. \A k : Kept(k) /\ k # i /\ k \in Inodes => Kept(k)' BY <1>0, <2>1, <2>2 DEF DurableInv, Kept
  <2>7. \A u \in Writer : Progress(u)'
    <3> TAKE u \in Writer
    <3>1. CASE u = w BY <1>0, <2>1, <2>2, <3>1 DEF DurableInv, Progress, NotWriting
    <3>2. CASE u # w /\ step[u].at = "idle" BY <1>0, <2>2, <3>2 DEF DurableInv, Progress
    <3>3. CASE u # w /\ step[u].at # "idle"
      <4>1. ~ Place.alone BY <1>1, <3>3 DEF Create, NotWriting
      <4>2. TmpName(u) = u /\ TmpName(w) = w BY <4>1, PlaceKinds DEF TmpName
      <4>3. step[u].open # i BY <1>0, <2>4, <3>3, <4>2 DEF DurableInv, Progress
      <4> QED BY <1>0, <2>1, <2>2, <3>3, <4>2, <4>3 DEF DurableInv, Progress
    <3> QED BY <3>1, <3>2, <3>3
  <2>8. \A n \in Writer \cup {0} : beside'[n] <= fresh'
    <3> TAKE n \in Writer \cup {0}
    <3>1. CASE n = TmpName(w) BY <1>0, <2>2, <2>3, <3>1 DEF DurableInv
    <3>2. CASE n # TmpName(w) BY <2>3, FileAssumption, <1>0, <2>2, <3>2 DEF DurableInv, Inodes
    <3> QED BY <3>1, <3>2
  <2>9. \A m, n \in Writer \cup {0} : beside'[m] = beside'[n] => m = n \/ beside'[m] = NoName
    BY <1>0, <2>2, <2>4 DEF DurableInv
  <2>10. Place'.alone => \A u, x \in Writer : u = x \/ step'[u] = NotWriting \/ step'[x] = NotWriting
    BY <1>0, <1>1, <2>2 DEF DurableInv, Create
  <2>11. named <= fresh' /\ \A k \in older : k <= fresh' BY <2>3 DEF DurableInv, Inodes
  <2> QED BY <1>0, <2>1, <2>2, <2>5, <2>6, <2>7, <2>8, <2>9, <2>10, <2>11 DEF DurableInv
<1>2. ASSUME NEW w \in Writer, WriteSome(w) \/ WriteRest(w) PROVE DurableInv'
  <2> DEFINE i == step[w].open
  <2>1. /\ step[w].at = "write" /\ i \in Inodes /\ i # named /\ i \notin older
        /\ value[w] \in Values BY <1>0, <1>2 DEF WriteSome, WriteRest, Writing, DurableInv, Kept, Progress
  <2>2. /\ data' \in {[data EXCEPT ![i] = "part"], [data EXCEPT ![i] = value[w]]}
        /\ UNCHANGED <<kind, named, beside, synced, older, fresh, value>> BY <1>2 DEF WriteSome, WriteRest
  <2>3. \/ step' = step
        \/ /\ step' = [step EXCEPT ![w].at = IF Place.syncs THEN "sync" ELSE "rename"]
           /\ data'[i] = value[w] BY <1>2, <2>1 DEF WriteSome, WriteRest, DurableInv
  <2>4. DurableTypeOK' BY <2>1, <2>2, <2>3 DEF DurableInv
  <2>5. \A k : Kept(k) /\ k # i /\ k \in Inodes => Kept(k)' BY <1>0, <2>1, <2>2 DEF DurableInv, Kept
  <2>6. \A u \in Writer : Progress(u)'
    <3> TAKE u \in Writer
    <3>1. CASE u = w BY <1>0, <2>1, <2>2, <2>3, <3>1 DEF DurableInv, Progress, NotWriting
    <3>2. CASE u # w BY <2>1, <3>2, OwnInode, <1>0, <2>2, <2>3 DEF DurableInv, Progress
    <3> QED BY <3>1, <3>2
  <2>7. \A u \in Writer : step[u] = NotWriting => step'[u] = NotWriting
    BY <2>1, <2>3 DEF DurableInv, NotWriting
  <2> QED BY <1>0, <2>1, <2>2, <2>4, <2>5, <2>6, <2>7 DEF DurableInv
<1>3. ASSUME NEW w \in Writer, Sync(w) PROVE DurableInv'
  <2>1. \A k : Kept(k) => Kept(k)' BY <1>0, <1>3 DEF Sync, Kept
  <2>2. \A u \in Writer : Progress(u)' BY <1>0, <1>3 DEF Sync, Progress, DurableInv, NotWriting
  <2>3. \A u \in Writer : step[u] = NotWriting => step'[u] = NotWriting
    BY <1>3 DEF Sync, DurableInv, NotWriting
  <2>4. DurableTypeOK' BY <1>3 DEF Sync, DurableInv, Progress
  <2> QED BY <1>0, <1>3, <2>1, <2>2, <2>3, <2>4 DEF DurableInv, Sync
<1>4. ASSUME NEW w \in Writer, Rename(w) PROVE DurableInv'
  <2> DEFINE i == step[w].open
  <2>1. /\ step[w].at = "rename" /\ i \in Inodes /\ beside[TmpName(w)] = i
        /\ data[i] \in Whole /\ (Place.syncs => i \in synced)
    BY <1>0, <1>4 DEF Rename, RenameReady, DurableInv, Progress
  <2>2. /\ named' = i /\ older' = older \cup {named}
        /\ beside' = [beside EXCEPT ![TmpName(w)] = NoName]
        /\ step' = [step EXCEPT ![w] = NotWriting]
        /\ UNCHANGED <<kind, data, synced, fresh, value>> BY <1>4, <2>1 DEF Rename
  <2>3. DurableTypeOK' BY <1>0, <2>1, <2>2 DEF DurableInv, NotWriting
  <2>4. \A k \in Inodes : Kept(k) => Kept(k)' BY <1>0, <2>1, <2>2 DEF DurableInv, Kept, Inodes
  <2>5. Kept(named)' BY <1>0, <2>1, <2>2 DEF DurableInv, Kept, Inodes
  <2>6. \A u \in Writer : Progress(u)'
    <3> TAKE u \in Writer
    <3>1. CASE u = w BY <1>0, <2>1, <2>2, <3>1 DEF DurableInv, Progress, NotWriting
    <3>2. CASE u # w BY <2>1, <3>2, OwnInode, <1>0, <2>2 DEF DurableInv, Progress
    <3> QED BY <3>1, <3>2
  <2>7. \A u \in Writer : step[u] = NotWriting => step'[u] = NotWriting BY <2>2 DEF DurableInv
  <2>8. i <= fresh BY <1>0, <2>1 DEF DurableInv
  <2>9. \A m, n \in Writer \cup {0} : beside'[m] = beside'[n] => m = n \/ beside'[m] = NoName
    BY <1>0, <2>2 DEF DurableInv
  <2>10. \A n \in Writer \cup {0} : beside'[n] <= fresh BY <1>0, <2>2, FileAssumption DEF DurableInv, Inodes
  <2> QED BY <1>0, <2>2, <2>3, <2>4, <2>5, <2>6, <2>7, <2>8, <2>9, <2>10 DEF DurableInv
<1>5. ASSUME NEW w \in Writer, Abandon(w) PROVE DurableInv'
  <2>1. /\ step' = [step EXCEPT ![w] = NotWriting]
        /\ beside' \in {beside, [beside EXCEPT ![TmpName(w)] = NoName]}
        /\ UNCHANGED <<kind, named, data, synced, older, fresh, value>> BY <1>5 DEF Abandon
  <2>2. DurableTypeOK' BY <1>0, <2>1 DEF DurableInv, NotWriting
  <2>3. \A k \in Inodes : Kept(k) => Kept(k)' BY <1>0, <2>1 DEF DurableInv, Kept, Inodes
  <2>4. \A u \in Writer : Progress(u)'
    <3> TAKE u \in Writer
    <3>1. CASE u = w BY <1>0, <2>1, <3>1 DEF DurableInv, Progress, NotWriting
    <3>2. CASE u # w /\ step[u].at = "idle" BY <1>0, <2>1, <3>2 DEF DurableInv, Progress
    <3>3. CASE u # w /\ step[u].at # "idle"
      BY <1>5, <3>3, OwnInode, <1>0, <2>1 DEF Abandon, DurableInv, Progress
    <3> QED BY <3>1, <3>2, <3>3
  <2>5. \A u \in Writer : step[u] = NotWriting => step'[u] = NotWriting BY <2>1 DEF DurableInv
  <2>6. \A m, n \in Writer \cup {0} : beside'[m] = beside'[n] => m = n \/ beside'[m] = NoName
    BY <1>0, <2>1 DEF DurableInv
  <2>7. \A n \in Writer \cup {0} : beside'[n] <= fresh BY <1>0, <2>1, FileAssumption, SMTT(30) DEF DurableInv, Inodes
  <2> QED BY <1>0, <2>1, <2>2, <2>3, <2>4, <2>5, <2>6, <2>7 DEF DurableInv
<1>6. ASSUME WriteBack PROVE DurableInv' BY <1>0, <1>6 DEF WriteBack, Kept, Progress, DurableInv
<1>7. ASSUME PowerFails PROVE DurableInv'
  BY <1>7, <1>0 DEF PowerFails, DurableInv, Kept, Survives, NotWriting, Progress
<1>8. CASE UNCHANGED fileVars BY <1>0, <1>8 DEF fileVars, Kept, Progress, DurableInv
<1> QED BY <1>1, <1>2, <1>3, <1>4, <1>5, <1>6, <1>7, <1>8 DEF DurableNext

\* A step of a writer that is not a rename leaves what a reader finds, and
\* what a power failure may bring back.
LEMMA Invisible ==
    ASSUME DurableInv, NEW w \in Writer, NEW i \in Inodes, i # named, i \notin older,
           NEW text, data' = [data EXCEPT ![i] = text], UNCHANGED <<named, older>>
    PROVE  UNCHANGED <<data[named], {data[k] : k \in older}>>
BY DEF DurableInv, DurableTypeOK

\* Every step of the file system's calls is a step of the atomic file, or none
\* that its readers see.
LEMMA DurableSimulates ==
    DurableInv /\ [DurableNext]_fileVars
        => [File!FileNext]_<<data[named], {data[i] : i \in older}>>
<1> DEFINE seen == <<data[named], {data[i] : i \in older}>>
<1> SUFFICES ASSUME DurableInv, [DurableNext]_fileVars PROVE [File!FileNext]_seen OBVIOUS
<1>1. ASSUME NEW w \in Writer, NEW v \in Values, Create(w, v) PROVE UNCHANGED seen
  <2> DEFINE old == beside[TmpName(w)]
             i   == IF old = NoName THEN fresh + 1 ELSE old
  <2>1. TmpName(w) \in Writer \cup {0} BY DEF TmpName
  <2>2. i \in Inodes /\ i # named /\ i \notin older
    BY <1>1, <2>1, FileAssumption
       DEF Create, DurableInv, DurableTypeOK, Kept, Inodes, NoName
  <2>3. data' = [data EXCEPT ![i] = "empty"] /\ UNCHANGED <<named, older>> BY <1>1 DEF Create
  <2> HIDE DEF i
  <2> QED BY <2>2, <2>3, Invisible
<1>2. ASSUME NEW w \in Writer, WriteSome(w) \/ WriteRest(w) PROVE UNCHANGED seen
  <2> DEFINE i == step[w].open
  <2>1. TmpName(w) \in Writer \cup {0} BY DEF TmpName
  <2>2. i \in Inodes /\ i # named /\ i \notin older
    BY <1>2, <2>1 DEF WriteSome, WriteRest, Writing, DurableInv, DurableTypeOK, Kept, Progress
  <2>3. PICK text : data' = [data EXCEPT ![i] = text] /\ UNCHANGED <<named, older>>
    BY <1>2 DEF WriteSome, WriteRest
  <2> HIDE DEF i
  <2> QED BY <2>2, <2>3, Invisible
<1>3. ASSUME NEW w \in Writer, Rename(w) PROVE File!FileNext
  <2> DEFINE i == step[w].open
  <2>1. beside[TmpName(w)] = i /\ data[i] \in Values BY <1>3 DEF Rename, RenameReady, DurableInv, Progress
  <2>2. data' = data /\ named' = i /\ older' = older \cup {named} BY <1>3, <2>1 DEF Rename
  <2>3. PICK v \in Values : v = data[i] BY <2>1
  <2>4. File!Put(v) BY <2>2, <2>3 DEF File!Put
  <2> QED BY <2>4 DEF File!FileNext
<1>4. ASSUME WriteBack PROVE File!FileNext BY <1>4 DEF WriteBack, File!FileNext, File!Flush
<1>5. ASSUME PowerFails PROVE File!FileNext
  BY <1>5 DEF PowerFails, DurableInv, DurableTypeOK, Kept, Survives, File!Lose, File!FileNext
<1>6. ASSUME NEW w \in Writer, Sync(w) \/ Abandon(w) PROVE UNCHANGED seen BY <1>6 DEF Sync, Abandon
<1>7. CASE UNCHANGED fileVars BY <1>7 DEF fileVars
<1> QED BY <1>1, <1>2, <1>3, <1>4, <1>5, <1>6, <1>7 DEF DurableNext

\* Every place but the soul's, where writers of one soul share a name and do
\* not exclude one another: a file replaced by rename is an atomic file, for
\* any number of writers, values and inodes, whenever a writer dies and, at
\* the places that call fsync, whenever the power fails.
THEOREM FileIsAtomic == "soul" \notin Kinds /\ DurableSpec => ReplacesAtomically
<1>1. DurableInit => File!FileInit BY FileAssumption DEF DurableInit, File!FileInit, Inodes
<1> QED
  BY <1>1, DurableInitial, DurableStep, DurableSimulates, PTL
     DEF DurableSpec, ReplacesAtomically, File!AtomicFileSpec

\* A reader of such a file finds the previous contents or the new ones, never
\* a truncated partial write.
THEOREM FileIsWhole == "soul" \notin Kinds /\ DurableSpec => []WholeFile
<1>1. DurableInv => WholeFile BY DEF DurableInv, Kept, WholeFile
<1> QED BY <1>1, DurableInitial, DurableStep, PTL DEF DurableSpec

-----------------------------------------------------------------------------
(* The artifact directory *)

OpNames == {"none", "prepare", "full", "rebuild", "agent", "refresh", "create", "done"}
Index == UNION {[D -> Entry] : D \in SUBSET Crates}
ProcState ==
    [pc : Pcs, op : OpNames, arg : Crates \cup {Nil}, saw : Proc \cup {Nil},
     plan : SUBSET Crates, dirty : SUBSET Crates, todo : SUBSET Crates,
     fp : [Crates -> Content] \cup {Nil}, probe : [Crates -> Nat] \cup {Nil},
     idx : Index \cup {Nil}]

\* A process that prepares the artifacts, between the probes and the index.
Preparing(r) == r.pc \in {"fingerprint", "build", "stage"} /\ r.op # "rebuild"
\* ... and after the fingerprints.
Decided(r) == r.pc \in {"build", "stage"} /\ r.op # "rebuild"

\* What a process has at each of its points.
ProcInForm(r) ==
    /\ r.pc = "dead" => r.op = "done"
    /\ r.pc \in {"cargo", "sync", "mkdir", "flock", "member"} => r.arg \in Crates
    /\ r.pc = "rewrite" => r.idx \in Index
    /\ r.op = "rebuild" => r.arg \in Crates
    /\ Preparing(r) => r.probe \in [Crates -> Nat]
    /\ Decided(r) => /\ r.fp \in [Crates -> Content]
                     /\ \A p \in r.plan \ r.dirty : r.idx # Nil /\ p \in DOMAIN r.idx

\* The shape of the files and of the processes.
FileShape ==
    /\ src \in [Crates -> Content] /\ stamp \in [Crates -> Nat]
    /\ target \in [Crates -> Content] /\ artifact \in [Crates -> Content \cup {Nil}]
    /\ buildIndex \in Index \cup {Nil}
    /\ lock \in [by : Proc, text : BOOLEAN] \cup {Nil}
    /\ members \subseteq dirs /\ whole \subseteq dirs /\ dirs \subseteq Crates
    /\ mlock \in Proc \cup {Nil} /\ stolen \in BOOLEAN

ProcShape ==
    /\ proc \in [Proc -> ProcState]
    /\ \A i \in Proc : ProcInForm(proc[i])

\* The process is over.
Finished(i) == proc[i].op = "done" /\ proc[i].pc \in {"idle", "dead"}

\* Who is inside the lock has the file, with its pid; who is about to sign it
\* has it empty; the file is of a process that is at work or over; and what a
\* reclaim has inspected is over.
LockInv ==
    /\ \A i \in Proc : proc[i].pc \in Locked => lock # Nil /\ lock.by = i /\ lock.text
    /\ \A i \in Proc : proc[i].pc = "sign" => lock # Nil /\ lock.by = i /\ ~ lock.text
    /\ lock # Nil => Finished(lock.by) \/ proc[lock.by].pc \in Locked \cup {"sign"}
    /\ \A i \in Proc : proc[i].pc = "reclaim" => proc[i].saw \in Proc /\ Finished(proc[i].saw)

\* A fingerprint that goes with a probe: if the probe is still the present one,
\* so is the fingerprint.
Fresh(p, fp, probe) == probe <= stamp[p] /\ (probe = stamp[p] => fp = src[p])
FreshIndex(x) == \A p \in DOMAIN x : Fresh(p, x[p].fp, x[p].probe)

\* The fingerprint that the entry of p is going to have.
NextFp(r, p) == IF p \in r.dirty THEN r.fp[p] ELSE r.idx[p].fp

\* What a process holds of it.
ProbeHeld(r) ==
    /\ r.pc = "rewrite" => FreshIndex(r.idx)
    /\ Preparing(r) => /\ r.idx # Nil => FreshIndex(r.idx)
                       /\ \A p \in Crates : r.probe[p] <= stamp[p]
    /\ Decided(r) => \A p \in r.plan : Fresh(p, NextFp(r, p), r.probe[p])

ProbeInv ==
    /\ buildIndex # Nil => FreshIndex(buildIndex)
    /\ \A i \in Proc : ProbeHeld(proc[i])

\* The entries of an index are those of the artifacts.
Matches(x) ==
    \A p \in DOMAIN x : /\ x[p].sha = artifact[p] \/ p \in unhashed
                        /\ x[p].fp = artifact[p] \/ artifact[p] = Nil \/ p \in odd

\* What a process holds of it.
MatchHeld(r) ==
    /\ Preparing(r) /\ r.idx # Nil => Matches(r.idx)
    /\ r.pc = "stage" /\ r.op # "rebuild" => r.dirty \ r.todo \subseteq odd

MatchInv ==
    /\ buildIndex # Nil => Matches(buildIndex)
    /\ \A i \in Proc : MatchHeld(proc[i])

\* The manifest lock: who is about to write the members has read them since it
\* took the lock.
MemberInv ==
    /\ \A i \in Proc : proc[i].pc \in {"flock", "member"} => proc[i].arg \in dirs
    /\ \A i \in Proc : proc[i].pc = "member" => mlock = i /\ proc[i].plan = members

BuildInv == FileShape /\ ProcShape /\ MemberInv /\ ProbeInv /\ (~ stolen => LockInv /\ MatchInv)

-----------------------------------------------------------------------------
(* What a step of one process does to the others *)

\* Process i goes on as r.
Moves(i, r) == proc' = [proc EXCEPT ![i] = r]

\* A process that is over, or only drops its lock.
Over(pc) == [IdleProc EXCEPT !.op = "done", !.pc = pc]

\* The others are as they were.
LEMMA OthersStay ==
    ASSUME ProcShape, NEW i \in Proc, NEW r, Moves(i, r)
    PROVE  DOMAIN proc' = Proc /\ proc'[i] = r /\ \A j \in Proc : j # i => proc'[j] = proc[j]
BY DEF ProcShape, Moves

\* The shape of the processes stays.
LEMMA ShapeStays ==
    ASSUME ProcShape, NEW i \in Proc, NEW r \in ProcState, Moves(i, r), ProcInForm(r)
    PROVE  ProcShape'
<1>1. proc' \in [Proc -> ProcState] BY DEF ProcShape, Moves
<1>0. proc'[i] = r /\ \A j \in Proc : j # i => proc'[j] = proc[j] BY OthersStay
<1>2. \A j \in Proc : ProcInForm(proc'[j]) BY <1>0 DEF ProcShape
<1> QED BY <1>1, <1>2 DEF ProcShape

\* The fields of a process.
LEMMA Fields ==
    ASSUME NEW r \in ProcState
    PROVE  /\ r.pc \in Pcs /\ r.op \in OpNames /\ r.arg \in Crates \cup {Nil}
           /\ r.saw \in Proc \cup {Nil} /\ r.plan \in SUBSET Crates /\ r.dirty \in SUBSET Crates
           /\ r.todo \in SUBSET Crates /\ r.idx \in Index \cup {Nil}
           /\ r.fp \in [Crates -> Content] \cup {Nil} /\ r.probe \in [Crates -> Nat] \cup {Nil}
BY DEF ProcState

\* A process that is over has nothing.
LEMMA OverFields ==
    ASSUME NEW pc \in {"idle", "drop", "dead"}
    PROVE  /\ Over(pc) \in ProcState /\ Over(pc).pc = pc /\ Over(pc).op = "done"
           /\ ProcInForm(Over(pc)) /\ ~ Preparing(Over(pc)) /\ ~ Decided(Over(pc))
<1>1. IdleProc \in ProcState BY DEF IdleProc, ProcState, Pcs, OpNames
<1>2. Over(pc) \in ProcState /\ Over(pc).pc = pc /\ Over(pc).op = "done"
  <2>1. pc \in Pcs /\ "done" \in OpNames BY DEF Pcs, Locked, OpNames
  <2> QED BY <1>1, <2>1 DEF Over, ProcState
<1>3. ~ Preparing(Over(pc)) /\ ~ Decided(Over(pc)) BY <1>2 DEF Preparing, Decided
<1> QED BY <1>2, <1>3 DEF ProcInForm

\* A process that only goes on.
LEMMA OnFields ==
    ASSUME NEW r \in ProcState, NEW pc \in Pcs
    PROVE  LET s == [r EXCEPT !.pc = pc] IN
           /\ s \in ProcState /\ s.pc = pc /\ s.op = r.op /\ s.arg = r.arg /\ s.saw = r.saw
           /\ s.plan = r.plan /\ s.dirty = r.dirty /\ s.todo = r.todo
           /\ s.fp = r.fp /\ s.probe = r.probe /\ s.idx = r.idx
BY DEF ProcState

\* Goto is one of the two.
LEMMA GotoEnds ==
    ASSUME NEW i \in Proc, NEW pc \in {"idle", "drop", "dead"}, Goto(i, pc)
    PROVE  Moves(i, Over(pc))
BY DEF Goto, Moves, Over

\* ... or goes on.
LEMMA GotoOn ==
    ASSUME NEW i \in Proc, NEW pc \in Pcs \ {"idle", "drop", "dead"}, Goto(i, pc)
    PROVE  Moves(i, [proc[i] EXCEPT !.pc = pc])
BY DEF Goto, Moves

-----------------------------------------------------------------------------
(* The lock *)

\* A process that was at work is so or is over, and one that was not is not,
\* and the lock is left alone.
LEMMA LockStill ==
    ASSUME FileShape, ProcShape, LockInv, NEW i \in Proc, NEW r, Moves(i, r), UNCHANGED lock,
           ~ Finished(i),
           r.pc \in Locked => proc[i].pc \in Locked, r.pc \notin {"sign", "reclaim"},
           proc[i].pc \in Locked \cup {"sign"} =>
               r.pc \in Locked \/ (r.op = "done" /\ r.pc \in {"idle", "dead"})
    PROVE  LockInv'
<1>1. proc'[i] = r /\ \A j \in Proc : j # i => proc'[j] = proc[j] BY OthersStay
<1>2. \A j \in Proc : Finished(j) => Finished(j)' BY <1>1 DEF Finished
<1>3. lock # Nil => lock.by \in Proc BY DEF FileShape
<1> QED BY <1>1, <1>2, <1>3 DEF LockInv, Finished

-----------------------------------------------------------------------------
(* Probes and hashes *)

\* Inputs change only with their stamp.
Ages ==
    \A p \in Crates : (src'[p] = src[p] /\ stamp'[p] = stamp[p]) \/ stamp'[p] = stamp[p] + 1

\* Artifacts change only with a note that they did.
Noted ==
    /\ unhashed \subseteq unhashed' /\ odd \subseteq odd'
    /\ \A p \in Crates : artifact'[p] = artifact[p] \/ (p \in unhashed' /\ p \in odd')

\* A fingerprint stays fresh.
LEMMA FreshStays ==
    ASSUME FileShape, Ages, NEW p \in Crates, NEW fp, NEW probe \in Nat, Fresh(p, fp, probe)
    PROVE  Fresh(p, fp, probe)'
<1>1. stamp[p] \in Nat BY DEF FileShape
<1>2. CASE src'[p] = src[p] /\ stamp'[p] = stamp[p] BY <1>2 DEF Fresh
<1>3. CASE stamp'[p] = stamp[p] + 1 BY <1>1, <1>3 DEF Fresh
<1> QED BY <1>2, <1>3 DEF Ages

\* An index has entries of plugins.
LEMMA IndexEntries ==
    ASSUME NEW x \in Index
    PROVE  /\ DOMAIN x \subseteq Crates
           /\ \A p \in DOMAIN x : /\ x[p] \in Entry /\ x[p].sha \in Content \cup {Nil}
                                  /\ x[p].fp \in Content /\ x[p].probe \in Nat
<1>1. PICK D \in SUBSET Crates : x \in [D -> Entry] BY DEF Index
<1> QED BY <1>1 DEF Entry

\* And so does an index.
LEMMA FreshIndexStays ==
    ASSUME FileShape, Ages, NEW x \in Index, FreshIndex(x)
    PROVE  FreshIndex(x)'
<1> SUFFICES ASSUME NEW p \in DOMAIN x PROVE Fresh(p, x[p].fp, x[p].probe)' BY DEF FreshIndex
<1>1. p \in Crates /\ x[p].probe \in Nat BY IndexEntries
<1>2. Fresh(p, x[p].fp, x[p].probe) BY DEF FreshIndex
<1> QED BY <1>1, <1>2, FreshStays

\* And so does what a process holds.
LEMMA ProbeHeldStays ==
    ASSUME FileShape, Ages, NEW r \in ProcState, ProcInForm(r), ProbeHeld(r)
    PROVE  ProbeHeld(r)'
<1>1. r.pc = "rewrite" => FreshIndex(r.idx)' BY FreshIndexStays DEF ProcInForm, ProbeHeld
<1>2. ASSUME Preparing(r), r.idx # Nil PROVE FreshIndex(r.idx)' BY <1>2, Fields, FreshIndexStays DEF ProbeHeld
<1>3. ASSUME Preparing(r), NEW p \in Crates PROVE r.probe[p] <= stamp'[p]
  BY <1>3 DEF ProcInForm, ProbeHeld, FileShape, Ages
<1>4. ASSUME Decided(r), NEW p \in r.plan PROVE Fresh(p, NextFp(r, p), r.probe[p])'
  <2>1. p \in Crates /\ Preparing(r) BY <1>4, Fields DEF Decided, Preparing
  <2>2. r.probe[p] \in Nat BY <2>1 DEF ProcInForm
  <2>3. Fresh(p, NextFp(r, p), r.probe[p]) BY <1>4 DEF ProbeHeld
  <2> DEFINE fp == NextFp(r, p)
  <2>4. Fresh(p, fp, r.probe[p]) BY <2>3
  <2>5. fp = NextFp(r, p)' BY DEF NextFp
  <2> HIDE DEF fp
  <2>6. Fresh(p, fp, r.probe[p])' BY <2>1, <2>2, <2>4, FreshStays
  <2> QED BY <2>5, <2>6 DEF Fresh, NextFp
<1> QED BY <1>1, <1>2, <1>3, <1>4 DEF ProbeHeld

\* The part about probes, when one process moves.
LEMMA ProbeMoves ==
    ASSUME FileShape, ProcShape, ProbeInv, Ages, NEW i \in Proc, NEW r, Moves(i, r),
           buildIndex' # Nil => FreshIndex(buildIndex)', ProbeHeld(r)'
    PROVE  ProbeInv'
<1>1. proc'[i] = r /\ \A j \in Proc : j # i => proc'[j] = proc[j] BY OthersStay
<1>2. ASSUME NEW j \in Proc, j # i PROVE ProbeHeld(proc[j])'
  <2>1. PICK q : q = proc[j] OBVIOUS
  <2>2. q \in ProcState /\ ProcInForm(q) /\ ProbeHeld(q) BY <2>1 DEF ProcShape, ProbeInv
  <2>3. ProbeHeld(q)' BY <2>2, ProbeHeldStays
  <2>4. q = proc'[j] BY <1>1, <1>2, <2>1
  <2> QED BY <2>3, <2>4
<1>3. ProbeHeld(proc[i])' BY <1>1
<1> QED BY <1>2, <1>3 DEF ProbeInv

\* An index goes on matching.
LEMMA MatchesStays ==
    ASSUME Noted, NEW x \in Index, Matches(x)
    PROVE  Matches(x)'
<1>1. DOMAIN x \subseteq Crates BY IndexEntries
<1> QED BY <1>1 DEF Matches, Noted

\* And what a process holds.
LEMMA MatchHeldStays ==
    ASSUME Noted, NEW r \in ProcState, MatchHeld(r)
    PROVE  MatchHeld(r)'
<1>1. ASSUME Preparing(r), r.idx # Nil PROVE Matches(r.idx)' BY <1>1, Fields, MatchesStays DEF MatchHeld
<1>2. r.pc = "stage" /\ r.op # "rebuild" => r.dirty \ r.todo \subseteq odd' BY DEF MatchHeld, Noted
<1> QED BY <1>1, <1>2 DEF MatchHeld

\* The part about hashes, when one process moves.
LEMMA MatchMoves ==
    ASSUME ProcShape, MatchInv, Noted, NEW i \in Proc, NEW r, Moves(i, r),
           buildIndex' # Nil => Matches(buildIndex)', MatchHeld(r)'
    PROVE  MatchInv'
<1>1. proc'[i] = r /\ \A j \in Proc : j # i => proc'[j] = proc[j] BY OthersStay
<1>2. ASSUME NEW j \in Proc, j # i PROVE MatchHeld(proc[j])'
  <2>1. PICK q : q = proc[j] OBVIOUS
  <2>2. q \in ProcState /\ MatchHeld(q) BY <2>1 DEF ProcShape, MatchInv
  <2>3. MatchHeld(q)' BY <2>2, MatchHeldStays
  <2>4. q = proc'[j] BY <1>1, <1>2, <2>1
  <2> QED BY <2>3, <2>4
<1>3. MatchHeld(proc[i])' BY <1>1
<1> QED BY <1>2, <1>3 DEF MatchInv

\* Nobody else is inside the lock.
LEMMA OneInside ==
    ASSUME LockInv, NEW i \in Proc, NEW j \in Proc, proc[i].pc \in Locked, proc[j].pc \in Locked
    PROVE  i = j
BY DEF LockInv

\* A process inside the lock may change artifacts without a note.
LEMMA MatchAlone ==
    ASSUME ProcShape, LockInv, NEW i \in Proc, NEW r, Moves(i, r), proc[i].pc \in Locked,
           buildIndex' # Nil => Matches(buildIndex)', MatchHeld(r)'
    PROVE  MatchInv'
<1>1. proc'[i] = r /\ \A j \in Proc : j # i => proc'[j] = proc[j] BY OthersStay
<1>2. ASSUME NEW j \in Proc, j # i PROVE MatchHeld(proc[j])'
  BY <1>1, <1>2, OneInside DEF Locked, MatchHeld, Preparing
<1>3. MatchHeld(proc[i])' BY <1>1
<1> QED BY <1>2, <1>3 DEF MatchInv

-----------------------------------------------------------------------------
(* Steps that leave files and artifacts alone *)

\* The part about the members, when one process moves and is not about to write
\* them.
LEMMA MemberMoves ==
    ASSUME ProcShape, MemberInv, NEW i \in Proc, NEW r, Moves(i, r), UNCHANGED members,
           dirs \subseteq dirs', \A j \in Proc : j # i /\ mlock = j => mlock' = j,
           r.pc = "flock" => r.arg \in dirs', r.pc # "member"
    PROVE  MemberInv'
<1>1. proc'[i] = r /\ \A j \in Proc : j # i => proc'[j] = proc[j] BY OthersStay
<1> QED BY <1>1 DEF MemberInv

\* A step that changes one process, the lock file and what cargo built.
LEMMA QuietStep ==
    ASSUME BuildInv, NEW i \in Proc, NEW r \in ProcState, Moves(i, r), ProcInForm(r),
           UNCHANGED <<src, stamp, artifact, buildIndex, tree, odd, unhashed>>,
           target' \in [Crates -> Content],
           lock' \in [by : Proc, text : BOOLEAN] \cup {Nil}, stolen' \in BOOLEAN,
           stolen => stolen', ~ stolen' => LockInv', ProbeHeld(r), ~ stolen' => MatchHeld(r),
           r.pc = "flock" => r.arg \in dirs, r.pc # "member"
    PROVE  BuildInv'
<1>1. UNCHANGED <<src, stamp, artifact, buildIndex, members, whole, dirs, mlock, odd, unhashed>> BY DEF tree
<1>2. FileShape' BY <1>1 DEF BuildInv, FileShape
<1>3. ProcShape' BY ShapeStays DEF BuildInv
<1>4. MemberInv' BY <1>1, MemberMoves DEF BuildInv
<1>5. Ages /\ Noted BY <1>1 DEF Ages, Noted
<1>6. ProbeInv' BY <1>5, ProbeHeldStays, <1>1, ProbeMoves DEF BuildInv, ProbeInv, FreshIndex, Fresh
<1>7. ASSUME ~ stolen' PROVE MatchInv'
  BY <1>7, <1>5, MatchHeldStays, <1>1, MatchMoves DEF BuildInv, MatchInv, Matches
<1> QED BY <1>2, <1>3, <1>4, <1>6, <1>7 DEF BuildInv

\* A process that is not preparing holds nothing.
LEMMA HoldsNothing ==
    ASSUME NEW r, r.pc \notin {"rewrite", "fingerprint", "build", "stage"}
    PROVE  ProbeHeld(r) /\ MatchHeld(r) /\ ProbeHeld(r)' /\ MatchHeld(r)'
BY DEF ProbeHeld, MatchHeld, Preparing, Decided

\* What is known of the process that moves.
LEMMA Known ==
    ASSUME BuildInv, NEW i \in Proc
    PROVE  /\ proc[i] \in ProcState /\ ProcInForm(proc[i]) /\ ProbeHeld(proc[i])
           /\ ~ stolen => LockInv /\ MatchInv /\ MatchHeld(proc[i])
           /\ FileShape /\ ProcShape /\ MemberInv /\ stolen \in BOOLEAN /\ target \in [Crates -> Content]
           /\ lock \in [by : Proc, text : BOOLEAN] \cup {Nil}
BY DEF BuildInv, ProcShape, ProbeInv, MatchInv, FileShape

\* A process that ends, or only has its lock left.
LEMMA EndStep ==
    ASSUME BuildInv, NEW i \in Proc, NEW pc \in {"idle", "drop", "dead"}, Moves(i, Over(pc)),
           UNCHANGED <<files, tree, odd, unhashed, stolen>>,
           lock' \in [by : Proc, text : BOOLEAN] \cup {Nil}, ~ stolen => LockInv'
    PROVE  BuildInv'
<1>1. /\ Over(pc) \in ProcState /\ Over(pc).pc = pc /\ ProcInForm(Over(pc)) BY OverFields
<1>2. ProbeHeld(Over(pc)) /\ MatchHeld(Over(pc)) BY <1>1, HoldsNothing
<1>3. /\ stolen' \in BOOLEAN /\ stolen' = stolen /\ target' \in [Crates -> Content]
      /\ UNCHANGED <<src, stamp, artifact, buildIndex, tree, odd, unhashed>> BY Known DEF files
<1> QED BY <1>1, <1>2, <1>3, QuietStep

\* ... without touching the lock file.
LEMMA EndStill ==
    ASSUME BuildInv, NEW i \in Proc, NEW pc \in {"idle", "drop", "dead"}, Moves(i, Over(pc)),
           UNCHANGED <<files, tree, odd, unhashed, stolen, lock>>, ~ Finished(i),
           pc = "drop" => proc[i].pc \in Locked
    PROVE  BuildInv'
<1>1. Over(pc).pc = pc /\ Over(pc).op = "done" BY OverFields
<1>2. ~ stolen => LockInv' BY <1>1, Known, LockStill DEF Locked
<1> QED BY <1>2, Known, EndStep

\* A lock file is not the missing one.
LEMMA LockFile ==
    ASSUME NEW i \in Proc, NEW t \in BOOLEAN
    PROVE  LET l == [by |-> i, text |-> t] IN
           l \in [by : Proc, text : BOOLEAN] /\ l # Nil /\ l.by = i /\ l.text = t
<1>1. [by |-> i, text |-> t] \in [by : Proc, text : BOOLEAN] OBVIOUS
<1>2. Nil \notin [by : Proc, text : BOOLEAN] BY BuildAssumption
<1> QED BY <1>1, <1>2

\* The lock that a process creates.
LEMMA CreateLockStep ==
    ASSUME BuildInv, NEW i \in Proc, CreateLock(i)
    PROVE  BuildInv'
<1> DEFINE r == [proc[i] EXCEPT !.pc = "sign"]
<1>1. Moves(i, r) BY GotoOn DEF CreateLock, Pcs, Locked
<1>2. r \in ProcState /\ r.pc = "sign" /\ r.op = proc[i].op /\ r.arg = proc[i].arg BY Known, OnFields DEF Pcs
<1>3. ProcInForm(r) BY <1>2, Known DEF ProcInForm, Preparing, Decided
<1>4. ProbeHeld(r) /\ MatchHeld(r) BY <1>2, HoldsNothing
<1>5. /\ lock' # Nil /\ lock'.by = i /\ lock'.text = FALSE
      /\ lock' \in [by : Proc, text : BOOLEAN] BY LockFile DEF CreateLock
<1>6. UNCHANGED <<src, stamp, artifact, buildIndex, tree, odd, unhashed>>
      /\ stolen' = stolen /\ target' = target /\ proc[i].pc = "acquire" /\ lock = Nil
  BY DEF CreateLock, ghosts, files, ProcAt
<1> HIDE DEF r
<1>7. ASSUME ~ stolen PROVE LockInv'
  <2>1. proc'[i] = r /\ \A j \in Proc : j # i => proc'[j] = proc[j] BY <1>1, Known, OthersStay
  <2>2. \A j \in Proc : Finished(j) => Finished(j)' BY <1>6, <2>1 DEF Finished
  <2>3. \A j \in Proc : proc[j].pc \notin Locked \cup {"sign"} BY <1>6, <1>7, Known DEF LockInv
  <2>4. proc'[i].pc = "sign" /\ lock'.by = i /\ ~ lock'.text BY <1>2, <1>5, <2>1
  <2>5. \A j \in Proc : j # i => proc'[j].pc \notin Locked \cup {"sign"} BY <2>1, <2>3
  <2>6. \A j \in Proc : proc'[j].pc = "reclaim" => proc'[j].saw \in Proc /\ Finished(proc[j].saw)'
    BY <1>7, <2>1, <2>2, <2>4, Known DEF LockInv
  <2>7. "sign" \notin Locked BY DEF Locked
  <2> QED BY <1>5, <2>4, <2>5, <2>6, <2>7 DEF LockInv
<1> QED BY <1>1, <1>2, <1>3, <1>4, <1>5, <1>6, <1>7, Known, QuietStep

\* The pid that goes to the file.
LEMMA SignLockStep ==
    ASSUME BuildInv, NEW i \in Proc, SignLock(i)
    PROVE  BuildInv'
<1> DEFINE pc == IF proc[i].op = "rebuild" THEN "build" ELSE "probe"
           r == [proc[i] EXCEPT !.pc = pc]
<1>1. pc \in Pcs \ {"idle", "drop", "dead"} BY DEF Pcs, Locked
<1>2. Goto(i, pc) /\ proc[i].pc = "sign" /\ UNCHANGED <<src, stamp, artifact, buildIndex, tree, odd, unhashed>>
      /\ stolen' = stolen /\ target' = target BY DEF SignLock, ProcAt, files, ghosts
<1>3. lock' = IF lock # Nil /\ lock.by = i THEN [lock EXCEPT !.text = TRUE] ELSE lock BY DEF SignLock
<1>4. pc = "build" => proc[i].op = "rebuild" OBVIOUS
<1>5. pc \in {"build", "probe"} /\ pc \in Locked BY DEF Locked
<1> HIDE DEF pc
<1>6. Moves(i, r) BY <1>1, <1>2, GotoOn
<1>7. r \in ProcState /\ r.pc = pc /\ r.op = proc[i].op /\ r.arg = proc[i].arg BY <1>1, Known, OnFields
<1> HIDE DEF r
<1>8. ProcInForm(r) /\ ProbeHeld(r) /\ MatchHeld(r)
  BY <1>4, <1>5, <1>7, Known DEF ProcInForm, Preparing, Decided, ProbeHeld, MatchHeld
<1>9. lock' \in [by : Proc, text : BOOLEAN] \cup {Nil} BY <1>3, Known
<1>10. ASSUME ~ stolen PROVE LockInv'
  <2>1. proc'[i] = r /\ \A j \in Proc : j # i => proc'[j] = proc[j] BY <1>6, Known, OthersStay
  <2>2. lock # Nil /\ lock.by = i /\ LockInv BY <1>2, <1>10, Known DEF LockInv
  <2>3. lock' = [by |-> i, text |-> TRUE] BY <1>3, <2>2, Known
  <2>4. lock' # Nil /\ lock'.by = i /\ lock'.text BY <2>3, LockFile
  <2>5. \A j \in Proc : Finished(j) => Finished(j)' BY <1>2, <2>1 DEF Finished
  <2>6. \A j \in Proc : j # i => proc[j].pc \notin Locked \cup {"sign"} BY <2>2 DEF LockInv
  <2>7. proc'[i].pc \in Locked /\ proc'[i].pc # "reclaim" /\ proc'[i].pc # "sign" BY <1>5, <1>7, <2>1
  <2> QED BY <2>1, <2>2, <2>4, <2>5, <2>6, <2>7 DEF LockInv
<1> QED BY <1>2, <1>5, <1>6, <1>7, <1>8, <1>9, <1>10, Known, QuietStep

\* The pid of a lock that looks stale is of a process that is over.
LEMMA StaleOver ==
    ASSUME BuildInv, ~ stolen, lock # Nil, Stale(lock)
    PROVE  lock.by \in Proc /\ Finished(lock.by)
<1>1. lock.by \in Proc /\ LockInv /\ ProcShape /\ lock.text \in BOOLEAN BY Known DEF BuildInv, FileShape
<1>2. CASE lock.text BY <1>1, <1>2 DEF Stale, Dead, ProcAt, Finished, ProcShape, ProcInForm
<1>3. CASE ~ lock.text BY <1>1, <1>3 DEF Stale, ProcAt, LockInv
<1> QED BY <1>1, <1>2, <1>3

\* The lock that a process finds stale.
LEMMA InspectLockStep ==
    ASSUME BuildInv, NEW i \in Proc, InspectLock(i)
    PROVE  BuildInv'
<1> DEFINE r == [proc[i] EXCEPT !.pc = "reclaim", !.saw = lock.by]
<1>0. proc[i] \in ProcState /\ proc \in [Proc -> ProcState] BY Known DEF ProcShape
<1>1. Moves(i, r) BY <1>0 DEF InspectLock, Moves
<1>2. /\ UNCHANGED <<src, stamp, artifact, buildIndex, tree, odd, unhashed>>
      /\ stolen' = stolen /\ target' = target /\ lock' = lock
      /\ proc[i].pc = "acquire" /\ lock # Nil /\ Stale(lock) /\ lock.by \in Proc
  BY Known DEF InspectLock, ghosts, files, ProcAt
<1>3. /\ r \in ProcState /\ r.pc = "reclaim" /\ r.op = proc[i].op /\ r.arg = proc[i].arg
      /\ r.saw = lock.by BY <1>0, <1>2 DEF ProcState, Pcs
<1> HIDE DEF r
<1>4. ProcInForm(r) BY <1>3, Known DEF ProcInForm, Preparing, Decided
<1>5. ProbeHeld(r) /\ MatchHeld(r) BY <1>3, HoldsNothing
<1>6. ASSUME ~ stolen PROVE LockInv'
  <2>1. proc'[i] = r /\ \A j \in Proc : j # i => proc'[j] = proc[j] BY <1>1, Known, OthersStay
  <2>2. \A j \in Proc : Finished(j) => Finished(j)' BY <1>2, <2>1 DEF Finished
  <2>3. Finished(lock.by) /\ LockInv BY <1>2, <1>6, StaleOver, Known
  <2>4. "reclaim" \notin Locked BY DEF Locked
  <2> QED BY <1>2, <1>3, <2>1, <2>2, <2>3, <2>4 DEF LockInv
<1> QED BY <1>1, <1>2, <1>3, <1>4, <1>5, <1>6, Known, QuietStep

\* The lock that is removed.
LEMMA ReclaimLockStep ==
    ASSUME BuildInv, NEW i \in Proc, ReclaimLock(i)
    PROVE  BuildInv'
<1> DEFINE r == [proc[i] EXCEPT !.pc = "acquire", !.saw = Nil]
<1>0. proc[i] \in ProcState /\ proc \in [Proc -> ProcState] BY Known DEF ProcShape
<1>1. Moves(i, r) BY <1>0 DEF ReclaimLock, Moves
<1>2. /\ UNCHANGED <<src, stamp, artifact, buildIndex, tree, odd, unhashed>>
      /\ stolen' = (stolen \/ (lock # Nil /\ lock.by # proc[i].saw))
      /\ target' = target /\ lock' = Nil /\ proc[i].pc = "reclaim" BY DEF ReclaimLock, files, ProcAt
<1>3. /\ r \in ProcState /\ r.pc = "acquire" /\ r.op = proc[i].op /\ r.arg = proc[i].arg
  BY <1>0, <1>2 DEF ProcState, Pcs
<1> HIDE DEF r
<1>4. ProcInForm(r) BY <1>3, Known DEF ProcInForm, Preparing, Decided
<1>5. ProbeHeld(r) /\ MatchHeld(r) BY <1>3, HoldsNothing
<1>6. ASSUME ~ stolen' PROVE LockInv'
  <2>1. proc'[i] = r /\ \A j \in Proc : j # i => proc'[j] = proc[j] BY <1>1, Known, OthersStay
  <2>2. \A j \in Proc : Finished(j) => Finished(j)' BY <1>2, <2>1 DEF Finished
  <2>3. LockInv /\ (lock # Nil => lock.by = proc[i].saw) /\ Finished(proc[i].saw)
    BY <1>2, <1>6, Known DEF LockInv
  <2>4. \A j \in Proc : proc[j].pc \notin Locked \cup {"sign"} BY <2>3 DEF LockInv, Finished, Locked
  <2>5. "acquire" \notin Locked BY DEF Locked
  <2> QED BY <1>2, <1>3, <2>1, <2>2, <2>3, <2>4, <2>5 DEF LockInv
<1>7. stolen' \in BOOLEAN /\ (stolen => stolen') BY <1>2
<1> QED BY <1>1, <1>2, <1>3, <1>4, <1>5, <1>6, <1>7, Known, QuietStep

\* The lock that a process drops.
LEMMA DropLockStep ==
    ASSUME BuildInv, NEW i \in Proc, DropLock(i)
    PROVE  BuildInv'
<1>1. Moves(i, Over("idle")) BY GotoEnds DEF DropLock
<1>2. /\ UNCHANGED <<files, tree, odd, unhashed, stolen>>
      /\ proc[i].pc = "drop" /\ lock' = DropOwnLock(i) BY DEF DropLock, ghosts, ProcAt
<1>3. lock' \in [by : Proc, text : BOOLEAN] \cup {Nil} BY <1>2, Known DEF DropOwnLock
<1>4. ASSUME ~ stolen PROVE LockInv'
  <2>1. proc'[i] = Over("idle") /\ \A j \in Proc : j # i => proc'[j] = proc[j] BY <1>1, Known, OthersStay
  <2>2. Over("idle").pc = "idle" /\ Over("idle").op = "done" BY OverFields
  <2>3. \A j \in Proc : Finished(j) => Finished(j)' BY <2>1, <2>2 DEF Finished
  <2>4. lock # Nil /\ lock.text /\ lock.by = i /\ LockInv BY <1>2, <1>4, Known DEF LockInv, Locked
  <2>5. lock' = Nil BY <1>2, <2>4 DEF DropOwnLock
  <2>6. \A j \in Proc : j # i => proc[j].pc \notin Locked \cup {"sign"} BY <2>4 DEF LockInv
  <2>7. "idle" \notin Locked BY DEF Locked
  <2> QED BY <2>1, <2>2, <2>3, <2>4, <2>5, <2>6, <2>7 DEF LockInv
<1> QED BY <1>1, <1>2, <1>3, <1>4, EndStep

\* A process that fails.
LEMMA FailStep ==
    ASSUME BuildInv, NEW i \in Proc, SignFails(i) \/ LockTimeout(i) \/ BuildFails(i)
    PROVE  BuildInv'
<1>1. UNCHANGED <<files, tree, odd, unhashed, stolen, lock>>
  BY DEF SignFails, LockTimeout, BuildFails, Fail, ghosts
<1>2. CASE BuildFails(i) BY <1>2, GotoEnds, <1>1, EndStill DEF BuildFails, ProcAt, Finished, Locked
<1>3. CASE SignFails(i) \/ LockTimeout(i)
  BY <1>3, GotoEnds, <1>1, EndStill DEF SignFails, LockTimeout, Fail, ProcAt, Finished
<1> QED BY <1>2, <1>3

\* A process that starts.
LEMMA StartStep ==
    ASSUME BuildInv, NEW i \in Proc,
           NEW op \in {"prepare", "full", "rebuild", "agent", "refresh", "create"},
           NEW p \in Crates \cup {Nil}, Start(i, op, p)
    PROVE  BuildInv'
<1> DEFINE pc == CASE op \in {"prepare", "full", "rebuild"} -> "acquire"
                   [] op = "agent" -> "cargo" [] op = "refresh" -> "hash"
                   [] op = "create" -> "mkdir"
           r == [IdleProc EXCEPT !.op = op, !.arg = p, !.pc = pc]
<1>1. Moves(i, r) BY DEF Start, Moves
<1>2. /\ UNCHANGED <<src, stamp, artifact, buildIndex, tree, odd, unhashed>>
      /\ stolen' = stolen /\ target' = target /\ lock' = lock
      /\ proc[i] = IdleProc /\ (op \in {"rebuild", "agent", "create"} => p \in Crates)
  BY Known DEF Start, ghosts, files, FileShape
<1>3. /\ pc \in {"acquire", "cargo", "hash", "mkdir"}
      /\ pc \in {"cargo", "mkdir"} => op \in {"rebuild", "agent", "create"} OBVIOUS
<1> HIDE DEF pc
<1>4. pc \in Pcs /\ pc \notin Locked BY <1>3 DEF Pcs, Locked
<1>5. r \in ProcState /\ r.pc = pc /\ r.op = op /\ r.arg = p BY <1>4 DEF ProcState, OpNames, IdleProc
<1> HIDE DEF r
<1>6. ProcInForm(r) BY <1>2, <1>3, <1>5 DEF ProcInForm, Preparing, Decided
<1>7. ProbeHeld(r) /\ MatchHeld(r) BY <1>3, <1>5, HoldsNothing
<1>8. ~ Finished(i) /\ proc[i].pc = "idle" /\ "idle" \notin Locked BY <1>2 DEF Finished, IdleProc, Locked
<1>9. ~ stolen => LockInv' BY <1>1, <1>2, <1>3, <1>4, <1>5, <1>8, Known, LockStill
<1> QED BY <1>1, <1>2, <1>3, <1>5, <1>6, <1>7, <1>9, Known, QuietStep

\* What is rebuilt and what is reused.
LEMMA FingerprintStep ==
    ASSUME BuildInv, NEW i \in Proc, Fingerprint(i)
    PROVE  BuildInv'
<1> DEFINE q == proc[i]
           new == {p \in q.plan : DirtyState(i, p)}
           r == [q EXCEPT !.pc = "build", !.dirty = new, !.todo = new, !.fp = src]
<1>0. q \in ProcState /\ proc \in [Proc -> ProcState] BY Known DEF ProcShape
<1>1. Moves(i, r) BY <1>0 DEF Fingerprint, Moves
<1>2. /\ UNCHANGED <<src, stamp, artifact, buildIndex, tree, odd, unhashed>>
      /\ stolen' = stolen /\ target' = target /\ lock' = lock /\ q.pc = "fingerprint"
  BY DEF Fingerprint, ghosts, files, ProcAt
<1>3. new \subseteq Crates /\ src \in [Crates -> Content] /\ stamp \in [Crates -> Nat]
  BY <1>0, Fields, Known DEF FileShape
<1>4. \A p \in q.plan \ new :
          /\ q.idx # Nil /\ p \in DOMAIN q.idx
          /\ q.idx[p].probe = q.probe[p] \/ q.idx[p].fp = src[p] BY DEF DirtyState
<1> HIDE DEF new
<1>5. /\ r \in ProcState /\ r.pc = "build" /\ r.op = q.op /\ r.arg = q.arg /\ r.plan = q.plan
      /\ r.idx = q.idx /\ r.probe = q.probe /\ r.dirty = new /\ r.fp = src
  BY <1>0, <1>3 DEF ProcState, Pcs, Locked
<1> HIDE DEF r
<1>6. Preparing(r) => Preparing(q) BY <1>2, <1>5 DEF Preparing
<1>7. Decided(r) => Preparing(r) BY DEF Decided, Preparing
<1>8. ProcInForm(r) BY <1>3, <1>4, <1>5, <1>6, <1>7, Known DEF ProcInForm
<1>9. ProbeHeld(r)
  <2>1. Preparing(r) => /\ r.idx # Nil => FreshIndex(r.idx)
                        /\ \A p \in Crates : r.probe[p] <= stamp[p] BY <1>5, <1>6, Known DEF ProbeHeld
  <2>2. ASSUME Decided(r), NEW p \in r.plan PROVE Fresh(p, NextFp(r, p), r.probe[p])
    <3>1. r.probe[p] <= stamp[p] BY <1>5, <1>7, <2>1, <2>2, Fields
    <3>2. CASE p \in new BY <1>5, <3>1, <3>2 DEF Fresh, NextFp
    <3>3. CASE p \notin new
      <4>1. r.idx # Nil /\ p \in DOMAIN r.idx /\ (r.idx[p].probe = r.probe[p] \/ r.idx[p].fp = src[p])
        BY <1>4, <1>5, <2>2, <3>3
      <4>2. Fresh(p, r.idx[p].fp, r.idx[p].probe) BY <1>7, <2>1, <2>2, <4>1 DEF FreshIndex
      <4>3. NextFp(r, p) = r.idx[p].fp BY <1>5, <3>3 DEF NextFp
      <4> QED BY <3>1, <4>1, <4>2, <4>3 DEF Fresh
    <3> QED BY <3>2, <3>3
  <2> QED BY <1>5, <2>1, <2>2 DEF ProbeHeld
<1>10. ~ stolen => MatchHeld(r) BY <1>5, <1>6, Known DEF MatchHeld
<1>11. ~ Finished(i) /\ q.pc \in Locked /\ r.pc \in Locked BY <1>2, <1>5 DEF Finished, Locked
<1>12. ~ stolen => LockInv' BY <1>1, <1>2, <1>5, <1>11, Known, LockStill
<1> QED BY <1>1, <1>2, <1>5, <1>8, <1>9, <1>10, <1>12, Known, QuietStep

\* What cargo builds under the lock.
LEMMA BuildStep ==
    ASSUME BuildInv, NEW i \in Proc, Build(i)
    PROVE  BuildInv'
<1> DEFINE q == proc[i]
           built == IF q.op = "rebuild" THEN {q.arg} ELSE q.dirty
           r == [q EXCEPT !.pc = "stage", !.todo = built]
<1>0. q \in ProcState /\ proc \in [Proc -> ProcState] BY Known DEF ProcShape
<1>1. Moves(i, r) BY <1>0 DEF Build, Moves
<1>2. /\ UNCHANGED <<src, stamp, artifact, buildIndex, tree, odd, unhashed>>
      /\ stolen' = stolen /\ lock' = lock /\ q.pc = "build"
      /\ target' = [p \in Crates |-> IF p \in built THEN src[p] ELSE target[p]] BY DEF Build, ghosts, ProcAt
<1>3. built \subseteq Crates /\ (q.op # "rebuild" => built = q.dirty) BY <1>0, Fields, Known DEF ProcInForm
<1>4. target' \in [Crates -> Content] BY <1>2, Known DEF FileShape
<1> HIDE DEF built
<1>5. /\ r \in ProcState /\ r.pc = "stage" /\ r.op = q.op /\ r.arg = q.arg /\ r.plan = q.plan
      /\ r.idx = q.idx /\ r.probe = q.probe /\ r.dirty = q.dirty /\ r.fp = q.fp /\ r.todo = built
  BY <1>0, <1>3 DEF ProcState, Pcs, Locked
<1> HIDE DEF r
<1>6. (Preparing(r) <=> Preparing(q)) /\ (Decided(r) <=> Decided(q)) BY <1>2, <1>5 DEF Preparing, Decided
<1>7. ProcInForm(r) BY <1>5, <1>6, Known DEF ProcInForm
<1>8. ProbeHeld(r) BY <1>5, <1>6, Known DEF ProbeHeld, NextFp
<1>9. ~ stolen => MatchHeld(r) BY <1>3, <1>5, <1>6, Known DEF MatchHeld
<1>10. ~ Finished(i) /\ q.pc \in Locked /\ r.pc \in Locked BY <1>2, <1>5 DEF Finished, Locked
<1>11. ~ stolen => LockInv' BY <1>1, <1>2, <1>5, <1>10, Known, LockStill
<1> QED BY <1>1, <1>2, <1>4, <1>5, <1>7, <1>8, <1>9, <1>11, Known, QuietStep

\* What cargo builds for the agent.
LEMMA AgentCargoStep ==
    ASSUME BuildInv, NEW i \in Proc, AgentCargo(i)
    PROVE  BuildInv'
<1> DEFINE r == [proc[i] EXCEPT !.pc = "sync"]
<1>1. Moves(i, r) BY GotoOn DEF AgentCargo, Pcs, Locked
<1>2. r \in ProcState /\ r.pc = "sync" /\ r.op = proc[i].op /\ r.arg = proc[i].arg BY Known, OnFields, SMTT(30) DEF Pcs
<1> HIDE DEF r
<1>3. /\ UNCHANGED <<src, stamp, artifact, buildIndex, tree, odd, unhashed>>
      /\ stolen' = stolen /\ lock' = lock /\ proc[i].pc = "cargo"
      /\ target' = [target EXCEPT ![proc[i].arg] = src[proc[i].arg]] BY DEF AgentCargo, ghosts, ProcAt
<1>4. proc[i].arg \in Crates BY <1>3, Known DEF ProcInForm
<1>5. target' \in [Crates -> Content] BY <1>3, <1>4, Known DEF FileShape
<1>6. ProcInForm(r) BY <1>2, <1>4, Known DEF ProcInForm, Preparing, Decided
<1>7. ProbeHeld(r) /\ MatchHeld(r) BY <1>2, HoldsNothing
<1>8. ~ Finished(i) /\ "sync" \notin Locked /\ "cargo" \notin Locked BY <1>3 DEF Finished, Locked
<1>9. ~ stolen => LockInv' BY <1>1, <1>2, <1>3, <1>8, Known, LockStill
<1> QED BY <1>1, <1>2, <1>3, <1>5, <1>6, <1>7, <1>9, Known, QuietStep

\* The index that refresh_artifact_index reads.
LEMMA RefreshReadStep ==
    ASSUME BuildInv, NEW i \in Proc, RefreshRead(i)
    PROVE  BuildInv'
<1>1. /\ UNCHANGED <<files, tree, odd, unhashed, stolen, lock>> /\ proc[i].pc = "hash"
  BY DEF RefreshRead, ghosts, ProcAt
<1>2. ~ Finished(i) /\ proc[i].pc \notin Locked BY <1>1 DEF Finished, Locked
<1>3. CASE Goto(i, "idle") BY <1>1, <1>2, <1>3, GotoEnds, EndStill
<1>4. CASE ~ Goto(i, "idle")
  <2> DEFINE x == [p \in DOMAIN buildIndex |-> [buildIndex[p] EXCEPT !.sha = artifact[p]]]
             r == [proc[i] EXCEPT !.pc = "rewrite", !.idx = x]
  <2>0. proc[i] \in ProcState /\ proc \in [Proc -> ProcState] BY Known DEF ProcShape
  <2>1. Moves(i, r) /\ buildIndex # Nil BY <1>4, <2>0 DEF RefreshRead, Moves
  <2>2. buildIndex \in Index /\ FreshIndex(buildIndex) /\ artifact \in [Crates -> Content \cup {Nil}]
    BY <2>1, Known DEF FileShape, BuildInv, ProbeInv
  <2>3. /\ DOMAIN buildIndex \subseteq Crates
        /\ \A p \in DOMAIN buildIndex : buildIndex[p] \in Entry BY <2>2, IndexEntries
  <2>4. \A p \in DOMAIN buildIndex :
            /\ [buildIndex[p] EXCEPT !.sha = artifact[p]] \in Entry
            /\ [buildIndex[p] EXCEPT !.sha = artifact[p]].fp = buildIndex[p].fp
            /\ [buildIndex[p] EXCEPT !.sha = artifact[p]].probe = buildIndex[p].probe BY <2>2, <2>3 DEF Entry
  <2>5. x \in [DOMAIN buildIndex -> Entry] /\ FreshIndex(x) BY <2>2, <2>4 DEF FreshIndex
  <2>6. x \in Index BY <2>3, <2>5 DEF Index
  <2> HIDE DEF x
  <2>7. r \in ProcState /\ r.pc = "rewrite" /\ r.op = proc[i].op /\ r.arg = proc[i].arg /\ r.idx = x
    BY <2>0, <2>6 DEF ProcState, Pcs
  <2> HIDE DEF r
  <2>8. ProcInForm(r) BY <2>6, <2>7, Known DEF ProcInForm, Preparing, Decided
  <2>9. ProbeHeld(r) /\ MatchHeld(r) BY <2>5, <2>7 DEF ProbeHeld, MatchHeld, Preparing, Decided
  <2>10. ~ stolen => LockInv' BY <1>1, <1>2, <2>1, <2>7, Known, LockStill DEF Locked
  <2> QED BY <1>1, <2>1, <2>7, <2>8, <2>9, <2>10, Known, QuietStep DEF files
<1> QED BY <1>3, <1>4

-----------------------------------------------------------------------------
(* Steps of nobody's *)

\* A step that leaves the processes, the lock and the index alone.
LEMMA RestStep ==
    ASSUME BuildInv, FileShape', Ages, Noted,
           UNCHANGED <<buildIndex, lock, members, dirs, mlock, proc, stolen>>
    PROVE  BuildInv'
<1>1. ProcShape' /\ MemberInv' BY DEF BuildInv, ProcShape, MemberInv
<1>2. ProbeInv'
  <2>1. ASSUME buildIndex # Nil PROVE FreshIndex(buildIndex)'
    <3>1. PICK x : x = buildIndex OBVIOUS
    <3>2. x \in Index /\ FreshIndex(x) /\ FileShape BY <2>1, <3>1 DEF BuildInv, FileShape, ProbeInv
    <3>3. FreshIndex(x)' BY <3>2, FreshIndexStays
    <3> QED BY <3>1, <3>3
  <2>2. ASSUME NEW j \in Proc PROVE ProbeHeld(proc[j])'
    <3>1. PICK q : q = proc[j] OBVIOUS
    <3>2. q \in ProcState /\ ProcInForm(q) /\ ProbeHeld(q) /\ FileShape BY <3>1, Known
    <3>3. ProbeHeld(q)' BY <3>2, ProbeHeldStays
    <3> QED BY <3>1, <3>3
  <2> QED BY <2>1, <2>2 DEF ProbeInv
<1>3. ASSUME ~ stolen PROVE LockInv' /\ MatchInv'
  <2>0. LockInv /\ MatchInv BY <1>3 DEF BuildInv
  <2>1. ASSUME buildIndex # Nil PROVE Matches(buildIndex)'
    <3>1. PICK x : x = buildIndex OBVIOUS
    <3>2. x \in Index /\ Matches(x) BY <2>0, <2>1, <3>1 DEF BuildInv, FileShape, MatchInv
    <3>3. Matches(x)' BY <3>2, MatchesStays
    <3> QED BY <3>1, <3>3
  <2>2. ASSUME NEW j \in Proc PROVE MatchHeld(proc[j])'
    <3>1. PICK q : q = proc[j] OBVIOUS
    <3>2. q \in ProcState /\ MatchHeld(q) BY <1>3, <3>1, Known
    <3>3. MatchHeld(q)' BY <3>2, MatchHeldStays
    <3> QED BY <3>1, <3>3
  <2>3. LockInv' BY <2>0 DEF LockInv, Finished
  <2> QED BY <2>1, <2>2, <2>3 DEF MatchInv
<1> QED BY <1>1, <1>2, <1>3 DEF BuildInv

\* An edit.
LEMMA EditStep ==
    ASSUME BuildInv, NEW p \in Crates, Edit(p)
    PROVE  BuildInv'
<1>1. UNCHANGED <<target, artifact, buildIndex, lock, members, whole, dirs, mlock, proc, stolen, unhashed>>
  BY DEF Edit, tree
<1>2. src' = [src EXCEPT ![p] = 1 - src[p]] /\ stamp' = [stamp EXCEPT ![p] = stamp[p] + 1] /\ odd \subseteq odd'
  BY DEF Edit
<1>3. FileShape BY DEF BuildInv
<1>4. src' \in [Crates -> Content] /\ stamp' \in [Crates -> Nat] BY <1>2, <1>3 DEF FileShape, Content
<1>5. FileShape' BY <1>1, <1>3, <1>4 DEF FileShape
<1>6. Ages /\ Noted BY <1>1, <1>2, <1>3 DEF Ages, Noted, FileShape
<1> QED BY <1>1, <1>5, <1>6, RestStep

\* A scaffold that becomes whole.
LEMMA CompleteStep ==
    ASSUME BuildInv, NEW p \in Crates, Complete(p)
    PROVE  BuildInv'
<1>1. UNCHANGED <<src, stamp, target, artifact, buildIndex, lock, members, dirs, mlock, proc, stolen, odd, unhashed>>
  BY DEF Complete, files, ghosts
<1>2. whole' \subseteq dirs BY DEF Complete, BuildInv, FileShape
<1>3. FileShape' /\ Ages /\ Noted BY <1>1, <1>2 DEF BuildInv, FileShape, Ages, Noted
<1> QED BY <1>1, <1>3, RestStep

\* Nothing happens.
LEMMA BuildStutters ==
    ASSUME BuildInv, UNCHANGED buildVars
    PROVE  BuildInv'
<1>1. UNCHANGED <<src, stamp, target, artifact, buildIndex, lock, members, whole, dirs, mlock, proc, stolen, odd, unhashed>>
  BY DEF buildVars, files, tree, ghosts
<1>2. FileShape' /\ Ages /\ Noted BY <1>1 DEF BuildInv, FileShape, Ages, Noted
<1> QED BY <1>1, <1>2, RestStep

-----------------------------------------------------------------------------
(* The manifest *)

\* A step that leaves the files and the lock alone.
LEMMA TreeStep ==
    ASSUME BuildInv, NEW i \in Proc, NEW r \in ProcState, Moves(i, r), ProcInForm(r),
           UNCHANGED <<files, lock, odd, unhashed, stolen>>,
           members' \subseteq dirs', whole' \subseteq dirs', dirs' \subseteq Crates,
           mlock' \in Proc \cup {Nil}, MemberInv', ~ Finished(i),
           r.pc \notin Locked \cup {"sign", "reclaim", "rewrite"},
           proc[i].pc \in Locked \cup {"sign"} => r.op = "done" /\ r.pc \in {"idle", "dead"}
    PROVE  BuildInv'
<1>1. UNCHANGED <<src, stamp, target, artifact, buildIndex, odd, unhashed, lock, stolen>> BY DEF files
<1>2. FileShape' BY <1>1 DEF BuildInv, FileShape
<1>3. ProcShape' BY Known, ShapeStays
<1>4. Ages /\ Noted BY <1>1 DEF Ages, Noted
<1>5. ProbeHeld(r)' /\ MatchHeld(r)' BY HoldsNothing DEF Locked
<1>6. ProbeInv' BY <1>1, <1>4, <1>5, ProbeMoves DEF BuildInv, ProbeInv, FreshIndex, Fresh
<1>7. ASSUME ~ stolen PROVE MatchInv' BY <1>1, <1>7, <1>4, <1>5, MatchMoves DEF BuildInv, MatchInv, Matches
<1>8. ~ stolen => LockInv' BY <1>1, Known, LockStill
<1> QED BY <1>1, <1>2, <1>3, <1>6, <1>7, <1>8 DEF BuildInv

\* A process that ends gives the members back.
LEMMA MemberEnds ==
    ASSUME BuildInv, NEW i \in Proc, NEW pc \in {"idle", "dead"}, Moves(i, Over(pc)),
           UNCHANGED <<files, lock, whole, dirs, odd, unhashed, stolen>>,
           members' \subseteq dirs, mlock' \in {Nil, mlock}, mlock' = mlock \/ mlock = i,
           members' = members \/ mlock = i, ~ Finished(i)
    PROVE  BuildInv'
<1>1. /\ Over(pc) \in ProcState /\ Over(pc).pc = pc /\ Over(pc).op = "done" /\ ProcInForm(Over(pc))
  BY OverFields
<1>2. pc \notin Locked \cup {"sign", "reclaim", "rewrite", "flock", "member"} BY DEF Locked
<1>3. proc'[i] = Over(pc) /\ \A j \in Proc : j # i => proc'[j] = proc[j] BY Known, OthersStay
<1>4. MemberInv'
  <2>1. ASSUME NEW j \in Proc, proc'[j].pc \in {"flock", "member"} PROVE j # i /\ proc'[j].arg \in dirs
    BY <1>1, <1>2, <1>3, <2>1, Known DEF MemberInv
  <2>2. ASSUME NEW j \in Proc, proc'[j].pc = "member" PROVE mlock' = j /\ proc'[j].plan = members'
    BY <1>3, <2>1, <2>2, Known DEF MemberInv
  <2> QED BY <2>1, <2>2 DEF MemberInv
<1>5. members' \subseteq dirs' /\ whole' \subseteq dirs' /\ dirs' \subseteq Crates /\ mlock' \in Proc \cup {Nil}
  BY Known DEF FileShape
<1> QED BY <1>1, <1>2, <1>4, <1>5, TreeStep

\* The directory of a new plugin.
LEMMA MakeDirStep ==
    ASSUME BuildInv, NEW i \in Proc, MakeDir(i)
    PROVE  BuildInv'
<1>1. /\ UNCHANGED <<files, lock, members, whole, mlock, odd, unhashed, stolen>>
      /\ proc[i].pc = "mkdir" /\ proc[i].arg \in Crates BY Known DEF MakeDir, ghosts, ProcAt, ProcInForm
<1>2. ~ Finished(i) /\ proc[i].pc \notin Locked BY <1>1 DEF Finished, Locked
<1>3. members \subseteq dirs /\ whole \subseteq dirs /\ dirs \subseteq Crates /\ mlock \in Proc \cup {Nil}
  BY Known DEF FileShape
<1>4. CASE proc[i].arg \in dirs BY <1>4, GotoEnds, <1>1, <1>2, <1>3, MemberEnds DEF MakeDir
<1>5. CASE proc[i].arg \notin dirs
  <2> DEFINE r == [proc[i] EXCEPT !.pc = "flock"]
  <2>1. Moves(i, r) /\ dirs' = dirs \cup {proc[i].arg} BY <1>5, GotoOn DEF MakeDir, Pcs, Locked
  <2>2. r \in ProcState /\ r.pc = "flock" /\ r.op = proc[i].op /\ r.arg = proc[i].arg
    BY Known, OnFields DEF Pcs
  <2> HIDE DEF r
  <2>3. ProcInForm(r) BY <1>1, <2>2, Known DEF ProcInForm, Preparing, Decided
  <2>4. MemberInv' BY <1>1, <2>1, <2>2, Known, MemberMoves
  <2>5. "flock" \notin Locked BY DEF Locked
  <2> QED BY <1>1, <1>2, <1>3, <2>1, <2>2, <2>3, <2>4, <2>5, TreeStep
<1> QED BY <1>4, <1>5

\* The members that a process reads under the lock.
LEMMA LockManifestStep ==
    ASSUME BuildInv, NEW i \in Proc, LockManifest(i)
    PROVE  BuildInv'
<1> DEFINE r == [proc[i] EXCEPT !.pc = "member", !.plan = members]
<1>0. proc[i] \in ProcState /\ proc \in [Proc -> ProcState] BY Known DEF ProcShape
<1>1. Moves(i, r) BY <1>0 DEF LockManifest, Moves
<1>2. /\ UNCHANGED <<files, lock, members, whole, dirs, odd, unhashed, stolen>>
      /\ proc[i].pc = "flock" /\ mlock = Nil /\ mlock' = i BY DEF LockManifest, FreeManifest, ghosts, ProcAt
<1>3. members \subseteq dirs /\ whole \subseteq dirs /\ dirs \subseteq Crates BY Known DEF FileShape
<1>4. /\ r \in ProcState /\ r.pc = "member" /\ r.op = proc[i].op /\ r.arg = proc[i].arg
      /\ r.plan = members BY <1>0, <1>3 DEF ProcState, Pcs
<1> HIDE DEF r
<1>5. ProcInForm(r) BY <1>2, <1>4, Known DEF ProcInForm, Preparing, Decided
<1>6. ~ Finished(i) /\ proc[i].pc \notin Locked /\ "member" \notin Locked BY <1>2 DEF Finished, Locked
<1>7. MemberInv' BY <1>1, Known, OthersStay, <1>2, BuildAssumption, <1>4 DEF MemberInv
<1> QED BY <1>1, <1>2, <1>3, <1>4, <1>5, <1>6, <1>7, TreeStep

\* The members that it writes.
LEMMA AddMemberStep ==
    ASSUME BuildInv, NEW i \in Proc, AddMember(i)
    PROVE  BuildInv' /\ members \subseteq members'
<1>1. /\ UNCHANGED <<files, lock, whole, dirs, odd, unhashed, stolen>>
      /\ proc[i].pc = "member" /\ members' = proc[i].plan \cup {proc[i].arg} /\ mlock' = Nil
      /\ Moves(i, Over("idle")) BY GotoEnds DEF AddMember, ghosts, ProcAt
<1>2. proc[i].plan = members /\ mlock = i /\ proc[i].arg \in dirs BY <1>1, Known DEF MemberInv
<1>3. members' \subseteq dirs /\ ~ Finished(i) BY <1>1, <1>2, Known DEF FileShape, Finished
<1> QED BY <1>1, <1>2, <1>3, MemberEnds

\* A process that is killed.
LEMMA KilledStep ==
    ASSUME BuildInv, NEW i \in Proc, Killed(i)
    PROVE  BuildInv'
<1>1. /\ UNCHANGED <<files, lock, members, whole, dirs, odd, unhashed, stolen>>
      /\ proc[i].pc \notin {"idle", "dead"} /\ mlock' = (IF mlock = i THEN Nil ELSE mlock)
      /\ Moves(i, Over("dead")) BY GotoEnds DEF Killed
<1>2. members \subseteq dirs /\ ~ Finished(i) BY <1>1, Known DEF FileShape, Finished
<1> QED BY <1>1, <1>2, MemberEnds

-----------------------------------------------------------------------------
(* The artifacts and the index *)

\* A step that changes one process and the files.
LEMMA FileStep ==
    ASSUME BuildInv, NEW i \in Proc, NEW r \in ProcState, Moves(i, r), ProcInForm(r),
           UNCHANGED <<lock, tree, stolen>>, FileShape', Ages,
           buildIndex' # Nil => FreshIndex(buildIndex)', ProbeHeld(r)', ~ stolen => MatchInv',
           ~ Finished(i), r.pc \in Locked => proc[i].pc \in Locked,
           r.pc \notin {"sign", "reclaim", "flock", "member"},
           proc[i].pc \in Locked \cup {"sign"} => r.pc \in Locked
    PROVE  BuildInv'
<1>1. UNCHANGED <<members, whole, dirs, mlock>> BY DEF tree
<1>2. ProcShape' BY Known, ShapeStays
<1>3. MemberInv' BY <1>1, Known, MemberMoves
<1>4. ProbeInv' BY ProbeMoves DEF BuildInv
<1>5. ~ stolen => LockInv' BY Known, LockStill
<1> QED BY <1>2, <1>3, <1>4, <1>5 DEF BuildInv

\* The probes; a full rebuild empties artifacts/.
LEMMA ProbeStep ==
    ASSUME BuildInv, NEW i \in Proc, Probe(i)
    PROVE  BuildInv'
<1> DEFINE full == proc[i].op = "full" \/ buildIndex = Nil
<1>0. proc[i] \in ProcState /\ proc \in [Proc -> ProcState] BY Known DEF ProcShape
<1>1. UNCHANGED <<src, stamp, target, lock, tree, stolen, odd, unhashed>> /\ proc[i].pc = "probe"
  BY DEF Probe, ghosts, ProcAt
<1>2. ~ Finished(i) /\ proc[i].pc \in Locked BY <1>1 DEF Finished, Locked
<1>3. CASE ~ Resolves BY <1>3, <1>1, <1>2, GotoEnds, EndStill DEF Probe, files
<1>4. CASE Resolves
  <2>a. PICK x : x = IF full THEN Nil ELSE buildIndex OBVIOUS
  <2>b. PICK r : r = [proc[i] EXCEPT !.pc = "fingerprint", !.plan = members, !.probe = stamp, !.idx = x]
    OBVIOUS
  <2>1. /\ Moves(i, r) /\ buildIndex' = x
        /\ artifact' = IF full THEN [p \in Crates |-> Nil] ELSE artifact
    BY <1>0, <1>4, <2>a, <2>b DEF Probe, Moves
  <2>2. /\ members \subseteq Crates /\ stamp \in [Crates -> Nat] /\ x \in Index \cup {Nil}
        /\ artifact' \in [Crates -> Content \cup {Nil}] BY <2>1, <2>a, Known DEF FileShape
  <2>3. x # Nil => x = buildIndex /\ x \in Index /\ FreshIndex(x) /\ UNCHANGED <<artifact, buildIndex>>
    BY <2>1, <2>a, Known DEF BuildInv, ProbeInv, FileShape
  <2>4. /\ r \in ProcState /\ r.pc = "fingerprint" /\ r.op = proc[i].op /\ r.arg = proc[i].arg
        /\ r.probe = stamp /\ r.idx = x BY <1>0, <2>2, <2>b DEF ProcState, Pcs, Locked
  <2>5. ProcInForm(r) BY <2>2, <2>4, Known DEF ProcInForm, Preparing, Decided
  <2>6. FileShape' /\ Ages BY <1>1, <2>1, <2>2, Known DEF FileShape, Ages, tree
  <2>7. x # Nil => FreshIndex(x)' BY <2>3, <2>6, Known, FreshIndexStays
  <2>8. ProbeHeld(r)' BY <1>1, <2>2, <2>4, <2>7 DEF ProbeHeld, Decided
  <2>9. buildIndex' # Nil => FreshIndex(buildIndex)' BY <2>1, <2>7
  <2>10. ASSUME ~ stolen PROVE MatchInv'
    <3>1. x # Nil => Matches(x)' BY <1>1, <2>3, <2>10, Known DEF MatchInv, Matches
    <3>2. MatchHeld(r)' BY <2>4, <3>1 DEF MatchHeld
    <3>3. buildIndex' # Nil => Matches(buildIndex)' BY <2>1, <3>1
    <3> QED BY <1>2, <2>1, <2>10, <3>2, <3>3, Known, MatchAlone
  <2>11. r.pc \in Locked BY <2>4 DEF Locked
  <2> QED BY <1>1, <1>2, <2>1, <2>4, <2>5, <2>6, <2>8, <2>9, <2>10, <2>11, FileStep
<1> QED BY <1>3, <1>4

\* A library put in place, with its contract accepted or not.
LEMMA StageArtifactStep ==
    ASSUME BuildInv, NEW i \in Proc, NEW p \in Crates, NEW ok \in BOOLEAN, StageArtifact(i, p, ok)
    PROVE  BuildInv'
<1> DEFINE q == proc[i]
<1>a. PICK s : s = [q EXCEPT !.todo = q.todo \ {p}] OBVIOUS
<1>b. PICK r : r = IF ok THEN s ELSE Over("drop") OBVIOUS
<1>0. q \in ProcState /\ proc \in [Proc -> ProcState] BY Known DEF ProcShape
<1>1. /\ UNCHANGED <<src, target, buildIndex, lock, tree, stolen>>
      /\ q.pc = "stage" /\ p \in q.todo
      /\ artifact' = [artifact EXCEPT ![p] = target[p]]
      /\ stamp' = stamp \/ stamp' = [stamp EXCEPT ![p] = stamp[p] + 1]
      /\ odd' = odd \cup {p} /\ unhashed' = unhashed \cup {p} BY DEF StageArtifact, ProcAt
<1>2. Moves(i, r)
  <2>1. CASE ok BY <1>0, <1>a, <1>b, <2>1 DEF StageArtifact, Moves
  <2>2. CASE ~ ok BY <1>b, <2>2, GotoEnds DEF StageArtifact
  <2> QED BY <2>1, <2>2
<1>3. /\ s \in ProcState /\ s.pc = "stage" /\ s.op = q.op /\ s.arg = q.arg /\ s.plan = q.plan
      /\ s.idx = q.idx /\ s.probe = q.probe /\ s.dirty = q.dirty /\ s.fp = q.fp
      /\ s.todo = q.todo \ {p} BY <1>0, Fields, <1>1, <1>a DEF ProcState
<1>4. /\ Over("drop") \in ProcState /\ Over("drop").pc = "drop" /\ ProcInForm(Over("drop")) BY OverFields
<1>5. r = s \/ r = Over("drop") BY <1>b
<1>6. (Preparing(s) <=> Preparing(q)) /\ (Decided(s) <=> Decided(q)) BY <1>1, <1>3 DEF Preparing, Decided
<1>7. ProcInForm(s) /\ ProbeHeld(s) BY <1>1, <1>3, <1>6, Known DEF ProcInForm, ProbeHeld, NextFp
<1>8. FileShape' /\ Ages /\ Noted BY <1>1, Known DEF FileShape, tree, Ages, Noted
<1>9. r \in ProcState /\ ProcInForm(r) BY <1>3, <1>4, <1>5, <1>7
<1>10. ProbeHeld(r)' BY <1>3, <1>7, <1>8, Known, ProbeHeldStays, <1>4, HoldsNothing, <1>5
<1>11. buildIndex' # Nil => FreshIndex(buildIndex)'
  <2>1. PICK x : x = buildIndex OBVIOUS
  <2>2. x # Nil => x \in Index /\ FreshIndex(x) BY <2>1, Known DEF BuildInv, ProbeInv, FileShape
  <2>3. x # Nil => FreshIndex(x)' BY <1>8, <2>2, Known, FreshIndexStays
  <2> QED BY <1>1, <2>1, <2>3
<1>12. ASSUME ~ stolen PROVE MatchInv'
  <2>1. MatchHeld(s)' BY <1>3, <1>6, <1>12, Known, Fields, <1>8, MatchesStays, <1>1 DEF MatchHeld
  <2>2. MatchHeld(Over("drop"))' BY <1>4, HoldsNothing
  <2>3. MatchHeld(r)' BY <1>5, <2>1, <2>2
  <2>4. buildIndex' # Nil => Matches(buildIndex)'
    <3>1. PICK x : x = buildIndex OBVIOUS
    <3>2. x # Nil => x \in Index /\ Matches(x) BY <1>12, <3>1, Known DEF MatchInv, FileShape
    <3>3. x # Nil => Matches(x)' BY <1>8, <3>2, MatchesStays
    <3> QED BY <1>1, <3>1, <3>3
  <2> QED BY <1>2, <1>8, <1>12, <2>3, <2>4, Known, MatchMoves
<1>13. ~ Finished(i) /\ q.pc \in Locked /\ r.pc \in {"stage", "drop"} /\ r.pc \in Locked
  BY <1>1, <1>3, <1>4, <1>5 DEF Finished, Locked
<1> QED BY <1>1, <1>2, <1>8, <1>9, <1>10, <1>11, <1>12, <1>13, FileStep

\* A process that ends under the lock, with a new index.
LEMMA IndexStep ==
    ASSUME BuildInv, NEW i \in Proc, Moves(i, Over("drop")), proc[i].pc = "stage",
           UNCHANGED <<src, stamp, target, artifact, lock, tree, stolen>>,
           buildIndex' \in Index \cup {Nil}, buildIndex' # Nil => FreshIndex(buildIndex'),
           ~ stolen /\ buildIndex' # Nil => Matches(buildIndex)'
    PROVE  BuildInv'
<1>1. /\ Over("drop") \in ProcState /\ Over("drop").pc = "drop" /\ ProcInForm(Over("drop")) BY OverFields
<1>2. ProbeHeld(Over("drop"))' /\ MatchHeld(Over("drop"))' BY <1>1, HoldsNothing
<1>3. FileShape' /\ Ages BY Known DEF FileShape, Ages, tree
<1>4. proc[i].pc \in Locked /\ ~ Finished(i) /\ "drop" \in Locked BY DEF Finished, Locked
<1>5. ~ stolen => MatchInv' BY <1>2, <1>4, Known, MatchAlone
<1>6. buildIndex' # Nil => FreshIndex(buildIndex)' BY DEF FreshIndex, Fresh
<1> QED BY <1>1, <1>2, <1>3, <1>4, <1>5, <1>6, FileStep

\* The index that a prepare writes.
LEMMA WriteIndexStep ==
    ASSUME BuildInv, NEW i \in Proc, WriteIndex(i)
    PROVE  BuildInv'
<1> DEFINE q == proc[i]
           x == [p \in q.plan |-> NextEntry(i, p)]
<1>1. /\ UNCHANGED <<src, stamp, target, artifact, lock, tree, stolen>>
      /\ q.pc = "stage" /\ q.todo = {} /\ q.op # "rebuild" /\ buildIndex' = x
      /\ odd' = odd \ {p \in q.dirty : artifact[p] = q.fp[p]} /\ unhashed' = unhashed \ q.dirty
      /\ Moves(i, Over("drop")) BY GotoEnds DEF WriteIndex, ProcAt
<1>2. q \in ProcState /\ ProcInForm(q) /\ ProbeHeld(q) /\ Preparing(q) /\ Decided(q)
  BY <1>1, Known DEF Preparing, Decided
<1>3. /\ q.plan \in SUBSET Crates /\ q.probe \in [Crates -> Nat] /\ q.fp \in [Crates -> Content]
      /\ artifact \in [Crates -> Content \cup {Nil}] BY <1>2, Fields, Known DEF ProcInForm, FileShape
<1>4. ASSUME NEW p \in q.plan, p \notin q.dirty
      PROVE  q.idx # Nil /\ q.idx \in Index /\ p \in DOMAIN q.idx /\ q.idx[p] \in Entry
  BY <1>2, <1>4, Fields, IndexEntries DEF ProcInForm
<1>5. ASSUME NEW p \in q.plan
      PROVE  /\ NextEntry(i, p) \in Entry
             /\ NextEntry(i, p).fp = NextFp(q, p) /\ NextEntry(i, p).probe = q.probe[p]
             /\ NextEntry(i, p).sha = IF p \in q.dirty THEN artifact[p] ELSE q.idx[p].sha
  <2>0. p \in Crates /\ q.probe[p] \in Nat /\ q.fp[p] \in Content /\ artifact[p] \in Content \cup {Nil}
    BY <1>3
  <2>1. CASE p \in q.dirty BY <2>0, <2>1 DEF NextEntry, NextFp, Entry
  <2>2. CASE p \notin q.dirty
    <3>1. PICK e : e = q.idx[p] /\ e \in Entry BY <1>4, <2>2
    <3>2. NextEntry(i, p) = [e EXCEPT !.probe = q.probe[p]] BY <2>2, <3>1 DEF NextEntry
    <3>3. NextEntry(i, p) \in Entry /\ NextEntry(i, p).fp = e.fp /\ NextEntry(i, p).probe = q.probe[p]
          /\ NextEntry(i, p).sha = e.sha BY <2>0, <3>1, <3>2 DEF Entry
    <3> QED BY <2>2, <3>1, <3>3 DEF NextFp
  <2> QED BY <2>1, <2>2
<1>6. x \in Index BY <1>5, <1>3 DEF Index
<1>7. FreshIndex(x) BY <1>2, <1>5 DEF FreshIndex, ProbeHeld
<1>8. ASSUME ~ stolen PROVE Matches(buildIndex)'
  <2>1. MatchHeld(q) BY <1>8, Known
  <2>2. q.dirty \subseteq odd BY <1>1, <2>1 DEF MatchHeld
  <2>3. ASSUME NEW p \in q.plan
        PROVE  /\ x[p].sha = artifact[p] \/ p \in unhashed'
               /\ x[p].fp = artifact[p] \/ artifact[p] = Nil \/ p \in odd'
    <3>1. x[p].fp = NextFp(q, p) /\ x[p].sha = IF p \in q.dirty THEN artifact[p] ELSE q.idx[p].sha BY <1>5
    <3>2. CASE p \in q.dirty BY <1>1, <2>2, <3>1, <3>2 DEF NextFp
    <3>3. CASE p \notin q.dirty BY <1>2, <1>4, <2>1, <3>3, <1>1, <3>1 DEF MatchHeld, Matches, NextFp
    <3> QED BY <3>2, <3>3
  <2> QED BY <1>1, <2>3 DEF Matches
<1> HIDE DEF x
<1> QED BY <1>1, <1>6, <1>7, <1>8, IndexStep

\* The hash that a rebuild renews.
LEMMA RefreshHashStep ==
    ASSUME BuildInv, NEW i \in Proc, RefreshHash(i)
    PROVE  BuildInv'
<1> DEFINE a == proc[i].arg
           b == buildIndex
<1>1. /\ UNCHANGED <<src, stamp, target, artifact, lock, tree, stolen, odd>>
      /\ proc[i].pc = "stage" /\ buildIndex' = RefreshOne(a) /\ unhashed' = unhashed \ {a}
      /\ Moves(i, Over("drop")) BY GotoEnds DEF RefreshHash, ProcAt
<1>2. b # Nil => b \in Index /\ FreshIndex(b) BY Known DEF FileShape, BuildInv, ProbeInv
<1>3. CASE b # Nil /\ a \in DOMAIN b
  <2> DEFINE x == [b EXCEPT ![a].sha = artifact[a]]
  <2>0. buildIndex' = x BY <1>1, <1>3 DEF RefreshOne
  <2>1. PICK D \in SUBSET Crates : b \in [D -> Entry] BY <1>2, <1>3 DEF Index
  <2>2. PICK e : e = b[a] /\ e \in Entry BY <1>3, <2>1
  <2>3. PICK f : f = [e EXCEPT !.sha = artifact[a]] OBVIOUS
  <2>4. artifact[a] \in Content \cup {Nil} BY <1>3, <2>1, Known DEF FileShape
  <2>5. f \in Entry /\ f.sha = artifact[a] /\ f.fp = e.fp /\ f.probe = e.probe BY <2>2, <2>3, <2>4 DEF Entry
  <2>6. x = [b EXCEPT ![a] = f] BY <2>2, <2>3
  <2>7. x \in [D -> Entry] /\ x[a] = f /\ \A p \in D : p # a => x[p] = b[p] BY <1>3, <2>1, <2>5, <2>6
  <2> HIDE DEF x
  <2>8. x \in Index BY <2>7 DEF Index
  <2>9. FreshIndex(x) BY <1>2, <1>3, <2>1, <2>2, <2>5, <2>7 DEF FreshIndex
  <2>10. ASSUME ~ stolen PROVE Matches(buildIndex)'
    <3>1. Matches(b) BY <1>3, <2>10, Known DEF MatchInv
    <3>2. ASSUME NEW p \in D
          PROVE  /\ x[p].sha = artifact[p] \/ p \in unhashed'
                 /\ x[p].fp = artifact[p] \/ artifact[p] = Nil \/ p \in odd'
      BY <1>1, <2>1, <2>2, <2>5, <2>7, <3>1 DEF Matches
    <3> QED BY <1>1, <2>0, <2>7, <3>2 DEF Matches
  <2> QED BY <1>1, <2>0, <2>8, <2>9, <2>10, IndexStep
<1>4. CASE ~ (b # Nil /\ a \in DOMAIN b)
  <2>1. buildIndex' = b BY <1>1, <1>4 DEF RefreshOne
  <2>2. ASSUME ~ stolen, b # Nil PROVE Matches(buildIndex)'
    BY <1>1, <1>4, <2>1, <2>2, Known DEF MatchInv, Matches
  <2> QED BY <1>1, <1>2, <2>1, <2>2, Known, IndexStep DEF FileShape
<1> QED BY <1>3, <1>4

\* A library that the agent puts in place without the lock.
LEMMA AgentSyncStep ==
    ASSUME BuildInv, NEW i \in Proc, AgentSync(i)
    PROVE  BuildInv'
<1> DEFINE a == proc[i].arg
<1>1. /\ UNCHANGED <<src, stamp, target, buildIndex, lock, tree, stolen>>
      /\ proc[i].pc = "sync" /\ artifact' = [artifact EXCEPT ![a] = target[a]]
      /\ odd' = odd \cup {a} /\ unhashed' = unhashed \cup {a}
      /\ Moves(i, Over("idle")) /\ a \in Crates BY GotoEnds, Known DEF AgentSync, ProcAt, ProcInForm
<1>2. FileShape' /\ Ages /\ Noted BY <1>1, Known DEF FileShape, tree, Ages, Noted
<1>3. /\ Over("idle") \in ProcState /\ Over("idle").pc = "idle" /\ ProcInForm(Over("idle")) BY OverFields
<1>4. ProbeHeld(Over("idle"))' /\ MatchHeld(Over("idle"))' BY <1>3, HoldsNothing
<1>5. buildIndex' # Nil => FreshIndex(buildIndex)' BY <1>1, Known DEF BuildInv, ProbeInv, FreshIndex, Fresh
<1>6. ASSUME ~ stolen PROVE MatchInv'
  <2>1. buildIndex' # Nil => Matches(buildIndex)'
    <3>1. PICK x : x = buildIndex OBVIOUS
    <3>2. x # Nil => x \in Index /\ Matches(x) BY <1>6, <3>1, Known DEF MatchInv, FileShape
    <3>3. x # Nil => Matches(x)' BY <1>2, <3>2, MatchesStays
    <3> QED BY <1>1, <3>1, <3>3
  <2> QED BY <1>1, <1>2, <1>4, <1>6, <2>1, Known, MatchMoves
<1>7. ~ Finished(i) /\ proc[i].pc \notin Locked \cup {"sign"} /\ "idle" \notin Locked
  BY <1>1 DEF Finished, Locked
<1> QED BY <1>1, <1>2, <1>3, <1>4, <1>5, <1>6, <1>7, FileStep

\* The index that refresh_artifact_index writes back.
LEMMA RefreshWriteStep ==
    ASSUME BuildInv, NEW i \in Proc, RefreshWrite(i)
    PROVE  BuildInv'
<1> DEFINE b == buildIndex
<1>0. PICK x : x = proc[i].idx OBVIOUS
<1>1. /\ UNCHANGED <<src, stamp, target, artifact, lock, tree, stolen>>
      /\ proc[i].pc = "rewrite" /\ buildIndex' = x /\ Moves(i, Over("idle"))
      /\ odd \subseteq odd' /\ unhashed \subseteq unhashed'
      /\ \A p \in DOMAIN x : \/ p \in odd' /\ p \in unhashed'
                             \/ /\ b # Nil /\ p \in DOMAIN b
                                /\ x[p] = [b[p] EXCEPT !.sha = artifact[p]]
  BY <1>0, GotoEnds DEF RefreshWrite, ProcAt
<1>2. x \in Index /\ FreshIndex(x) BY <1>0, <1>1, Known DEF ProcInForm, ProbeHeld
<1>3. FileShape' /\ Ages /\ Noted BY <1>1, <1>2, Known DEF FileShape, Ages, Noted, tree
<1>4. /\ Over("idle") \in ProcState /\ Over("idle").pc = "idle" /\ ProcInForm(Over("idle")) BY OverFields
<1>5. ProbeHeld(Over("idle"))' /\ MatchHeld(Over("idle"))' BY <1>4, HoldsNothing
<1>6. FreshIndex(buildIndex)' BY <1>1, <1>2 DEF FreshIndex, Fresh
<1>7. ASSUME ~ stolen PROVE MatchInv'
  <2>1. ASSUME NEW p \in DOMAIN x
        PROVE  /\ x[p].sha = artifact[p] \/ p \in unhashed'
               /\ x[p].fp = artifact[p] \/ artifact[p] = Nil \/ p \in odd'
    <3>1. CASE p \in odd' /\ p \in unhashed' BY <3>1
    <3>2. CASE b # Nil /\ p \in DOMAIN b /\ x[p] = [b[p] EXCEPT !.sha = artifact[p]]
      <4>1. b \in Index /\ Matches(b) BY <1>7, <3>2, Known DEF MatchInv, FileShape
      <4>2. PICK e : e = b[p] /\ e \in Entry BY <3>2, <4>1, IndexEntries
      <4>3. x[p] = [e EXCEPT !.sha = artifact[p]] BY <3>2, <4>2
      <4>4. x[p].sha = artifact[p] /\ x[p].fp = e.fp BY <4>2, <4>3 DEF Entry
      <4> QED BY <1>1, <3>2, <4>1, <4>2, <4>4 DEF Matches
    <3> QED BY <1>1, <3>1, <3>2
  <2>2. Matches(buildIndex)' BY <1>1, <2>1 DEF Matches
  <2> QED BY <1>1, <1>3, <1>5, <1>7, <2>2, Known, MatchMoves
<1>8. ~ Finished(i) /\ proc[i].pc \notin Locked \cup {"sign"} /\ "idle" \notin Locked
  BY <1>1 DEF Finished, Locked
<1> QED BY <1>1, <1>3, <1>4, <1>5, <1>6, <1>7, <1>8, FileStep

-----------------------------------------------------------------------------
(* Every step *)

\* The invariant holds at the start.
LEMMA BuildStarts ==
    ASSUME BuildInit
    PROVE  BuildInv
<1>1. \A i \in Proc : proc[i] = IdleProc BY DEF BuildInit
<1>2. IdleProc \in ProcState /\ IdleProc.pc = "idle" /\ IdleProc.op = "none"
  BY DEF IdleProc, ProcState, Pcs, OpNames
<1>3. ProcInForm(IdleProc) /\ ProbeHeld(IdleProc) /\ MatchHeld(IdleProc)
  BY <1>2, HoldsNothing DEF ProcInForm, Preparing, Decided
<1>4. ProcShape BY <1>1, <1>2, <1>3 DEF BuildInit, ProcShape
<1>5. ASSUME buildIndex # Nil
      PROVE  buildIndex \in Index /\ FreshIndex(buildIndex) /\ Matches(buildIndex)
  <2>1. PICK e : e = [sha |-> 0, fp |-> 0, probe |-> 0] OBVIOUS
  <2>2. e \in Entry /\ e.sha = 0 /\ e.fp = 0 /\ e.probe = 0 BY <2>1 DEF Entry, Content
  <2>3. buildIndex = [p \in Shipped |-> e] /\ Shipped \subseteq Crates
    BY <1>5, <2>1, BuildAssumption DEF BuildInit
  <2>4. buildIndex \in [Shipped -> Entry] BY <2>2, <2>3
  <2>5. \A p \in Shipped : buildIndex[p] = e /\ stamp[p] = 0 /\ src[p] = 0 /\ artifact[p] = 0
    BY <2>3 DEF BuildInit
  <2>6. buildIndex \in Index BY <2>3, <2>4 DEF Index
  <2>7. FreshIndex(buildIndex) BY <2>2, <2>4, <2>5 DEF FreshIndex, Fresh
  <2>8. Matches(buildIndex) BY <2>2, <2>4, <2>5 DEF Matches
  <2> QED BY <2>6, <2>7, <2>8
<1>6. FileShape BY <1>5, BuildAssumption DEF BuildInit, Content, FileShape
<1>7. MemberInv /\ LockInv BY <1>1, <1>2 DEF MemberInv, LockInv, BuildInit, Locked
<1>8. ProbeInv /\ MatchInv BY <1>1, <1>3, <1>5 DEF ProbeInv, MatchInv
<1> QED BY <1>4, <1>6, <1>7, <1>8 DEF BuildInv

\* A step of a process keeps it.
LEMMA StepKeeps ==
    ASSUME BuildInv, NEW i \in Proc, Step(i)
    PROVE  BuildInv'
<1>1. CASE CreateLock(i) \/ SignLock(i) \/ InspectLock(i) \/ ReclaimLock(i) \/ DropLock(i)
  BY <1>1, CreateLockStep, SignLockStep, InspectLockStep, ReclaimLockStep, DropLockStep
<1>2. CASE SignFails(i) \/ LockTimeout(i) \/ BuildFails(i) BY <1>2, FailStep
<1>3. CASE Probe(i) \/ Fingerprint(i) \/ Build(i) \/ WriteIndex(i) \/ RefreshHash(i)
  BY <1>3, ProbeStep, FingerprintStep, BuildStep, WriteIndexStep, RefreshHashStep
<1>4. CASE \E p \in Crates, ok \in BOOLEAN : StageArtifact(i, p, ok) BY <1>4, StageArtifactStep
<1>5. CASE AgentCargo(i) \/ AgentSync(i) \/ RefreshRead(i) \/ RefreshWrite(i)
  BY <1>5, AgentCargoStep, AgentSyncStep, RefreshReadStep, RefreshWriteStep
<1>6. CASE MakeDir(i) \/ LockManifest(i) \/ AddMember(i) BY <1>6, MakeDirStep, LockManifestStep, AddMemberStep
<1> QED BY <1>1, <1>2, <1>3, <1>4, <1>5, <1>6 DEF Step

\* Every step keeps it.
LEMMA BuildKeeps ==
    ASSUME BuildInv, [BuildNext]_buildVars
    PROVE  BuildInv'
<1>1. CASE \E p \in Crates : Edit(p) \/ Complete(p) BY <1>1, EditStep, CompleteStep
<1>2. CASE \E i \in Proc, op \in {"prepare", "full", "rebuild", "agent", "refresh", "create"},
              p \in Crates \cup {Nil} : Start(i, op, p) BY <1>2, StartStep
<1>3. CASE \E i \in Proc : Step(i) \/ Killed(i) BY <1>3, StepKeeps, KilledStep
<1>4. CASE UNCHANGED buildVars BY <1>4, BuildStutters
<1> QED BY <1>1, <1>2, <1>3, <1>4 DEF BuildNext

\* It has the properties.
LEMMA BuildInvSound ==
    ASSUME BuildInv
    PROVE  BuildsSound
<1>1. BuildTypeOK BY Known, Fields, IndexEntries DEF BuildInv, FileShape, BuildTypeOK
<1>2. SoleBuilder
  <2>1. CASE Holders = {} BY <2>1, FS_EmptySet DEF SoleBuilder
  <2>2. CASE ~ stolen /\ Holders # {}
    <3>1. PICK i \in Proc : i \in Holders /\ proc[i].pc \in Locked BY <2>2 DEF Holders
    <3>2. \A j \in Holders : j = i BY <2>2, <3>1, OneInside DEF BuildInv, Holders
    <3>3. Holders = {i} BY <3>1, <3>2
    <3>4. Cardinality(Holders) = 1 BY <3>3, FS_Singleton
    <3> QED BY <3>4 DEF SoleBuilder
  <2> QED BY <2>1, <2>2 DEF SoleBuilder
<1>3. ASSUME ~ stolen, buildIndex # Nil, NEW p \in DOMAIN buildIndex
      PROVE  /\ buildIndex[p].sha = artifact[p] \/ p \in unhashed
             /\ buildIndex[p].fp = artifact[p] \/ artifact[p] = Nil \/ p \in odd
             /\ buildIndex[p].probe = stamp[p] => buildIndex[p].fp = src[p]
  BY <1>3 DEF BuildInv, MatchInv, ProbeInv, Matches, FreshIndex, Fresh
<1>4. IndexMatches /\ ReusedIsCurrent BY <1>3 DEF IndexMatches, ReusedIsCurrent
<1> QED BY <1>1, <1>2, <1>4 DEF BuildsSound

\* Under any number of processes, crashes and edits, the build lock of
\* tooling.rs lets one builder in unless a reclaim removed a living lock, and
\* the index describes the artifacts that are not noted as staged without it.
THEOREM BuildsAreSound == BuildSpec => []BuildsSound
<1>1. BuildInit => BuildInv BY BuildStarts
<1>2. BuildInv /\ [BuildNext]_buildVars => BuildInv' BY BuildKeeps
<1>3. BuildInv => BuildsSound BY BuildInvSound
<1> QED BY <1>1, <1>2, <1>3, PTL DEF BuildSpec

\* Only create_plugin writes the members, from what it read under the flock of
\* Cargo.toml.create-lock.
LEMMA OnlyAdds ==
    ASSUME BuildInv, [BuildNext]_buildVars
    PROVE  [members \subseteq members']_buildVars
<1>1. ASSUME NEW i \in Proc, Step(i) PROVE UNCHANGED members \/ AddMember(i)
  BY <1>1 DEF Step, CreateLock, SignLock, SignFails, InspectLock, ReclaimLock, LockTimeout, DropLock,
              Fail, Probe, Fingerprint, Build, BuildFails, WriteIndex, RefreshHash, StageArtifact,
              AgentCargo, AgentSync, RefreshRead, RefreshWrite, MakeDir, LockManifest, tree
<1>2. UNCHANGED members \/ \E i \in Proc : AddMember(i)
  <2>1. CASE \E p \in Crates : Edit(p) \/ Complete(p) BY <2>1 DEF Edit, Complete, tree
  <2>2. CASE \E i \in Proc, op \in {"prepare", "full", "rebuild", "agent", "refresh", "create"},
                p \in Crates \cup {Nil} : Start(i, op, p) BY <2>2 DEF Start, tree
  <2>3. CASE \E i \in Proc : Step(i) \/ Killed(i) BY <1>1, <2>3 DEF Killed
  <2>4. CASE UNCHANGED buildVars BY <2>4 DEF buildVars, tree
  <2> QED BY <2>1, <2>2, <2>3, <2>4 DEF BuildNext
<1>3. members \subseteq members' BY <1>2, AddMemberStep
<1> QED BY <1>3

\* Concurrent create_plugin calls, killed or not, never lose a member of the
\* workspace.
THEOREM MembersKept == BuildSpec => NoMemberLost
<1>1. BuildInit => BuildInv BY BuildStarts
<1>2. BuildInv /\ [BuildNext]_buildVars => BuildInv' BY BuildKeeps
<1>3. BuildInv /\ [BuildNext]_buildVars => [members \subseteq members']_buildVars BY OnlyAdds
<1> QED BY <1>1, <1>2, <1>3, PTL DEF BuildSpec, NoMemberLost

-----------------------------------------------------------------------------
(* PackageResolver: the graph that the loader gets *)

Frame == [path : PluginPath, left : Seq(Child)]
Edge == [from : PluginPath, to : Seq(Names), required : BOOLEAN, grants : SUBSET STRING]

\* The shapes of the variables: what is in the graph are paths of the workspace,
\* and a plugin whose children are visited is in the graph.
WalkTypes ==
    /\ DOMAIN manifest \subseteq PluginPath
    /\ \A p \in DOMAIN manifest : manifest[p].children \in Seq(Child)
    /\ toVisit \in Seq(Seq(Names))
    /\ frames \in Seq(Frame)
    /\ order \in Seq(PluginPath)
    /\ DOMAIN plugins \subseteq PluginPath
    /\ \A i \in 1..Len(frames) : frames[i].path \in DOMAIN plugins

\* Every plugin of the graph has one place in the loading order.
Listed ==
    /\ \A i, j \in 1..Len(order) : order[i] = order[j] => i = j
    /\ \A i \in 1..Len(order) : order[i] \in DOMAIN plugins
    /\ \A p \in DOMAIN plugins : \E i \in 1..Len(order) : order[i] = p

\* An edge goes to a plugin one level below.
EdgesDown ==
    /\ children \in Seq(Edge)
    /\ \A i \in 1..Len(children) :
          children[i].to \in DOMAIN plugins /\ Len(children[i].to) = Len(children[i].from) + 1

\* A parent is the path without its last name and has been listed before.
ParentsFirst ==
    \A p \in DOMAIN plugins : plugins[p].parent # NoParent =>
        /\ plugins[p].parent = Front(p)
        /\ \E i, j \in 1..Len(order) : i < j /\ order[i] = plugins[p].parent /\ order[j] = p

\* A walk that has ended well has compared the crate names.
CratesDiffer ==
    outcome = "ok" => \A p, q \in DOMAIN plugins : CrateName(p) = CrateName(q) => p = q

WalkInv == WalkTypes /\ Listed /\ EdgesDown /\ ParentsFirst /\ CratesDiffer

\* A plugin path is a sequence of names that is not empty.
LEMMA PathIsSeq ==
    ASSUME NEW p \in PluginPath
    PROVE  p \in Seq(Names) /\ Len(p) \in Nat \ {0} /\ p # NoParent
<1>1. PICK d \in 1..MaxDepth : p \in [1..d -> Names] BY DEF PluginPath
<1>2. d \in Nat \ {0} /\ p \in Seq(Names) /\ Len(p) = d BY <1>1, ResolverAssumption
<1> QED BY <1>2 DEF NoParent

\* A sequence without its last element.
LEMMA FrontOf ==
    ASSUME NEW S, NEW s \in Seq(S), s # <<>>
    PROVE  /\ Front(s) \in Seq(S) /\ Len(Front(s)) = Len(s) - 1 /\ Len(s) \in Nat \ {0}
           /\ \A i \in 1..Len(Front(s)) : Front(s)[i] = s[i]
<1>1. Len(s) \in Nat \ {0} /\ \A i \in 1..Len(s) - 1 : s[i] \in S BY EmptySeq
<1> DEFINE n == Len(s) - 1
<1>2. n \in Nat /\ 1 \in Int /\ n \in Int /\ \A i \in 1..n : s[i] \in S BY <1>1
<1> HIDE DEF n
<1>3. /\ SubSeq(s, 1, n) \in Seq(S) /\ Len(SubSeq(s, 1, n)) = n
      /\ \A i \in 1..n : SubSeq(s, 1, n)[i] = s[i] BY <1>2, SubSeqProperties
<1> QED BY <1>1, <1>3 DEF Front, n

\* The parent of a path that goes on with one name.
LEMMA FrontOfChild ==
    ASSUME NEW S, NEW s \in Seq(S), NEW t \in Seq(S), Len(t) = 1
    PROVE  s \o t \in Seq(S) /\ Len(s \o t) = Len(s) + 1 /\ Front(s \o t) = s
<1>1. s \o t \in Seq(S) /\ Len(s \o t) = Len(s) + 1
      /\ \A i \in 1..Len(s) : (s \o t)[i] = s[i] BY ConcatProperties, SMTT(30)
<1>2. Front(s \o t) \in Seq(S) /\ Len(Front(s \o t)) = Len(s)
      /\ \A i \in 1..Len(s) : Front(s \o t)[i] = s[i]
  <2> DEFINE u == s \o t
  <2>1. u \in Seq(S) /\ Len(u) = Len(s) + 1 /\ \A i \in 1..Len(s) : u[i] = s[i] BY <1>1
  <2> HIDE DEF u
  <2>2. u # <<>> BY <2>1
  <2>3. Front(u) \in Seq(S) /\ Len(Front(u)) = Len(s) /\ \A i \in 1..Len(s) : Front(u)[i] = s[i]
    <3> DEFINE v == Front(u)
    <3>1. v \in Seq(S) /\ Len(v) = Len(u) - 1 /\ \A i \in 1..Len(v) : v[i] = u[i]
      BY <2>1, <2>2, FrontOf, Zenon
    <3> HIDE DEF v
    <3>2. Len(v) = Len(s) BY <2>1, <3>1
    <3> QED BY <2>1, <3>1, <3>2 DEF v
  <2> QED BY <2>3 DEF u
<1>3. Front(s \o t) = s BY <1>2
<1> QED BY <1>1, <1>3

LEMMA WalkInitially == ResolveInit => WalkInv
<1> SUFFICES ASSUME ResolveInit PROVE WalkInv OBVIOUS
<1>1. PICK roots \in SUBSET Roots, names \in SUBSET Names, child \in ChildLists,
           bad \in PluginPath \cup {NoParent} :
         manifest = [p \in {q \in PluginPath : <<q[1]>> \in roots /\ \A i \in 2..Len(q) : q[i] \in names} |->
                        [sound |-> p # bad, children |-> IF Len(p) < MaxDepth THEN child ELSE <<>>]]
  BY DEF ResolveInit
<1>2. child \in Seq(Child) BY ResolverAssumption
<1>3. DOMAIN manifest \subseteq PluginPath
      /\ \A p \in DOMAIN manifest : manifest[p].children \in Seq(Child) BY <1>1, <1>2
<1>4. /\ toVisit \in Seq(Seq(Names))
      /\ frames = <<>> /\ order = <<>> /\ children = <<>> /\ DOMAIN plugins = {}
      /\ outcome \in {"InvalidWorkspace", "visiting"} BY ResolverAssumption DEF ResolveInit
<1>5. WalkTypes BY <1>3, <1>4 DEF WalkTypes
<1>6. Listed /\ EdgesDown /\ ParentsFirst /\ CratesDiffer
  BY <1>4 DEF Listed, EdgesDown, ParentsFirst, CratesDiffer
<1> QED BY <1>5, <1>6 DEF WalkInv

\* A step that leaves the graph and the walk as they are.
LEMMA GraphRests ==
    ASSUME WalkInv, UNCHANGED <<manifest, toVisit, frames, plugins, children, order>>,
           outcome' # "ok" \/ UNCHANGED outcome
    PROVE  WalkInv'
<1>1. WalkTypes' BY DEF WalkInv, WalkTypes
<1>2. Listed' /\ EdgesDown' BY DEF WalkInv, Listed, EdgesDown
<1>3. ParentsFirst' BY DEF WalkInv, ParentsFirst
<1>4. CratesDiffer' BY DEF WalkInv, CratesDiffer
<1> QED BY <1>1, <1>2, <1>3, <1>4 DEF WalkInv

\* A walk that fails leaves the graph as it is.
LEMMA FailsKeeps ==
    ASSUME WalkInv, NEW error, error # "ok", Fails(error), manifest' = manifest
    PROVE  WalkInv'
<1>1. UNCHANGED <<manifest, toVisit, frames, plugins, children, order>> /\ outcome' # "ok" BY DEF Fails, graph
<1> QED BY <1>1, GraphRests

\* A visit: the plugin was there already, or it comes last.
LEMMA Visits ==
    ASSUME WalkInv, outcome = "visiting", manifest' = manifest,
           NEW path, NEW parent, NEW required, NEW grants,
           NEW rest \in Seq(Seq(Names)), NEW stack \in Seq(Frame), NEW edges,
           Visit(path, parent, required, grants, rest, stack, edges),
           \A i \in 1..Len(stack) : stack[i].path \in DOMAIN plugins,
           parent # NoParent => parent = Front(path) /\ parent \in DOMAIN plugins,
           edges \in Seq(Edge),
           \A i \in 1..Len(edges) :
              /\ edges[i].to \in DOMAIN plugins \cup {path}
              /\ Len(edges[i].to) = Len(edges[i].from) + 1
    PROVE  WalkInv'
<1> USE DEF WalkInv
<1>1. CASE \E error \in {"ChildNotFound", "BadManifest", "DuplicatePluginPath", "CycleDetected"} : Fails(error)
  BY <1>1, FailsKeeps
<1>2. CASE /\ path \in DOMAIN manifest
           /\ toVisit' = rest /\ children' = edges /\ outcome' = outcome
           /\ path \in DOMAIN plugins /\ frames' = stack /\ UNCHANGED <<plugins, order>>
  <2>1. WalkTypes' BY <1>2 DEF WalkTypes
  <2>2. Listed' /\ ParentsFirst' BY <1>2 DEF Listed, ParentsFirst
  <2>3. EdgesDown' /\ CratesDiffer' BY <1>2 DEF EdgesDown, CratesDiffer
  <2> QED BY <2>1, <2>2, <2>3
<1>3. CASE /\ path \in DOMAIN manifest
           /\ toVisit' = rest /\ children' = edges /\ outcome' = outcome
           /\ path \notin DOMAIN plugins
           /\ frames' = Append(stack, [path |-> path, left |-> manifest[path].children])
           /\ order' = Append(order, path)
           /\ plugins' = [p \in DOMAIN plugins \cup {path} |->
                            IF p = path
                            THEN [parent |-> parent, required |-> required, grants |-> grants]
                            ELSE plugins[p]]
  <2>1. path \in PluginPath /\ manifest[path].children \in Seq(Child) BY <1>3 DEF WalkTypes
  <2>2. DOMAIN plugins' = DOMAIN plugins \cup {path} BY <1>3
  <2>3. /\ order \in Seq(PluginPath) /\ order' \in Seq(PluginPath)
        /\ Len(order) \in Nat /\ Len(order') = Len(order) + 1 /\ order'[Len(order')] = path
        /\ \A i \in 1..Len(order) : order'[i] = order[i] BY <1>3, <2>1 DEF WalkTypes
  <2>4. WalkTypes'
    <3>1. [path |-> path, left |-> manifest[path].children] \in Frame BY <2>1 DEF Frame
    <3> DEFINE f == [path |-> path, left |-> manifest[path].children]
    <3>3. f.path = path OBVIOUS
    <3> HIDE DEF f
    <3>2. frames' \in Seq(Frame) /\ \A i \in 1..Len(frames') : frames'[i].path \in DOMAIN plugins'
      <4>1. frames' = Append(stack, f) /\ f \in Frame BY <1>3, <3>1 DEF f
      <4>2. frames' \in Seq(Frame) /\ Len(frames') = Len(stack) + 1 /\ Len(stack) \in Nat
            /\ (\A i \in 1..Len(stack) : frames'[i] = stack[i]) /\ frames'[Len(frames')] = f BY <4>1
      <4>3. \A i \in 1..Len(frames') : i \in 1..Len(stack) \/ i = Len(frames') BY <4>2
      <4> QED BY <2>2, <3>3, <4>2, <4>3
    <3> QED BY <1>3, <2>1, <2>2, <2>3, <3>2 DEF WalkTypes
  <2>5. Listed'
    <3>1. \A i \in 1..Len(order') : i \in 1..Len(order) \/ i = Len(order') BY <2>3
    <3>2. \A i \in 1..Len(order) : i \in 1..Len(order') /\ i # Len(order') BY <2>3
    <3>3. \A i \in 1..Len(order) : order[i] \in DOMAIN plugins /\ order[i] # path BY <1>3 DEF Listed
    <3>4. Len(order') \in 1..Len(order') BY <2>3
    <3>5. \A i, j \in 1..Len(order') : order'[i] = order'[j] => i = j
      <4>1. \A i, j \in 1..Len(order) : order[i] = order[j] => i = j BY DEF Listed
      <4>2. \A i \in 1..Len(order) : order'[i] = order[i] /\ order'[i] # path BY <2>3, <3>3
      <4> QED BY <2>3, <3>1, <4>1, <4>2
    <3>6. \A i \in 1..Len(order') : order'[i] \in DOMAIN plugins' BY <2>2, <2>3, <3>1, <3>3
    <3>7. \A p \in DOMAIN plugins' : \E i \in 1..Len(order') : order'[i] = p
      BY <2>2, <2>3, <3>2, <3>4, ZenonT(60) DEF Listed
    <3> QED BY <3>5, <3>6, <3>7 DEF Listed
  <2>6. EdgesDown' BY <1>3, <2>2 DEF EdgesDown
  <2>7. ParentsFirst'
    <3> SUFFICES ASSUME NEW p \in DOMAIN plugins', plugins'[p].parent # NoParent
                 PROVE  /\ plugins'[p].parent = Front(p)
                        /\ \E i, j \in 1..Len(order') : i < j /\ order'[i] = plugins'[p].parent /\ order'[j] = p
      BY DEF ParentsFirst
    <3>0. \A i \in 1..Len(order) : i \in 1..Len(order') /\ i < Len(order') BY <2>3
    <3>1. CASE p = path
      <4>1. plugins'[p].parent = parent BY <1>3, <2>2, <3>1
      <4>2. parent = Front(p) /\ parent \in DOMAIN plugins BY <3>1, <4>1
      <4>3. PICK i \in 1..Len(order) : order[i] = parent BY <4>2 DEF Listed
      <4>4. Len(order') \in 1..Len(order') BY <2>3
      <4> QED BY <2>3, <3>0, <3>1, <4>1, <4>2, <4>3, <4>4
    <3>2. CASE p # path BY <1>3, <2>2, <3>2, <2>3, <3>0 DEF ParentsFirst
    <3> QED BY <3>1, <3>2
  <2>8. CratesDiffer' BY <1>3 DEF CratesDiffer
  <2> QED BY <2>4, <2>5, <2>6, <2>7, <2>8
<1> QED BY <1>1, <1>2, <1>3, Zenon DEF Visit

LEMMA WalkSteps == WalkInv /\ [ResolveNext]_resolverVars => WalkInv'
<1> SUFFICES ASSUME WalkInv, [ResolveNext]_resolverVars PROVE WalkInv' OBVIOUS
<1>1. CASE VisitMember
  <2>1. /\ outcome = "visiting" /\ frames = <<>> /\ toVisit # <<>> /\ manifest' = manifest
        /\ Visit(Head(toVisit), NoParent, TRUE, {}, Tail(toVisit), frames, children) BY <1>1 DEF VisitMember
  <2>2. Tail(toVisit) \in Seq(Seq(Names)) /\ frames \in Seq(Frame) BY <2>1 DEF WalkInv, WalkTypes
  <2>3. /\ \A i \in 1..Len(frames) : frames[i].path \in DOMAIN plugins
        /\ children \in Seq(Edge)
        /\ \A i \in 1..Len(children) :
              /\ children[i].to \in DOMAIN plugins \cup {Head(toVisit)}
              /\ Len(children[i].to) = Len(children[i].from) + 1 BY DEF WalkInv, WalkTypes, EdgesDown
  <2> QED BY <2>1, <2>2, <2>3, Visits
<1>2. CASE VisitChild
  <2> DEFINE top == Last(frames)
             child == Head(top.left)
             path == top.path \o child.parts
             stack == Append(Front(frames), [top EXCEPT !.left = Tail(@)])
             edge == [from |-> top.path, to |-> path, required |-> child.required,
                      grants |-> child.grants]
             edges == Append(children, edge)
  <2>1. /\ outcome = "visiting" /\ frames # <<>> /\ top.left # <<>> /\ manifest' = manifest
        /\ IF ~ DirectChild(child) THEN Fails("InvalidChildSource")
           ELSE Visit(path, top.path, child.required, child.grants, toVisit, stack, edges)
    BY <1>2 DEF VisitChild
  <2>2. CASE ~ DirectChild(child) BY <2>1, <2>2, FailsKeeps
  <2>3. CASE DirectChild(child)
    <3>1. Len(frames) \in Nat \ {0} /\ top \in Frame /\ top.path \in DOMAIN plugins
      BY <2>1 DEF WalkInv, WalkTypes, Last
    <3>2. top.path \in PluginPath /\ top.left \in Seq(Child) /\ child \in Child BY <2>1, <3>1 DEF Frame
    <3>3. child.parts \in Seq(Names) /\ Len(child.parts) = 1 BY <2>3, <3>2 DEF Child, DirectChild
    <3>4. top.path \in Seq(Names) /\ top.path # NoParent BY <3>2, PathIsSeq
    <3>5. [top EXCEPT !.left = Tail(@)] \in Frame /\ [top EXCEPT !.left = Tail(@)].path = top.path
      <4> DEFINE l == Tail(top.left)
      <4>1. l \in Seq(Child) BY <2>1, <3>2
      <4> HIDE DEF top, l
      <4>2. [top EXCEPT !.left = l] \in Frame /\ [top EXCEPT !.left = l].path = top.path
        BY <3>1, <4>1 DEF Frame
      <4> QED BY <4>2 DEF l
    <3>6. path \in Seq(Names) /\ Len(path) = Len(top.path) + 1 /\ Front(path) = top.path
      <4> HIDE DEF top, child
      <4> QED BY <3>3, <3>4, FrontOfChild
    <3>7. stack \in Seq(Frame) /\ \A i \in 1..Len(stack) : stack[i].path \in DOMAIN plugins
      <4> DEFINE f == [top EXCEPT !.left = Tail(@)]
                 l == Front(frames)
      <4>1. frames \in Seq(Frame) /\ frames # <<>> /\ Len(frames) \in Nat \ {0}
        BY <2>1, <3>1 DEF WalkInv, WalkTypes
      <4>2. /\ l \in Seq(Frame) /\ Len(l) = Len(frames) - 1
            /\ \A i \in 1..Len(l) : l[i] = frames[i] BY <4>1, FrontOf
      <4>3. \A i \in 1..Len(l) : l[i].path \in DOMAIN plugins
        <5> HIDE DEF l
        <5> QED BY <4>1, <4>2 DEF WalkInv, WalkTypes
      <4>4. f \in Frame /\ f.path \in DOMAIN plugins BY <3>1, <3>5
      <4> HIDE DEF f, l
      <4>5. /\ Append(l, f) \in Seq(Frame) /\ Len(Append(l, f)) = Len(l) + 1 /\ Len(l) \in Nat
            /\ (\A i \in 1..Len(l) : Append(l, f)[i] = l[i]) /\ Append(l, f)[Len(l) + 1] = f BY <4>2, <4>4
      <4>6. \A i \in 1..Len(Append(l, f)) : i \in 1..Len(l) \/ i = Len(l) + 1 BY <4>5
      <4>7. \A i \in 1..Len(Append(l, f)) : Append(l, f)[i].path \in DOMAIN plugins BY <4>3, <4>4, <4>5, <4>6
      <4> QED BY <4>5, <4>7 DEF f, l
    <3>8. /\ edges \in Seq(Edge)
          /\ \A i \in 1..Len(edges) :
                /\ edges[i].to \in DOMAIN plugins \cup {path}
                /\ Len(edges[i].to) = Len(edges[i].from) + 1
      <4>1. edge.to = path /\ edge.from = top.path OBVIOUS
      <4>2. edge \in Edge
        <5>1. child.required \in BOOLEAN /\ child.grants \in SUBSET STRING
          <6> HIDE DEF child
          <6> QED BY <3>2 DEF Child
        <5> HIDE DEF child, top, path
        <5> QED BY <3>2, <3>6, <5>1 DEF Edge
      <4> HIDE DEF edge
      <4>3. children \in Seq(Edge) BY DEF WalkInv, EdgesDown
      <4>4. /\ edges \in Seq(Edge) /\ Len(edges) = Len(children) + 1 /\ Len(children) \in Nat
            /\ \A i \in 1..Len(children) : edges[i] = children[i]
            /\ edges[Len(children) + 1] = edge BY <4>2, <4>3
      <4> HIDE DEF edges, top, path
      <4>5. \A i \in 1..Len(edges) : i \in 1..Len(children) \/ i = Len(children) + 1 BY <4>4
      <4>6. \A i \in 1..Len(children) :
               /\ children[i].to \in DOMAIN plugins
               /\ Len(children[i].to) = Len(children[i].from) + 1 BY DEF WalkInv, EdgesDown
      <4> QED BY <3>6, <4>1, <4>4, <4>5, <4>6
    <3>9. toVisit \in Seq(Seq(Names)) BY DEF WalkInv, WalkTypes
    <3>10. Visit(path, top.path, child.required, child.grants, toVisit, stack, edges) BY <2>1, <2>3
    <3> HIDE DEF top, child, path, stack, edge, edges
    <3> QED BY <2>1, <3>1, <3>6, <3>7, <3>8, <3>9, <3>10, Visits
  <2> QED BY <2>2, <2>3
<1>3. CASE VisitDone
  <2>1. /\ frames # <<>> /\ frames' = Front(frames)
        /\ UNCHANGED <<manifest, toVisit, plugins, children, order, outcome>> BY <1>3 DEF VisitDone, graph
  <2>2. /\ frames' \in Seq(Frame) /\ Len(frames') = Len(frames) - 1 /\ Len(frames) \in Nat
        /\ \A i \in 1..Len(frames') : frames'[i] = frames[i] BY <2>1, FrontOf DEF WalkInv, WalkTypes
  <2>3. \A i \in 1..Len(frames') : frames'[i].path \in DOMAIN plugins'
    <3>1. \A i \in 1..Len(frames) : frames[i].path \in DOMAIN plugins BY DEF WalkInv, WalkTypes
    <3>2. \A i \in 1..Len(frames') : i \in 1..Len(frames) BY <2>2
    <3> QED BY <2>1, <2>2, <3>1, <3>2
  <2>4. WalkTypes' BY <2>1, <2>2, <2>3 DEF WalkInv, WalkTypes
  <2>5. Listed' /\ EdgesDown' BY <2>1 DEF WalkInv, Listed, EdgesDown
  <2>6. ParentsFirst' /\ CratesDiffer' BY <2>1 DEF WalkInv, ParentsFirst, CratesDiffer
  <2> QED BY <2>4, <2>5, <2>6 DEF WalkInv
<1>4. CASE Finish BY <1>4 DEF Finish, graph, WalkInv, WalkTypes, Listed, EdgesDown, ParentsFirst, CratesDiffer
<1>5. CASE UNCHANGED resolverVars BY <1>5, GraphRests DEF resolverVars
<1> QED BY <1>1, <1>2, <1>3, <1>4, <1>5 DEF ResolveNext

\* The resolver (plugin/package.rs) gives the loader a forest in loading order,
\* for every workspace: any names, member lists, declared children and depth.
THEOREM ResolvesForest == ResolverSpec => []ResolvedForest
<1>1. WalkInv => ResolvedForest
  <2> SUFFICES ASSUME WalkInv, outcome = "ok" PROVE
        /\ Len(order) = Cardinality(DOMAIN plugins) /\ Range(order) = DOMAIN plugins
        /\ \A i \in DOMAIN children :
              /\ children[i].to \in DOMAIN plugins
              /\ Len(children[i].to) = Len(children[i].from) + 1
        /\ \A p \in DOMAIN plugins : plugins[p].parent # NoParent =>
              /\ plugins[p].parent = Front(p)
              /\ Position(plugins[p].parent) < Position(p)
        /\ \A p, q \in DOMAIN plugins : FlattenSeq(p) = FlattenSeq(q) => p = q BY Zenon DEF ResolvedForest
  <2>1. DOMAIN order = 1..Len(order) /\ Len(order) \in Nat BY DEF WalkInv, WalkTypes
  <2>2. Range(order) = DOMAIN plugins
    <3>1. Range(order) = {order[i] : i \in 1..Len(order)} BY <2>1, Zenon DEF Range
    <3>2. /\ \A i \in 1..Len(order) : order[i] \in DOMAIN plugins
          /\ \A p \in DOMAIN plugins : \E i \in 1..Len(order) : order[i] = p BY DEF WalkInv, Listed
    <3> QED BY <3>1, <3>2
  <2>3. Len(order) = Cardinality(DOMAIN plugins)
    <3>1. order \in Bijection(1..Len(order), DOMAIN plugins)
      BY <2>1 DEF WalkInv, WalkTypes, Listed, Bijection, Injection, Surjection, IsInjective
    <3>2. IsFiniteSet(1..Len(order)) /\ Cardinality(1..Len(order)) = Len(order)
      <4>1. 1 \in Int /\ Len(order) \in Int BY <2>1
      <4>2. IsFiniteSet(1..Len(order))
            /\ Cardinality(1..Len(order)) = IF 1 > Len(order) THEN 0 ELSE Len(order) - 1 + 1
        BY <4>1, FS_Interval
      <4> QED BY <2>1, <4>2
    <3> QED BY <3>1, <3>2, FS_Bijection DEF ExistsBijection
  <2>4. \A p \in DOMAIN plugins : plugins[p].parent # NoParent =>
              /\ plugins[p].parent = Front(p)
              /\ Position(plugins[p].parent) < Position(p)
    <3> SUFFICES ASSUME NEW p \in DOMAIN plugins, plugins[p].parent # NoParent
                 PROVE  plugins[p].parent = Front(p) /\ Position(plugins[p].parent) < Position(p) OBVIOUS
    <3>1. PICK i, j \in 1..Len(order) : i < j /\ order[i] = plugins[p].parent /\ order[j] = p
      BY DEF WalkInv, ParentsFirst
    <3>2. Position(plugins[p].parent) = i /\ Position(p) = j BY <2>1, <3>1 DEF Position, WalkInv, Listed
    <3> QED BY <3>1, <3>2 DEF WalkInv, ParentsFirst
  <2>5. \A p, q \in DOMAIN plugins : FlattenSeq(p) = FlattenSeq(q) => p = q
    BY DEF WalkInv, CratesDiffer, CrateName
  <2>6. \A i \in DOMAIN children :
              /\ children[i].to \in DOMAIN plugins
              /\ Len(children[i].to) = Len(children[i].from) + 1 BY DEF WalkInv, EdgesDown
  <2> QED BY <2>2, <2>3, <2>4, <2>5, <2>6
<1> QED BY <1>1, WalkInitially, WalkSteps, PTL DEF ResolverSpec

\* A set of numbers that is not empty has a least one.
LEMMA LeastNumber ==
    ASSUME NEW T, T \subseteq Nat, T # {}
    PROVE  \E n \in T : \A m \in T : n <= m
<1>1. PICK n \in T : \A m \in T : <<m, n>> \notin OpToRel(<, Nat) BY NatLessThanWellFounded, WFMin
<1>2. \A m \in T : ~ (m < n) BY <1>1 DEF OpToRel
<1>3. n \in Nat /\ \A m \in T : m \in Nat OBVIOUS
<1>4. \A m \in T : n <= m BY <1>2, <1>3
<1> QED BY <1>4

\* Induction, for a set of numbers.
LEMMA SetInduction ==
    ASSUME NEW P, 0 \in P, \A n \in Nat : n \in P => n + 1 \in P
    PROVE  Nat \subseteq P
<1> DEFINE T == Nat \ P
<1> SUFFICES ASSUME T # {} PROVE FALSE OBVIOUS
<1>1. T \subseteq Nat OBVIOUS
<1> HIDE DEF T
<1>2. PICK n \in T : \A m \in T : n <= m BY <1>1, LeastNumber
<1> USE DEF T
<1>3. n \in Nat \ {0} BY <1>2
<1>4. n - 1 \in Nat /\ n - 1 \in P BY <1>2, <1>3
<1> QED BY <1>2, <1>3, <1>4

-----------------------------------------------------------------------------
(* EditPolicy: paths *)

\* Segments are strings; the ones that the proofs name are written out, because
\* the provers do not know of a string that it is one.
Segment == STRING \cup {"ws", "..", "#"}
Segs == Seq(Segment)

LEMMA TokensAreSegs == Tokens \subseteq Segs
<1>1. STRING \subseteq Segment BY DEF Segment
<1>2. ASSUME NEW A, NEW B, A \subseteq B PROVE Seq(A) \subseteq Seq(B) BY <1>2, SeqMonotonic
<1> QED BY <1>1, <1>2, Zenon DEF Tokens, Segs

\* A part of a path.
LEMMA PathPart ==
    ASSUME NEW s \in Segs, NEW i \in Nat, NEW j \in Nat, i <= j, j <= Len(s)
    PROVE  /\ SubSeq(s, i + 1, j) \in Segs /\ Len(SubSeq(s, i + 1, j)) = j - i
           /\ \A k \in 1 .. j - i : SubSeq(s, i + 1, j)[k] = s[i + k]
<1> DEFINE q == SubSeq(s, i + 1, j)
<1>0. s \in Seq(Segment) /\ Len(s) \in Nat BY DEF Segs
<1>1. q = [k \in 1 .. j - i |-> s[i + k]] BY <1>0
<1>2. \A k \in 1 .. j - i : s[i + k] \in Segment
  <2> TAKE k \in 1 .. j - i
  <2>1. i + k \in 1 .. Len(s) BY <1>0
  <2> QED BY <1>0, <2>1
<1>3. j - i \in Nat OBVIOUS
<1> HIDE DEF q
<1>4. q \in Seq(Segment) /\ Len(q) = j - i /\ \A k \in 1 .. j - i : q[k] = s[i + k] BY <1>1, <1>2, <1>3
<1> QED BY <1>4 DEF q, Segs

\* The first k segments.
LEMMA CutPart ==
    ASSUME NEW s \in Segs, NEW k \in 0 .. Len(s)
    PROVE  Cut(s, k) \in Segs /\ Len(Cut(s, k)) = k /\ \A i \in 1 .. k : Cut(s, k)[i] = s[i]
<1>0. Len(s) \in Nat BY DEF Segs
<1>1. k \in Nat /\ 0 \in Nat /\ 0 <= k /\ k <= Len(s) /\ k - 0 = k /\ 0 + 1 = 1 BY <1>0
<1>2. /\ SubSeq(s, 0 + 1, k) \in Segs /\ Len(SubSeq(s, 0 + 1, k)) = k - 0
      /\ \A i \in 1 .. k - 0 : SubSeq(s, 0 + 1, k)[i] = s[0 + i] BY <1>1, PathPart
<1> QED BY <1>1, <1>2 DEF Cut

\* Paths of the same length and with the same segments.
LEMMA PathsEqual ==
    ASSUME NEW p \in Segs, NEW q \in Segs, Len(p) = Len(q), \A k \in 1 .. Len(p) : p[k] = q[k]
    PROVE  p = q
BY DEF Segs

\* A prefix, segment by segment.
LEMMA PrefixSegments ==
    ASSUME NEW p \in Segs, NEW q \in Segs
    PROVE  IsPrefix(p, q) <=> Len(p) <= Len(q) /\ \A i \in 1 .. Len(p) : p[i] = q[i]
<1>0. Len(p) \in Nat /\ Len(q) \in Nat /\ p \in Seq(Segment) BY DEF Segs
<1>1. SubSeq(p, 1, Len(p)) = p BY <1>0
<1>2. ASSUME Len(p) <= Len(q)
      PROVE  SubSeq(q, 1, Len(p)) = p <=> \A i \in 1 .. Len(p) : p[i] = q[i]
  <2> DEFINE c == Cut(q, Len(p))
  <2>1. c \in Segs /\ Len(c) = Len(p) /\ \A i \in 1 .. Len(p) : c[i] = q[i] BY <1>0, <1>2, CutPart
  <2>2. c = SubSeq(q, 1, Len(p)) BY DEF Cut
  <2> HIDE DEF c
  <2> QED BY <2>1, <2>2, PathsEqual
<1> QED BY <1>1, <1>2 DEF IsPrefix

\* Two paths in a row.
LEMMA PathsJoin ==
    ASSUME NEW p \in Segs, NEW q \in Segs
    PROVE  /\ p \o q \in Segs /\ Len(p \o q) = Len(p) + Len(q)
           /\ \A i \in 1 .. Len(p) : (p \o q)[i] = p[i]
           /\ \A i \in 1 .. Len(q) : (p \o q)[Len(p) + i] = q[i]
<1>0. p \in Seq(Segment) /\ q \in Seq(Segment) /\ Len(p) \in Nat /\ Len(q) \in Nat BY DEF Segs
<1> DEFINE t == p \o q
<1>1. t \in Seq(Segment) /\ Len(t) = Len(p) + Len(q) BY <1>0
<1>2. \A i \in 1 .. Len(p) + Len(q) : t[i] = IF i <= Len(p) THEN p[i] ELSE q[i - Len(p)] BY <1>0
<1> HIDE DEF t
<1>3. \A i \in 1 .. Len(p) : t[i] = p[i] BY <1>0, <1>2
<1>4. \A i \in 1 .. Len(q) : t[Len(p) + i] = q[i]
  <2> TAKE i \in 1 .. Len(q)
  <2>1. Len(p) + i \in 1 .. Len(p) + Len(q) /\ ~ (Len(p) + i <= Len(p)) /\ (Len(p) + i) - Len(p) = i BY <1>0
  <2> QED BY <1>2, <2>1
<1> QED BY <1>1, <1>3, <1>4 DEF t, Segs

\* Three paths in a row.
LEMMA PathsAssociate ==
    ASSUME NEW p \in Segs, NEW q \in Segs, NEW r \in Segs
    PROVE  (p \o q) \o r = p \o (q \o r)
<1> DEFINE a == (p \o q) \o r
           b == p \o (q \o r)
           n == Len(p) + Len(q) + Len(r)
<1>0. p \in Seq(Segment) /\ q \in Seq(Segment) /\ r \in Seq(Segment) BY DEF Segs
<1>1. p \o q \in Seq(Segment) /\ q \o r \in Seq(Segment) /\ Len(p \o q) = Len(p) + Len(q) /\ Len(q \o r) = Len(q) + Len(r)
  BY <1>0
<1>2. a \in Seq(Segment) /\ Len(a) = n /\ b \in Seq(Segment) /\ Len(b) = n BY <1>0, <1>1
<1>3. \A i \in 1 .. n : a[i] = b[i]
  <2> TAKE i \in 1 .. n
  <2>1. CASE i <= Len(p) BY <1>0, <1>1, <2>1
  <2>2. CASE Len(p) < i /\ i <= Len(p) + Len(q) BY <1>0, <1>1, <2>2
  <2>3. CASE Len(p) + Len(q) < i BY <1>0, <1>1, <2>3
  <2> QED BY <1>0, <2>1, <2>2, <2>3
<1> HIDE DEF a, b, n
<1>4. a = b BY <1>2, <1>3
<1> QED BY <1>4 DEF a, b

\* A set of numbers up to n that is not empty has a greatest one.
LEMMA GreatestNumber ==
    ASSUME NEW n \in Nat, NEW S, S \subseteq 0 .. n, S # {}
    PROVE  \E k \in S : \A j \in S : j <= k
<1> DEFINE T == {i \in Nat : n - i \in S}
<1>1. PICK x \in S : TRUE OBVIOUS
<1>2. n - x \in T BY <1>1
<1>3. T \subseteq Nat /\ T # {} BY <1>2
<1> HIDE DEF T
<1>4. PICK m \in T : \A i \in T : m <= i BY <1>3, LeastNumber
<1> USE DEF T
<1>5. n - m \in S /\ m \in Nat BY <1>4
<1>6. ASSUME NEW j \in S PROVE j <= n - m
  <2>1. j \in 0 .. n /\ n - j \in Nat /\ n - (n - j) = j BY <1>6
  <2>2. n - j \in T BY <2>1
  <2>3. m <= n - j BY <1>4, <2>2
  <2> QED BY <1>5, <2>1, <2>3
<1> QED BY <1>5, <1>6

\* Where the path of a resolvable name leads is where it was resolved to, or it
\* is the name itself: a link on the way is among what exists.
LEMMA ResolvedIsPhysical ==
    ASSUME NEW fs, fs.link \in Segs, fs.target \in Segs, NEW abs \in Segs, Resolvable(fs, abs)
    PROVE  Physical(fs, abs) \in {abs, Resolved(fs, abs)}
<1> DEFINE d == Depth(fs, abs)
           l == fs.link
<1>0. Len(abs) \in Nat /\ Len(l) \in Nat /\ l \in Segs BY DEF Segs
<1>1. d \in 0 .. Len(abs) BY <1>0, GreatestNumber DEF Resolvable, Existing, Depth
<1>2. \A k \in (d + 1) .. Len(abs) : Cut(abs, k) # l BY DEF Resolvable
<1> HIDE DEF d
<1>3. CASE l = <<>> \/ ~ IsPrefix(l, abs) BY <1>3 DEF Physical
<1>4. CASE l # <<>> /\ IsPrefix(l, abs)
  <2>1. Len(l) <= Len(abs) /\ \A i \in 1 .. Len(l) : l[i] = abs[i] BY <1>0, <1>4, PrefixSegments
  <2>2. Cut(abs, Len(l)) = l
    <3>1. Len(l) \in 0 .. Len(abs) BY <1>0, <2>1
    <3>2. Cut(abs, Len(l)) \in Segs /\ Len(Cut(abs, Len(l))) = Len(l)
          /\ \A i \in 1 .. Len(l) : Cut(abs, Len(l))[i] = abs[i] BY <3>1, CutPart
    <3> HIDE DEF l
    <3> QED BY <1>0, <2>1, <3>2, PathsEqual
  <2>3. Len(l) <= d BY <1>0, <1>1, <1>2, <2>1, <2>2
  <2> DEFINE c == Cut(abs, d)
  <2>4. c \in Segs /\ Len(c) = d /\ \A i \in 1 .. d : c[i] = abs[i] BY <1>1, CutPart
  <2> HIDE DEF c
  <2>5. IsPrefix(l, c)
    <3>1. \A i \in 1 .. Len(l) : i \in 1 .. d BY <1>0, <1>1, <2>3
    <3> QED BY <1>0, <2>1, <2>3, <2>4, <3>1, PrefixSegments
  <2>6. Physical(fs, c) = fs.target \o SubSeq(c, Len(l) + 1, d) BY <1>4, <2>4, <2>5 DEF Physical
  <2>7. Physical(fs, abs) = fs.target \o SubSeq(abs, Len(l) + 1, Len(abs)) BY <1>4 DEF Physical
  <2>8. SubSeq(c, Len(l) + 1, d) \o SubSeq(abs, d + 1, Len(abs)) = SubSeq(abs, Len(l) + 1, Len(abs))
    <3> DEFINE x == SubSeq(c, Len(l) + 1, d)
               y == SubSeq(abs, d + 1, Len(abs))
               z == SubSeq(abs, Len(l) + 1, Len(abs))
    <3>0. d \in Nat /\ d <= Len(abs) BY <1>0, <1>1
    <3> HIDE DEF l
    <3>1. x \in Segs /\ Len(x) = d - Len(l) /\ \A k \in 1 .. d - Len(l) : x[k] = c[Len(l) + k]
      BY <2>4, <3>0, <1>0, <2>3, PathPart
    <3>2. y \in Segs /\ Len(y) = Len(abs) - d /\ \A k \in 1 .. Len(abs) - d : y[k] = abs[d + k]
      BY <1>0, <3>0, PathPart
    <3>3. z \in Segs /\ Len(z) = Len(abs) - Len(l) /\ \A k \in 1 .. Len(abs) - Len(l) : z[k] = abs[Len(l) + k]
      BY <1>0, <2>1, PathPart
    <3> HIDE DEF x, y, z
    <3> DEFINE w == x \o y
    <3>4. /\ w \in Segs /\ Len(w) = Len(x) + Len(y)
          /\ \A i \in 1 .. Len(x) : w[i] = x[i]
          /\ \A i \in 1 .. Len(y) : w[Len(x) + i] = y[i] BY <3>1, <3>2, PathsJoin
    <3> HIDE DEF w
    <3>5. Len(w) = Len(z) BY <1>0, <3>0, <3>1, <3>2, <3>3, <3>4
    <3>6. ASSUME NEW k \in 1 .. Len(z) PROVE w[k] = z[k]
      <4>1. CASE k <= Len(x) BY <1>0, <3>0, <3>1, <4>1, <2>3, <3>3, <2>4, <3>4
      <4>2. CASE ~ (k <= Len(x))
        <5> DEFINE m == k - Len(x)
        <5>0. k \in Nat /\ k <= Len(abs) - Len(l) /\ d - Len(l) < k BY <1>0, <3>0, <3>1, <3>3, <4>2, <2>3
        <5>1. m \in 1 .. Len(y) /\ m \in 1 .. Len(abs) - d /\ Len(x) + m = k /\ d + m = Len(l) + k
          BY <3>1, <1>0, <3>0, <5>0, <3>2
        <5> HIDE DEF m
        <5>2. k \in 1 .. Len(abs) - Len(l) BY <3>3
        <5>3. w[k] = abs[d + m] BY <3>2, <3>4, <5>1
        <5> QED BY <3>3, <5>1, <5>2, <5>3
      <4> QED BY <4>1, <4>2
    <3>7. w = z BY <3>3, <3>4, <3>5, <3>6, PathsEqual
    <3> QED BY <3>7 DEF w, x, y, z
  <2>9. Resolved(fs, abs) = fs.target \o SubSeq(abs, Len(l) + 1, Len(abs))
    <3> DEFINE x == SubSeq(c, Len(l) + 1, d)
               y == SubSeq(abs, d + 1, Len(abs))
    <3>0. d \in Nat /\ d <= Len(abs) BY <1>0, <1>1
    <3>1. x \in Segs /\ y \in Segs
      <4> HIDE DEF l
      <4>1. d <= Len(c) /\ Len(abs) <= Len(abs) BY <1>0, <2>4, <3>0
      <4> QED BY <1>0, <2>3, <2>4, <3>0, <4>1, PathPart
    <3>2. Resolved(fs, abs) = (fs.target \o x) \o y BY <2>6 DEF Resolved, d, c
    <3> HIDE DEF x, y
    <3>3. (fs.target \o x) \o y = fs.target \o (x \o y) BY <3>1, PathsAssociate, ZenonT(60)
    <3> QED BY <2>8, <3>2, <3>3 DEF x, y
  <2> QED BY <2>7, <2>9
<1> QED BY <1>3, <1>4

\* The table of normalize_rel_path, up to its k-th entry.
Keeps(segs, k, f) ==
    f = [i \in 0 .. k |-> IF i = 0 THEN <<>>
                          ELSE IF segs[i] = "." THEN f[i - 1] ELSE Append(f[i - 1], segs[i])]

\* There is such a table, and its entries are paths.
LEMMA KeepTable ==
    ASSUME NEW segs \in Segs, NEW n \in 0 .. Len(segs)
    PROVE  \E f : Keeps(segs, n, f) /\ f[n] \in Segs
<1> DEFINE P == {k \in Nat : k <= Len(segs) => \E f : Keeps(segs, k, f) /\ f[k] \in Segs}
<1>0. Len(segs) \in Nat /\ segs \in Seq(Segment) BY DEF Segs
<1>1. 0 \in P
  <2> DEFINE f == [i \in 0 .. 0 |-> <<>>]
  <2>1. Keeps(segs, 0, f) /\ f[0] = <<>> BY DEF Keeps
  <2>2. <<>> \in Segs BY DEF Segs
  <2> QED BY <2>1, <2>2
<1>2. ASSUME NEW k \in Nat, k \in P PROVE k + 1 \in P
  <2> SUFFICES ASSUME k + 1 <= Len(segs) PROVE \E f : Keeps(segs, k + 1, f) /\ f[k + 1] \in Segs OBVIOUS
  <2>0. k <= Len(segs) /\ k + 1 \in 1 .. Len(segs) BY <1>0
  <2>1. PICK f : Keeps(segs, k, f) /\ f[k] \in Segs BY <1>2, <2>0
  <2> DEFINE last == IF segs[k + 1] = "." THEN f[k] ELSE Append(f[k], segs[k + 1])
             g == [i \in 0 .. k + 1 |-> IF i = k + 1 THEN last ELSE f[i]]
  <2>2. (\A i \in 0 .. k : g[i] = f[i]) /\ g[k + 1] = last OBVIOUS
  <2>3. last \in Segs BY <1>0, <2>0, <2>1 DEF Segs
  <2>4. \A i \in 0 .. k : f[i] = IF i = 0 THEN <<>>
                                 ELSE IF segs[i] = "." THEN f[i - 1] ELSE Append(f[i - 1], segs[i])
    BY <2>1 DEF Keeps
  <2>5. ASSUME NEW i \in 0 .. k + 1
        PROVE  g[i] = IF i = 0 THEN <<>>
                      ELSE IF segs[i] = "." THEN g[i - 1] ELSE Append(g[i - 1], segs[i])
    <3>1. CASE i = k + 1 BY <3>1, <2>2
    <3>2. CASE i # k + 1 /\ i # 0
      <4>1. i \in 0 .. k /\ i - 1 \in 0 .. k BY <3>2
      <4>2. g[i] = f[i] /\ g[i - 1] = f[i - 1] BY <2>2, <4>1
      <4> HIDE DEF g
      <4> QED BY <2>4, <3>2, <4>1, <4>2
    <3>3. CASE i = 0 BY <3>3, <2>2, <2>4
    <3> QED BY <3>1, <3>2, <3>3
  <2>6. g = [i \in 0 .. k + 1 |-> g[i]] OBVIOUS
  <2> HIDE DEF g, last
  <2>7. Keeps(segs, k + 1, g) BY <2>5, <2>6, Zenon DEF Keeps
  <2> QED BY <2>2, <2>3, <2>7
<1> HIDE DEF P
<1>3. Nat \subseteq P BY <1>1, <1>2, SetInduction
<1> QED BY <1>0, <1>3 DEF P

\* A normal path is a path.
LEMMA NormalRelType ==
    ASSUME NEW p, p.segs \in Segs
    PROVE  NormalRel(p) \in Segs
<1>0. Len(p.segs) \in Nat BY DEF Segs
<1> DEFINE n == Len(p.segs)
           F(f) == [i \in 0 .. n |-> IF i = 0 THEN <<>>
                                     ELSE IF p.segs[i] = "." THEN f[i - 1] ELSE Append(f[i - 1], p.segs[i])]
           T == CHOOSE f : f = F(f)
<1>1. \A f, g : f = F(f) /\ g = F(g) => f[n] = g[n]
  <2> SUFFICES ASSUME NEW f, NEW g, f = F(f), g = F(g) PROVE f[n] = g[n] OBVIOUS
  <2> DEFINE P == {k \in Nat : k <= n => f[k] = g[k]}
  <2>1. \A i \in 0 .. n : /\ f[i] = IF i = 0 THEN <<>>
                                    ELSE IF p.segs[i] = "." THEN f[i - 1] ELSE Append(f[i - 1], p.segs[i])
                          /\ g[i] = IF i = 0 THEN <<>>
                                    ELSE IF p.segs[i] = "." THEN g[i - 1] ELSE Append(g[i - 1], p.segs[i])
    OBVIOUS
  <2>2. 0 \in P BY <1>0, <2>1
  <2>3. ASSUME NEW k \in Nat, k \in P PROVE k + 1 \in P
    <3> SUFFICES ASSUME k + 1 <= n PROVE f[k + 1] = g[k + 1] OBVIOUS
    <3>1. k + 1 \in 0 .. n /\ k + 1 # 0 /\ (k + 1) - 1 = k /\ k <= n BY <1>0
    <3>2. f[k] = g[k] BY <2>3, <3>1
    <3> HIDE DEF n, F
    <3> QED BY <2>1, <3>1, <3>2
  <2> HIDE DEF P, F
  <2>4. Nat \subseteq P BY <2>2, <2>3, SetInduction
  <2> QED BY <1>0, <2>4 DEF P
<1>2. PICK f : Keeps(p.segs, n, f) /\ f[n] \in Segs
  <2>1. n \in 0 .. Len(p.segs) BY <1>0
  <2> HIDE DEF n
  <2> QED BY <2>1, KeepTable
<1>3. f = F(f) BY <1>2 DEF Keeps
<1>4. NormalRel(p) = T[n] BY DEF NormalRel
<1>5. T = F(T) BY <1>3, Zenon
<1> HIDE DEF T, F, n
<1> QED BY <1>1, <1>2, <1>3, <1>4, <1>5

\* A name below the workspace that resolves there leads there.
LEMMA StaysUnder ==
    ASSUME NEW fs, fs.link \in Segs, fs.target \in Segs, NEW abs \in Segs, IsPrefix(<<"ws">>, abs),
           UnderWorkspace(fs, abs)
    PROVE  IsPrefix(<<"ws">>, Physical(fs, abs))
<1>1. Physical(fs, abs) \in {abs, Resolved(fs, abs)} BY ResolvedIsPhysical DEF UnderWorkspace
<1> QED BY <1>1 DEF UnderWorkspace

LEMMA BelowWorkspace ==
    ASSUME NEW n \in Segs
    PROVE  <<"ws">> \o n \in Segs /\ IsPrefix(<<"ws">>, <<"ws">> \o n)
<1> DEFINE w == <<"ws">>
<1>1. w \in Segs BY DEF Segment, Segs
<1> HIDE DEF w
<1>2. /\ w \o n \in Segs /\ Len(w \o n) = Len(w) + Len(n)
      /\ \A i \in 1 .. Len(w) : (w \o n)[i] = w[i] BY <1>1, PathsJoin
<1>3. Len(w) \in Nat /\ Len(n) \in Nat BY <1>1 DEF Segs
<1>4. Len(w) <= Len(w \o n) BY <1>2, <1>3
<1>5. IsPrefix(w, w \o n) BY <1>1, <1>2, <1>4, PrefixSegments
<1> QED BY <1>2, <1>5 DEF w

\* plugin_subtree_surface_kind: what may be written is inside the root, and its
\* first directory of the surface is not the one of docs for the agent.
LEMMA SurfaceTells ==
    ASSUME NEW root \in Segs, NEW path \in Segs, SurfaceKind(path, root) \in {"manifest", "other"}
    PROVE  /\ IsStrictPrefix(root, path)
           /\ \A i \in (Len(root) + 1) .. (Len(path) - 1) :
                 (path[i] = "docs" /\ path[i + 1] = "agent") =>
                   \E j \in (Len(root) + 1) .. (i - 1) : path[j] \in Surface
<1> DEFINE rel == SubSeq(path, Len(root) + 1, Len(path))
           first == {i \in DOMAIN rel : rel[i] \in Surface /\ \A j \in 1..(i - 1) : rel[j] \notin Surface}
<1>0. Len(root) \in Nat /\ Len(path) \in Nat BY DEF Segs
<1>1. IsStrictPrefix(root, path) BY DEF SurfaceKind
<1>2. Len(root) <= Len(path) BY <1>1 DEF IsStrictPrefix, IsPrefix
<1>3. /\ rel \in Segs /\ Len(rel) = Len(path) - Len(root)
      /\ \A k \in 1 .. Len(path) - Len(root) : rel[k] = path[Len(root) + k] BY <1>0, <1>2, PathPart
<1>4. DOMAIN rel = 1 .. Len(rel) BY <1>3 DEF Segs
<1>5. \/ \A j \in 1..(Len(rel) - 1) : rel[j] \notin Surface
      \/ \E f \in first : rel[f] # "docs" \/ rel[f + 1] = "human" BY <1>1 DEF SurfaceKind
<1> HIDE DEF rel
<1>6. ASSUME NEW i \in (Len(root) + 1) .. (Len(path) - 1), path[i] = "docs", path[i + 1] = "agent"
      PROVE  \E j \in (Len(root) + 1) .. (i - 1) : path[j] \in Surface
  <2> DEFINE k == i - Len(root)
  <2>1. k \in 1 .. Len(rel) - 1 /\ Len(root) + k = i /\ Len(root) + (k + 1) = i + 1
        /\ k \in 1 .. Len(path) - Len(root) /\ k + 1 \in 1 .. Len(path) - Len(root) BY <1>0, <1>3
  <2> HIDE DEF k
  <2>2. rel[k] = "docs" /\ rel[k + 1] = "agent" /\ "docs" \in Surface BY <1>3, <1>6, <2>1 DEF Surface
  <2>3. PICK f \in first : rel[f] # "docs" \/ rel[f + 1] = "human" BY <1>5, <2>1, <2>2
  <2>4. f \in 1 .. Len(rel) /\ rel[f] \in Surface /\ \A j \in 1..(f - 1) : rel[j] \notin Surface BY <1>4, <2>3
  <2> HIDE DEF first
  <2>5. f # k BY <2>2, <2>3
  <2>6. ~ (k < f)
    <3>1. Len(rel) \in Nat BY <1>3 DEF Segs
    <3> SUFFICES ASSUME k < f PROVE FALSE OBVIOUS
    <3>2. k \in 1 .. f - 1 BY <2>1, <2>4, <3>1
    <3> QED BY <2>2, <2>4, <3>2
  <2>7. Len(root) + f \in (Len(root) + 1) .. (i - 1) /\ f \in 1 .. Len(path) - Len(root)
    BY <1>0, <1>3, <2>1, <2>4, <2>5, <2>6
  <2>8. path[Len(root) + f] \in Surface BY <1>3, <2>4, <2>7
  <2> QED BY <2>7, <2>8
<1> QED BY <1>1, <1>6

LEMMA ContainedHolds ==
    ASSUME EditInputs
    PROVE  EditsContained
<1> SUFFICES ASSUME sample.of = "edit" PROVE EditsContained BY DEF EditsContained
<1> DEFINE n == NormalRel(sample.path)
           abs == <<"ws">> \o n
           fs == sample.fs
<1>1. /\ sample.path.segs \in Segs /\ sample.roots \subseteq Segs
      /\ fs.link \in Segs /\ fs.target \in Segs BY TokensAreSegs DEF EditInputs
<1>2. n \in Segs BY <1>1, NormalRelType
<1> HIDE DEF n
<1>3. abs \in Segs /\ IsPrefix(<<"ws">>, abs) BY <1>2, BelowWorkspace
<1> HIDE DEF abs, fs
<1>4. UnderWorkspace(fs, abs) => IsPrefix(<<"ws">>, Physical(fs, abs)) BY <1>1, <1>3, StaysUnder
<1>5. JournalLoads(fs, <<sample.path>>) => UnderWorkspace(fs, abs) BY DEF JournalLoads, abs, n
<1>6. MayWrite(sample.roots, fs, sample.path) => UnderWorkspace(fs, abs) BY DEF MayWrite, abs, n
<1>7. ASSUME MayWrite(sample.roots, fs, sample.path), n # <<"plugins", ManifestFile>>
      PROVE  \E r \in sample.roots :
                /\ IsStrictPrefix(r, n)
                /\ \A i \in (Len(r) + 1)..(Len(n) - 1) :
                     (n[i] = "docs" /\ n[i + 1] = "agent") =>
                       \E j \in (Len(r) + 1)..(i - 1) : n[j] \in Surface
  <2>1. PICK r \in SubtreeRoots(sample.roots) : SurfaceKind(n, r) \in {"manifest", "other"}
    BY <1>7 DEF MayWrite, ValidatePath, n
  <2>2. r \in sample.roots /\ r \in Segs BY <1>1, <2>1 DEF SubtreeRoots
  <2> QED BY <1>2, <2>1, <2>2, SurfaceTells
<1> QED BY <1>4, <1>5, <1>6, <1>7 DEF EditsContained, abs, n, fs

\* What normalize_path_lexically has of the first segments, and where a walk
\* along them is: the same place, or a path that begins above the root.
SameWalk(acc, w) ==
    /\ acc \in Segs /\ w \in [above : BOOLEAN, dir : Segs]
    /\ \/ ~ w.above /\ acc = w.dir /\ ~ Contains(acc, "..")
       \/ acc # <<>> /\ acc[1] = ".."

LEMMA PlaceStep ==
    ASSUME NEW acc, NEW w, SameWalk(acc, w), NEW s \in Segment
    PROVE  SameWalk(Lexically(acc, s), WalkTo(w, s))
<1>0. /\ acc \in Seq(Segment) /\ acc \in Segs /\ w \in [above : BOOLEAN, dir : Segs] /\ w.dir \in Segs
      /\ w.dir \in Seq(Segment) /\ Len(acc) \in Nat /\ DOMAIN acc = 1 .. Len(acc) BY DEF SameWalk, Segs
<1>1. CASE s = "." BY <1>1 DEF Lexically, WalkTo
<1>2. \A x \in Segs : /\ Append(x, s) \in Segs /\ Len(Append(x, s)) = Len(x) + 1
                      /\ Append(x, s)[Len(x) + 1] = s /\ (\A i \in 1 .. Len(x) : Append(x, s)[i] = x[i])
                      /\ Append(x, s) # <<>> BY DEF Segs
<1>3. \A x \in Segs : x # <<>> => /\ Front(x) \in Segs /\ Len(Front(x)) = Len(x) - 1 /\ Len(x) \in Nat \ {0}
                                  /\ \A i \in 1 .. Len(x) - 1 : Front(x)[i] = x[i]
  <2> TAKE x \in Segs
  <2> SUFFICES ASSUME x # <<>> PROVE /\ Front(x) \in Segs /\ Len(Front(x)) = Len(x) - 1 /\ Len(x) \in Nat \ {0}
                                     /\ \A i \in 1 .. Len(x) - 1 : Front(x)[i] = x[i] OBVIOUS
  <2>1. Len(x) \in Nat \ {0} BY DEF Segs
  <2>2. Len(x) - 1 \in 0 .. Len(x) BY <2>1
  <2>3. Cut(x, Len(x) - 1) = Front(x) BY DEF Cut, Front
  <2> QED BY <2>1, <2>2, <2>3, CutPart
<1>4. CASE s # "." /\ s # ".."
  <2>1. Lexically(acc, s) = Append(acc, s) /\ WalkTo(w, s) = [w EXCEPT !.dir = Append(w.dir, s)]
    BY <1>4 DEF Lexically, WalkTo
  <2>2. /\ WalkTo(w, s) \in [above : BOOLEAN, dir : Segs]
        /\ WalkTo(w, s).dir = Append(w.dir, s) /\ WalkTo(w, s).above = w.above BY <1>0, <1>2, <2>1
  <2>3. CASE ~ w.above /\ acc = w.dir /\ ~ Contains(acc, "..")
    <3>1. ~ Contains(Append(acc, s), "..")
      <4> SUFFICES ASSUME NEW i \in 1 .. Len(Append(acc, s)), Append(acc, s)[i] = ".." PROVE FALSE
        BY DEF Contains
      <4>1. i \in 1 .. Len(acc) \/ i = Len(acc) + 1 BY <1>0, <1>2
      <4> QED BY <1>0, <1>2, <1>4, <2>3, <4>1 DEF Contains
    <3> QED BY <1>0, <1>2, <2>1, <2>2, <2>3, <3>1 DEF SameWalk
  <2>4. CASE acc # <<>> /\ acc[1] = ".."
    <3>1. 1 \in 1 .. Len(acc) BY <1>0, <2>4
    <3>2. Append(acc, s)[1] = ".." /\ Append(acc, s) # <<>> /\ Append(acc, s) \in Segs
      BY <1>0, <1>2, <2>4, <3>1
    <3> QED BY <2>1, <2>2, <3>2 DEF SameWalk
  <2> QED BY <2>3, <2>4 DEF SameWalk
<1>5. CASE s = ".."
  <2>1. CASE ~ w.above /\ acc = w.dir /\ ~ Contains(acc, "..")
    <3>1. CASE acc = <<>>
      <4>1. Lexically(acc, s) = Append(acc, "..") /\ WalkTo(w, s) = [w EXCEPT !.above = TRUE]
        BY <1>5, <2>1, <3>1 DEF Lexically, WalkTo
      <4>2. WalkTo(w, s) \in [above : BOOLEAN, dir : Segs] BY <1>0, <4>1
      <4>3. Append(acc, "..") # <<>> /\ Append(acc, "..")[1] = ".." /\ Append(acc, "..") \in Segs
        <5>1. Len(acc) + 1 = 1 BY <3>1
        <5> QED BY <1>0, <1>2, <1>5, <5>1
      <4> QED BY <4>1, <4>2, <4>3 DEF SameWalk
    <3>2. CASE acc # <<>>
      <4>1. Last(acc) # ".." BY <1>0, <3>2, <2>1 DEF Contains, Last
      <4>2. Lexically(acc, s) = Front(acc) /\ WalkTo(w, s) = [w EXCEPT !.dir = Front(w.dir)]
        BY <1>5, <2>1, <3>2, <4>1 DEF Lexically, WalkTo
      <4>3. Front(acc) \in Segs BY <1>0, <1>3, <3>2
      <4>4. /\ WalkTo(w, s) \in [above : BOOLEAN, dir : Segs]
            /\ WalkTo(w, s).dir = Front(acc) /\ WalkTo(w, s).above = w.above BY <1>0, <2>1, <4>2, <4>3
      <4>5. ~ Contains(Front(acc), "..")
        <5> SUFFICES ASSUME NEW i \in 1 .. Len(Front(acc)), Front(acc)[i] = ".." PROVE FALSE BY DEF Contains
        <5>1. i \in 1 .. Len(acc) - 1 /\ i \in 1 .. Len(acc) BY <1>0, <1>3, <3>2
        <5> QED BY <1>0, <1>3, <2>1, <3>2, <5>1 DEF Contains
      <4> QED BY <2>1, <4>2, <4>3, <4>4, <4>5 DEF SameWalk
    <3> QED BY <3>1, <3>2
  <2>2. CASE acc # <<>> /\ acc[1] = ".."
    <3>1. WalkTo(w, s) \in [above : BOOLEAN, dir : Segs]
      <4>1. CASE w.dir = <<>> BY <1>5, <4>1, <1>0 DEF WalkTo
      <4>2. CASE w.dir # <<>> BY <1>0, <1>3, <1>5, <4>2 DEF WalkTo
      <4> QED BY <4>1, <4>2
    <3>2. CASE Last(acc) = ".." BY <1>5, <3>2, <1>0, <2>2, <1>2, <3>1 DEF Lexically, SameWalk
    <3>3. CASE Last(acc) # ".."
      <4>1. Lexically(acc, s) = Front(acc) BY <1>5, <2>2, <3>3 DEF Lexically
      <4>2. Len(acc) # 1 /\ Len(acc) # 0 BY <1>0, <2>2, <3>3, SMTT(30) DEF Last
      <4>3. 1 \in 1 .. Len(acc) - 1 BY <1>0, <4>2
      <4>4. Front(acc) \in Segs /\ Front(acc)[1] = ".." /\ Len(Front(acc)) = Len(acc) - 1
        BY <1>0, <1>3, <2>2, <4>3
      <4>5. Front(acc) # <<>> BY <1>0, <4>2, <4>4
      <4> QED BY <3>1, <4>1, <4>4, <4>5 DEF SameWalk
    <3> QED BY <3>2, <3>3
  <2> QED BY <2>1, <2>2 DEF SameWalk
<1> QED BY <1>1, <1>4, <1>5

\* The table of normalize_path_lexically, up to its k-th entry, and that there is one.
Stacks(segs, k, f) == f = [i \in 0 .. k |-> IF i = 0 THEN <<>> ELSE Lexically(f[i - 1], segs[i])]

LEMMA StacksTable ==
    ASSUME NEW segs, NEW n \in Nat
    PROVE  \E f : Stacks(segs, n, f)
<1> DEFINE P == {k \in Nat : \E f : Stacks(segs, k, f)}
<1>1. 0 \in P
  <2>1. Stacks(segs, 0, [i \in 0 .. 0 |-> <<>>]) BY DEF Stacks
  <2> QED BY <2>1
<1>2. ASSUME NEW k \in Nat, k \in P PROVE k + 1 \in P
  <2>1. PICK f : Stacks(segs, k, f) BY <1>2
  <2> DEFINE last == Lexically(f[k], segs[k + 1])
             g == [i \in 0 .. k + 1 |-> IF i = k + 1 THEN last ELSE f[i]]
  <2>2. (\A i \in 0 .. k : g[i] = f[i]) /\ g[k + 1] = last OBVIOUS
  <2>3. \A i \in 0 .. k : f[i] = IF i = 0 THEN <<>> ELSE Lexically(f[i - 1], segs[i]) BY <2>1 DEF Stacks
  <2>4. ASSUME NEW i \in 0 .. k + 1
        PROVE  g[i] = IF i = 0 THEN <<>> ELSE Lexically(g[i - 1], segs[i])
    <3>1. CASE i = k + 1 BY <3>1, <2>2
    <3>2. CASE i # k + 1 /\ i # 0
      <4>1. i \in 0 .. k /\ i - 1 \in 0 .. k BY <3>2
      <4>2. g[i] = f[i] /\ g[i - 1] = f[i - 1] BY <2>2, <4>1
      <4> HIDE DEF g
      <4> QED BY <2>3, <3>2, <4>1, <4>2
    <3>3. CASE i = 0 BY <3>3, <2>2, <2>3
    <3> QED BY <3>1, <3>2, <3>3
  <2>5. g = [i \in 0 .. k + 1 |-> g[i]] OBVIOUS
  <2> HIDE DEF g, last
  <2>6. Stacks(segs, k + 1, g) BY <2>4, <2>5, Zenon DEF Stacks
  <2> QED BY <2>6
<1> HIDE DEF P
<1>3. Nat \subseteq P BY <1>1, <1>2, SetInduction
<1> QED BY <1>3 DEF P

LEMMA StacksLast ==
    ASSUME NEW segs, Len(segs) \in Nat
    PROVE  \E f : Stacks(segs, Len(segs), f) /\ NormalLexical(segs) = f[Len(segs)]
<1>1. PICK f : Stacks(segs, Len(segs), f) BY StacksTable
<1>2. f = [i \in 0 .. Len(segs) |-> IF i = 0 THEN <<>> ELSE Lexically(f[i - 1], segs[i])] BY <1>1 DEF Stacks
<1> QED BY <1>2, Zenon DEF NormalLexical, Stacks

\* The table of the walk, up to its k-th entry, and that there is one.
Walks(segs, k, f) == f = [i \in 0 .. k |-> IF i = 0 THEN [above |-> FALSE, dir |-> <<>>] ELSE WalkTo(f[i - 1], segs[i])]

LEMMA WalksTable ==
    ASSUME NEW segs, NEW n \in Nat
    PROVE  \E f : Walks(segs, n, f)
<1> DEFINE P == {k \in Nat : \E f : Walks(segs, k, f)}
<1>1. 0 \in P
  <2>1. Walks(segs, 0, [i \in 0 .. 0 |-> [above |-> FALSE, dir |-> <<>>]]) BY DEF Walks
  <2> QED BY <2>1
<1>2. ASSUME NEW k \in Nat, k \in P PROVE k + 1 \in P
  <2>1. PICK f : Walks(segs, k, f) BY <1>2
  <2> DEFINE last == WalkTo(f[k], segs[k + 1])
             g == [i \in 0 .. k + 1 |-> IF i = k + 1 THEN last ELSE f[i]]
  <2>2. (\A i \in 0 .. k : g[i] = f[i]) /\ g[k + 1] = last OBVIOUS
  <2>3. \A i \in 0 .. k : f[i] = IF i = 0 THEN [above |-> FALSE, dir |-> <<>>] ELSE WalkTo(f[i - 1], segs[i])
    BY <2>1 DEF Walks
  <2>4. ASSUME NEW i \in 0 .. k + 1
        PROVE  g[i] = IF i = 0 THEN [above |-> FALSE, dir |-> <<>>] ELSE WalkTo(g[i - 1], segs[i])
    <3>1. CASE i = k + 1 BY <3>1, <2>2
    <3>2. CASE i # k + 1 /\ i # 0
      <4>1. i \in 0 .. k /\ i - 1 \in 0 .. k BY <3>2
      <4>2. g[i] = f[i] /\ g[i - 1] = f[i - 1] BY <2>2, <4>1
      <4> HIDE DEF g
      <4> QED BY <2>3, <3>2, <4>1, <4>2
    <3>3. CASE i = 0 BY <3>3, <2>2, <2>3
    <3> QED BY <3>1, <3>2, <3>3
  <2>5. g = [i \in 0 .. k + 1 |-> g[i]] OBVIOUS
  <2> HIDE DEF g, last
  <2>6. Walks(segs, k + 1, g) BY <2>4, <2>5, Zenon DEF Walks
  <2> QED BY <2>6
<1> HIDE DEF P
<1>3. Nat \subseteq P BY <1>1, <1>2, SetInduction
<1> QED BY <1>3 DEF P

LEMMA WalksLast ==
    ASSUME NEW segs, Len(segs) \in Nat
    PROVE  \E f : Walks(segs, Len(segs), f) /\ Walk(segs) = f[Len(segs)]
<1>1. PICK f : Walks(segs, Len(segs), f) BY WalksTable
<1>2. f = [i \in 0 .. Len(segs) |-> IF i = 0 THEN [above |-> FALSE, dir |-> <<>>] ELSE WalkTo(f[i - 1], segs[i])]
  BY <1>1 DEF Walks
<1> QED BY <1>2, Zenon DEF Walk, Walks

\* A path that normalize_path_lexically does not find above the root leads to
\* the place of a walk along it.
LEMMA LexicalIsWalk ==
    ASSUME NEW segs \in Segs
    PROVE  SameWalk(NormalLexical(segs), Walk(segs))
<1>0. Len(segs) \in Nat /\ segs \in Seq(Segment) BY DEF Segs
<1>1. PICK f : Stacks(segs, Len(segs), f) /\ NormalLexical(segs) = f[Len(segs)] BY <1>0, StacksLast
<1>2. PICK g : Walks(segs, Len(segs), g) /\ Walk(segs) = g[Len(segs)] BY <1>0, WalksLast
<1>3. \A i \in 0 .. Len(segs) :
         /\ f[i] = IF i = 0 THEN <<>> ELSE Lexically(f[i - 1], segs[i])
         /\ g[i] = IF i = 0 THEN [above |-> FALSE, dir |-> <<>>] ELSE WalkTo(g[i - 1], segs[i])
  BY <1>1, <1>2 DEF Stacks, Walks
<1> DEFINE P == {k \in Nat : k <= Len(segs) => SameWalk(f[k], g[k])}
<1>4. 0 \in P
  <2>1. 0 \in 0 .. Len(segs) BY <1>0
  <2>2. f[0] = <<>> /\ g[0] = [above |-> FALSE, dir |-> <<>>] BY <1>3, <2>1
  <2>3. <<>> \in Segs /\ ~ Contains(<<>>, "..") BY DEF Segs, Contains
  <2>4. [above |-> FALSE, dir |-> <<>>] \in [above : BOOLEAN, dir : Segs] BY <2>3
  <2>5. ~ g[0].above /\ g[0].dir = <<>> /\ g[0] \in [above : BOOLEAN, dir : Segs] BY <2>2, <2>4
  <2> HIDE DEF P
  <2>6. SameWalk(f[0], g[0]) BY <2>2, <2>3, <2>5 DEF SameWalk
  <2> QED BY <2>6 DEF P
<1>5. ASSUME NEW k \in Nat, k \in P PROVE k + 1 \in P
  <2> SUFFICES ASSUME k + 1 <= Len(segs) PROVE SameWalk(f[k + 1], g[k + 1]) OBVIOUS
  <2>1. k + 1 \in 0 .. Len(segs) /\ k + 1 # 0 /\ (k + 1) - 1 = k /\ k <= Len(segs) /\ k + 1 \in 1 .. Len(segs)
    BY <1>0
  <2>2. SameWalk(f[k], g[k]) /\ segs[k + 1] \in Segment BY <1>0, <1>5, <2>1
  <2>3. f[k + 1] = Lexically(f[k], segs[k + 1]) /\ g[k + 1] = WalkTo(g[k], segs[k + 1]) BY <1>3, <2>1
  <2> QED BY <2>2, <2>3, PlaceStep
<1> HIDE DEF P
<1>6. Nat \subseteq P BY <1>4, <1>5, SetInduction
<1> QED BY <1>0, <1>1, <1>2, <1>6 DEF P

LEMMA UnapprovedHolds ==
    ASSUME EditInputs
    PROVE  UnapprovedStaysOut
<1> SUFFICES ASSUME sample.of = "policy", PathsAllowed({sample.segs}), ManualGatePassed({sample.segs}, FALSE)
             PROVE  LET w == Walk(sample.segs)
                    IN  /\ ~ w.above
                        /\ \E a \in Allowlist : IsPrefix(a, w.dir)
                        /\ ~ \E s \in SensitivePrefixes : IsPrefix(s, w.dir) BY DEF UnapprovedStaysOut
<1> DEFINE n == NormalLexical(sample.segs)
           w == Walk(sample.segs)
<1>1. SameWalk(n, w) BY TokensAreSegs, LexicalIsWalk DEF EditInputs
<1>2. ~ Contains(n, "..") /\ \E a \in Allowlist : IsPrefix(a, n) BY DEF PathsAllowed, EscapesAboveRoot
<1>3. ~ \E s \in SensitivePrefixes : IsPrefix(s, n)
  BY <1>2 DEF ManualGatePassed, TouchesSensitive, EscapesAboveRoot
<1> HIDE DEF n, w
<1>4. ~ (n # <<>> /\ n[1] = "..") BY <1>1, <1>2 DEF SameWalk, Segs, Contains
<1>5. ~ w.above /\ n = w.dir BY <1>1, <1>4 DEF SameWalk
<1> QED BY <1>2, <1>3, <1>5 DEF w

-----------------------------------------------------------------------------
(* EditPolicy: patches *)

\* The table of str::matches, from position m on, and that there is one.
MatchesFrom(text, find, m, f) ==
    \A i \in m .. Len(text) + Len(find) + 1 :
        f[i] = IF i > Len(text) THEN 0
               ELSE IF OccursAt(text, find, i) THEN 1 + f[i + Len(find)] ELSE f[i + 1]

LEMMA MatchTable ==
    ASSUME NEW text \in Segs, NEW find \in Segs, find # <<>>, NEW n \in Nat
    PROVE  \E f : MatchesFrom(text, find, Len(text) + Len(find) + 1 - n, f)
<1>0. Len(text) \in Nat /\ Len(find) \in Nat \ {0} BY DEF Segs
<1> DEFINE N == Len(text) + Len(find) + 1
           P == {k \in Nat : \E f : MatchesFrom(text, find, N - k, f)}
<1>1. 0 \in P
  <2> DEFINE f == [i \in {N} |-> 0]
  <2>1. \A i \in N - 0 .. N : i = N /\ i > Len(text) /\ f[i] = 0 BY <1>0
  <2>2. MatchesFrom(text, find, N - 0, f) BY <2>1 DEF MatchesFrom
  <2> QED BY <2>2
<1>2. ASSUME NEW k \in Nat, k \in P PROVE k + 1 \in P
  <2>1. PICK f : MatchesFrom(text, find, N - k, f) BY <1>2
  <2> DEFINE m == N - (k + 1)
             entry == IF m > Len(text) THEN 0
                      ELSE IF OccursAt(text, find, m) THEN 1 + f[m + Len(find)] ELSE f[m + 1]
             g == [i \in m .. N + Len(find) |-> IF i = m THEN entry ELSE f[i]]
  <2>2. m \in Int /\ N \in Nat /\ N - k = m + 1 /\ m < N BY <1>0
  <2>3. g[m] = entry /\ \A i \in m + 1 .. N + Len(find) : g[i] = f[i] BY <1>0, <2>2
  <2>4. ASSUME NEW i \in m .. N
        PROVE  g[i] = IF i > Len(text) THEN 0
                      ELSE IF OccursAt(text, find, i) THEN 1 + g[i + Len(find)] ELSE g[i + 1]
    <3>1. i + 1 \in m + 1 .. N + Len(find) /\ i + Len(find) \in m + 1 .. N + Len(find) BY <1>0, <2>2
    <3>2. g[i + 1] = f[i + 1] /\ g[i + Len(find)] = f[i + Len(find)] BY <2>3, <3>1
    <3>3. CASE i = m
      <4> HIDE DEF g, m, N
      <4> QED BY <2>3, <3>2, <3>3
    <3>4. CASE i # m
      <4>1. i \in N - k .. N /\ i \in m + 1 .. N + Len(find) BY <1>0, <2>2, <3>4
      <4>2. f[i] = IF i > Len(text) THEN 0
                   ELSE IF OccursAt(text, find, i) THEN 1 + f[i + Len(find)] ELSE f[i + 1]
        BY <2>1, <4>1 DEF MatchesFrom
      <4> HIDE DEF g, m, N
      <4> QED BY <2>3, <3>2, <4>1, <4>2
    <3> QED BY <3>3, <3>4
  <2> HIDE DEF g
  <2>5. MatchesFrom(text, find, N - (k + 1), g) BY <2>4 DEF MatchesFrom
  <2> QED BY <2>5
<1> HIDE DEF P
<1>3. Nat \subseteq P BY <1>1, <1>2, SetInduction
<1> QED BY <1>3 DEF P

\* What str::matches counts is the first entry of such a table.
LEMMA CountedFromTable ==
    ASSUME NEW text \in Segs, NEW find \in Segs, find # <<>>
    PROVE  \E f : MatchesFrom(text, find, 1, f) /\ Counted(text, find) = f[1]
<1>0. Len(text) \in Nat /\ Len(find) \in Nat \ {0} BY DEF Segs
<1> DEFINE N == Len(text) + Len(find) + 1
           F(f) == [i \in 1 .. N |-> IF i > Len(text) THEN 0
                                     ELSE IF OccursAt(text, find, i) THEN 1 + f[i + Len(find)] ELSE f[i + 1]]
<1>1. PICK g : MatchesFrom(text, find, 1, g)
  <2>1. PICK n \in Nat : Len(text) + Len(find) + 1 - n = 1 BY <1>0
  <2>2. \E f : MatchesFrom(text, find, Len(text) + Len(find) + 1 - n, f) BY MatchTable
  <2> QED BY <2>1, <2>2
<1> DEFINE h == [i \in 1 .. N |-> g[i]]
<1>2. \A i \in 1 .. N : h[i] = IF i > Len(text) THEN 0
                               ELSE IF OccursAt(text, find, i) THEN 1 + h[i + Len(find)] ELSE h[i + 1]
  <2> TAKE i \in 1 .. N
  <2>1. g[i] = IF i > Len(text) THEN 0
               ELSE IF OccursAt(text, find, i) THEN 1 + g[i + Len(find)] ELSE g[i + 1] BY <1>1 DEF MatchesFrom
  <2>2. ~ (i > Len(text)) => i + Len(find) \in 1 .. N /\ i + 1 \in 1 .. N BY <1>0
  <2>3. ~ (i > Len(text)) => h[i + Len(find)] = g[i + Len(find)] /\ h[i + 1] = g[i + 1] BY <2>2
  <2>4. h[i] = g[i] OBVIOUS
  <2> HIDE DEF h, N
  <2> QED BY <2>1, <2>3, <2>4
<1>3. h = [i \in 1 .. N |-> h[i]] OBVIOUS
<1> HIDE DEF h
<1>4. h = F(h) BY <1>2, <1>3, Zenon
<1> DEFINE T == CHOOSE f : f = F(f)
<1>5. T = F(T) BY <1>4, Zenon
<1>6. Counted(text, find) = T[1] BY DEF Counted
<1> HIDE DEF T
<1>7. MatchesFrom(text, find, 1, T) BY <1>5 DEF MatchesFrom
<1> QED BY <1>6, <1>7

\* What the count from position i on says of the places from there on.
CountTells(text, find, i, c) ==
    /\ c \in Nat
    /\ c = 0 => \A j \in Occurrences(text, find) : j < i
    /\ c = 1 => \E p \in Occurrences(text, find) :
                   /\ i <= p
                   /\ \A j \in Occurrences(text, find) : i <= j => p <= j /\ j < p + Len(find)

LEMMA CountsTell ==
    ASSUME NEW text \in Segs, NEW find \in Segs, find # <<>>
    PROVE  CountTells(text, find, 1, Counted(text, find))
<1>0. Len(text) \in Nat /\ Len(find) \in Nat \ {0} BY DEF Segs
<1>1. PICK f : MatchesFrom(text, find, 1, f) /\ Counted(text, find) = f[1] BY CountedFromTable
<1> DEFINE N == Len(text) + Len(find) + 1
           O == Occurrences(text, find)
           L == Len(find)
           P == {k \in Nat : \A i \in 1 .. N : N - i <= k => CountTells(text, find, i, f[i])}
<1>2. \A j \in O : j \in 1 .. Len(text) /\ OccursAt(text, find, j)
  <2> SUFFICES ASSUME NEW j \in 1 .. Len(text) + 1, OccursAt(text, find, j) PROVE j \in 1 .. Len(text)
    BY DEF Occurrences
  <2>1. j + L - 1 <= Len(text) BY DEF OccursAt
  <2> QED BY <1>0, <2>1
<1>3. \A j \in 1 .. Len(text) : OccursAt(text, find, j) => j \in O BY <1>0 DEF Occurrences
<1>4. \A i \in 1 .. N : f[i] = IF i > Len(text) THEN 0
                               ELSE IF OccursAt(text, find, i) THEN 1 + f[i + L] ELSE f[i + 1]
  BY <1>1 DEF MatchesFrom
<1> HIDE DEF O
<1>5. ASSUME NEW i \in 1 .. N, i > Len(text)
      PROVE  CountTells(text, find, i, f[i]) BY <1>4, <1>5, <1>0, <1>2 DEF CountTells, O
<1>6. 0 \in P BY <1>0, <1>5
<1>7. ASSUME NEW k \in Nat, k \in P PROVE k + 1 \in P
  <2> SUFFICES ASSUME NEW i \in 1 .. N, N - i <= k + 1 PROVE CountTells(text, find, i, f[i]) OBVIOUS
  <2>0. \A m \in 1 .. N : N - m <= k => CountTells(text, find, m, f[m]) BY <1>7
  <2> HIDE DEF P
  <2>1. CASE i > Len(text) BY <1>5, <2>1
  <2>2. CASE i <= Len(text)
    <3>0. /\ i + 1 \in 1 .. N /\ N - (i + 1) <= k /\ i \in 1 .. Len(text) /\ ~ (i > Len(text))
          /\ i + L \in 1 .. N /\ N - (i + L) <= k /\ i \in Nat BY <1>0, <2>2
    <3>1. CASE OccursAt(text, find, i)
      <4>1. f[i] = 1 + f[i + L] /\ CountTells(text, find, i + L, f[i + L]) /\ i \in O
        BY <1>3, <1>4, <2>0, <3>0, <3>1
      <4>2. f[i + L] \in Nat /\ (f[i + L] = 0 => \A j \in O : j < i + L) BY <4>1 DEF CountTells, O
      <4>3. f[i] \in Nat /\ f[i] # 0 BY <4>1, <4>2
      <4>4. ASSUME f[i] = 1
            PROVE  \E p \in O : i <= p /\ \A j \in O : i <= j => p <= j /\ j < p + L
        <5>1. f[i + L] = 0 BY <4>1, <4>2, <4>4
        <5>2. i <= i /\ \A j \in O : i <= j => i <= j /\ j < i + L BY <3>0, <4>2, <5>1
        <5> QED BY <4>1, <5>2
      <4> HIDE DEF N
      <4> QED BY <4>3, <4>4 DEF CountTells, O
    <3>2. CASE ~ OccursAt(text, find, i)
      <4>1. f[i] = f[i + 1] /\ CountTells(text, find, i + 1, f[i + 1]) BY <1>4, <2>0, <3>0, <3>2
      <4>2. \A j \in O : j # i /\ j \in Nat BY <1>2, <3>2
      <4>3. \A j \in O : (i <= j <=> i + 1 <= j) /\ (j < i + 1 => j < i) BY <3>0, <4>2
      <4>4. f[i] \in Nat /\ (f[i] = 0 => \A j \in O : j < i) BY <4>1, <4>3 DEF CountTells, O
      <4>5. ASSUME f[i] = 1
            PROVE  \E p \in O : i <= p /\ \A j \in O : i <= j => p <= j /\ j < p + L
        <5>1. PICK p \in O : i + 1 <= p /\ \A j \in O : i + 1 <= j => p <= j /\ j < p + L
          BY <4>1, <4>5 DEF CountTells, O
        <5> QED BY <4>3, <5>1
      <4> HIDE DEF N
      <4> QED BY <4>4, <4>5 DEF CountTells, O
    <3> QED BY <3>1, <3>2
  <2> QED BY <1>0, <2>1, <2>2
<1> HIDE DEF P
<1>8. Nat \subseteq P BY <1>6, <1>7, SetInduction
<1>9. N \in Nat /\ 1 \in 1 .. N /\ N - 1 <= N BY <1>0
<1> QED BY <1>1, <1>8, <1>9 DEF P

\* A text patch that applies has one place to go to.
LEMMA TextTargetHolds ==
    ASSUME NEW text \in Segs, NEW find \in Segs, find # <<>>, TextPatchApplies(text, find)
    PROVE  /\ Occurrences(text, find) # {}
           /\ \A i, j \in Occurrences(text, find) : j < i + Len(find)
<1>1. Counted(text, find) = 1 /\ CountTells(text, find, 1, Counted(text, find))
  BY CountsTell DEF TextPatchApplies
<1>2. PICK p \in Occurrences(text, find) :
         \A j \in Occurrences(text, find) : 1 <= j => p <= j /\ j < p + Len(find) BY <1>1 DEF CountTells
<1>3. \A j \in Occurrences(text, find) : j \in Nat /\ 1 <= j BY DEF Segs, Occurrences
<1>4. Len(find) \in Nat BY DEF Segs
<1> QED BY <1>2, <1>3, <1>4


\* The two implementations of a dotted key.
LEMMA DottedAgree ==
    ASSUME NEW doc, doc \subseteq Segs, NEW key \in Segs
    PROVE  ReplaceDotted(doc, key) <=> TomlSet(doc, key)
<1>0. Len(key) \in Nat BY DEF Segs
<1> DEFINE n == Len(key)
           F(f) == [i \in 0 .. n |-> i = 0 \/ (f[i - 1] /\ IsTable(doc, Cut(key, i - 1)) /\ Cut(key, i) \in doc)]
           h == [i \in 0 .. n |-> \A m \in 1 .. i : IsTable(doc, Cut(key, m - 1)) /\ Cut(key, m) \in doc]
           T == CHOOSE f : f = F(f)
<1>1. h = F(h)
  <2>1. ASSUME NEW i \in 0 .. n
        PROVE  h[i] <=> (i = 0 \/ (h[i - 1] /\ IsTable(doc, Cut(key, i - 1)) /\ Cut(key, i) \in doc))
    <3>1. CASE i = 0 BY <3>1
    <3>2. CASE i # 0
      <4>1. i - 1 \in 0 .. n /\ i \in Nat /\ \A m \in 1 .. i : m = i \/ m \in 1 .. i - 1 BY <1>0, <3>2
      <4>2. i \in 1 .. i /\ \A m \in 1 .. i - 1 : m \in 1 .. i BY <3>2, <4>1
      <4>3. h[i] <=> \A m \in 1 .. i : IsTable(doc, Cut(key, m - 1)) /\ Cut(key, m) \in doc OBVIOUS
      <4>4. h[i - 1] <=> \A m \in 1 .. i - 1 : IsTable(doc, Cut(key, m - 1)) /\ Cut(key, m) \in doc BY <4>1
      <4> HIDE DEF h
      <4> QED BY <3>2, <4>1, <4>2, <4>3, <4>4
    <3> QED BY <3>1, <3>2
  <2>2. \A i \in 0 .. n : h[i] \in BOOLEAN OBVIOUS
  <2>3. h = [i \in 0 .. n |-> h[i]] OBVIOUS
  <2> HIDE DEF h
  <2>4. \A i \in 0 .. n : h[i] = (i = 0 \/ (h[i - 1] /\ IsTable(doc, Cut(key, i - 1)) /\ Cut(key, i) \in doc))
    BY <2>1, <2>2, Zenon
  <2> QED BY <2>3, <2>4, Zenon
<1>2. T = F(T) BY <1>1, Zenon
<1>3. ReplaceDotted(doc, key) <=> key # <<>> /\ T[n] BY DEF ReplaceDotted
<1> HIDE DEF T, h
<1>4. \A i \in 0 .. n : T[i] <=> (i = 0 \/ (T[i - 1] /\ IsTable(doc, Cut(key, i - 1)) /\ Cut(key, i) \in doc))
  BY <1>2, Zenon
<1> HIDE DEF F
<1> DEFINE Fits(m) == IsTable(doc, Cut(key, m - 1)) /\ Cut(key, m) \in doc
           P == {k \in Nat : k <= n => (T[k] <=> \A m \in 1 .. k : Fits(m))}
<1>5. 0 \in P BY <1>0, <1>4
<1>6. ASSUME NEW k \in Nat, k \in P PROVE k + 1 \in P
  <2> SUFFICES ASSUME k + 1 <= n PROVE T[k + 1] <=> \A m \in 1 .. k + 1 : Fits(m) OBVIOUS
  <2>1. /\ k + 1 \in 0 .. n /\ k + 1 # 0 /\ (k + 1) - 1 = k /\ k <= n /\ k + 1 \in 1 .. k + 1
        /\ \A m \in 1 .. k + 1 : m = k + 1 \/ m \in 1 .. k
        /\ \A m \in 1 .. k : m \in 1 .. k + 1 BY <1>0
  <2>2. T[k] <=> \A m \in 1 .. k : Fits(m) BY <1>6, <2>1
  <2>3. T[k + 1] <=> T[k] /\ Fits(k + 1) BY <1>4, <2>1
  <2> HIDE DEF Fits
  <2> QED BY <2>1, <2>2, <2>3
<1> HIDE DEF P
<1>7. Nat \subseteq P BY <1>5, <1>6, SetInduction
<1>8. T[n] <=> \A m \in 1 .. n : Fits(m) BY <1>0, <1>7 DEF P
<1>9. Cut(key, n) = key /\ Cut(key, 0) = <<>> BY <1>0 DEF Cut, Segs
<1>10. ASSUME key # <<>> PROVE (\A m \in 1 .. n : Fits(m)) <=> TomlSet(doc, key)
  <2>0. n # 0 BY <1>0, <1>10 DEF Segs
  <2>1. ASSUME \A m \in 1 .. n : Fits(m) PROVE TomlSet(doc, key)
    <3>1. ASSUME NEW k \in 1 .. (n - 1) PROVE Cut(key, k) \in doc /\ IsTable(doc, Cut(key, k)) BY <1>0, <2>1
    <3>2. key \in doc BY <1>0, <2>0, <1>9, <2>1
    <3> QED BY <1>10, <3>1, <3>2 DEF TomlSet
  <2>2. ASSUME TomlSet(doc, key), NEW m \in 1 .. n PROVE Fits(m)
    <3>1. key \in doc /\ \A k \in 1 .. (n - 1) : Cut(key, k) \in doc /\ IsTable(doc, Cut(key, k))
      BY <2>2 DEF TomlSet
    <3>2. Cut(key, m) \in doc BY <1>0, <1>9, <3>1
    <3>3. IsTable(doc, Cut(key, m - 1))
      <4>1. CASE m = 1
        <5>1. IsStrictPrefix(<<>>, key) BY <1>9, <1>0, <1>10 DEF Cut, IsStrictPrefix, IsPrefix
        <5>2. Cut(key, m - 1) = <<>> BY <1>9, <4>1
        <5> QED BY <3>1, <5>1, <5>2 DEF IsTable
      <4>2. CASE m # 1 BY <1>0, <4>2, <3>1
      <4> QED BY <4>1, <4>2
    <3> QED BY <3>2, <3>3
  <2> QED BY <2>1, <2>2
<1> QED BY <1>3, <1>8, <1>10 DEF TomlSet

LEMMA TargetsHold ==
    ASSUME EditInputs
    PROVE  PatchTargetsAgree
<1>1. ASSUME sample.of = "text", ShapeOk([kind |-> "text", find |-> sample.find]),
             TextPatchApplies(sample.text, sample.find)
      PROVE  /\ Occurrences(sample.text, sample.find) # {}
             /\ \A i, j \in Occurrences(sample.text, sample.find) : j < i + Len(sample.find)
  BY <1>1, TokensAreSegs, TextTargetHolds DEF EditInputs, ShapeOk
<1>2. ASSUME sample.of = "toml"
      PROVE  ReplaceDotted(sample.doc, sample.key) <=> TomlSet(sample.doc, sample.key)
  BY <1>2, TokensAreSegs, DottedAgree DEF EditInputs
<1> QED BY <1>1, <1>2 DEF PatchTargetsAgree

-----------------------------------------------------------------------------
(* EditPolicy: what an operation leaves in the file *)

\* A file read as text is as long as the file, and without a byte that is no
\* text it is the file.
LEMMA LossyText ==
    ASSUME NEW b \in Segs
    PROVE  /\ Lossy(b) \in Segs /\ Len(Lossy(b)) = Len(b)
           /\ \A i \in 1 .. Len(b) : Lossy(b)[i] = IF b[i] = "?" THEN "#" ELSE b[i]
<1>0. b \in Seq(Segment) /\ Len(b) \in Nat /\ DOMAIN b = 1 .. Len(b) BY DEF Segs
<1>1. \A i \in 1 .. Len(b) : b[i] \in Segment /\ "#" \in Segment BY <1>0 DEF Segment
<1> DEFINE t == [i \in 1 .. Len(b) |-> IF b[i] = "?" THEN "#" ELSE b[i]]
<1>2. Lossy(b) = t BY <1>0 DEF Lossy
<1>3. t \in [1 .. Len(b) -> Segment] BY <1>1
<1>4. t \in Seq(Segment) /\ Len(t) = Len(b) BY <1>0, <1>3
<1>5. \A i \in 1 .. Len(b) : t[i] = IF b[i] = "?" THEN "#" ELSE b[i] OBVIOUS
<1> HIDE DEF t
<1> QED BY <1>2, <1>4, <1>5 DEF Segs

LEMMA LossyIsText ==
    ASSUME NEW b \in Segs, ~ Contains(Lossy(b), "#")
    PROVE  Lossy(b) = b
<1>0. Len(b) \in Nat BY DEF Segs
<1>1. \A i \in 1 .. Len(b) : Lossy(b)[i] # "#" BY LossyText DEF Segs, Contains
<1>2. \A i \in 1 .. Len(b) : Lossy(b)[i] = b[i] BY <1>1, LossyText
<1> QED BY <1>2, LossyText, PathsEqual

\* What the first match is replaced by changes the length by the difference.
LEMMA ReplacedLength ==
    ASSUME NEW text \in Segs, NEW find \in Segs, NEW new \in Segs, Occurrences(text, find) # {}
    PROVE  /\ Len(find) <= Len(text)
           /\ Len(ReplaceFirst(text, find, new)) = Len(text) - Len(find) + Len(new)
<1>0. Len(text) \in Nat /\ Len(find) \in Nat /\ Len(new) \in Nat BY DEF Segs
<1> DEFINE O == Occurrences(text, find)
           i == FirstOf(O)
<1>1. O \subseteq Nat BY <1>0 DEF Occurrences
<1>2. \E k \in O : \A j \in O : k <= j BY <1>1, LeastNumber
<1>3. i \in O BY <1>2 DEF FirstOf
<1>4. i \in 1 .. (Len(text) + 1) /\ i + Len(find) - 1 <= Len(text) BY <1>3 DEF Occurrences, OccursAt
<1>5. ReplaceFirst(text, find, new)
        = SubSeq(text, 1, i - 1) \o new \o SubSeq(text, i + Len(find), Len(text)) BY DEF ReplaceFirst
<1> HIDE DEF i, O
<1>6. SubSeq(text, 1, i - 1) \in Segs /\ Len(SubSeq(text, 1, i - 1)) = i - 1 BY <1>0, <1>4, CutPart DEF Cut
<1>7. SubSeq(text, i + Len(find), Len(text)) \in Segs
      /\ Len(SubSeq(text, i + Len(find), Len(text))) = Len(text) - (i + Len(find) - 1)
  <2>1. PICK k \in Nat : k = i + Len(find) - 1 BY <1>0, <1>4
  <2>2. k <= Len(text) /\ k + 1 = i + Len(find) BY <1>0, <1>4, <2>1
  <2>3. SubSeq(text, k + 1, Len(text)) \in Segs /\ Len(SubSeq(text, k + 1, Len(text))) = Len(text) - k
    BY <1>0, <2>2, PathPart
  <2> QED BY <2>1, <2>2, <2>3
<1> DEFINE a == SubSeq(text, 1, i - 1)
           c == SubSeq(text, i + Len(find), Len(text))
<1>8. a \o new \in Segs /\ Len(a \o new) = Len(a) + Len(new) BY <1>6, PathsJoin
<1>9. Len((a \o new) \o c) = Len(a \o new) + Len(c) BY <1>7, <1>8, PathsJoin
<1>10. Len(a) = i - 1 /\ Len(c) = Len(text) - (i + Len(find) - 1) BY <1>6, <1>7
<1>11. ReplaceFirst(text, find, new) = (a \o new) \o c BY <1>5
<1>12. Len(ReplaceFirst(text, find, new)) = ((i - 1) + Len(new)) + (Len(text) - (i + Len(find) - 1))
  BY <1>8, <1>9, <1>10, <1>11, Zenon
<1> HIDE DEF a, c
<1>13. ((i - 1) + Len(new)) + (Len(text) - (i + Len(find) - 1)) = Len(text) - Len(find) + Len(new)
       /\ Len(find) <= Len(text) BY <1>0, <1>4
<1> QED BY <1>12, <1>13

\* A file is absent or has one content.
LEMMA FileHas ==
    ASSUME NEW f, FileState(f)
    PROVE  f = <<>> \/ (f # <<>> /\ f[1] \in Segs /\ f = <<f[1]>> /\ f[1] \in Range(f))
<1>1. f \in Seq(Tokens) /\ Len(f) \in Nat /\ Len(f) <= 1 BY DEF FileState
<1>2. CASE Len(f) = 0 BY <1>1, <1>2
<1>3. CASE Len(f) = 1 BY <1>1, <1>3, TokensAreSegs DEF Range
<1>4. Len(f) = 0 \/ Len(f) = 1
  <2>1. ASSUME NEW n \in Nat, n <= 1 PROVE n = 0 \/ n = 1 BY <2>1
  <2> QED BY <1>1, <2>1, Zenon
<1> QED BY <1>2, <1>3, <1>4, Zenon

\* The lines of a text that is there or not.
LEMMA OptLinesAre ==
    ASSUME NEW o, FileState(o)
    PROVE  OptLines(o) \in Nat /\ (o # <<>> => OptLines(o) = Len(o[1]))
<1>1. o # <<>> => Len(o[1]) \in Nat BY FileHas DEF Segs
<1> QED BY <1>1 DEF OptLines

\* The text of a file.
TextOf(file) == IF file = <<>> THEN <<>> ELSE Lossy(file[1])

LEMMA TextLength ==
    ASSUME NEW f, FileState(f)
    PROVE  /\ TextOf(f) \in Segs
           /\ Len(TextOf(f)) = IF f = <<>> THEN 0 ELSE Len(f[1])
<1>1. CASE f = <<>> BY <1>1 DEF TextOf, Segs
<1>2. CASE f # <<>> BY <1>2, FileHas, LossyText DEF TextOf
<1> QED BY <1>1, <1>2

\* An exact replacement.
LEMMA ReplaceStale ==
    ASSUME NEW op, NEW now, op.kind = "replace_exact", FileState(now), FileState(op.old), FileState(op.new),
           ApplyOperation(op, now).end # "refused"
    PROVE  /\ now # <<>> \/ op.old[1] = <<>>
           /\ Len(ApplyOperation(op, now).bytes) - Len(op.new[1]) + Len(op.old[1])
                = Len(IF now = <<>> THEN <<>> ELSE now[1])
           /\ Len(ApplyOperation(op, now).bytes) <= DiffEstimate(op) + (IF now = <<>> THEN 0 ELSE Len(now[1]))
<1> DEFINE text == TextOf(now)
           r == ApplyOperation(op, now)
<1>1. r = IF op.old = <<>> \/ Occurrences(text, op.old[1]) = {} \/ op.new = <<>> THEN Refused
          ELSE Written(ReplaceFirst(text, op.old[1], op.new[1])) BY DEF ApplyOperation, TextOf
<1>2. Refused.end = "refused" BY DEF Refused
<1>3. op.old # <<>> /\ Occurrences(text, op.old[1]) # {} /\ op.new # <<>> BY <1>1, <1>2
<1>4. r.bytes = ReplaceFirst(text, op.old[1], op.new[1]) BY <1>1, <1>3 DEF Written
<1>5. op.old[1] \in Segs /\ op.new[1] \in Segs BY <1>3, FileHas
<1>6. text \in Segs /\ Len(text) = IF now = <<>> THEN 0 ELSE Len(now[1]) BY TextLength
<1>7. Len(op.old[1]) \in Nat /\ Len(op.new[1]) \in Nat /\ Len(text) \in Nat BY <1>5, <1>6 DEF Segs
<1> HIDE DEF text, r
<1>8. Len(op.old[1]) <= Len(text) /\ Len(r.bytes) = Len(text) - Len(op.old[1]) + Len(op.new[1])
  <2>1. /\ Len(op.old[1]) <= Len(text)
        /\ Len(ReplaceFirst(text, op.old[1], op.new[1])) = Len(text) - Len(op.old[1]) + Len(op.new[1])
    BY <1>3, <1>5, <1>6, ReplacedLength, Zenon
  <2> QED BY <1>4, <2>1, Zenon
<1>9. Len(r.bytes) - Len(op.new[1]) + Len(op.old[1]) = Len(text) BY <1>7, <1>8
<1>10. now = <<>> => op.old[1] = <<>> BY <1>6, <1>7, <1>8, <1>5 DEF Segs
<1>11. Len(IF now = <<>> THEN <<>> ELSE now[1]) = Len(text) BY <1>6
<1>12. DiffEstimate(op) = Larger(1, Larger(OptLines(op.old), OptLines(op.new))) BY DEF DiffEstimate
<1>13. OptLines(op.old) \in Nat /\ OptLines(op.new) = Len(op.new[1]) BY <1>3, OptLinesAre
<1>14. Len(op.new[1]) <= DiffEstimate(op) /\ DiffEstimate(op) \in Nat BY <1>7, <1>12, <1>13 DEF Larger
<1>15. Len(r.bytes) <= DiffEstimate(op) + Len(text)
  <2> DEFINE grown == Len(r.bytes)
             est == DiffEstimate(op)
  <2>1. grown = Len(text) - Len(op.old[1]) + Len(op.new[1]) /\ Len(op.new[1]) <= est /\ est \in Nat
    BY <1>8, <1>14
  <2> HIDE DEF grown, est
  <2>2. ASSUME NEW t \in Nat, NEW o \in Nat, NEW w \in Nat, NEW e \in Nat, NEW g, g = t - o + w, w <= e
        PROVE  g <= e + t BY <2>2
  <2>3. grown <= est + Len(text) BY <1>7, <2>1, <2>2, Zenon
  <2> QED BY <2>3 DEF grown, est
<1> QED BY <1>6, <1>9, <1>10, <1>11, <1>15 DEF r

\* A new file.
LEMMA CreateStale ==
    ASSUME NEW op, NEW now, op.kind = "create_file", FileState(op.new), ApplyOperation(op, now).end # "refused"
    PROVE  now = <<>> /\ Len(ApplyOperation(op, now).bytes) <= DiffEstimate(op) + 0
<1> DEFINE r == ApplyOperation(op, now)
<1>1. r = IF now # <<>> \/ op.old # << <<>> >> THEN Refused
          ELSE Written(IF op.new = <<>> THEN <<>> ELSE op.new[1]) BY DEF ApplyOperation
<1>2. Refused.end = "refused" BY DEF Refused
<1>3. now = <<>> /\ r = Written(IF op.new = <<>> THEN <<>> ELSE op.new[1]) BY <1>1, <1>2
<1>4. r.bytes = IF op.new = <<>> THEN <<>> ELSE op.new[1] BY <1>3 DEF Written
<1>5. DiffEstimate(op) = Larger(1, OptLines(op.new)) BY DEF DiffEstimate
<1>6. OptLines(op.new) \in Nat /\ (op.new # <<>> => OptLines(op.new) = Len(op.new[1])) BY OptLinesAre
<1> HIDE DEF r
<1>7. Len(r.bytes) = IF op.new = <<>> THEN 0 ELSE Len(op.new[1]) BY <1>4
<1>8. Len(r.bytes) \in Nat /\ Len(r.bytes) <= OptLines(op.new) BY <1>6, <1>7
<1>9. Len(r.bytes) <= DiffEstimate(op) + 0 BY <1>5, <1>6, <1>8 DEF Larger
<1> QED BY <1>3, <1>9 DEF r

\* The kinds that carry a hash.
LEMMA HashStale ==
    ASSUME NEW op, NEW now, NEW seen, op.kind \in {"delete_file", "json_set", "toml_set"},
           FileState(now), FileState(seen), op.sha = seen,
           \A bytes \in Range(seen) : ~ Contains(bytes, "#"),
           ApplyOperation(op, now).end # "refused"
    PROVE  now = seen
<1> DEFINE text == TextOf(now)
           r == ApplyOperation(op, now)
<1>1. Refused.end = "refused" BY DEF Refused
<1>2. HashOk(op, text) /\ now # <<>>
  <2>1. CASE op.kind = "delete_file" BY <2>1, <1>1 DEF ApplyOperation, TextOf
  <2>2. CASE op.kind \in {"json_set", "toml_set"} BY <2>2, <1>1 DEF ApplyOperation, TextOf
  <2> QED BY <2>1, <2>2
<1>3. seen = <<text>> BY <1>2 DEF HashOk
<1>4. text \in Range(seen) BY <1>3 DEF Range
<1>5. ~ Contains(text, "#") BY <1>4
<1>6. now[1] \in Segs /\ now = <<now[1]>> /\ text = Lossy(now[1]) BY <1>2, FileHas DEF TextOf
<1>7. text = now[1] BY <1>5, <1>6, LossyIsText
<1> QED BY <1>3, <1>6, <1>7

LEMMA StaleHolds ==
    ASSUME EditInputs
    PROVE  StaleEditRefused
<1> DEFINE op == sample.op
           now == sample.now
           r == ApplyOperation(op, now)
<1> SUFFICES ASSUME sample.of = "stale", r.end # "refused"
             PROVE  /\ op.kind \in {"replace_exact", "create_file"} =>
                         Len(r.bytes) <= DiffEstimate(op) + (IF now = <<>> THEN 0 ELSE Len(now[1]))
                    /\ (CASE op.kind = "replace_exact" ->
                             /\ now # <<>> \/ op.old[1] = <<>>
                             /\ Len(r.bytes) - Len(op.new[1]) + Len(op.old[1]) = Len(IF now = <<>> THEN <<>> ELSE now[1])
                          [] op.kind = "create_file" -> now = <<>>
                          [] OTHER -> now = sample.seen) BY DEF StaleEditRefused
<1>1. /\ FileState(now) /\ FileState(sample.seen) /\ FileState(op.old) /\ FileState(op.new)
      /\ op.kind \in {"replace_exact", "create_file", "delete_file", "json_set", "toml_set"}
      /\ op.kind \in {"delete_file", "json_set", "toml_set"} =>
           op.sha = sample.seen /\ \A bytes \in Range(sample.seen) : ~ Contains(bytes, "#") BY DEF EditInputs
<1> HIDE DEF op, now
<1>2. CASE op.kind = "replace_exact"
  <2>1. /\ now # <<>> \/ op.old[1] = <<>>
        /\ Len(r.bytes) - Len(op.new[1]) + Len(op.old[1]) = Len(IF now = <<>> THEN <<>> ELSE now[1])
        /\ Len(r.bytes) <= DiffEstimate(op) + (IF now = <<>> THEN 0 ELSE Len(now[1]))
    BY <1>1, <1>2, ReplaceStale
  <2> HIDE DEF r
  <2> QED BY <1>2, <2>1
<1>3. CASE op.kind = "create_file"
  <2>1. now = <<>> /\ Len(r.bytes) <= DiffEstimate(op) + 0 BY <1>1, <1>3, CreateStale
  <2> HIDE DEF r
  <2> QED BY <1>3, <2>1
<1>4. CASE op.kind \in {"delete_file", "json_set", "toml_set"}
  <2>1. now = sample.seen BY <1>1, <1>4, HashStale
  <2> HIDE DEF r
  <2> QED BY <1>4, <2>1
<1> QED BY <1>1, <1>2, <1>3, <1>4

\* An edit lands where it may go and on what it was prepared for, for every
\* path, root, symbolic link, file and operation: every write that
\* validate_path and ensure_under_workspace let through is inside the
\* workspace and a writable place of a selected subtree, an iteration without
\* approval touches nothing sensitive, a patch has one target, and
\* apply_operation refuses what was prepared from another content.
THEOREM EditsAreSound == EditInputs /\ [][Again]_sample => []EditsSound
<1>1. EditInputs => EditsSound BY ContainedHolds, UnapprovedHolds, TargetsHold, StaleHolds DEF EditsSound
<1>2. EditInputs /\ [Again]_sample => EditInputs' BY DEF EditInputs, Again
<1> QED BY <1>1, <1>2, PTL
=============================================================================
