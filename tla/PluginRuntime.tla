--------------------------- MODULE PluginRuntime ---------------------------
(***************************************************************************)
(* The plugins of a running host: what the Loader registers from the       *)
(* artifact directory, what an invocation checks before it runs a handler, *)
(* the libraries kept mapped for the background threads of Task nodes, and *)
(* the two reloads, of everything (a new snapshot) and of a subtree (in    *)
(* the registry of the current snapshot).                                  *)
(*                                                                         *)
(* An artifact is [code, docs, abi, opens]; its hash is the artifact       *)
(* itself.  A staged artifact is a library image of its own, so an image   *)
(* is named by its plugin and the snapshot (epoch) that staged it.         *)
(***************************************************************************)
EXTENDS Naturals, Sequences

CONSTANTS
    Topo,         \* topo_order of the index: the plugins, parents first
    Parent,       \* parent of each plugin, None for a root
    Required,     \* plugins whose edge to the parent is required
    TaskPlugin,   \* plugins with a Task node
    Caller,       \* threads that invoke plugins
    Invoked,      \* plugins they invoke
    Reloader,     \* threads that reload
    MaxBuilds,    \* bound: artifacts written after boot
    MaxReloads,   \* bound: reloads begun
    None

Plugin == {Topo[k] : k \in 1..Len(Topo)}
Comes(p, q) == \E j, k \in 1..Len(Topo) : Topo[j] = p /\ Topo[k] = q /\ j < k
Thread == Caller \cup Reloader

\* The order of topo_order: a plugin comes once, and after its parent.
ASSUME TopoAssumption ==
    /\ Topo \in Seq(Plugin) /\ None \notin Plugin
    /\ \A j, k \in 1..Len(Topo) : Topo[j] = Topo[k] => j = k
ASSUME PluginAssumption ==
    /\ Parent \in [Plugin -> Plugin \cup {None}] /\ Required \subseteq Plugin
    /\ TaskPlugin \subseteq Plugin /\ Invoked \subseteq Plugin /\ Caller \cap Reloader = {}
    /\ \A k \in 1..Len(Topo) : Parent[Topo[k]] # None =>
            \E j \in 1..(k - 1) : Topo[j] = Parent[Topo[k]]
ASSUME RuntimeBounds == MaxBuilds \in Nat /\ MaxReloads \in Nat

VARIABLES
    disk,     \* artifacts/: the artifact of each plugin
    index,    \* artifacts/index.json: [sha, docs, abi] of each plugin
    reg,      \* epoch -> plugin -> registry entry
    current,  \* epoch of the current snapshot
    lib,      \* TASK_LIBRARIES: the image kept mapped, None or an epoch
    worker,   \* the image a background thread of the plugin runs, or None
    th,       \* the threads
    built, reloads,
    touched   \* ghost: registry entries a subtree reload rewrote

runtimeVars == <<disk, index, reg, current, lib, worker, th, built, reloads, touched>>
store == <<disk, index, built>>
images == <<lib, worker>>

Epochs == 0..MaxReloads
Artifact == [code : 0..MaxBuilds, docs : {0, 1}, abi : {0, 1}, opens : BOOLEAN]
First == [code |-> 0, docs |-> 0, abi |-> 0, opens |-> TRUE]
Recorded(a) == [sha |-> a, docs |-> a.docs, abi |-> a.abi]

\* Frames: an invocation keeps the entry it cloned and the image it opened; a
\* reload keeps the index it read, its targets, those whose background thread it
\* stopped, and the registry it prepares.
Idle == [pc |-> "idle", p |-> None, act |-> "call", epoch |-> 0, entry |-> None,
         todo |-> {}, targets |-> {}, stopped |-> {}, idx |-> None, next |-> None]
At(t, pc) == th[t].pc = pc
Returns(t) == th' = [th EXCEPT ![t] = Idle]

-----------------------------------------------------------------------------
(* Loader::load_with_staging_root.                                         *)

\* Why one entry cannot be loaded: the hash, or a library that does not open
\* or does not tell its docs.  The fingerprint is checked when it is invoked.
Fault(idx, art, p) ==
    IF idx[p].sha # art[p] THEN "HashMismatch"
    ELSE IF ~ art[p].opens THEN "SymbolMissing" ELSE "Loaded"

Unavailable(reason) == [res |-> reason, docs |-> None, abi |-> None, art |-> None]

\* insert_loaded: the artifact's own docs, the fingerprint of the index, and
\* the staged copy of the artifact.
LoadedEntry(idx, art, p) ==
    [res |-> "Loaded", docs |-> art[p].docs, abi |-> idx[p].abi, art |-> art[p]]

\* propagate_parent_failure: up the chain, while the edges are required.
Chain(p) ==
    LET up[q \in Plugin] == IF Parent[q] = None THEN {}
                            ELSE {Parent[q]} \cup (IF Parent[q] \in Required THEN up[Parent[q]] ELSE {})
    IN up[p]

\* A plugin whose parent is unavailable by now is not opened.
Orphaned(r, p) == Parent[p] # None /\ r[Parent[p]].res # "Loaded"

\* Mutant: only the direct parent is told.
LoadStepParentOnly(idx, art, r, p) ==
    LET fault == Fault(idx, art, p)
    IN IF Orphaned(r, p) THEN [r EXCEPT ![p] = Unavailable("InitFailed")]
       ELSE IF fault = "Loaded" THEN [r EXCEPT ![p] = LoadedEntry(idx, art, p)]
       ELSE [q \in Plugin |-> IF q = p THEN Unavailable(fault)
                              ELSE IF p \in Required /\ q = Parent[p] THEN Unavailable("InitFailed")
                              ELSE r[q]]
\* One turn of the loop over topo_order.
LoadStep(idx, art, r, p) ==
    LET fault == Fault(idx, art, p)
    IN IF Orphaned(r, p) THEN [r EXCEPT ![p] = Unavailable("InitFailed")]
       ELSE IF fault = "Loaded" THEN [r EXCEPT ![p] = LoadedEntry(idx, art, p)]
       ELSE [q \in Plugin |-> IF q = p THEN Unavailable(fault)
                              ELSE IF p \in Required /\ q \in Chain(p) THEN Unavailable("InitFailed")
                              ELSE r[q]]

Load(idx, art) ==
    LET after[n \in 0..Len(Topo)] == IF n = 0 THEN [p \in Plugin |-> Unavailable("NotLoaded")]
                                     ELSE LoadStep(idx, art, after[n - 1], Topo[n])
    IN after[Len(Topo)]

\* build_snapshot_with_staged_root accepts a load with every plugin loaded.
Accepted(r) == \A p \in Plugin : r[p].res = "Loaded"
Drift(idx, art) == {p \in Plugin : Fault(idx, art, p) = "Loaded" /\ art[p].docs # idx[p].docs}

RuntimeInit ==
    /\ disk = [p \in Plugin |-> First] /\ index = [p \in Plugin |-> Recorded(First)]
    /\ reg = [e \in Epochs |-> [p \in Plugin |->
                 IF e = 0 THEN LoadedEntry(index, disk, p) ELSE Unavailable("NotLoaded")]]
    /\ current = 0
    /\ lib = [p \in Plugin |-> None] /\ worker = [p \in Plugin |-> None]
    /\ th = [t \in Thread |-> Idle]
    /\ built = 0 /\ reloads = 0 /\ touched = {}

-----------------------------------------------------------------------------
\* The artifact directory is written (see ArtifactBuild): with the whole entry
\* (prepare_artifacts, which checks the fingerprint), with its hash only
\* (rebuild_plugin_workspace), or without the index (build_plugins).  A build
\* changes the code and at most one of what the checks compare.
Rebuilt(a, what) ==
    CASE what = "docs" -> [a EXCEPT !.docs = 1 - @]
      [] what = "abi" -> [a EXCEPT !.abi = 1 - @]
      [] what = "opens" -> [a EXCEPT !.opens = ~ @]
      [] OTHER -> a
WriteArtifact(p, what, how) ==
    LET a == [Rebuilt(disk[p], what) EXCEPT !.code = built + 1]
    IN
    /\ built < MaxBuilds
    /\ disk' = [disk EXCEPT ![p] = a]
    /\ index' = CASE how = "prepare" -> [index EXCEPT ![p] = Recorded(a)]
                  [] how = "rebuild" -> [index EXCEPT ![p].sha = a]
                  [] OTHER -> index
    /\ built' = built + 1
    /\ UNCHANGED <<reg, current, images, th, reloads, touched>>

-----------------------------------------------------------------------------
(* invoke_registered_plugin.                                               *)

\* The snapshot of the host and a clone of the registry entry.
InvokeBegin(t, p, act) ==
    /\ At(t, "idle")
    /\ act # "call" => p \in TaskPlugin
    /\ reg[current][p].res = "Loaded"
    /\ th' = [th EXCEPT ![t] = [Idle EXCEPT !.pc = "check", !.p = p, !.act = act,
                                   !.epoch = current, !.entry = reg[current][p]]]
    /\ UNCHANGED <<store, reg, current, images, reloads, touched>>

\* What the opened library says against what the entry says.
Verdict(entry) ==
    IF ~ entry.art.opens THEN "SymbolMissing"
    ELSE IF entry.art.abi # entry.abi THEN "AbiMismatch"
    ELSE IF entry.art.docs # entry.docs THEN "ContractViolation" ELSE "Loaded"

\* A failed check marks the plugin in the registry it came from.
InvokeCheck(t) ==
    LET f == th[t]  v == Verdict(f.entry)
    IN /\ At(t, "check")
       /\ IF v = "Loaded" THEN th' = [th EXCEPT ![t].pc = "handle"] /\ UNCHANGED reg
          ELSE Returns(t) /\ reg' = [reg EXCEPT ![f.epoch][f.p].res = v]
       /\ UNCHANGED <<store, current, images, reloads, touched>>

\* External: a Task handler starts its background thread once per plugin (the
\* port is taken otherwise) and stops only the thread of its own image.
WorkerAfter(f) ==
    CASE f.act = "start" /\ worker[f.p] = None -> [worker EXCEPT ![f.p] = f.epoch]
      [] f.act = "stop" /\ worker[f.p] = f.epoch -> [worker EXCEPT ![f.p] = None]
      [] OTHER -> worker

\* The handler runs, or panics and is caught.
InvokeHandle(t, ok) ==
    LET f == th[t]
    IN /\ At(t, "handle")
       /\ worker' = IF ok THEN WorkerAfter(f) ELSE worker
       /\ IF ok /\ f.act # "call" THEN th' = [th EXCEPT ![t].pc = "keep"] ELSE Returns(t)
       /\ UNCHANGED <<store, reg, current, lib, reloads, touched>>

\* task_libraries_lock().insert: one library per plugin path.
InvokeKeep(t) ==
    LET f == th[t]
    IN /\ At(t, "keep")
       /\ lib' = [lib EXCEPT ![f.p] = f.epoch]
       /\ Returns(t)
       /\ UNCHANGED <<store, reg, current, worker, reloads, touched>>

-----------------------------------------------------------------------------
(* reload("/"): reload_internal.                                           *)

ReloadRead(t) ==
    /\ At(t, "idle") /\ reloads < MaxReloads
    /\ reloads' = reloads + 1
    /\ th' = [th EXCEPT ![t] = [Idle EXCEPT !.pc = "heal", !.epoch = reloads + 1, !.idx = index,
                 !.next = Load(index, disk), !.targets = Drift(index, disk)]]
    /\ UNCHANGED <<store, reg, current, images, touched>>

\* The docs-drift heal writes the index that was read, whatever the verdict on
\* the load will be.
ReloadHeal(t) ==
    LET f == th[t]
    IN /\ At(t, "heal")
       /\ index' = IF f.targets = {} THEN index
                   ELSE [p \in Plugin |-> IF p \in f.targets
                                          THEN [f.idx[p] EXCEPT !.docs = f.idx[p].sha.docs] ELSE f.idx[p]]
       /\ IF Accepted(f.next) THEN th' = [th EXCEPT ![t].pc = "swap"] ELSE Returns(t)
       /\ UNCHANGED <<disk, built, reg, current, images, reloads, touched>>

ReloadSwap(t) ==
    LET f == th[t]
    IN /\ At(t, "swap")
       /\ reg' = [reg EXCEPT ![f.epoch] = f.next]
       /\ current' = f.epoch
       /\ Returns(t)
       /\ UNCHANGED <<store, images, reloads, touched>>

-----------------------------------------------------------------------------
(* reload("/p"): reload_subtree.                                           *)

Subtree(p) ==
    LET under[q \in Plugin] == q = p \/ (Parent[q] # None /\ under[Parent[q]])
    IN {q \in Plugin : under[q]}

SubtreeBegin(t, p) ==
    /\ At(t, "idle") /\ reloads < MaxReloads
    /\ reloads' = reloads + 1
    /\ th' = [th EXCEPT ![t] = [Idle EXCEPT !.pc = "stop", !.epoch = current, !.idx = index,
                                   !.targets = Subtree(p), !.todo = Subtree(p)]]
    /\ UNCHANGED <<store, reg, current, images, touched>>

\* The registry lists the targets by path, a parent before its children; each
\* target's Task nodes get {"action": "stop"} through the current
\* snapshot; an unavailable plugin, a failed check or a panic is only logged.
SubtreeStop(t, p, ok) ==
    LET call == [Idle EXCEPT !.p = p, !.act = "stop", !.epoch = current]
        runs == ok /\ p \in TaskPlugin /\ reg[current][p].res = "Loaded"
                   /\ Verdict(reg[current][p]) = "Loaded"
    IN /\ At(t, "stop") /\ p \in th[t].todo /\ \A q \in th[t].todo : q = p \/ Comes(p, q)
       /\ worker' = IF runs THEN WorkerAfter(call) ELSE worker
       /\ lib' = IF runs THEN [lib EXCEPT ![p] = current] ELSE lib
       /\ reg' = IF p \in TaskPlugin /\ reg[current][p].res = "Loaded"
                 THEN [reg EXCEPT ![current][p].res = Verdict(reg[current][p])] ELSE reg
       /\ th' = [th EXCEPT ![t].pc = "unregister", ![t].p = p,
                           ![t].stopped = IF worker' # worker THEN @ \cup {p} ELSE @]
       /\ UNCHANGED <<store, current, reloads, touched>>

\* unregister_task_library.
SubtreeUnregister(t) ==
    LET p == th[t].p
    IN /\ At(t, "unregister")
       /\ lib' = [lib EXCEPT ![p] = None]
       /\ th' = [th EXCEPT ![t].todo = @ \ {p}, ![t].p = None,
                           ![t].pc = IF th[t].todo \ {p} # {} THEN "stop" ELSE "phase1"]
       /\ UNCHANGED <<store, reg, current, worker, reloads, touched>>

\* Phase 1 opens the artifacts of the directory, not the staged ones.
Phase1Ok(idx, p) == disk[p].opens /\ disk[p].docs = idx[p].docs /\ disk[p].abi = idx[p].abi
SubtreePhase1(t) ==
    LET f == th[t]
    IN /\ At(t, "phase1")
       /\ IF \A p \in f.targets : Phase1Ok(f.idx, p)
          THEN th' = [th EXCEPT ![t].pc = "phase2", ![t].next = [p \in Plugin |-> disk[p]]]
          ELSE Returns(t)
       /\ UNCHANGED <<store, reg, current, images, reloads, touched>>

\* Phase 2, reload_plugin_entry: result, docs and fingerprint of the registry
\* entry; the artifact it runs stays the staged one.
ReloadEntry(entry, a) == [entry EXCEPT !.res = "Loaded", !.docs = a.docs, !.abi = a.abi]
SubtreePhase2(t) ==
    LET f == th[t]
    IN /\ At(t, "phase2")
       /\ reg' = [reg EXCEPT ![f.epoch] = [p \in Plugin |->
                     IF p \in f.targets THEN ReloadEntry(@[p], f.next[p]) ELSE @[p]]]
       /\ touched' = touched \cup {<<f.epoch, p>> : p \in f.targets}
       /\ Returns(t)
       /\ UNCHANGED <<store, current, images, reloads>>

-----------------------------------------------------------------------------
Invoke(t) ==
    \/ \E p \in Invoked, act \in {"call", "start", "stop"} : InvokeBegin(t, p, act)
    \/ InvokeCheck(t) \/ InvokeKeep(t) \/ \E ok \in BOOLEAN : InvokeHandle(t, ok)

Reload(t) ==
    \/ ReloadRead(t) \/ ReloadHeal(t) \/ ReloadSwap(t)
    \/ \E p \in Plugin : SubtreeBegin(t, p) \/ \E ok \in BOOLEAN : SubtreeStop(t, p, ok)
    \/ SubtreeUnregister(t) \/ SubtreePhase1(t) \/ SubtreePhase2(t)

RuntimeNext ==
    \/ \E p \in Plugin, what \in {"code", "docs", "abi", "opens"}, how \in {"prepare", "rebuild", "agent"} :
            WriteArtifact(p, what, how)
    \/ \E t \in Caller : Invoke(t)
    \/ \E t \in Reloader : Reload(t)

RuntimeSpec == RuntimeInit /\ [][RuntimeNext]_runtimeVars

-----------------------------------------------------------------------------
RuntimeTypeOK ==
    /\ disk \in [Plugin -> Artifact]
    /\ \A p \in Plugin : index[p].sha \in Artifact
    /\ current \in Epochs /\ reloads \in Epochs /\ built \in 0..MaxBuilds
    /\ lib \in [Plugin -> Epochs \cup {None}] /\ worker \in [Plugin -> Epochs \cup {None}]
    /\ \A t \in Thread : th[t].targets \subseteq Plugin /\ th[t].todo \subseteq th[t].targets
    /\ touched \subseteq Epochs \X Plugin

\* What a load must report: the least set of plugins that holds the faulty ones
\* and every plugin with a required child in it.
Closed(idx, art, S) ==
    \A p \in Plugin :
        Fault(idx, art, p) # "Loaded" \/ (\E q \in S \cap Required : Parent[q] = p) => p \in S
MustFail(idx, art) == {p \in Plugin : \A S \in SUBSET Plugin : Closed(idx, art, S) => p \in S}

\* The loop over topo_order with propagate_parent_failure leaves unavailable what
\* a failure reaches over required edges, and beyond that only children of an
\* unavailable parent; a child that is loaded although its parent is not had its
\* turn before the plugin that took the parent down.
LoadPropagates ==
    LET r == Load(index, disk)
        failed == {p \in Plugin : r[p].res # "Loaded"}
        must == MustFail(index, disk)
    IN /\ must \subseteq failed
       /\ \A p \in failed \ must : Parent[p] \in failed
       /\ \A p \in Plugin \ failed : Parent[p] \in failed =>
             \E q \in Required : /\ Comes(p, q) /\ Fault(index, disk, q) # "Loaded"
                                 /\ Parent[p] \in Chain(q)

\* Checks of an invocation compare the library with the registry entry.  Only a
\* subtree reload makes the docs of an entry differ from those of the library
\* it runs: no build and no full reload takes a plugin out of service for
\* ContractViolation, and AbiMismatch needs an index that kept an old
\* fingerprint.
MarksAreReal ==
    \A e \in Epochs, p \in Plugin : <<e, p>> \notin touched =>
        /\ reg[e][p].res # "ContractViolation"
        /\ reg[e][p].res = "AbiMismatch" => reg[e][p].abi # reg[e][p].art.abi

\* The image a background thread runs is mapped: kept in TASK_LIBRARIES, or
\* open in a call.
Mapped(p) ==
    worker[p] = lib[p] \/ \E t \in Thread : th[t].p = p /\ th[t].epoch = worker[p] /\ At(t, "keep")

\* As long as nothing is reloaded, the library of a background thread is never
\* unmapped, however calls of the Task node interleave, fail or panic.
WorkerMapped == reloads = 0 => \A p \in Plugin : worker[p] # None => Mapped(p)

\* Loading, the marks of failed invocations and the libraries of background
\* threads stay consistent while plugins are built, called and reloaded.
LoadSound == RuntimeTypeOK /\ LoadPropagates /\ MarksAreReal /\ WorkerMapped

\* The same across reloads ("These libraries must stay resident", invoke.rs).
WorkerLibraryResident == \A p \in Plugin : worker[p] # None => Mapped(p)

\* A subtree reload that fails in its loading phase has stopped nothing ("if
\* anything fails, old plugins keep running", host.rs).
FailedReloadKeepsRunning ==
    [][\A t \in Reloader : At(t, "phase1") /\ th'[t].pc = "idle" => th[t].stopped = {}]_runtimeVars
=============================================================================
