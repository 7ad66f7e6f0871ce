--------------------------- MODULE PluginIteration ---------------------------
(***************************************************************************)
(* The self-iteration pipeline of host.rs: an agent (or a given plan)      *)
(* edits the sources of a plugin, the plugin is rebuilt, staged as a       *)
(* candidate snapshot, verified, replayed, and promoted, blocked or rolled *)
(* back.  Every edit has a backup in a rollback journal on disk, which     *)
(* boot replays after a crash.                                             *)
(*                                                                         *)
(* The disk holds the sources, one artifact with its entry in index.json,  *)
(* the journal and the marker that says which journal was applied; the     *)
(* rest is lost in a crash.  An artifact is the tree it was compiled from, *)
(* and so is its hash.  One operation runs at a time (the iteration holds  *)
(* active_plugin_iteration; SnapshotLifecycle has the races of the         *)
(* candidate): op is the operation, step the step it is at and sub the     *)
(* step of the recovery or the build that this step has called.            *)
(***************************************************************************)
EXTENDS Integers, FiniteSets

CONSTANTS Files,         \* source files of the plugin
          Versions,      \* contents of a file (a missing file is one of them)
          Original,      \* the tree the repository starts with
          Broken,        \* contents that do not compile
          Manifests,     \* the files that are a Cargo.toml
          Requests,      \* iteration requests: [mode, root, manual]
          Canaries,      \* results the canary replay can have
          Commands,      \* candidate commands the operator gives
          Faults,        \* steps that may fail for reasons of the machine
          MaxEdits, MaxIterations, MaxCommands, MaxCrashes, MaxFaults,
          MaxBlocked,    \* MAX_BLOCKED_ITERATIONS
          None

ASSUME OriginalCompiles == /\ Original \in [Files -> Versions]
                           /\ \A f \in Files : Original[f] \notin Broken
ASSUME KnownNames == /\ Manifests \subseteq Files /\ Broken \subseteq Versions /\ "so" \notin Files
                     /\ Canaries \subseteq {"pass", "fail", "partial"}
                     /\ Commands \subseteq {"reload", "stage", "promote", "rollback", "approve"}
                     /\ Requests \subseteq [mode : {"agent", "plan"}, root : BOOLEAN, manual : BOOLEAN]
ASSUME Bounds == /\ {MaxEdits, MaxIterations, MaxCommands, MaxCrashes, MaxFaults} \subseteq Nat
                 /\ MaxBlocked \in Nat \ {0}

VARIABLES
    src,       \* the sources on disk
    so,        \* artifacts/{plugin}.so, None when missing
    index,     \* the plugin's entry in artifacts/index.json, None when missing
    journal,   \* plugin-iteration-edit-journal.json, None when missing
    marker,    \* the generation in the .applied marker, None when missing
    up,        \* the host has booted
    op,        \* the running operation, "none" between two
    step,      \* the step it is at
    sub,       \* the step of the recovery or build this step is in, or "none"
    live,      \* current_snapshot: the artifact it has loaded
    cand,      \* candidate_snapshot, None when nothing is staged
    expected,  \* candidate id the operation expects to find staged
    blocked,   \* blocked_iterations
    iter,      \* PluginIterationRunState
    undo,      \* backups a running rollback() has not written back yet
    built,     \* what cargo left in target/debug
    restored,  \* result of apply_plugin_iteration_journal
    spent,     \* how often each bounded thing has happened
    approved,  \* the last tree that was promoted
    start,     \* when the running iteration began: the tree, and whether the
               \* artifacts were its build
    passed,    \* ids of the candidates whose verification passed
    lost,      \* files with an edit that no backup covers any more: a crash, an
               \* error, another journal, someone else's edit or the promotion
               \* of a candidate that is not their build came in between
    unclean    \* a step of this operation's recovery has failed

disk == <<src, so, index, journal, marker>>
memory == <<up, live, cand, expected, blocked, iter, undo, built, restored>>
history == <<approved, start, passed, lost, unclean>>
control == <<op, step, sub>>
vars == <<disk, memory, control, spent, history>>

Trees == [Files -> Versions]
Backup == [path : Files, original : Versions] \cup [path : {"so"}, original : Trees]
Paths(backups) == {b.path : b \in backups}

\* None is none of what may be missing.
ASSUME NoneAssumption == /\ None \notin Trees /\ None \notin Nat /\ \A s \in SUBSET Backup : s # None
                         /\ None \notin [backups : SUBSET Backup, gen : {0, 1}, origin : Trees]
                         /\ None \notin [hash : Trees, finger : Trees]
                         /\ None \notin [id : Nat, build : Trees]

\* The journal on disk has been replayed already.
Applied == journal # None /\ marker # None /\ journal.gen = marker

\* Files with a backup on disk, and with one in memory.
Journalled == IF journal = None \/ Applied THEN {} ELSE Paths(journal.backups)
Held == Paths(iter.local) \cup (IF iter.rollback = None THEN {} ELSE Paths(iter.rollback))
Uncovered == Files \cap (Held \ Journalled)

\* Edited files whose journal a promotion has cleared before it took its candidate.
Cleared == {f \in Files \ Held : src[f] # approved[f]}

NoIteration == [mode |-> "agent", root |-> FALSE, manual |-> FALSE, id |-> 0,
                edits |-> 0, rollback |-> None, local |-> {}, changed |-> {},
                error |-> "none", verifier |-> "none", verified |-> None,
                canary |-> "none", verdict |-> "none"]

Init ==
    /\ src = Original /\ so = Original
    /\ index = [hash |-> Original, finger |-> Original]
    /\ journal = None /\ marker = None
    /\ up = TRUE /\ op = "none" /\ step = "none" /\ sub = "none" /\ live = Original /\ cand = None /\ expected = None
    /\ blocked = [i \in {} |-> None]
    /\ iter = NoIteration /\ undo = {} /\ built = None /\ restored = FALSE
    /\ spent = [iterations |-> 0, commands |-> 0, crashes |-> 0, faults |-> 0,
                stages |-> 0]
    /\ approved = Original /\ start = [tree |-> Original, synced |-> TRUE]
    /\ passed = {} /\ lost = {} /\ unclean = FALSE

-----------------------------------------------------------------------------
(* How an operation goes on.                                               *)

Stages == [edit |-> "persist", persist |-> "backup", backup |-> "stage", stage |-> "verify",
           verify |-> "canary", canary |-> "finalize"]

\* Mutant: only a staged candidate is rolled back.
RollBackCandidateOnly(then, end) ==
    [restore |-> "drop", drop |-> "rolled", rolled |-> then, restored |-> end]

\* rollback_candidate_if_staged, then restore_plugin_iteration_workspace.
RollBack(then, end) ==
    [restore |-> "drop", drop |-> "rolled", rolled |-> "restore_own", restore_own |-> then,
     restored |-> end]

Promotion(end) == [promote |-> "clear", clear |-> "take", take |-> end]

\* The step after a step, for each operation: a start and its boot, an iteration,
\* what finalize does after an error, after a failed check and when a promotion
\* is refused, the promotion itself, what follows a panic, and the commands.
After ==
    [start |-> [prepare |-> "load"],
     boot |-> [restore |-> "refresh", refresh |-> "booted"],
     iterate |-> Stages,
     fail |-> RollBack("restored", "conclude"),
     reject |-> RollBack("conclude", "conclude"),
     unpromote |-> RollBack("restored", "errored"),
     finish |-> Promotion("conclude"),
     panic |-> [restore |-> "restored"],
     abandon |-> [restore |-> "drop", drop |-> "rolled", rolled |-> "panicked"],
     undo |-> [restore |-> "drop", drop |-> "rolled", rolled |-> "done"],
     promote |-> Promotion("done"),
     approve |-> Promotion("approved")]

\* The step that handles an error.
Handler ==
    CASE op = "start" -> "refused"
      [] op = "boot" -> "booted"
      [] op = "iterate" -> "finalize"
      [] op = "finish" -> "promote_failed"
      [] op = "promote" -> "command_failed"
      [] op = "approve" -> "reinsert"
      [] op = "panic" -> "restored"
      [] op = "reject" /\ step = "restore_own" -> "errored"
      [] op \in {"fail", "unpromote"} /\ step = "restore_own" -> "restored"
      [] OTHER -> "rolled"

\* The step after a step of a recovery: a journal that was replayed is marked and
\* cleared before the build, and one that was applied before is only cleared.
Replay == [replay |-> IF journal = None THEN "wipe" ELSE "mark",
           mark |-> "clear",
           clear |-> IF restored THEN "unmark" ELSE "none",
           unmark |-> IF restored THEN "wipe" ELSE "clear"]

\* The build of an iteration that names a plugin and leaves the manifests alone
\* is one of this plugin.
OnePlugin == op = "iterate" /\ ~iter.root /\ iter.changed \cap Manifests = {}
Building == [wipe |-> "compile", compile |-> "swap",
             swap |-> IF OnePlugin THEN "rehash" ELSE "reindex",
             reindex |-> "none", rehash |-> "none"]

At(s) == sub = "none" /\ step = s
In(s) == sub = s

\* The operation begins, goes on with the given step, or is over.
Runs(o, s) == op' = o /\ step' = s /\ sub' = "none"
Ends == Runs("none", "none")
Proceeds == Runs(op, After[op][step])
Calls(s) == sub' = s /\ UNCHANGED <<op, step>>
SubProceeds ==
    LET next == IF sub \in {"replay", "mark", "clear", "unmark"} THEN Replay[sub] ELSE Building[sub]
    IN IF next = "none" THEN Proceeds ELSE Calls(next)

\* The error reaches its handler: the stages of an iteration end in finalize,
\* which is told what kind of error it was (fail_stage); a failed recovery is
\* only reported.
RaisesIn(state, kind) ==
    /\ Runs(op, Handler)
    /\ iter' = IF op = "iterate" THEN [state EXCEPT !.error = kind] ELSE state
    /\ unclean' = (unclean \/ op # "iterate")
Raises(kind) == RaisesIn(iter, kind)

Happens(kind) == spent' = [spent EXCEPT ![kind] = @ + 1]

\* The machine fails this kind of step: ENOSPC is told from the rest by
\* is_infrastructure_failure.
FaultIn(kind, state) == /\ kind \in Faults /\ spent.faults < MaxFaults
                        /\ Happens("faults")
                        /\ \E error \in {"stage", "infrastructure"} : RaisesIn(state, error)
Fault(kind) == FaultIn(kind, iter)
Tolerated(kind) == /\ kind \in Faults /\ spent.faults < MaxFaults
                   /\ Happens("faults")

-----------------------------------------------------------------------------
(* Building: prepare_artifacts and rebuild_plugin_workspace.               *)

\* Where a full build, one of the changed plugins and one of one plugin begin.
Full == "wipe"
Incremental == "compile"
Target == "compile"

Loadable == so # None /\ index # None /\ index.hash = so

Prepare ==
    /\ At("prepare")
    /\ \/ index = None /\ Calls(Full)
       \/ index # None /\ (so = None \/ index.finger # src) /\ Calls(Incremental)
       \/ index # None /\ so # None /\ index.finger = src /\ Proceeds
    /\ UNCHANGED <<disk, memory, spent, history>>

Wipe ==
    /\ In("wipe")
    /\ \/ /\ so' = None /\ index' = None /\ SubProceeds
          /\ UNCHANGED <<iter, spent, unclean>>
       \/ Fault("build") /\ UNCHANGED <<so, index>>
    /\ UNCHANGED <<src, journal, marker, up, live, cand, expected, blocked, undo, built,
                   restored, approved, start, passed, lost>>

Compile ==
    /\ In("compile")
    /\ \/ /\ \A f \in Files : src[f] \notin Broken
          /\ built' = src /\ SubProceeds /\ UNCHANGED <<iter, spent, unclean>>
       \/ /\ \E f \in Files : src[f] \in Broken
          /\ Raises("stage") /\ UNCHANGED <<built, spent>>
       \/ Fault("build") /\ UNCHANGED built
    /\ UNCHANGED <<disk, up, live, cand, expected, blocked, undo, restored, approved, start, passed, lost>>

Swap ==
    /\ In("swap")
    /\ \/ so' = built /\ SubProceeds /\ UNCHANGED <<iter, spent, unclean>>
       \/ Fault("build") /\ UNCHANGED so
    /\ UNCHANGED <<src, index, journal, marker, up, live, cand, expected, blocked, undo, built,
                   restored, approved, start, passed, lost>>

\* A full or incremental build writes a new entry; the build of one plugin
\* only refreshes the hash of the entry that is there.
WriteIndex ==
    /\ In("reindex") \/ In("rehash")
    /\ \/ /\ index' = IF In("reindex") THEN [hash |-> so, finger |-> built]
                     ELSE IF index = None THEN None ELSE [index EXCEPT !.hash = so]
          /\ SubProceeds
          /\ UNCHANGED <<iter, spent, unclean>>
       \/ Fault("build") /\ UNCHANGED index
    /\ UNCHANGED <<src, so, journal, marker, up, live, cand, expected, blocked, undo, built,
                   restored, approved, start, passed, lost>>

-----------------------------------------------------------------------------
(* Recovery: restore_plugin_iteration_workspace, called with the rollback  *)
(* the iteration holds in memory ("restore_own") or with none ("restore"). *)
(* A journal on disk is used instead of it, even one that lacks a batch.   *)

\* Files that the backups in memory take back to what an earlier iteration left.
Unapproved(backups) == {b.path : b \in {x \in backups : /\ x.path \in Files
                                                       /\ x.original # approved[x.path]}}

Restore ==
    LET own == IF At("restore_own") THEN iter.rollback ELSE None IN
    /\ At("restore") \/ At("restore_own")
    /\ \/ /\ Applied
          /\ Calls("unmark") /\ restored' = FALSE /\ UNCHANGED undo
       \/ /\ journal # None /\ ~Applied
          /\ Calls("replay") /\ restored' = TRUE /\ undo' = journal.backups
       \/ /\ journal = None /\ own # None
          /\ Calls("replay") /\ restored' = TRUE /\ undo' = own
       \/ /\ journal = None /\ own = None
          /\ Proceeds /\ restored' = FALSE /\ UNCHANGED undo
    /\ lost' = lost \cup (IF own = None THEN {}
                          ELSE IF journal = None THEN Unapproved(own) ELSE Uncovered)
    /\ UNCHANGED <<disk, up, live, cand, expected, blocked, iter, built, spent, approved, start,
                   passed, unclean>>

\* PluginEditRollback::rollback writes one backup after the other.  Their paths
\* differ, so that any order will do.  A backup that was in memory only is lost
\* when it cannot be written.
WriteBack ==
    /\ In("replay")
    /\ \/ /\ undo = {} /\ SubProceeds
          /\ UNCHANGED <<src, so, undo, iter, spent, unclean, lost>>
       \/ \E backup \in undo :
             /\ IF backup.path = "so"
                THEN so' = backup.original /\ UNCHANGED src
                ELSE src' = [src EXCEPT ![backup.path] = backup.original] /\ UNCHANGED so
             /\ undo' = undo \ {backup}
             /\ UNCHANGED <<control, iter, spent, unclean, lost>>
       \/ /\ undo # {} /\ Fault("restore")
          /\ lost' = IF journal = None THEN lost \cup (Files \cap Paths(undo)) ELSE lost
          /\ UNCHANGED <<src, so, undo>>
    /\ UNCHANGED <<index, journal, marker, up, live, cand, expected, blocked, built, restored,
                   approved, start, passed>>

\* A marker that cannot be written or removed is only logged.
Mark ==
    /\ In("mark") \/ In("unmark")
    /\ \/ marker' = (IF In("mark") THEN journal.gen ELSE None) /\ UNCHANGED spent
       \/ Tolerated("restore") /\ UNCHANGED marker
    /\ SubProceeds
    /\ UNCHANGED <<src, so, index, journal, memory, history>>

\* clear_plugin_iteration_journal, in recovery and in promote.
ClearJournal ==
    /\ In("clear") \/ At("clear")
    /\ \/ /\ journal' = None
          /\ IF In("clear") THEN SubProceeds ELSE Proceeds
          /\ UNCHANGED <<iter, spent, unclean>>
       \/ Fault("restore") /\ UNCHANGED journal
    /\ UNCHANGED <<src, so, index, marker, up, live, cand, expected, blocked, undo, built,
                   restored, approved, start, passed, lost>>

-----------------------------------------------------------------------------
(* Starting, and crashing.                                                 *)

\* serve boots; without --runtime-only it prepares the artifacts first.
Start ==
    /\ ~up /\ op = "none"
    /\ Runs("start", "load") \/ Runs("start", "prepare")
    /\ unclean' = FALSE
    /\ UNCHANGED <<disk, memory, spent, approved, start, passed, lost>>

\* boot builds its snapshot before it looks at the journal.
Load ==
    /\ At("load")
    /\ IF Loadable
       THEN /\ up' = TRUE /\ live' = so
            /\ Runs("boot", "restore")
            /\ UNCHANGED <<iter, unclean>>
       ELSE Raises("stage") /\ UNCHANGED <<up, live>>
    /\ UNCHANGED <<disk, cand, expected, blocked, undo, built, restored, spent,
                   approved, start, passed, lost>>

Refresh ==
    /\ At("refresh")
    /\ live' = IF restored /\ Loadable THEN so ELSE live
    /\ Proceeds
    /\ UNCHANGED <<disk, up, cand, expected, blocked, iter, undo, built, restored, spent, history>>

\* What is in memory only has no backup any more.
Crash ==
    /\ up \/ op # "none"
    /\ spent.crashes < MaxCrashes
    /\ Happens("crashes")
    /\ lost' = lost \cup Uncovered \cup (IF At("take") THEN Cleared ELSE {})
    /\ up' = FALSE /\ Ends /\ live' = None /\ cand' = None /\ expected' = None
    /\ blocked' = [i \in {} |-> None]
    /\ iter' = NoIteration /\ undo' = {} /\ built' = None /\ restored' = FALSE
    /\ UNCHANGED <<disk, approved, start, passed, unclean>>

-----------------------------------------------------------------------------
(* An iteration: iterate_plugins, with its agent or its plan.              *)

Begin(request) ==
    /\ up /\ op = "none" /\ spent.iterations < MaxIterations
    /\ Happens("iterations")
    /\ iter' = [NoIteration EXCEPT !.mode = request.mode, !.root = request.root,
                                  !.manual = request.manual, !.id = spent.iterations + 1,
                                  !.rollback = {}]
    /\ Runs("iterate", "edit") /\ expected' = None
    /\ start' = [tree |-> src, synced |-> so = src /\ Loadable] /\ unclean' = FALSE
    /\ UNCHANGED <<disk, up, live, cand, blocked, undo, built, restored, approved, passed, lost>>

\* Mutant: the last backup of a path is kept.
AbsorbLatest(backups, more) ==
    {b \in backups : b.path \notin Paths(more)} \cup more

\* PluginEditRollback::absorb keeps the first backup of a path.
Absorb(backups, more) ==
    backups \cup {b \in more : b.path \notin Paths(backups)}

\* One operation of PluginEditExecutor::execute.  A plan's backups go to the
\* rollback at once, the agent's to the batch its tool call is executing.
Edit(f, v) ==
    LET backup == {[path |-> f, original |-> src[f]]} IN
    /\ At("edit") /\ iter.edits < MaxEdits /\ v # src[f]
    /\ src' = [src EXCEPT ![f] = v]
    /\ iter' = IF iter.mode = "plan"
               THEN [iter EXCEPT !.edits = @ + 1, !.rollback = Absorb(@, backup),
                                 !.changed = @ \cup {f}]
               ELSE [iter EXCEPT !.edits = @ + 1, !.local = Absorb(@, backup)]
    /\ UNCHANGED <<so, index, journal, marker, up, control, live, cand, expected, blocked,
                   undo, built, restored, spent, history>>

\* Ids are never used twice, and a journal's is only compared with the marker's.
Fresh == IF marker = 0 THEN 1 ELSE 0
Journal(backups) == [backups |-> backups, gen |-> Fresh, origin |-> start.tree]

\* There is one journal file: a new iteration takes the place of a journal that
\* an earlier one left there, and with it of the backups in it.
Overwritten == IF journal # None /\ journal.origin # start.tree
               THEN Files \cap Journalled ELSE {}

\* apply_operations ends: the batch is absorbed and the journal written.  The
\* agent is told of a journal that cannot be written, and goes on.
EndBatch ==
    LET kept == [iter EXCEPT !.rollback = Absorb(@, iter.local), !.local = {}] IN
    /\ At("edit") /\ iter.local # {}
    /\ \/ /\ journal' = Journal(kept.rollback) /\ lost' = lost \cup Overwritten
          /\ iter' = [kept EXCEPT !.changed = @ \cup Paths(iter.local)]
          /\ UNCHANGED spent
       \/ /\ "batch" \in Faults /\ spent.faults < MaxFaults /\ Happens("faults")
          /\ iter' = kept /\ UNCHANGED <<journal, lost>>
    /\ UNCHANGED <<src, so, index, marker, up, control, live, cand, expected, blocked, undo, built,
                   restored, approved, start, passed, unclean>>

\* An operation of the batch is refused: what the batch has written is undone.
RefuseBatch ==
    /\ At("edit") /\ iter.local # {}
    /\ src' = [f \in Files |->
                 IF f \in Paths(iter.local)
                 THEN (CHOOSE b \in iter.local : b.path = f).original ELSE src[f]]
    /\ iter' = [iter EXCEPT !.local = {}]
    /\ UNCHANGED <<so, index, journal, marker, up, control, live, cand, expected, blocked,
                   undo, built, restored, spent, history>>

\* The agent ends its work, with or without the summary it must record, or its
\* session fails and is dropped with the rollback in it; a plan ends, or one of
\* its operations fails and the rollback so far is dropped with the error.
EndEdits ==
    /\ At("edit") /\ iter.local = {}
    /\ \/ Proceeds /\ UNCHANGED <<iter, unclean, lost>>
       \/ iter.mode = "agent" /\ Raises("stage") /\ UNCHANGED lost
       \/ /\ RaisesIn([iter EXCEPT !.rollback = None], "stage")
          /\ lost' = lost \cup Uncovered
    /\ UNCHANGED <<disk, up, live, cand, expected, blocked, undo, built, restored, spent,
                   approved, start, passed>>

Persist ==
    /\ At("persist")
    /\ \/ /\ journal' = Journal(iter.rollback) /\ lost' = lost \cup Overwritten
          /\ Proceeds /\ UNCHANGED <<iter, spent, unclean>>
       \/ Fault("persist") /\ UNCHANGED <<journal, lost>>
    /\ UNCHANGED <<src, so, index, marker, up, live, cand, expected, blocked, undo, built,
                   restored, approved, start, passed>>

\* The artifact joins the backups of an iteration that names a plugin; a
\* manifest that changed, or no plugin named, asks for a full build.
BackupArtifacts ==
    LET kept == [iter EXCEPT !.rollback =
                    IF iter.root \/ so = None THEN @
                    ELSE Absorb(@, {[path |-> "so", original |-> so]})]
    IN
    /\ At("backup")
    /\ \/ /\ iter' = kept /\ journal' = Journal(kept.rollback) /\ lost' = lost \cup Overwritten
          /\ Calls(IF OnePlugin THEN Target ELSE Full)
          /\ UNCHANGED <<spent, unclean>>
       \/ FaultIn("persist", kept) /\ UNCHANGED <<journal, lost>>
    /\ UNCHANGED <<src, so, index, marker, up, live, cand, expected, blocked, undo, built,
                   restored, approved, start, passed>>

Staged == [id |-> spent.stages + 1, build |-> so]

Stage ==
    /\ At("stage")
    /\ IF Loadable
       THEN /\ cand' = Staged /\ expected' = Staged.id
            /\ Happens("stages") /\ Proceeds /\ UNCHANGED <<iter, unclean>>
       ELSE Raises("stage") /\ UNCHANGED <<cand, expected, spent>>
    /\ UNCHANGED <<disk, up, live, blocked, undo, built, restored, approved, start, passed, lost>>

\* The tree is hashed after the commands ran; a hash that cannot be taken is
\* recorded as such.
Verify ==
    /\ At("verify")
    /\ \/ /\ \E verdict \in {"pass", "fail"} :
                iter' = [iter EXCEPT !.verifier = verdict, !.verified = src]
          /\ Proceeds /\ UNCHANGED <<spent, unclean>>
       \/ iter' = [iter EXCEPT !.verifier = "pass"] /\ Tolerated("hash") /\ Proceeds
          /\ UNCHANGED unclean
       \/ Fault("verify")
    /\ UNCHANGED <<disk, up, live, cand, expected, blocked, undo, built, restored, approved,
                   start, passed, lost>>

\* The replay answers, or the candidate refuses the call.
Canary ==
    /\ At("canary")
    /\ \/ /\ \E verdict \in Canaries : iter' = [iter EXCEPT !.canary = verdict]
          /\ Proceeds /\ UNCHANGED unclean
       \/ Raises("stage")
    /\ UNCHANGED <<disk, up, live, cand, expected, blocked, undo, built, restored, spent,
                   approved, start, passed, lost>>

\* Someone else edits the sources while the iteration builds or verifies.
Drift(f, v) ==
    /\ op = "iterate" /\ step # "edit" /\ v # src[f]
    /\ "drift" \in Faults /\ spent.faults < MaxFaults /\ Happens("faults")
    /\ src' = [src EXCEPT ![f] = v] /\ lost' = lost \cup {f}
    /\ UNCHANGED <<so, index, journal, marker, memory, control, approved, start, passed, unclean>>

-----------------------------------------------------------------------------
(* The verdict: finalize_plugin_iteration.                                 *)

Drifted == iter.verifier = "pass" /\ (iter.verified = None \/ iter.verified # src)
\* Mutant: the tree is not compared again before the promotion.
VerifiedOnce == iter.error = "none" /\ iter.verifier = "pass"

Verified == iter.error = "none" /\ iter.verifier = "pass" /\ ~Drifted
Verdict ==
    IF iter.error = "infrastructure" THEN "infrastructure_failure"
    ELSE IF iter.error # "none" THEN "rolled_back"
    ELSE IF Verified /\ (iter.canary = "pass" \/ (iter.canary = "partial" /\ iter.manual))
         THEN "promoted"
    ELSE IF iter.canary = "partial" THEN "blocked" ELSE "rolled_back"

Finalize ==
    /\ At("finalize")
    /\ iter' = [iter EXCEPT !.verdict = Verdict]
    /\ passed' = IF Verified THEN passed \cup {expected} ELSE passed
    /\ \/ iter.error # "none" /\ Runs("fail", "rollback")
       \/ iter.error = "none" /\ Verdict = "promoted" /\ Runs("finish", "promote")
       \/ iter.error = "none" /\ Verdict = "blocked" /\ Runs("finish", "conclude")
       \/ iter.error = "none" /\ Verdict = "rolled_back" /\ Runs("reject", "rollback")
    /\ UNCHANGED <<disk, up, live, cand, expected, blocked, undo, built, restored, spent,
                   approved, start, lost, unclean>>

PromoteFailed ==
    /\ At("promote_failed")
    /\ Runs("unpromote", "rollback")
    /\ UNCHANGED <<disk, memory, spent, history>>

\* record_plugin_iteration_outcome: what may be approved later is kept, and of
\* too many the oldest is dropped.
Without(i) == [k \in DOMAIN blocked \ {i} |-> blocked[k]]
Recorded(i, entry) ==
    LET all == [k \in DOMAIN blocked \cup {i} |-> IF k = i THEN entry ELSE blocked[k]]
        oldest == CHOOSE k \in DOMAIN all : \A j \in DOMAIN all : k <= j
    IN IF Cardinality(DOMAIN all) <= MaxBlocked THEN all
       ELSE [k \in DOMAIN all \ {oldest} |-> all[k]]

Conclude ==
    /\ At("conclude")
    /\ blocked' = IF iter.verdict \in {"blocked", "infrastructure_failure"}
                  THEN Recorded(iter.id, [verdict |-> iter.verdict, cand |-> expected])
                  ELSE Without(iter.id)
    /\ iter' = NoIteration /\ Ends
    /\ UNCHANGED <<disk, up, live, cand, expected, undo, built, restored, spent, history>>

\* The operation is over, or an error it handles has been noted.
Settle ==
    /\ \/ At("rolled") /\ Proceeds /\ UNCHANGED iter
       \/ At("restored") /\ op # "panic" /\ Proceeds /\ UNCHANGED iter
       \/ At("restored") /\ op = "panic" /\ Runs("abandon", "rollback") /\ UNCHANGED iter
       \/ /\ \E s \in {"errored", "panicked", "booted", "refused", "command_failed", "done"} : At(s)
          /\ Ends /\ iter' = NoIteration
    /\ UNCHANGED <<disk, up, live, cand, expected, blocked, undo, built, restored, spent, history>>

\* A stage panics: the run state is gone, the journal is replayed and whatever
\* is staged is rolled back.  (A panic in the agent's turn is an error of it.)
Panic ==
    /\ op = "iterate" /\ ~(At("edit") /\ iter.mode = "agent") /\ ~At("finalize")
    /\ "panic" \in Faults /\ spent.faults < MaxFaults /\ Happens("faults")
    /\ iter' = NoIteration /\ expected' = None
    /\ Runs("panic", "restore")
    /\ lost' = lost \cup Uncovered
    /\ UNCHANGED <<disk, up, live, cand, blocked, undo, built, restored, approved, start, passed,
                   unclean>>

-----------------------------------------------------------------------------
(* The candidate: promote_candidate_matching, rollback_candidate_matching, *)
(* approve_blocked_iteration and the operator's commands.                  *)

Promote ==
    /\ At("promote")
    /\ IF cand # None THEN Proceeds /\ UNCHANGED <<iter, unclean>> ELSE Raises("stage")
    /\ UNCHANGED <<disk, up, live, cand, expected, blocked, undo, built, restored, spent,
                   approved, start, passed, lost>>

\* The candidate is compared with the expected one when the journal is gone.
TakeCandidate ==
    /\ At("take")
    /\ IF expected = None \/ expected = cand.id
       THEN /\ live' = cand.build /\ cand' = None /\ approved' = cand.build
            /\ lost' = lost \cup {f \in Files : src[f] # cand.build[f]}
            /\ Proceeds /\ UNCHANGED <<iter, unclean>>
       ELSE /\ Raises("stage") /\ lost' = lost \cup Cleared
            /\ UNCHANGED <<live, cand, approved>>
    /\ UNCHANGED <<disk, up, expected, blocked, undo, built, restored, spent, start, passed>>

RollbackCandidate ==
    /\ At("rollback")
    /\ \/ /\ cand = None
          /\ Runs(op, "rolled") /\ UNCHANGED <<iter, unclean>>
       \/ /\ cand # None /\ expected \in {None, cand.id}
          /\ Runs(op, "restore") /\ UNCHANGED <<iter, unclean>>
       \/ cand # None /\ expected \notin {None, cand.id} /\ Raises("stage")
    /\ UNCHANGED <<disk, up, live, cand, expected, blocked, undo, built, restored, spent,
                   approved, start, passed, lost>>

DropCandidate ==
    /\ At("drop") /\ cand' = None /\ Proceeds
    /\ UNCHANGED <<disk, up, live, expected, blocked, iter, undo, built, restored, spent, history>>

Commanded(command) ==
    /\ up /\ op = "none" /\ command \in Commands /\ spent.commands < MaxCommands

\* reload and candidate reload load what artifacts/ holds, at once.
LoadCommand ==
    /\ \/ /\ Commanded("reload")
          /\ live' = IF Loadable THEN so ELSE live
          /\ spent' = [spent EXCEPT !.commands = @ + 1] /\ UNCHANGED cand
       \/ /\ Commanded("stage") /\ Loadable
          /\ cand' = Staged
          /\ spent' = [spent EXCEPT !.commands = @ + 1, !.stages = @ + 1] /\ UNCHANGED live
    /\ UNCHANGED <<disk, up, control, expected, blocked, iter, undo, built, restored, history>>

CandidateCommand ==
    /\ \/ Commanded("promote") /\ Runs("promote", "promote")
       \/ Commanded("rollback") /\ Runs("undo", "rollback")
    /\ Happens("commands") /\ expected' = None /\ unclean' = FALSE
    /\ UNCHANGED <<disk, up, live, cand, blocked, iter, undo, built, restored,
                   approved, start, passed, lost>>

\* The entry is taken out of the map, and put back when promote refuses.
Approve(i) ==
    /\ Commanded("approve") /\ i \in DOMAIN blocked
    /\ Happens("commands")
    /\ expected' = blocked[i].cand
    /\ iter' = [NoIteration EXCEPT !.id = i, !.verdict = blocked[i].verdict]
    /\ blocked' = Without(i)
    /\ Runs("approve", "promote")
    /\ unclean' = FALSE
    /\ UNCHANGED <<disk, up, live, cand, undo, built, restored, approved, start, passed, lost>>

EndApproval ==
    /\ At("approved") \/ At("reinsert")
    /\ blocked' = IF At("approved") THEN Without(iter.id)
                  ELSE [k \in DOMAIN blocked \cup {iter.id} |->
                          IF k = iter.id THEN [verdict |-> iter.verdict, cand |-> expected]
                          ELSE blocked[k]]
    /\ iter' = NoIteration /\ Ends
    /\ UNCHANGED <<disk, up, live, cand, expected, undo, built, restored, spent, history>>

-----------------------------------------------------------------------------
Build == Prepare \/ Wipe \/ Compile \/ Swap \/ WriteIndex
Recover == Restore \/ WriteBack \/ Mark \/ ClearJournal
Host == Start \/ Load \/ Refresh \/ Crash \/ Settle
Work ==
    \/ \E f \in Files, v \in Versions : Edit(f, v) \/ Drift(f, v)
    \/ EndBatch \/ RefuseBatch \/ EndEdits \/ Persist \/ BackupArtifacts \/ Stage
    \/ Verify \/ Canary \/ Finalize \/ PromoteFailed \/ Conclude \/ Panic
Candidate ==
    \/ Promote \/ TakeCandidate \/ RollbackCandidate \/ DropCandidate
    \/ LoadCommand \/ CandidateCommand \/ EndApproval
    \/ \E i \in DOMAIN blocked : Approve(i)

\* The host waits for the next command.
Idle == up /\ op = "none" /\ UNCHANGED vars

Next == \/ \E request \in Requests : Begin(request)
        \/ Build \/ Recover \/ Host \/ Work \/ Candidate \/ Idle
Spec == Init /\ [][Next]_vars

-----------------------------------------------------------------------------
(* Properties.                                                             *)

IterationType ==
    [mode : {"agent", "plan"}, root : BOOLEAN, manual : BOOLEAN, id : 0..MaxIterations,
     edits : 0..MaxEdits, rollback : (SUBSET Backup) \cup {None}, local : SUBSET Backup,
     changed : SUBSET Files, error : {"none", "stage", "infrastructure"},
     verifier : {"none", "pass", "fail"}, verified : Trees \cup {None},
     canary : Canaries \cup {"none"},
     verdict : {"none", "promoted", "rolled_back", "blocked", "infrastructure_failure"}]

\* The state keeps its shape: at most one backup per file in a rollback, a host
\* that is up has a snapshot, and only concluded iterations are kept as blocked.
TypeOK ==
    /\ src \in Trees /\ so \in Trees \cup {None}
    /\ index \in [hash : Trees, finger : Trees] \cup {None}
    /\ journal \in [backups : SUBSET Backup, gen : {0, 1}, origin : Trees] \cup {None}
    /\ marker \in {0, 1, None}
    /\ up \in BOOLEAN /\ (up => live \in Trees) /\ restored \in BOOLEAN
    /\ iter \in IterationType /\ undo \in SUBSET Backup /\ built \in Trees \cup {None}
    /\ cand \in [id : Nat, build : Trees] \cup {None}
    /\ DOMAIN blocked \subseteq 1..MaxIterations /\ Cardinality(DOMAIN blocked) <= MaxBlocked
    /\ iter.rollback # None =>
         \A b, c \in iter.rollback : b.path = c.path => b = c

\* A journal holds what each file was when the iteration that wrote it began,
\* however often the file was edited since: persist_journal after absorb, in
\* every batch and again with the artifact.
JournalFaithful ==
    journal # None => \A backup \in journal.backups :
        backup.path \in Files => backup.original = journal.origin[backup.path]

\* As long as a file has an edit of the last iteration that was not promoted, its
\* old content is in the journal or in the memory of the iteration:
\* apply_plugin_iteration_journal clears the journal when the files are back,
\* promote when they are to stay.  (lost: among others the window between an
\* edit and the journal.)
EditsRecoverable ==
    \A f \in Files \ lost :
        src[f] \notin {approved[f], start.tree[f]} /\ ~At("take") => f \in Journalled \cup Held

\* When boot has recovered without an error, every file that had a backup on
\* disk when the host crashed is what was last promoted, also after a crash in
\* the middle of an earlier recovery.
CrashRestores == At("booted") /\ ~unclean => \A f \in Files \ lost : src[f] = approved[f]

\* Whatever crashes and fails, the edits of an iteration can be taken back from
\* disk or memory, and a boot takes them back.
IterationRecoverable == TypeOK /\ JournalFaithful /\ EditsRecoverable /\ CrashRestores

\* An iteration reported as rolled back, or as restored after a panic, without
\* a recovery error has left no file with its edits: each is as it was when the
\* iteration began, or as it was promoted if the rollback undid more.
RolledBackClean ==
    /\ ~unclean
    /\ At("panicked") \/ (At("conclude") /\ iter.verdict \in {"rolled_back", "infrastructure_failure"})
    => \A f \in Files \ lost : src[f] \in {start.tree[f], approved[f]}

\* Sources and artifacts come back together (P0-8): when an iteration is over,
\* promoted or cleanly rolled back, or boot has replayed a journal, the artifact
\* is the build of the sources and its entry in index.json has its hash.  (A
\* boot that finds no journal loads what it finds: a crash between the clearing
\* of the journal and the rebuild leaves the old artifact.)
ArtifactsFollow ==
    /\ ~unclean /\ journal = None /\ lost = {}
    /\ \/ At("booted") /\ restored
       \/ At("conclude") /\ iter.verdict \in {"promoted", "rolled_back"} /\ start.synced
    => so = src /\ Loadable

\* What an iteration that is over has left behind, in sources and artifacts.
IterationClean == RolledBackClean /\ ArtifactsFollow

\* A candidate that finalize makes live passed its verification, its canary did
\* not fail, the sources are still the tree that was verified, and if nobody else
\* edited them meanwhile the candidate is its build.
PromotedVerified ==
    [][ (At("take") /\ iter.verifier # "none" /\ cand' = None /\ cand # None)
        => /\ iter.verifier = "pass" /\ iter.canary # "fail"
           /\ iter.verified = src /\ (lost = {} => cand.build = src) ]_vars

\* "approve 不得 promote 一份从未验证的快照": what approve_blocked_iteration
\* makes live is a candidate whose verification passed.
ApprovedVerified ==
    [][ At("take") /\ iter.verifier = "none" /\ iter.verdict # "none" /\ cand' # cand
        => cand.id \in passed ]_vars
=============================================================================
