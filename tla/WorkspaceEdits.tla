--------------------------- MODULE WorkspaceEdits ---------------------------
(***************************************************************************)
(* The files of the workspace under the hands of the interactive console   *)
(* of `serve`: the agent's file tools with their accumulated rollback      *)
(* (agent.rs, PluginEditRollback), the transactions of the AutoUpdater     *)
(* (`kernel apply-plan`), the draft that is saved when a chat turn fails,  *)
(* and the signal handler that saves a draft from a thread of its own.     *)
(*                                                                         *)
(* A path is a model value.  The content of a file is the number of the    *)
(* write that made it: 0 is what git has, Absent is no file, and a write   *)
(* that fails half way leaves a content of its own.  Place is where        *)
(* resolve_sandboxed_path puts an edit, Restored is where the rollback     *)
(* writes the original back: paths under data/ live beside the fixtures.   *)
(* Failed restores are left out (rollback stops at the first one).         *)
(***************************************************************************)
EXTENDS Integers, Sequences, SequencesExt, FiniteSets, SeqFilter

CONSTANTS
  Paths,        \* names the tools use
  Outside,      \* names that resolve_sandboxed_path refuses
  Sensitive,    \* names that check_sensitive_path refuses
  Tracked,      \* places that git knows
  DataPaths,    \* names under data/
  MaxWrites,    \* bound: writes
  MaxEditTurns  \* bound: turns of the agent and plans of the updater

Absent == -1

ASSUME WorkspaceBounds ==
  /\ Outside \cup Sensitive \subseteq Paths /\ DataPaths \subseteq Paths
  /\ MaxWrites \in Nat /\ MaxEditTurns \in Nat

\* A place is a name and the root it is resolved against.
Place(p) == IF p \in DataPaths THEN <<"workspace", p>> ELSE <<"fixtures", p>>
Restored(p) == <<"fixtures", p>>
Places == {Place(p) : p \in Paths} \cup {Restored(p) : p \in Paths}

VARIABLES
  disk,         \* place -> content
  mode,         \* ServeState.mode
  editsPc,      \* the console thread: "prompt", "turn", "tool", "txn", "undo", "draft"
  tool,         \* the call of a tool between its read and its backup
  backups,      \* interactive_rollback: a sequence of [path, original]
  txn,          \* backups of the AutoUpdater's transaction
  saver,        \* progress of save_draft_and_revert, per thread
  patch,        \* what git diff printed, per thread
  drafts,       \* contents saved under .cordis-drafts, as <<place, content>>
  writes, turns,
  base,         \* history variable: content before the first edit since the last revert
  loose,        \* history variable: new names of renamed files since the last revert
  before,       \* history variable: disk when the transaction began
  outcome,      \* history variable: "kept" or "undone", how the last plan ended
  made          \* history variable: contents written by the failed turn

Threads == {"console", "signal"}
OpKinds == {"write", "append", "replace", "delete", "rename", "copy"}
NoTool == [kind |-> "none"]
files == <<disk, writes>>
editHistory == <<base, loose, before, outcome, made>>
editsVars == <<disk, mode, editsPc, tool, backups, txn, saver, patch, drafts, writes, turns, editHistory>>

GitHead(l) == IF l \in Tracked THEN 0 ELSE Absent
CleanTree == [l \in Places |-> GitHead(l)]
Running == saver["signal"] /= "exited"

EditsInit ==
  /\ disk = CleanTree
  /\ mode = "command" /\ editsPc = "prompt" /\ tool = NoTool /\ backups = <<>> /\ txn = <<>>
  /\ saver = [t \in Threads |-> "off"] /\ patch = [t \in Threads |-> {}] /\ drafts = {}
  /\ writes = 0 /\ turns = 0 /\ base = <<>> /\ loose = {} /\ before = disk /\ made = {}
  /\ outcome = "kept"

-----------------------------------------------------------------------------
\* The prompt: `agent`, `shell`, /exit, and the lines that do work.

ChangeMode ==
  /\ Running /\ editsPc = "prompt"
  /\ \/ mode = "command" /\ mode' \in {"chat", "shell"}
     \/ mode /= "command" /\ mode' = "command"
  /\ UNCHANGED <<files, editsPc, tool, backups, txn, saver, patch, drafts, turns, editHistory>>

\* A line for the agent, in chat or as `agent <text>`.
StartTurn ==
  /\ Running /\ editsPc = "prompt" /\ mode \in {"chat", "command"} /\ turns < MaxEditTurns
  /\ editsPc' = "turn" /\ turns' = turns + 1 /\ made' = {}
  /\ UNCHANGED <<files, mode, tool, backups, txn, saver, patch, drafts, base, loose, before, outcome>>

-----------------------------------------------------------------------------
\* The file tools: read the original, change the disk, absorb the backup.

\* replace_in_file has no check for sensitive names.
Accepts(kind, p) == p \notin Outside /\ (p \in Sensitive => kind = "replace")

\* The arguments are checked and the originals are read; a tool that needs its
\* file fails without one.
ReadOriginals(kind, p, q) ==
  /\ Running /\ editsPc = "turn" /\ writes < MaxWrites
  /\ kind \in {"rename", "copy"} => p /= q
  /\ kind \notin {"rename", "copy"} => p = q
  /\ Accepts(kind, p) /\ Accepts(kind, q)
  /\ kind \in {"replace", "delete", "rename", "copy"} => disk[Place(p)] /= Absent
  /\ tool' = [kind |-> kind, from |-> p, to |-> q,
              original |-> disk[Place(p)], dest |-> disk[Place(q)]]
  /\ editsPc' = "tool"
  /\ UNCHANGED <<files, mode, backups, txn, saver, patch, drafts, turns, editHistory>>

\* What the call leaves on the disk.
Changed(t, n) ==
  CASE t.kind \in {"write", "append", "replace"} -> [disk EXCEPT ![Place(t.from)] = n]
    [] t.kind = "delete" -> [disk EXCEPT ![Place(t.from)] = Absent]
    [] t.kind = "rename" -> [disk EXCEPT ![Place(t.from)] = Absent, ![Place(t.to)] = disk[Place(t.from)]]
    [] t.kind = "copy"   -> [disk EXCEPT ![Place(t.to)] = disk[Place(t.from)]]

\* The backups the call hands to the rollback: the file it worked on, for a copy
\* the destination, for a rename also a destination that was there.
Backup(p, c) == [path |-> p, original |-> c]
BackupsOf(t) ==
  CASE t.kind = "copy" -> <<Backup(t.to, t.dest)>>
    [] t.kind = "rename" /\ t.dest /= Absent ->
         <<Backup(t.from, t.original), Backup(t.to, t.dest)>>
    [] OTHER -> <<Backup(t.from, t.original)>>

\* Mutant: the last backup of a path wins.
AbsorbLast(old, new) ==
  ElementsAt(old, {i \in DOMAIN old : \A j \in DOMAIN new : new[j].path /= old[i].path}) \o new

\* PluginEditRollback::absorb: the first backup of a path wins.
Absorb(old, new) ==
  old \o ElementsAt(new, {i \in DOMAIN new : \A j \in DOMAIN old : old[j].path /= new[i].path})

Touched(t) == IF t.kind = "copy" THEN {t.to} ELSE {t.from, t.to}
Edit ==
  /\ Running /\ editsPc = "tool"
  /\ tool.kind \in {"delete", "rename", "copy"} => disk[Place(tool.from)] /= Absent
  /\ writes' = writes + 1 /\ disk' = Changed(tool, writes + 1)
  /\ backups' = Absorb(backups, BackupsOf(tool))
  /\ base' = [p \in DOMAIN base \cup Touched(tool) |->
                IF p \in DOMAIN base THEN base[p] ELSE disk[Place(p)]]
  /\ loose' = loose \cup IF tool.kind = "rename" /\ tool.dest = Absent THEN {tool.to} ELSE {}
  /\ made' = made \cup {<<l, disk'[l]>> : l \in {x \in Places : disk'[x] \notin {disk[x], Absent}}}
  /\ editsPc' = "turn" /\ tool' = NoTool
  /\ UNCHANGED <<mode, txn, saver, patch, drafts, turns, before, outcome>>

\* The write fails: no backup is absorbed, and fs::write may have torn the file.
EditFails(torn) ==
  /\ Running /\ editsPc = "tool"
  /\ torn => tool.kind \in {"write", "append", "replace", "copy"}
  /\ IF torn THEN writes' = writes + 1 /\ disk' = [disk EXCEPT ![Place(tool.to)] = writes + 1]
     ELSE UNCHANGED files
  /\ editsPc' = "turn" /\ tool' = NoTool
  /\ UNCHANGED <<mode, backups, txn, saver, patch, drafts, turns, editHistory>>

\* Every backup, last first.
Restore(d, bs) ==
  [l \in Places |->
     IF \E i \in DOMAIN bs : Restored(bs[i].path) = l
     THEN bs[CHOOSE i \in DOMAIN bs : /\ Restored(bs[i].path) = l
                                      /\ \A j \in 1..i-1 : Restored(bs[j].path) /= l].original
     ELSE d[l]]

Revert(next) ==
  /\ disk' = Restore(disk, backups) /\ backups' = <<>> /\ base' = <<>> /\ loose' = {} /\ editsPc' = next
  /\ UNCHANGED <<mode, tool, txn, saver, patch, drafts, writes, turns, before, outcome, made>>

\* revert_changes as a tool.
RevertTool == Running /\ editsPc = "turn" /\ Revert("turn")

\* The turn ends.  In chat a failed turn is undone, then its draft is saved; the
\* command `agent <text>` only reports the failure.
TurnEnds(ok) ==
  /\ Running /\ editsPc = "turn"
  /\ editsPc' = IF ok \/ mode = "command" THEN "prompt" ELSE "undo"
  /\ made' = IF editsPc' = "prompt" THEN {} ELSE made
  /\ UNCHANGED <<files, mode, tool, backups, txn, saver, patch, drafts, turns, base, loose,
                 before, outcome>>

UndoTurn == Running /\ editsPc = "undo" /\ Revert("draft")

-----------------------------------------------------------------------------
\* save_draft_and_revert: git diff, the list of untracked files, the patch file,
\* the stash, git checkout.  The signal handler exits afterwards.

InScope(l) == l[1] = "fixtures"

DraftDiff(t) ==
  /\ Running /\ saver[t] = "off" /\ (t = "console" => editsPc = "draft")
  /\ patch' = [patch EXCEPT ![t] = {<<l, disk[l]>> : l \in {x \in Places :
                                      InScope(x) /\ x \in Tracked /\ disk[x] /= GitHead(x)}}]
  /\ saver' = [saver EXCEPT ![t] = "diffed"]
  /\ UNCHANGED <<files, mode, editsPc, tool, backups, txn, drafts, turns, editHistory>>

Untracked == {l \in Places : InScope(l) /\ l \notin Tracked /\ disk[l] /= Absent}

\* The untracked files move into the draft directory; without changes there is
\* nothing to save and nothing to check out.
DraftStash(t) ==
  /\ Running /\ saver[t] = "diffed"
  /\ drafts' = drafts \cup patch[t] \cup {<<l, disk[l]>> : l \in Untracked}
  /\ disk' = [l \in Places |-> IF l \in Untracked THEN Absent ELSE disk[l]]
  /\ saver' = [saver EXCEPT ![t] = IF patch[t] = {} /\ Untracked = {} THEN "done" ELSE "stashed"]
  /\ UNCHANGED <<mode, editsPc, tool, backups, txn, patch, writes, turns, editHistory>>

DraftCheckout(t) ==
  /\ Running /\ saver[t] = "stashed"
  /\ disk' = [l \in Places |-> IF InScope(l) /\ l \in Tracked THEN GitHead(l) ELSE disk[l]]
  /\ saver' = [saver EXCEPT ![t] = "done"]
  /\ UNCHANGED <<mode, editsPc, tool, backups, txn, patch, drafts, writes, turns, editHistory>>

DraftDone(t) ==
  /\ Running /\ saver[t] = "done"
  /\ saver' = [saver EXCEPT ![t] = IF t = "signal" THEN "exited" ELSE "off"]
  /\ editsPc' = IF t = "console" THEN "prompt" ELSE editsPc
  /\ patch' = [patch EXCEPT ![t] = {}]
  /\ made' = IF t = "console" THEN {} ELSE made
  /\ UNCHANGED <<files, mode, tool, backups, txn, drafts, turns, base, loose, before, outcome>>

-----------------------------------------------------------------------------
\* AutoUpdater::execute, one patch at a time.

StartPlan ==
  /\ Running /\ editsPc = "prompt" /\ mode = "command" /\ turns < MaxEditTurns
  /\ turns' = turns + 1 /\ editsPc' = "txn" /\ txn' = <<>> /\ before' = disk
  /\ UNCHANGED <<files, mode, tool, backups, saver, patch, drafts, base, loose, outcome, made>>

\* The AutoUpdater restores where it patched, in reverse and without merging.
Undone(d, bs) ==
  [l \in Places |->
     LET own == {i \in DOMAIN bs : bs[i].place = l}
     IN  IF own = {} THEN d[l] ELSE bs[CHOOSE i \in own : \A j \in own : i <= j].original]

\* A patch of an existing file; the backup comes before the write.
ApplyPatch(l) ==
  /\ Running /\ editsPc = "txn" /\ writes < MaxWrites /\ disk[l] /= Absent
  /\ txn' = Append(txn, [place |-> l, original |-> disk[l]])
  /\ writes' = writes + 1 /\ disk' = [disk EXCEPT ![l] = writes + 1]
  /\ UNCHANGED <<mode, editsPc, tool, backups, saver, patch, drafts, turns, editHistory>>

\* A patch that does not fit, a write that tears, a verification that fails or
\* does not accept: everything is rolled back.
PlanFails(torn, l) ==
  /\ Running /\ editsPc = "txn" /\ (torn => writes < MaxWrites /\ disk[l] /= Absent)
  /\ LET bs == IF torn THEN Append(txn, [place |-> l, original |-> disk[l]]) ELSE txn
     IN  disk' = Undone(IF torn THEN [disk EXCEPT ![l] = writes + 1] ELSE disk, bs)
  /\ writes' = IF torn THEN writes + 1 ELSE writes
  /\ txn' = <<>> /\ editsPc' = "prompt" /\ outcome' = "undone" /\ before' = CleanTree
  /\ UNCHANGED <<mode, tool, backups, saver, patch, drafts, turns, base, loose, made>>

\* tests_passed and safety_checks_passed.
PlanAccepted ==
  /\ Running /\ editsPc = "txn" /\ txn' = <<>> /\ editsPc' = "prompt" /\ outcome' = "kept" /\ before' = CleanTree
  /\ UNCHANGED <<files, mode, tool, backups, saver, patch, drafts, turns, base, loose, made>>

Console ==
  \/ ChangeMode \/ StartTurn \/ Edit \/ RevertTool \/ UndoTurn \/ StartPlan \/ PlanAccepted
  \/ \E k \in OpKinds, p, q \in Paths : ReadOriginals(k, p, q)
  \/ \E b \in BOOLEAN : EditFails(b) \/ TurnEnds(b)
  \/ \E l \in Places : ApplyPatch(l) \/ \E torn \in BOOLEAN : PlanFails(torn, l)

SaveDraft(t) == DraftDiff(t) \/ DraftStash(t) \/ DraftCheckout(t) \/ DraftDone(t)

EditsNext == Console \/ \E t \in Threads : SaveDraft(t)
EditsSpec == EditsInit /\ [][EditsNext]_editsVars
-----------------------------------------------------------------------------
Quiet == saver["signal"] = "off"

\* Type correctness.
EditsTypeOK ==
  /\ DOMAIN disk = Places /\ \A l \in Places : disk[l] \in Absent..MaxWrites
  /\ mode \in {"command", "chat", "shell"}
  /\ editsPc \in {"prompt", "turn", "tool", "txn", "undo", "draft"}
  /\ \A t \in Threads : saver[t] \in {"off", "diffed", "stashed", "done", "exited"}

\* "whichever rollback saw the file first records the correct pre-edit bytes":
\* however often and with whichever tools a file is edited, renamed or copied over,
\* its one backup is the content before the first of those edits (the new name of a
\* renamed file has no backup of its own, see RevertsAll).
BackupsFaithful ==
  /\ Quiet => \A i \in DOMAIN backups : LET b == backups[i] IN
       b.path \in DOMAIN base /\ (b.path \notin loose => b.original = base[b.path])
  /\ \A i, j \in DOMAIN backups : backups[i].path = backups[j].path => i = j

\* A revert gives every file the tools worked on its content back, whatever came in
\* between; out of its reach are new names of renamed files and files under data/.
RevertRestores ==
  [][backups /= <<>> /\ backups' = <<>> /\ Quiet =>
       \A p \in DOMAIN base \ (DataPaths \cup loose) : disk'[Place(p)] = base[p]]_editsVars

\* "Revert all file changes made by the interactive agent in this session."
RevertsAll ==
  [][backups /= <<>> /\ backups' = <<>> /\ Quiet =>
       \A p \in DOMAIN base : disk'[Place(p)] = base[p]]_editsVars

\* A plan that fails at any patch or in its verification leaves every file as it
\* was, also one it patched twice (unless the signal handler works on the files).
FailedPlanLeavesNothing ==
  [][editsPc = "txn" /\ editsPc' = "prompt" /\ outcome' = "undone" /\ before' = CleanTree /\ Quiet => disk' = before]_editsVars

\* Saving a draft never destroys a file git does not know (P0-26): it stays, or is
\* in the draft directory, also while the agent writes from its own thread.
UntrackedSurvives ==
  [][\A t \in Threads : saver'[t] /= saver[t] =>
       \A l \in Untracked : disk'[l] = disk[l] \/ <<l, disk[l]>> \in drafts']_editsVars

\* What the tools of the agent, a plan or a draft did to the workspace can be
\* undone to the bytes that were there.
EditsUndone ==
  /\ [](EditsTypeOK /\ BackupsFaithful)
  /\ RevertRestores /\ FailedPlanLeavesNothing /\ UntrackedSurvives

\* "Save partial changes as draft, revert workspace.": what a failed turn wrote
\* is on the disk or in a draft when the prompt is back.
FailedTurnIsDrafted ==
  [][editsPc = "draft" /\ editsPc' = "prompt" /\ Quiet =>
       \A e \in made : disk'[e[1]] = e[2] \/ e \in drafts']_editsVars

=============================================================================
