---------------------------- MODULE IterationAgent ----------------------------
(***************************************************************************)
(* The agent session of a plugin iteration (PluginIterationAgentBackend of *)
(* host.rs): the model calls tools, in rounds, that list and read context  *)
(* files, edit the subtree, scaffold a child plugin, check it, and record  *)
(* the summary that ends the session.  A tool that edits runs its          *)
(* operations one by one, undoes them when one fails, and saves the        *)
(* rollback journal at its end.  PluginIteration has the pipeline around   *)
(* the session, where all of this is one step.                             *)
(*                                                                         *)
(* A file is the state of its text: "warns" compiles with a warning.       *)
(***************************************************************************)
EXTENDS Integers, Sequences, FiniteSets, Functions

CONSTANTS Path,            \* files of the workspace
          Writable,        \* ... in a root the iteration may edit
          Focus,           \* ... on the structural shortlist at the start
          Sources,         \* ... under src/ or tests/
          ParentManifest,  \* manifest that a scaffold registers its child in
          ChildFiles,      \* files a scaffold creates, in order
          Batches,         \* sequences of operations the model asks for
          ToolCommands,        \* verification commands the model asks for
          MaxTools,        \* bound: tool calls of the session
          MaxToolFaults        \* bound: writes that the machine fails

Text == {"absent", "old", "new", "warns"}
Operation == [path : Path, kind : {"create", "replace", "delete", "set"},
              expected : Text, new : Text]
OriginalText(p) == IF p \in Range(ChildFiles) THEN "absent" ELSE "old"

ASSUME AgentFiles ==
    /\ Writable \subseteq Path /\ Focus \subseteq Path /\ Sources \subseteq Path
    /\ ParentManifest \in Writable /\ ChildFiles \in Seq(Writable)
    /\ Batches \subseteq Seq(Operation)
    /\ ToolCommands \subseteq [tool : {"check", "test"}, op : {"check", "test", "run"}, shell : BOOLEAN]
    /\ {MaxTools, MaxToolFaults} \subseteq Nat

VARIABLES
    files,      \* the workspace
    agent,      \* PluginIterationAgentState
    saved,      \* the rollback journal on disk
    tool,       \* "none", or the editing tool that is running
    batch,      \* operations it has left
    done,       \* operations it has carried out, with the text they replaced
    session,    \* "running", "finished", "failed", or "restored" after it failed
    budget,     \* tools and faults so far
    stranded,   \* history: files that a batch left edited without a backup
    unsaved,    \* history: the last edit was not journalled
    edited,     \* history: files that finished tools wrote
    proven      \* history: a check passed when no file of edited warned

agentVars == <<files, agent, saved, tool, batch, done, session, budget,
               stranded, unsaved, edited, proven>>

NoBackups == [p \in {} |-> "absent"]

\* start_plugin_iteration_agent_session with the collected context paths.
AgentInit ==
    /\ files = [p \in Path |-> OriginalText(p)]
    /\ agent = [focus |-> Focus, all |-> Path \ Range(ChildFiles), expanded |-> FALSE,
                summary |-> FALSE, attempts |-> 0, successes |-> 0, rollback |-> NoBackups,
                operations |-> {}, scaffolded |-> FALSE, offered |-> FALSE, read |-> {}]
    /\ saved = NoBackups /\ tool = "none" /\ batch = <<>> /\ done = <<>>
    /\ session = "running" /\ budget = [tools |-> 0, faults |-> 0]
    /\ stranded = {} /\ unsaved = FALSE /\ edited = {} /\ proven = FALSE

-----------------------------------------------------------------------------
\* phase(): where the session stands, as the model is told.
Phase ==
    CASE agent.summary -> "finalized"
      [] ~ agent.summary /\ agent.operations = {} -> "exploration"
      [] ~ agent.summary /\ agent.operations # {} /\ agent.attempts = 0 -> "editing"
      [] ~ agent.summary /\ agent.operations # {} /\ agent.attempts > 0 /\ agent.successes = 0
           -> "verification_retry"
      [] OTHER -> "verification"

ToolCalls == /\ session = "running" /\ tool = "none" /\ Phase # "finalized"
         /\ budget.tools < MaxTools
         /\ budget' = [budget EXCEPT !.tools = @ + 1]

\* tool_specs, asked for once a round: record_iteration_summary is among the
\* tools when a verification has succeeded.
NextRound ==
    /\ session = "running" /\ tool = "none" /\ Phase # "finalized"
    /\ agent' = [agent EXCEPT !.offered = agent.successes > 0]
    /\ UNCHANGED <<files, saved, tool, batch, done, session, budget, stranded, unsaved,
                   edited, proven>>

ListContextFiles(scope) ==
    /\ ToolCalls
    /\ agent' = [agent EXCEPT !.expanded = @ \/ scope = "all"]
    /\ UNCHANGED <<files, saved, tool, batch, done, session, stranded, unsaved, edited, proven>>

Visible == IF agent.expanded THEN agent.all ELSE agent.focus

\* One path that is hidden, unknown or missing fails the whole call.
ReadContextFiles(paths) ==
    /\ ToolCalls
    /\ paths \subseteq agent.all \cap Visible
    /\ \A p \in paths : files[p] # "absent"
    /\ agent' = [agent EXCEPT !.read = @ \cup paths]
    /\ UNCHANGED <<files, saved, tool, batch, done, session, stranded, unsaved, edited, proven>>

-----------------------------------------------------------------------------
(* apply_operations.                                                       *)

Applies(o) ==
    /\ o.path \in Writable
    /\ IF o.kind = "create" THEN files[o.path] = "absent"
       ELSE files[o.path] # "absent" /\ files[o.path] = o.expected

Result(o) == IF o.kind = "delete" THEN "absent" ELSE o.new

\* The operations of a batch as a whole may be refused for a reserved word.
StartBatch(name, operations) ==
    /\ ToolCalls
    /\ tool' \in {name, "none"}
    /\ batch' = IF tool' = "none" THEN <<>> ELSE operations
    /\ done' = <<>>
    /\ UNCHANGED <<files, agent, saved, session, stranded, unsaved, edited, proven>>

ApplyOperations(operations) == operations # <<>> /\ StartBatch("edit", operations)

\* scaffold_child_plugin: the parent's manifest as it is now gets the child,
\* then the files of the child are created.
ScaffoldOps ==
    <<[path |-> ParentManifest, kind |-> "set", expected |-> files[ParentManifest], new |-> "new"]>>
    \o [i \in 1..Len(ChildFiles) |->
           [path |-> ChildFiles[i], kind |-> "create", expected |-> "absent", new |-> "new"]]

ScaffoldChildPlugin ==
    /\ files[ParentManifest] # "absent"
    /\ StartBatch("scaffold", ScaffoldOps)

ApplyOne ==
    /\ tool # "none" /\ batch # <<>>
    /\ LET o == Head(batch) IN
       /\ Applies(o)
       /\ files' = [files EXCEPT ![o.path] = Result(o)]
       /\ done' = Append(done, [path |-> o.path, original |-> files[o.path]])
    /\ batch' = Tail(batch)
    /\ UNCHANGED <<agent, saved, tool, session, budget, stranded, unsaved, edited, proven>>

\* The first backup of a file wins.
FirstBackup(backups) ==
    [p \in {backups[i].path : i \in DOMAIN backups} |->
        LET first == CHOOSE i \in DOMAIN backups :
                         /\ backups[i].path = p
                         /\ \A j \in 1..i - 1 : backups[j].path # p
        IN  backups[first].original]

\* PluginEditRollback::absorb.
AbsorbBackup(rollback, backups) ==
    [p \in DOMAIN rollback \cup DOMAIN backups |->
        IF p \in DOMAIN rollback THEN rollback[p] ELSE backups[p]]

EndOps == tool' = "none" /\ batch' = <<>> /\ done' = <<>>

\* An operation that fails undoes the batch, the newest file first; the undo may
\* stop before the first k operations, whose backups are dropped with it.
ApplyFails(k) ==
    LET back   == FirstBackup(done)
        kept   == {done[i].path : i \in 1..k}
        faults == (IF Applies(Head(batch)) THEN 1 ELSE 0) + (IF k > 0 THEN 1 ELSE 0)
    IN  /\ tool # "none" /\ batch # <<>> /\ k <= Len(done)
        /\ budget.faults + faults <= MaxToolFaults
        /\ budget' = [budget EXCEPT !.faults = @ + faults]
        /\ files' = [p \in Path |-> IF p \in DOMAIN back \ kept THEN back[p] ELSE files[p]]
        /\ stranded' = stranded \cup kept
        /\ EndOps
        /\ UNCHANGED <<agent, saved, session, unsaved, edited, proven>>

\* persist_journal writes all the backups of the session.
JournalOf(rollback, back) == rollback

\* The batch is through: its backups join the session's, the journal is saved,
\* and then the operations and the context paths are recorded.
FinishBatch ==
    LET back     == FirstBackup(done)
        rollback == AbsorbBackup(agent.rollback, back)
        paths    == DOMAIN back
    IN  /\ tool # "none" /\ batch = <<>>
        /\ saved' = JournalOf(rollback, back) /\ unsaved' = FALSE
        /\ agent' = [agent EXCEPT !.rollback = rollback,
                                  !.operations = @ \cup paths,
                                  !.focus = @ \cup paths, !.all = @ \cup paths,
                                  !.scaffolded = @ \/ tool = "scaffold"]
        /\ edited' = edited \cup paths
        /\ EndOps
        /\ UNCHANGED <<files, session, budget, stranded, proven>>

\* The journal cannot be written: the tool fails, its edits stay.
FinishUnsaved ==
    /\ tool # "none" /\ batch = <<>> /\ budget.faults < MaxToolFaults
    /\ budget' = [budget EXCEPT !.faults = @ + 1]
    /\ agent' = [agent EXCEPT !.rollback = AbsorbBackup(@, FirstBackup(done))]
    /\ unsaved' = TRUE
    /\ EndOps
    /\ UNCHANGED <<files, saved, session, stranded, edited, proven>>

-----------------------------------------------------------------------------
(* Verification and the summary.                                           *)

\* validated_verification_command and the argv gate.
Allowed(command) == command.op = command.tool /\ ~ command.shell

Warnings == {p \in Path : files[p] = "warns"}

\* Mutant: any successful command counts.
CountsSuccess(success) == success

\* Warnings in files the session edited do not pass.
Counts(success) == success /\ Warnings \cap agent.operations = {}

\* run_plugin_check and run_plugin_test; the command may not start.
RunCheckedCommand(command) ==
    /\ ToolCalls /\ Allowed(command)
    /\ \E success \in BOOLEAN :
         /\ agent' = [agent EXCEPT !.attempts = @ + 1,
                                   !.successes = IF Counts(success) THEN @ + 1 ELSE @]
         /\ proven' = (proven \/ (success /\ Warnings \cap edited = {}))
    /\ UNCHANGED <<files, saved, tool, batch, done, session, stranded, unsaved, edited>>

\* rebuild_plugin_workspace is an attempt and never a success.
Rebuild ==
    /\ ToolCalls
    /\ agent' = [agent EXCEPT !.attempts = @ + 1]
    /\ UNCHANGED <<files, saved, tool, batch, done, session, stranded, unsaved, edited, proven>>

\* ensure_scaffold_integration_edits.
Integrated ==
    agent.scaffolded =>
        (agent.operations \cap Sources) \ ({ParentManifest} \cup Range(ChildFiles)) # {}

\* record_iteration_summary ends the session.
RecordSummary ==
    /\ ToolCalls /\ agent.offered
    /\ agent.operations # {} /\ agent.successes > 0 /\ Integrated
    /\ agent' = [agent EXCEPT !.summary = TRUE]
    /\ session' = "finished"
    /\ UNCHANGED <<files, saved, tool, batch, done, stranded, unsaved, edited, proven>>

\* agent_send fails (budget, model, panic in between tools): the session is
\* dropped, its backups in memory with it.
SessionFails ==
    /\ session = "running" /\ tool = "none"
    /\ session' = "failed"
    /\ agent' = [agent EXCEPT !.rollback = NoBackups]
    /\ UNCHANGED <<files, saved, tool, batch, done, budget, stranded, unsaved, edited, proven>>

\* finalize restores from the journal what the failed session edited.
RestoreFiles ==
    /\ session = "failed"
    /\ session' = "restored"
    /\ files' = [p \in Path |-> IF p \in DOMAIN saved THEN saved[p] ELSE files[p]]
    /\ UNCHANGED <<agent, saved, tool, batch, done, budget, stranded, unsaved, edited, proven>>

AgentNext ==
    \/ NextRound
    \/ \E scope \in {"focus", "all"} : ListContextFiles(scope)
    \/ \E p \in Path : ReadContextFiles({p})
    \/ \E operations \in Batches : ApplyOperations(operations)
    \/ ScaffoldChildPlugin
    \/ ApplyOne
    \/ \E k \in 0..Len(done) : ApplyFails(k)
    \/ FinishBatch \/ FinishUnsaved
    \/ \E command \in ToolCommands : RunCheckedCommand(command)
    \/ Rebuild \/ RecordSummary \/ SessionFails \/ RestoreFiles

AgentSpec == AgentInit /\ [][AgentNext]_agentVars

-----------------------------------------------------------------------------
\* Between tools the session can undo every edit: a file that differs from the
\* text the session met has that text among the backups in memory and, unless
\* the last save failed, in the journal (host.rs, apply_operations).  Files
\* that a failed undo stranded are the exception.
EditsBackedUp ==
    (session = "running" /\ tool = "none") =>
        \A p \in Path \ stranded :
            files[p] # OriginalText(p) =>
                /\ p \in DOMAIN agent.rollback /\ agent.rollback[p] = OriginalText(p)
                /\ unsaved \/ (p \in DOMAIN saved /\ saved[p] = OriginalText(p))

\* A session that failed leaves no trace of its edits once the journal has been
\* replayed (run_plugin_iteration_agent drops the backups in memory).
FailureRestored ==
    (session = "restored" /\ ~ unsaved) =>
        \A p \in Path \ stranded : files[p] = OriginalText(p)

\* Both: what the session edited can be undone, and is undone when it fails.
SessionRecoverable == EditsBackedUp /\ FailureRestored

\* A recorded summary has been earned: something was edited, a check passed
\* when none of the files edited so far warned, and a scaffolded child was
\* followed by an edit of the host's own source or tests.
SummaryEarned ==
    agent.summary =>
        /\ edited # {} /\ proven
        /\ agent.scaffolded => (edited \cap Sources) \ Range(ChildFiles) # {}

\* The two things the host relies on when it takes a session of the iteration
\* agent on: it can be undone, and its summary means something.
SessionSound == SessionRecoverable /\ SummaryEarned
=============================================================================
