----------------------------- MODULE MCIteration -----------------------------
(***************************************************************************)
(* Small instances of the self-iteration: its pipeline with crashes, its   *)
(* pipeline with every verdict and command, the books of the kernel, and   *)
(* the tools of its agent.  A behaviour drives one of them; the others     *)
(* rest in their initial state.                                            *)
(***************************************************************************)
EXTENDS PluginIteration, KernelState, IterationAgent, TLC

VARIABLE driven   \* the component, or the scenario, this behaviour drives

iterationVars == <<vars, kernelVars, agentVars, driven>>

\* One plugin with a source file and a manifest; content 0 is the original, 2
\* does not compile.
Unedited == [f \in Files |-> 0]
Ask(mode, root, manual) == [mode |-> mode, root |-> root, manual |-> manual]
ByAgent == {Ask("agent", root, FALSE) : root \in BOOLEAN}
ByAnyone == ByAgent \cup {Ask("plan", FALSE, TRUE)}

\* Bounds of the two scenarios of the pipeline: crashes in one iteration of the
\* agent, with a reload at most; or every command and verdict of two iterations
\* without a crash, with two edits in the first and one in the second.
CrashBounds ==
    /\ spent'.iterations <= 1 /\ iter'.mode = "agent"
    /\ spent'.commands # spent.commands => cand' = cand /\ op' = "none"
VerdictBounds ==
    /\ spent'.crashes = 0 /\ ~ iter'.root /\ iter'.edits <= 3 - spent'.iterations
    /\ \A f \in Files : src'[f] \notin Broken

\* Bound of the books: one observation from outside or one automatic update.
KernelBounds == observed' + updates' <= 1

\* The threads of the host are alike.
WorkerSymmetry == Permutations(Worker)

\* Two sources of the plugin, its manifest, a child's files and a path outside.
Op(p, k, e, n) == [path |-> p, kind |-> k, expected |-> e, new |-> n]
MCBatches ==
    {<<Op("core", "replace", "old", "warns")>>,
     <<Op("core", "replace", "warns", "new"), Op("deep", "replace", "old", "new")>>,
     <<Op("core", "replace", "old", "new"), Op("outside", "replace", "old", "new")>>,
     <<Op("core", "replace", "new", "warns"), Op("core", "replace", "warns", "new")>>,
     <<Op("deep", "delete", "new", "absent")>>,
     <<Op("childCore", "replace", "new", "warns")>>}
MCCommands == {[tool |-> "check", op |-> "check", shell |-> FALSE],
               [tool |-> "test", op |-> "run", shell |-> FALSE],
               [tool |-> "test", op |-> "test", shell |-> TRUE]}
MCChildFiles == <<"childManifest", "childCore">>

IterationInit ==
    Init /\ KernelInit /\ AgentInit /\ driven \in {"crash", "verdicts", "kernel", "tools"}

\* The books and the tools may have come to an end.
IterationNext ==
    /\ UNCHANGED driven
    /\ \/ driven = "crash" /\ Next /\ CrashBounds /\ UNCHANGED <<kernelVars, agentVars>>
       \/ driven = "verdicts" /\ Next /\ VerdictBounds /\ UNCHANGED <<kernelVars, agentVars>>
       \/ driven = "kernel" /\ KernelNext /\ KernelBounds /\ UNCHANGED <<vars, agentVars>>
       \/ driven = "tools" /\ AgentNext /\ UNCHANGED <<vars, kernelVars>>
       \/ driven \in {"kernel", "tools"} /\ UNCHANGED <<vars, kernelVars, agentVars>>

IterationSpec == IterationInit /\ [][IterationNext]_iterationVars
=============================================================================
