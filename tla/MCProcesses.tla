----------------------------- MODULE MCProcesses -----------------------------
(***************************************************************************)
(* Small instances of what a host waits for: the commands of a             *)
(* verification, the side channel of a completion, the stream of a model's *)
(* answer, a plugin behind the catalog, and the waits of a workflow.  A    *)
(* behaviour drives one of them; the others rest.                          *)
(***************************************************************************)
EXTENDS VerificationRun, LlmSink, PluginCatalog, WorkflowWait, ModelStream

VARIABLE driven   \* the component this behaviour drives

processVars == <<verifyVars, sinkVars, catalogVars, waitVars, streamVars, driven>>

\* Bodies that end in time, that put two chunks in one event, that do not
\* parse, that give a tool call in parts, and that go on after [DONE].
MCBodies ==
    {<<Text("a"), NL, NL, Text("b"), NL, NL, Done, NL, NL>>,
     <<Text("a"), NL, Text("b"), NL, NL>>,
     <<Comment, NL, Malformed, NL, NL>>,
     <<Tool(0, {"id", "type"}), NL, NL, Tool(0, {"name", "arguments"}), NL, NL>>,
     <<Tool(1, ToolFields), NL, NL, Done, NL, NL>>,
     <<Done, NL, Comment, NL, Text("a"), NL, NL>>,
     <<Done, NL, NL, Text("a"), NL, NL>>}

\* A verification that rests is one whose first command could not be spawned.
VerifyRests ==
    /\ plan = [s \in Stage |-> IF s = 1 THEN "nospawn" ELSE "none"] /\ invoker = FALSE
    /\ stage = 1 /\ at = "error"
    /\ child = "none" /\ writes = 0 /\ pipe = 0 /\ kids = FALSE /\ late = FALSE
    /\ outcome = [s \in Stage |-> "Pending"] /\ fate = [s \in Stage |-> "none"]
    /\ report = NoReport

\* A request that rests is one that was refused.
StreamRests ==
    /\ attempt = 1 /\ ask = "error"
    /\ bodyReader = [a \in Attempt |-> "none"]
    /\ wire = <<>> /\ holds = <<>> /\ channel = <<>> /\ stream = Fresh
    /\ pushed = <<>> /\ received = <<>> /\ failed = 0

ProcessesInit ==
    /\ driven \in {"verify", "sink", "catalog", "waits", "stream"}
    /\ IF driven = "verify" THEN VerifyInit ELSE VerifyRests
    /\ SinkInit /\ (driven = "sink" \/ wants = [c \in Call |-> FALSE])
    /\ CatalogInit /\ (driven = "catalog" \/ entry.kind = "process")
    /\ WaitInit
    /\ IF driven = "stream" THEN StreamInit ELSE StreamRests

ProcessesNext ==
    /\ UNCHANGED driven
    /\ \/ /\ driven = "verify" /\ VerifyNext
          /\ UNCHANGED <<sinkVars, catalogVars, waitVars, streamVars>>
       \/ /\ driven = "sink" /\ SinkNext
          /\ UNCHANGED <<verifyVars, catalogVars, waitVars, streamVars>>
       \/ /\ driven = "catalog" /\ CatalogNext
          /\ UNCHANGED <<verifyVars, sinkVars, waitVars, streamVars>>
       \/ /\ driven = "waits" /\ WaitNext
          /\ UNCHANGED <<verifyVars, sinkVars, catalogVars, streamVars>>
       \/ /\ driven = "stream" /\ StreamNext
          /\ UNCHANGED <<verifyVars, sinkVars, catalogVars, waitVars>>

\* The fairness of the components; a step it speaks of is disabled while its
\* component rests.
ProcessesSpec ==
    /\ ProcessesInit /\ [][ProcessesNext]_processVars
    /\ VerifyFairness /\ SinkFairness /\ CatalogFairness
    /\ StreamFairness

\* What the host waits for comes to an end: a verification whose descendants
\* are gone, a completion whose plugin has answered, an invocation of a process
\* that reads before it answers, a request to a model with all its readers.
ProcessesReturn ==
    /\ VerificationEnds /\ CompletionReturns /\ InvocationReturns
    /\ RequestEnds
=============================================================================
