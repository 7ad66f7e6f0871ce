---------------------------- MODULE PluginCatalog ----------------------------
(***************************************************************************)
(* The catalog of cordis-plugin-host: invocations of one plugin by several *)
(* threads.  A dynamic library is opened at the first invocation, kept,    *)
(* and checked once against the fingerprint of the artifact index; a JSON  *)
(* artifact names a process that gets the payload on its standard input    *)
(* and answers on its standard output.  invoke_json_artifact of the        *)
(* runtime's plugin/invoke.rs runs a process in the same way.              *)
(***************************************************************************)
EXTENDS Integers, FiniteSets

CONSTANTS
    Thread,     \* threads that invoke
    PipeRoom,   \* what a pipe holds
    MaxInput,   \* bound: size of a payload
    MaxOutput   \* bound: size of an answer

ASSUME CatalogAssumption == PipeRoom \in Nat \ {0} /\ MaxInput \in Nat /\ MaxOutput \in Nat

NoThread == "nobody"

VARIABLES
    entry,      \* the catalog entry: [kind, expected fingerprint, actual one]
    mutex,      \* who holds the lock on the library slot
    lib,        \* the slot: [open, verified]
    thread,     \* what each thread is doing
    handled,    \* handle was entered while the slot was like this
    proc        \* the child process of a thread

catalogVars == <<entry, mutex, lib, thread, handled, proc>>

NoProc == [state |-> "none", input |-> 0, sent |-> 0, inPipe |-> 0, eof |-> FALSE,
           output |-> 0, wrote |-> 0, outPipe |-> 0, first |-> TRUE]

------------------------------------------------------------------------------
(* invoke *)

\* An unknown plugin or node is refused; the artifact's suffix decides.
\* Processes share nothing, so one of them is followed at a time.
InvokeCatalog(t) ==
    /\ thread[t] \in {"idle", "ok", "error"}
    /\ entry.kind = "process" => \A u \in Thread : proc[u] = NoProc /\ thread[u] # "spawn"
    /\ \/ thread' = [thread EXCEPT ![t] = "error"]
       \/ thread' = [thread EXCEPT ![t] = IF entry.kind = "dylib" THEN "lock" ELSE "spawn"]
    /\ UNCHANGED <<entry, mutex, lib, handled, proc>>

\* The lock outlives a panic: a poisoned guard is taken as it is.
LockSlot(t) ==
    /\ thread[t] = "lock" /\ mutex = NoThread
    /\ mutex' = t
    /\ thread' = [thread EXCEPT ![t] = "load"]
    /\ UNCHANGED <<entry, lib, handled, proc>>

\* Library::new and the symbol; what fails leaves the slot empty.
LoadLibrary(t) ==
    /\ thread[t] = "load"
    /\ \/ /\ lib' = [lib EXCEPT !.open = TRUE]
          /\ thread' = [thread EXCEPT ![t] = "verify"]
          /\ UNCHANGED mutex
       \/ /\ ~ lib.open
          /\ thread' = [thread EXCEPT ![t] = "error"]
          /\ mutex' = NoThread
          /\ UNCHANGED lib
    /\ UNCHANGED <<entry, handled, proc>>

\* Mutant: the mark is set with the comparison, whatever it says.
MarkCompared(e) == TRUE

\* Without an expected fingerprint there is nothing to compare.
MarkVerified(e) == e.expected = "none" \/ e.actual = e.expected

\* A mismatch, an answer that does not parse and a panic of the plugin leave
\* the library open and unverified, for the next invocation to look again.
Verify(t) ==
    /\ thread[t] = "verify"
    /\ LET ok == lib.verified \/ entry.expected = "none" \/ entry.actual = entry.expected
       IN  /\ lib' = [lib EXCEPT !.verified = @ \/ MarkVerified(entry)]
           /\ thread' = [thread EXCEPT ![t] = IF ok THEN "handle" ELSE "error"]
           /\ mutex' = IF ok THEN mutex ELSE NoThread
    /\ UNCHANGED <<entry, handled, proc>>

\* handle runs under the lock; its panic is caught.
Handle(t) ==
    /\ thread[t] = "handle"
    /\ handled' = handled \cup {[open |-> lib.open, expected |-> entry.expected,
                                 actual |-> entry.actual]}
    /\ \E end \in {"ok", "error"} : thread' = [thread EXCEPT ![t] = end]
    /\ mutex' = NoThread
    /\ UNCHANGED <<entry, lib, proc>>

------------------------------------------------------------------------------
(* invoke_json_artifact *)

Spawn(t) ==
    /\ thread[t] = "spawn"
    /\ \/ /\ thread' = [thread EXCEPT ![t] = "error"]
          /\ UNCHANGED proc
       \/ \E in \in 0..MaxInput, out \in 0..MaxOutput, first \in BOOLEAN :
            /\ proc' = [proc EXCEPT ![t] = [NoProc EXCEPT !.state = "running", !.input = in,
                                                           !.output = out, !.first = first]]
            /\ thread' = [thread EXCEPT ![t] = "write"]
    /\ UNCHANGED <<entry, mutex, lib, handled>>

\* write_all blocks on a full pipe, and fails when the child is gone; then
\* nobody waits for the child.
WriteInput(t) ==
    /\ thread[t] = "write"
    /\ \/ /\ proc[t].state = "running" /\ proc[t].sent < proc[t].input
          /\ proc[t].inPipe < PipeRoom
          /\ proc' = [proc EXCEPT ![t].sent = @ + 1, ![t].inPipe = @ + 1]
          /\ UNCHANGED thread
       \/ /\ proc[t].state # "running" /\ proc[t].sent < proc[t].input
          /\ thread' = [thread EXCEPT ![t] = "error"]
          /\ proc' = [proc EXCEPT ![t] = NoProc]
       \/ /\ proc[t].sent = proc[t].input
          /\ thread' = [thread EXCEPT ![t] = "wait"]
          /\ UNCHANGED proc
    /\ UNCHANGED <<entry, mutex, lib, handled>>

\* wait_with_output drops the child's input before it reads.
CloseInput(p) == [p EXCEPT !.eof = TRUE]

\* It reads both outputs to their end and then the exit status.
WaitOutput(t) ==
    /\ thread[t] = "wait"
    /\ \/ /\ CloseInput(proc[t]) # proc[t] \/ proc[t].outPipe > 0
          /\ proc' = [proc EXCEPT ![t] = [CloseInput(@) EXCEPT !.outPipe = 0]]
          /\ UNCHANGED thread
       \/ /\ proc[t].state \in {"ok", "failed"} /\ proc[t].outPipe = 0
          /\ thread' = [thread EXCEPT ![t] = IF proc[t].state = "ok" THEN "ok" ELSE "error"]
          /\ proc' = [proc EXCEPT ![t] = NoProc]
    /\ UNCHANGED <<entry, mutex, lib, handled>>

\* The child, external: it reads and writes as it likes, but a child that
\* reads its input first writes nothing before its end.
ChildReads(t) ==
    /\ proc[t].state = "running" /\ proc[t].inPipe > 0
    /\ proc' = [proc EXCEPT ![t].inPipe = @ - 1]
    /\ UNCHANGED <<entry, mutex, lib, thread, handled>>

ChildAnswers(t) ==
    /\ proc[t].state = "running" /\ proc[t].wrote < proc[t].output
    /\ proc[t].outPipe < PipeRoom
    /\ proc[t].first => (proc[t].eof /\ proc[t].inPipe = 0)
    /\ proc' = [proc EXCEPT ![t].wrote = @ + 1, ![t].outPipe = @ + 1]
    /\ UNCHANGED <<entry, mutex, lib, thread, handled>>

ChildEnds(t) ==
    /\ proc[t].state = "running" /\ proc[t].wrote = proc[t].output
    /\ proc[t].first => (proc[t].eof /\ proc[t].inPipe = 0)
    /\ \E end \in {"ok", "failed"} : proc' = [proc EXCEPT ![t].state = end]
    /\ UNCHANGED <<entry, mutex, lib, thread, handled>>

------------------------------------------------------------------------------
\* load: an index of another schema makes no catalog; a fingerprint is
\* optional in it.
CatalogInit ==
    /\ entry \in [kind : {"dylib", "process"}, expected : {"none", "a"}, actual : {"a", "b"}]
    /\ entry.kind = "process" => entry.expected = "none" /\ entry.actual = "a"
    /\ mutex = NoThread
    /\ lib = [open |-> FALSE, verified |-> FALSE]
    /\ thread = [t \in Thread |-> "idle"]
    /\ handled = {}
    /\ proc = [t \in Thread |-> NoProc]

Caller(t) == LockSlot(t) \/ LoadLibrary(t) \/ Verify(t) \/ Handle(t)
             \/ Spawn(t) \/ WriteInput(t) \/ WaitOutput(t)
Child(t) == ChildReads(t) \/ ChildAnswers(t) \/ ChildEnds(t)

CatalogNext == \E t \in Thread : InvokeCatalog(t) \/ Caller(t) \/ Child(t)

CatalogSpec == CatalogInit /\ [][CatalogNext]_catalogVars

\* Threads run, and a child that can go on goes on.
CatalogFairness ==
    \A t \in Thread : WF_catalogVars(Caller(t)) /\ WF_catalogVars(Child(t))
CatalogFairSpec == CatalogSpec /\ CatalogFairness

------------------------------------------------------------------------------
(* Properties *)

\* No plugin code runs for an invocation unless its library is mapped and
\* its fingerprint is the one the index promised, also after a mismatch, a
\* failed open or a panic has left the slot half way.
HandledIsVerified ==
    \A h \in handled : h.open /\ (h.expected # "none" => h.actual = h.expected)

\* An invocation of a process returns when the child reads its input before
\* it answers or when the payload fits into the pipe; a child that answers
\* while a longer payload is still being written can stop both for ever.
InvocationReturns ==
    \A t \in Thread :
        (thread[t] = "write" /\ (proc[t].first \/ proc[t].input <= PipeRoom))
            ~> thread[t] \in {"ok", "error"}
==============================================================================
