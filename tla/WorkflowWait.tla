----------------------------- MODULE WorkflowWait -----------------------------
(***************************************************************************)
(* Waits of the workflow SDK (cordis-plugin-sdk/src/workflow.rs).  A       *)
(* session borrows its runtime for one WaitFuture at a time; the future    *)
(* submits its wait at its first poll, asks for the outcome at every poll  *)
(* and cancels the wait when it is dropped before the outcome was handed   *)
(* over.  The runtime behind the trait is external: a submitted wait       *)
(* becomes ready at any time, or never.                                    *)
(***************************************************************************)
EXTENDS Integers, Sequences

CONSTANT MaxWait        \* bound: waits submitted

ASSUME WaitAssumption == MaxWait \in Nat

\* WaitSpec::kind of the six specs that a session turns into a future.
WaitKind == {"call", "join", "race", "event", "sleep", "ask_user"}
WaitOutcome == {"value", "error", "cancelled", "timed_out", "zombie"}
NoFuture == [kind |-> "none", handle |-> 0, over |-> FALSE]

VARIABLES
    future,     \* the WaitFuture that borrows the session: its spec and handle
    waits,      \* submitted waits: [state, outcome, given, cancels]
    answer      \* what the last poll returned

waitVars == <<future, waits, answer>>

\* The session's methods make a future; nothing is submitted yet.
NewFuture(kind) ==
    /\ future = NoFuture
    /\ future' = [kind |-> kind, handle |-> 0, over |-> FALSE]
    /\ answer' = "none"
    /\ UNCHANGED waits

\* decode_outcome; a value may fail to decode.
Decoded(outcome) ==
    CASE outcome = "value"     -> {"ok", "DecodeOutput"}
      [] outcome = "error"     -> {"Runtime"}
      [] outcome = "cancelled" -> {"Cancelled"}
      [] outcome = "timed_out" -> {"Timeout"}
      [] outcome = "zombie"    -> {"Zombie"}

\* Mutant: the handle stays after the outcome was handed over.
KeepHandle(h) == h

\* The handle after an outcome: None.
HandleAfter(h) == 0

Submitted == [state |-> "pending", outcome |-> "none", given |-> 0, cancels |-> 0]

\* poll, up to the answer of poll_wait; a wait may be ready at once.
PollWait ==
    /\ future.kind # "none" /\ ~ future.over
    /\ future.handle # 0 \/ Len(waits) < MaxWait
    /\ LET all == IF future.handle = 0 THEN Append(waits, Submitted) ELSE waits
           h   == IF future.handle = 0 THEN Len(all) ELSE future.handle
       IN  IF all[h].state = "pending"
           THEN /\ waits' = all
                /\ future' = [future EXCEPT !.handle = h]
                /\ answer' = "Pending"
           ELSE /\ waits' = [all EXCEPT ![h].given = @ + 1]
                /\ future' = [future EXCEPT !.handle = HandleAfter(h), !.over = TRUE]
                /\ answer' \in Decoded(all[h].outcome)

\* Drop: a future that holds a handle cancels its wait.
DropFuture ==
    /\ future.kind # "none"
    /\ waits' = IF future.handle = 0 THEN waits
                ELSE [waits EXCEPT ![future.handle].cancels = @ + 1]
    /\ future' = NoFuture
    /\ UNCHANGED answer

\* The runtime has an outcome.
Resolve(h) ==
    /\ waits[h].state = "pending"
    /\ \E o \in WaitOutcome : waits' = [waits EXCEPT ![h].state = "ready", ![h].outcome = o]
    /\ UNCHANGED <<future, answer>>

WaitInit == future = NoFuture /\ waits = <<>> /\ answer = "none"

WaitNext ==
    \/ \E kind \in WaitKind : NewFuture(kind)
    \/ PollWait \/ DropFuture
    \/ \E h \in DOMAIN waits : Resolve(h)

WaitsSpec == WaitInit /\ [][WaitNext]_waitVars

------------------------------------------------------------------------------
(* Properties *)

\* Every submitted wait is settled exactly once: its outcome was handed over
\* or it was cancelled, never both and never twice, and a wait that is
\* neither belongs to the future that is still there.
SettledOnce ==
    \A h \in DOMAIN waits :
        /\ waits[h].given + waits[h].cancels <= 1
        /\ waits[h].given + waits[h].cancels = 0 => future.handle = h
==============================================================================
