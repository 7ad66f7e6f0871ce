------------------------------ MODULE AgentTurn ------------------------------
(***************************************************************************)
(* The turn of an agent session (agent.rs): AgentSession::respond_inner    *)
(* and what it does to the session's history, transcript and counters.     *)
(*                                                                         *)
(* One respond is a loop of at most MaxTurns model calls.  Before each the *)
(* loop drains the process-wide inject queue and repairs the chain of tool *)
(* calls; after each it runs the tools the model asked for.  The session   *)
(* is owned by its caller for the whole respond (see AgentSessions), so    *)
(* the only other actor is the inbox, which fills the queue.               *)
(*                                                                         *)
(* A message is its role, whether it has text (one token per text), the    *)
(* tool calls of an assistant and the id a tool result answers.  A tool    *)
(* call is its id and the kind of tool: "kernel" (introspection), "plain", *)
(* "terminal" (ends the turn when it succeeds), "unknown" (not offered).   *)
(* unknown_tool_strikes only changes the wording of a message: left out.   *)
(***************************************************************************)
EXTENDS Integers, Sequences, SequencesExt, FiniteSets, SeqFilter

CONSTANTS
  MaxTurns,     \* AGENT_MAX_TOOL_TURNS
  HistoryLimit, \* AGENT_HISTORY_MESSAGE_LIMIT
  CompactAt,    \* COMPACT_AT_MSGS
  KeepRecent,   \* KEEP_RECENT
  TokenLimit,   \* the estimate above which respond compacts first
  StuckLimit,   \* reasoning-only answers before the operators are warned
  Plans,        \* answers with tool calls: their kinds, and the text beside them
  Injected,     \* messages the inbox may inject
  Blank,        \* those of them that are white space
  MaxResponds   \* bound: responds, injected exchanges and resets of one run

ASSUME TurnBounds ==
  /\ MaxTurns \in Nat \ {0} /\ HistoryLimit \in Nat /\ StuckLimit \in Nat \ {0}
  /\ CompactAt \in Nat /\ KeepRecent \in 2..CompactAt /\ TokenLimit \in Nat
  /\ MaxResponds \in Nat /\ Blank \subseteq Injected
  /\ \A plan \in Plans : plan.kinds \in Seq(STRING) \ {<<>>}

VARIABLES
  history,      \* messages kept between responds
  estimate,     \* estimated_tokens
  reasoning,    \* reasoning_only_strikes
  queue,        \* AGENT_INJECT_QUEUE
  turnPc,       \* "idle", "top" (of the loop), "model", "tools"
  turn,         \* index of the loop
  messages,     \* the request under construction
  calls,        \* valid tool calls of the answer still to run
  last,         \* id of the last tool call of the answer, valid or not
  transcript,   \* entries pushed since the respond began
  result,       \* how the last respond ended: "none", "ok", "err"
  responds,     \* responds so far, for the bound
  heard         \* history variable: injected messages the model has been sent

session == <<history, estimate, reasoning>>
loop == <<turn, messages, calls, last>>
turnVars == <<session, queue, turnPc, loop, transcript, result, responds, heard>>

NoCalls == <<>>
Msg(role, tag) == [role |-> role, tag |-> tag, calls |-> NoCalls, id |-> 0]
Asks(cs, tag) == [Msg("assistant", tag) EXCEPT !.calls = cs]
Answers(c) == [Msg("tool", "result") EXCEPT !.id = c.id]

\* estimate_tokens: a message without text has none.
Tokens(ms) == Cardinality({i \in DOMAIN ms : ms[i].tag /= ""})

-----------------------------------------------------------------------------
\* The chain of tool calls.

\* Ids answered by the tool messages after position i and before the next
\* user or assistant message.
Found(ms, i) ==
  {ms[j].id : j \in {k \in i+1..Len(ms) :
      /\ ms[k].role = "tool"
      /\ \A n \in i+1..k-1 : ms[n].role \notin {"user", "assistant"}}}

CallIds(cs) == {cs[k].id : k \in DOMAIN cs}

\* The provider gives every call an id that the request does not have yet.
FreshId == 1 + Max({0} \cup UNION {CallIds(messages[i].calls) \cup {messages[i].id} : i \in DOMAIN messages})

\* The calls of cs with, and those without, one of these ids.
CallsWith(cs, ids) == ElementsAt(cs, {k \in DOMAIN cs : cs[k].id \in ids})
CallsWithout(cs, ids) == ElementsAt(cs, {k \in DOMAIN cs : cs[k].id \notin ids})

\* The repair at the top of the loop: a call without a result is taken out of
\* its message, and a message left without calls is removed.
RepairOne(ms, i) ==
  LET m == ms[i]
      kept == CallsWith(m.calls, Found(ms, i))
  IN  IF m.role /= "assistant" \/ Cardinality(Found(ms, i)) >= Len(m.calls) THEN <<m>>
      ELSE IF kept = NoCalls THEN <<>>
      ELSE <<[m EXCEPT !.calls = kept]>>
Repair(ms) == FlattenSeq([i \in DOMAIN ms |-> RepairOne(ms, i)])

\* filter_kernel_introspection_messages.
KernelIds(ms) ==
  UNION {{ms[i].calls[k].id : k \in {n \in DOMAIN ms[i].calls : ms[i].calls[n].kind = "kernel"}}
         : i \in DOMAIN ms}
\* Mutant: the calls are dropped and their results kept.
FilterCallsOnly(m, drop) ==
  <<[m EXCEPT !.calls = CallsWithout(@, drop)]>>
FilterOne(m, drop) ==
  LET kept == CallsWithout(m.calls, drop)
  IN  IF \/ m.role = "tool" /\ m.id \in drop
         \/ m.role = "assistant" /\ m.calls /= NoCalls /\ kept = NoCalls /\ m.tag = ""
      THEN <<>> ELSE <<[m EXCEPT !.calls = kept]>>
Filter(ms) == FlattenSeq([i \in DOMAIN ms |-> FilterOne(ms[i], KernelIds(ms))])

-----------------------------------------------------------------------------
\* History.

RoundUpToEven(n) == n + (n % 2)

\* compact_history: the oldest messages become one summary.
CompactSplit(h) ==
  LET even == RoundUpToEven(Len(h) - KeepRecent)
  IN  IF even <= Len(h) - 2 THEN even ELSE Len(h) - 2
Compacted(h) ==
  IF Len(h) <= CompactAt THEN h
  ELSE <<Msg("system", "summary")>> \o SubSeq(h, CompactSplit(h) + 1, Len(h))
CompactedEstimate(h, e) == IF Len(h) <= CompactAt THEN e ELSE Tokens(Compacted(h))

\* remember_exchange drops the oldest pairs above the limit.
Trimmed(h) ==
  LET over == RoundUpToEven(Len(h) - HistoryLimit)
  IN  IF Len(h) <= HistoryLimit THEN h ELSE SubSeq(h, over + 1, Len(h))
Remembered(h) == Trimmed(h \o <<Msg("user", "input"), Msg("assistant", "reply")>>)
\* The reasoning of the answer is counted, though compaction does not count it.
RememberExchange(withReasoning) ==
  /\ history' = Remembered(history)
  /\ estimate' = estimate + 2 + (IF withReasoning THEN 1 ELSE 0)

-----------------------------------------------------------------------------
TurnInit ==
  /\ history = <<>> /\ estimate = 0 /\ reasoning = 0
  /\ queue = <<>> /\ turnPc = "idle" /\ turn = 0 /\ messages = <<>> /\ calls = NoCalls
  /\ last = 0 /\ transcript = {} /\ result = "none" /\ responds = 0
  /\ heard = {}

\* drain_inject_queue: blank messages are dropped, the others become user
\* messages of the request and entries of the transcript.
Drained == ElementsAt(queue, {i \in DOMAIN queue : queue[i] \notin Blank})
DrainInto(ms) == ms \o [i \in DOMAIN Drained |-> Msg("user", Drained[i])]
DrainedEntries == {<<"User", m>> : m \in ToSet(Drained)}

Leave(how) ==
  /\ turnPc' = "idle" /\ result' = how
  /\ turn' = 0 /\ messages' = <<>> /\ calls' = NoCalls /\ last' = 0

\* repair_transcript_on_error, at the end of a failed respond.
RepairTranscript(entries) ==
  IF /\ \E m \in Injected \cup {"input"} : <<"User", m>> \in entries
     /\ <<"Assistant", "reply">> \notin entries
  THEN entries \cup {<<"Assistant", "error">>} ELSE entries

Fail(entries) == Leave("err") /\ transcript' = RepairTranscript(entries)

Again == turnPc' = "top" /\ turn' = turn + 1 /\ calls' = NoCalls /\ last' = 0

Bounded == turnPc = "idle" /\ responds < MaxResponds /\ responds' = responds + 1

\* Empty input and a provider that is not on the list are refused at once.
RespondRefused ==
  /\ turnPc = "idle" /\ Fail({})
  /\ UNCHANGED <<session, queue, responds, heard>>

Respond ==
  /\ Bounded
  /\ LET full == estimate + 1 > TokenLimit
         h == IF full THEN Compacted(history) ELSE history
     IN  /\ history' = h
         /\ estimate' = IF full THEN CompactedEstimate(history, estimate) ELSE estimate
         /\ messages' = <<Msg("system", "prompt")>> \o h \o <<Msg("user", "input")>>
  /\ turnPc' = "top" /\ turn' = 0 /\ transcript' = {<<"User", "input">>} /\ result' = "none"
  /\ UNCHANGED <<reasoning, queue, calls, last, heard>>

\* The budget of wall clock time is spent.
BudgetSpent ==
  /\ turnPc = "top" /\ turn \in 1..MaxTurns-1 /\ Fail(transcript)
  /\ UNCHANGED <<session, queue, responds, heard>>

\* Top of the loop: drain, repair, send.
Send ==
  /\ turnPc = "top" /\ turn < MaxTurns
  /\ messages' = Repair(DrainInto(messages))
  /\ transcript' = transcript \cup DrainedEntries
  /\ queue' = <<>> /\ turnPc' = "model"
  /\ heard' = heard \cup {m \in Injected : \E i \in DOMAIN messages' : messages'[i].tag = m}
  /\ UNCHANGED <<session, turn, calls, last, result, responds>>

\* provider.complete returns an error.
ModelFails ==
  /\ turnPc = "model" /\ Fail(transcript)
  /\ UNCHANGED <<session, queue, responds, heard>>

\* The answer asks for tools.  The message with the calls that can be run goes
\* into the request first, then a user message for each that cannot.
ModelCalls(plan) ==
  /\ turnPc = "model"
  /\ LET asked == [k \in DOMAIN plan.kinds |-> [id |-> FreshId + k - 1, kind |-> plan.kinds[k]]]
         valid == ElementsAt(asked, {k \in DOMAIN asked : asked[k].kind /= "unknown"})
         bad == Len(asked) - Len(valid)
     IN  /\ messages' = messages
              \o (IF valid = NoCalls THEN <<>> ELSE <<Asks(valid, plan.text)>>)
              \o [k \in 1..bad |-> Msg("user", "no such tool")]
         /\ calls' = valid /\ last' = asked[Len(asked)].id
         /\ turnPc' = IF valid = NoCalls THEN "top" ELSE "tools"
         /\ turn' = IF valid = NoCalls THEN turn + 1 ELSE turn
  /\ UNCHANGED <<history, estimate, reasoning, queue, transcript, result, responds, heard>>

\* execute_agent_tool_call and the messages that follow it.
AfterTool(c, ok) ==
  messages \o <<Answers(c)>> \o (IF ok THEN <<>> ELSE <<Msg("user", "tool failed")>>)

RunTool(ok) ==
  /\ turnPc = "tools"
  /\ ~(ok /\ Head(calls).kind = "terminal")
  /\ messages' = AfterTool(Head(calls), ok)
  /\ IF Len(calls) = 1 THEN Again
     ELSE calls' = Tail(calls) /\ UNCHANGED <<turnPc, turn, last>>
  /\ UNCHANGED <<history, estimate, reasoning, queue, transcript, result, responds, heard>>

\* A terminal tool that is not the last one asked for is an error.
TerminalNotLast ==
  /\ turnPc = "tools" /\ Head(calls).kind = "terminal" /\ Head(calls).id /= last
  /\ Fail(transcript)
  /\ UNCHANGED <<history, estimate, reasoning, queue, responds, heard>>

\* Late messages keep the loop going, whether or not they are blank.
LateMessages(ms) ==
  /\ queue /= <<>>
  /\ messages' = DrainInto(ms) /\ transcript' = transcript \cup DrainedEntries
  /\ queue' = <<>> /\ Again
  /\ UNCHANGED <<history, estimate, result>>

Answered(withReasoning) ==
  /\ queue = <<>>
  /\ RememberExchange(withReasoning)
  /\ transcript' = transcript \cup {<<"Assistant", "reply">>}
  /\ Leave("ok") /\ UNCHANGED queue

TerminalTool ==
  /\ turnPc = "tools" /\ Head(calls).kind = "terminal" /\ Head(calls).id = last
  /\ LateMessages(AfterTool(Head(calls), TRUE)) \/ \E r \in BOOLEAN : Answered(r)
  /\ UNCHANGED <<reasoning, responds, heard>>

ModelAnswers(withReasoning) ==
  /\ turnPc = "model"
  /\ LateMessages(messages) \/ Answered(withReasoning)
  /\ UNCHANGED <<reasoning, responds, heard>>

\* Reasoning and nothing else: the model is asked again.
ModelReasons ==
  /\ turnPc = "model"
  /\ messages' = messages \o <<Msg("assistant", ""), Msg("user", "answer please")>>
  /\ reasoning' = IF reasoning + 1 >= StuckLimit THEN 0 ELSE reasoning + 1
  /\ Again
  /\ UNCHANGED <<history, estimate, queue, transcript, result, responds, heard>>

ModelSaysNothing ==
  /\ turnPc = "model" /\ reasoning' = 0 /\ Fail(transcript)
  /\ UNCHANGED <<history, estimate, queue, responds, heard>>

\* The end of the loop: what the respond gathered goes into the history.
Recovered ==
  IF Len(messages) > Len(history) + 1
  THEN Filter(SubSeq(messages, Len(history) + 2, Len(messages))) ELSE <<>>

\* Mutant: what goes into the history is not counted.
OverflowUncounted ==
  /\ turnPc = "top" /\ turn = MaxTurns
  /\ history' = history \o Recovered
  /\ Fail(transcript)
  /\ UNCHANGED <<estimate, reasoning, queue, responds, heard>>
Overflow ==
  /\ turnPc = "top" /\ turn = MaxTurns
  /\ history' = history \o Recovered
  /\ estimate' = estimate + Tokens(Recovered)
  /\ Fail(transcript)
  /\ UNCHANGED <<reasoning, queue, responds, heard>>

\* inject_exchange, reset and compact_context: between responds.
InjectExchange ==
  /\ Bounded /\ RememberExchange(FALSE)
  /\ UNCHANGED <<reasoning, queue, turnPc, loop, transcript, result, heard>>
Reset ==
  /\ Bounded /\ history' = <<>> /\ transcript' = {} /\ result' = "none"
  /\ UNCHANGED <<estimate, reasoning, queue, turnPc, loop, heard>>
CompactContext ==
  /\ turnPc = "idle" /\ Len(history) > CompactAt
  /\ history' = Compacted(history) /\ estimate' = CompactedEstimate(history, estimate)
  /\ UNCHANGED <<reasoning, queue, turnPc, loop, transcript, result, responds, heard>>

\* The inbox thread pushes a message for the running agent.
Inject(m) ==
  /\ m \notin ToSet(queue) /\ m \notin heard /\ <<"User", m>> \notin transcript
  /\ turnPc /= "idle"
  /\ queue' = Append(queue, m)
  /\ UNCHANGED <<session, turnPc, loop, transcript, result, responds, heard>>

\* execute_tool: the arguments parse and the operation of the host succeeds, or
\* the result of the tool is an error text.
ToolOutcomes == BOOLEAN

Step ==
  \/ Send \/ BudgetSpent \/ Overflow
  \/ ModelFails \/ ModelReasons \/ ModelSaysNothing
  \/ \E plan \in Plans : ModelCalls(plan)
  \/ \E r \in BOOLEAN : ModelAnswers(r)
  \/ \E ok \in ToolOutcomes : RunTool(ok)
  \/ TerminalNotLast \/ TerminalTool

TurnNext ==
  \/ Respond \/ RespondRefused \/ InjectExchange \/ Reset \/ CompactContext
  \/ Step
  \/ \E m \in Injected : Inject(m)

TurnSpec == TurnInit /\ [][TurnNext]_turnVars

-----------------------------------------------------------------------------
\* Properties.

ChainClosed(ms) == \A i \in DOMAIN ms : CallIds(ms[i].calls) \subseteq Found(ms, i)
ResultsFollow(ms) ==
  \A j \in DOMAIN ms : ms[j].role = "tool" =>
    \E i \in 1..j-1 : ms[j].id \in CallIds(ms[i].calls) \cap Found(ms, i)

\* Type correctness.
TurnTypeOK ==
  /\ turnPc \in {"idle", "top", "model", "tools"} /\ result \in {"none", "ok", "err"}
  /\ turn \in 0..MaxTurns /\ reasoning \in 0..StuckLimit-1
  /\ estimate \in Nat /\ calls \in Seq([id : Nat, kind : STRING])
  /\ turnPc = "tools" <=> calls /= NoCalls

\* Every request sent to the model has a result for every tool call in it, in
\* the place the provider expects: whatever failed, was unknown, was cut off by
\* the turn limit or was recovered into the history (the repair in respond_inner).
CallsAnswered == turnPc = "model" => ChainClosed(messages)

\* The other half of a valid chain: every tool result follows the message that
\* asks for it ("so the remaining chain is valid").
ResultsAsked == turnPc = "model" => ResultsFollow(messages)

\* What filter_kernel_introspection_messages keeps of a valid chain is a valid
\* chain, and no introspection call is left in it.
FilterKeepsChain ==
  LET ms == SubSeq(messages, 2, Len(messages))
  IN  ChainClosed(ms) /\ ResultsFollow(ms) =>
        ChainClosed(Filter(ms)) /\ ResultsFollow(Filter(ms)) /\ KernelIds(Filter(ms)) = {}

\* The provider accepts what respond_inner sends and what the history keeps of it.
ChainValid == TurnTypeOK /\ CallsAnswered /\ FilterKeepsChain

\* The estimate that decides about compaction never falls below what the history
\* holds, through answers, overflows, compactions, trims and resets.
EstimateCovers == estimate >= Tokens(history)

\* After a respond every user entry it put in the transcript has an answer or a
\* recorded error, and after a reply the model has been sent every message that
\* was taken from the inject queue, the late ones too.
TurnRecorded ==
  /\ turnPc = "idle" /\ (\E e \in transcript : e[1] = "User")
       => \E e \in transcript : e[1] = "Assistant"
  /\ result = "ok" => \A m \in Injected : <<"User", m>> \in transcript => m \in heard

\* The books of a session after a respond, an overflow or a compaction: nobody's
\* message is without an answer and the estimate is not too low.
TurnBooked == EstimateCovers /\ TurnRecorded

\* "preserve what was accumulated across the aborted respond()": the turn limit
\* loses no user message of the respond.
OverflowKeepsInput ==
  [][Overflow => \A e \in transcript : e[1] = "User" =>
        \E i \in DOMAIN history' : i > Len(history) /\ history'[i].tag = e[2]]_turnVars

=============================================================================
