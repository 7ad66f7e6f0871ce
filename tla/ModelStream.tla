----------------------------- MODULE ModelStream -----------------------------
(***************************************************************************)
(* A completion in the shipped provider plugin                             *)
(* (fixtures/plugins/llm_openai/src/lib.rs): send_chat_request tries a     *)
(* request a few times; for each answer read_chat_stream starts a thread   *)
(* that reads the body and hands it over in chunks through a bounded       *)
(* channel, puts the lines together again, and pushes the new text to the  *)
(* sink after every event.                                                 *)
(*                                                                         *)
(* A body is a sequence of symbols: the text of a line, or NL.  Chunks cut *)
(* it anywhere between two symbols.  Reasoning is pushed like content and  *)
(* is left out.  The branch for a channel whose sender is gone cannot be   *)
(* taken, because the reader sends an end marker or an error before it     *)
(* ends, and is left out.                                                  *)
(***************************************************************************)
EXTENDS Integers, Sequences, SequencesExt, FiniteSets

CONSTANTS
    Words,        \* the texts of deltas
    Bodies,       \* the bodies a server may send
    MaxAttempts,  \* AGENT_REQUEST_MAX_ATTEMPTS
    Room,         \* capacity of the channel
    MaxChunk      \* bound: symbols one read returns

Attempt == 1 .. MaxAttempts
ToolFields == {"id", "type", "name", "arguments"}

NL == [t |-> "newline"]
Text(x) == [t |-> "delta", text |-> x]                 \* delta.content
Tool(i, has) == [t |-> "tool", at |-> i, has |-> has]  \* a part of a tool call
Done == [t |-> "done"]                                 \* data: [DONE]
Malformed == [t |-> "malformed"]                       \* data: not a chunk
Comment == [t |-> "comment"]                           \* a line without data:

\* One symbol is the whole text of a line, so a line end follows it.
Symbol == {NL, Done, Malformed, Comment} \cup {Text(w) : w \in Words}
            \cup {Tool(i, has) : i \in 0 .. 1, has \in SUBSET ToolFields}
InLines(body) == \A i \in 1 .. Len(body) - 1 : body[i] = NL \/ body[i + 1] = NL

ASSUME StreamAssumption ==
    /\ MaxAttempts \in Nat \ {0} /\ Room \in Nat \ {0} /\ MaxChunk \in Nat \ {0}
    /\ \A body \in Bodies : body \in Seq(Symbol) /\ InLines(body)

\* What the reader sends at the end: an empty chunk, or the error of a read.
Eof == <<>>
IoError == <<[t |-> "io"]>>

VARIABLES
    attempt,    \* the attempt under way
    ask,        \* send_chat_request: "send", "stream", "ok", "error", "invalid"
    bodyReader, \* of each attempt: "none", "read", "put", "over"
    wire,       \* what the reader of the attempt under way has not read
    holds,      \* what it is about to send
    channel,    \* of the attempt under way
    stream,     \* locals of read_chat_stream
    pushed,     \* what went to the sink
    received,   \* history: symbols this attempt took from the channel
    failed      \* history: how much of pushed came from attempts that failed

streamVars == <<attempt, ask, bodyReader, wire, holds, channel, stream, pushed,
                received, failed>>

NoTools == [i \in 0 .. 1 |-> {}]
Fresh == [buf |-> <<>>, pending |-> <<>>, content |-> <<>>, tools |-> NoTools,
          flushed |-> 0, done |-> FALSE, bad |-> FALSE]

------------------------------------------------------------------------------
(* Lines and events *)

\* apply_chunk: text is appended, the parts of a tool call are merged by index.
ApplyChunk(s, c) ==
    IF c.t = "delta" THEN [s EXCEPT !.content = Append(@, c.text)]
                     ELSE [s EXCEPT !.tools[c.at] = @ \cup c.has]

\* process_stream_event: the lines of an event are joined, and two chunks in
\* one event are no JSON.
ProcessEvent(s, lines) ==
    CASE Len(lines) > 1 \/ lines[1] = Malformed -> [s EXCEPT !.bad = TRUE]
      [] Len(lines) = 1 /\ lines[1] = Done      -> [s EXCEPT !.done = TRUE]
      [] OTHER                                  -> ApplyChunk(s, lines[1])

NewText(s) == SubSeq(s.content, s.flushed + 1, Len(s.content))

\* Mutant: the text since the start of the stream is pushed again.
FlushAll(s) == [s EXCEPT !.flushed = 0]

\* What is pushed is marked as flushed.
Flushed(s) == [s EXCEPT !.flushed = Len(s.content)]

\* A step of the loop over lines: local state and what is pushed.
LineEnds(p) ==
    LET s == [p.s EXCEPT !.buf = <<>>]
        line == p.s.buf
    IN  IF line # <<>>
        THEN [p EXCEPT !.s = IF line[1] = Comment THEN s
                             ELSE [s EXCEPT !.pending = Append(@, line[1])]]
        ELSE IF s.pending = <<>> THEN [p EXCEPT !.s = s]
        ELSE LET e == ProcessEvent([s EXCEPT !.pending = <<>>], s.pending)
             IN  IF e.done \/ e.bad THEN [p EXCEPT !.s = e]
                 ELSE [s |-> Flushed(e), out |-> p.out \o NewText(e)]

\* Lines after [DONE] or after an error are not looked at.
TakeSymbol(p, x) ==
    IF p.s.done \/ p.s.bad THEN p
    ELSE IF x = NL THEN LineEnds(p) ELSE [p EXCEPT !.s.buf = Append(@, x)]

TakeChunk(chunk) ==
    LET take[n \in 0 .. Len(chunk)] ==
            IF n = 0 THEN [s |-> stream, out |-> <<>>] ELSE TakeSymbol(take[n - 1], chunk[n])
    IN  take[Len(chunk)]

\* finish: a tool call of which only a part arrived is an error.
Incomplete(s) == \E i \in DOMAIN s.tools : s.tools[i] \notin {{}, ToolFields}

------------------------------------------------------------------------------
(* The reader's thread *)

Listening(a) == a = attempt /\ ask = "stream"

\* A read returns some of the body, its end, or an error.
Read(a) ==
    /\ bodyReader[a] = "read" /\ Listening(a)
    /\ \/ \E n \in 1 .. MaxChunk :
           /\ n <= Len(wire)
           /\ holds' = SubSeq(wire, 1, n)
           /\ wire' = SubSeq(wire, n + 1, Len(wire))
       \/ wire = <<>> /\ holds' = Eof /\ UNCHANGED wire
       \/ holds' = IoError /\ UNCHANGED wire
    /\ bodyReader' = [bodyReader EXCEPT ![a] = "put"]
    /\ UNCHANGED <<attempt, ask, channel, stream, pushed, received, failed>>

\* send waits for room.
Put(a) ==
    /\ bodyReader[a] = "put" /\ Listening(a) /\ Len(channel) < Room
    /\ channel' = Append(channel, holds)
    /\ bodyReader' = [bodyReader EXCEPT ![a] =
           IF holds \in {Eof, IoError} THEN "over" ELSE "read"]
    /\ holds' = <<>>
    /\ UNCHANGED <<attempt, ask, wire, stream, pushed, received, failed>>

\* The receiver is gone: whatever the next read returns, send fails.
Abandoned(a) ==
    /\ bodyReader[a] \in {"read", "put"} /\ ~ Listening(a)
    /\ bodyReader' = [bodyReader EXCEPT ![a] = IF @ = "read" THEN "put" ELSE "over"]
    /\ UNCHANGED <<attempt, ask, wire, holds, channel, stream, pushed, received, failed>>

------------------------------------------------------------------------------
(* send_chat_request *)

\* What an attempt that fails leaves behind: its reader, and what it pushed.
Retry ==
    /\ IF attempt < MaxAttempts
       THEN attempt' = attempt + 1 /\ ask' = "send"
       ELSE UNCHANGED attempt /\ ask' = "error"
    /\ wire' = <<>> /\ holds' = <<>> /\ channel' = <<>>
    /\ stream' = Fresh /\ received' = <<>>
    /\ failed' = IF attempt < MaxAttempts THEN Len(pushed) ELSE failed

\* send fails, or the status is not a success: a permanent client error is
\* not tried again.
SendFails ==
    /\ ask = "send"
    /\ Retry
    /\ UNCHANGED <<bodyReader, pushed>>

PermanentError ==
    /\ ask = "send"
    /\ ask' = "error"
    /\ UNCHANGED <<attempt, bodyReader, wire, holds, channel, stream, pushed, received, failed>>

\* The server may close the connection after any part of the body.
Answered ==
    /\ ask = "send"
    /\ \E body \in Bodies : \E n \in 0 .. Len(body) :
        wire' = SubSeq(body, 1, n)
    /\ bodyReader' = [bodyReader EXCEPT ![attempt] = "read"]
    /\ ask' = "stream"
    /\ channel' = <<>> /\ stream' = Fresh /\ received' = <<>>
    /\ UNCHANGED <<attempt, holds, pushed, failed>>

\* The stream was silent for too long, or takes too long as a whole.
TimesOut ==
    /\ ask = "stream"
    /\ Retry
    /\ UNCHANGED <<bodyReader, pushed>>

\* finish, after the last text was pushed.
Finish(s, out) ==
    /\ stream' = Flushed(s)
    /\ pushed' = pushed \o out \o NewText(s)
    /\ ask' = IF Incomplete(s) THEN "invalid" ELSE "ok"

\* A chunk, the end of the body, or an error of the reader.  An error in a
\* chunk returns at once and keeps what was pushed before it.
Receive ==
    /\ ask = "stream" /\ channel # <<>>
    /\ LET x == Head(channel)
       IN  \/ x = IoError /\ Retry /\ UNCHANGED pushed
           \/ /\ x = Eof
              /\ LET s == IF stream.pending = <<>> THEN stream
                          ELSE ProcessEvent(stream, stream.pending)
                 IN  IF s.bad THEN ask' = "invalid" /\ stream' = s /\ UNCHANGED pushed
                     ELSE Finish(s, <<>>)
              /\ channel' = Tail(channel)
              /\ UNCHANGED <<attempt, wire, holds, received, failed>>
           \/ /\ x \notin {Eof, IoError}
              /\ LET p == TakeChunk(x)
                 IN  IF p.s.done THEN Finish(p.s, p.out)
                     ELSE /\ stream' = p.s /\ pushed' = pushed \o p.out
                          /\ ask' = IF p.s.bad THEN "invalid" ELSE ask
              /\ received' = received \o x
              /\ channel' = Tail(channel)
              /\ UNCHANGED <<attempt, wire, holds, failed>>
    /\ UNCHANGED bodyReader

------------------------------------------------------------------------------
StreamInit ==
    /\ attempt = 1 /\ ask = "send"
    /\ bodyReader = [a \in Attempt |-> "none"]
    /\ wire = <<>> /\ holds = <<>>
    /\ channel = <<>> /\ stream = Fresh
    /\ pushed = <<>> /\ received = <<>> /\ failed = 0

StreamNext ==
    \/ SendFails \/ PermanentError \/ Answered \/ TimesOut \/ Receive
    \/ \E a \in Attempt : Read(a) \/ Put(a) \/ Abandoned(a)

StreamSpec == StreamInit /\ [][StreamNext]_streamVars

\* The caller runs, and so do the readers: the client's timeout bounds a read.
StreamFairness ==
    /\ WF_streamVars(SendFails \/ PermanentError \/ Answered \/ TimesOut \/ Receive)
    /\ \A a \in Attempt : WF_streamVars(Read(a) \/ Put(a) \/ Abandoned(a))

------------------------------------------------------------------------------
(* Properties *)

StreamTypeOK ==
    /\ attempt \in Attempt
    /\ ask \in {"send", "stream", "ok", "error", "invalid"}
    /\ bodyReader \in [Attempt -> {"none", "read", "put", "over"}]
    /\ Len(channel) <= Room

\* The reference, on the body as it arrived and without chunks: the lines
\* that are terminated, up to the first [DONE] that is, and where events end.
Terminated(body, i) == body[i] # NL /\ i < Len(body) /\ body[i + 1] = NL
Counts(body, i) ==
    /\ Terminated(body, i)
    /\ ~ \E j \in 1 .. i - 1 : body[j] = Done /\ Terminated(body, j)
Blank(body, i) == body[i] = NL /\ (i = 1 \/ body[i - 1] = NL)
WithLine(text, body, i) ==
    IF Counts(body, i) /\ body[i].t = "delta" THEN Append(text, body[i].text) ELSE text
TextUpTo(body, n) ==
    LET text[i \in 0 .. n] == IF i = 0 THEN <<>> ELSE WithLine(text[i - 1], body, i)
    IN  text[n]
TextOf(body) == TextUpTo(body, Len(body))

\* A chunk that does not parse, two data lines of one event, or a tool call of
\* which a part is missing.
Unparsable(body) ==
    \E i \in DOMAIN body :
        /\ Counts(body, i) /\ body[i] # Comment
        /\ \/ body[i] = Malformed
           \/ \E j \in i + 1 .. Len(body) :
                /\ Terminated(body, j) /\ body[j] # Comment
                /\ ~ \E k \in i + 1 .. j : Blank(body, k)
PartsOf(body, k) ==
    UNION {body[i].has : i \in {j \in DOMAIN body :
                                  Counts(body, j) /\ body[j].t = "tool" /\ body[j].at = k}}
Broken(body) ==
    Unparsable(body) \/ \E k \in 0 .. 1 : PartsOf(body, k) \notin {{}, ToolFields}

\* However the body is cut into chunks, the answer of a request that succeeds
\* is the text of the lines that arrived; the sink got that text, once and in
\* order, after what attempts that failed had pushed; and a stream is refused
\* if and only if something in it is wrong.
StreamSound ==
    /\ ask = "ok" => stream.content = TextOf(received) /\ ~ Broken(received)
    /\ ask \in {"ok", "stream"} => SubSeq(pushed, failed + 1, Len(pushed)) = stream.content
    /\ ask = "invalid" => Broken(received)

\* The request ends, and no reader outlives it for ever: the one of an
\* attempt that was given up included.
RequestEnds ==
    <>(ask \in {"ok", "error", "invalid"} /\ \A a \in Attempt : bodyReader[a] \in {"none", "over"})

\* Not so: the text of an attempt that failed stays in the sink, and the next
\* attempt pushes its own from the start.
PushedOnce == ask = "ok" => pushed = stream.content

\* Not so: a body that ends without [DONE] is an answer like any other.
AnswerIsComplete ==
    ask = "ok" => \E i \in DOMAIN received : received[i] = Done
=============================================================================
