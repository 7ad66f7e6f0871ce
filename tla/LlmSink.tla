------------------------------- MODULE LlmSink -------------------------------
(***************************************************************************)
(* A completion through a provider plugin and the side channel for its     *)
(* tokens (llm_sink.rs, PluginLlmProvider in host.rs, the frames of        *)
(* cordis-plugin-sdk/src/llm.rs).  A call that wants tokens binds a        *)
(* loopback listener with a key of its own and starts a reader; the plugin *)
(* connects, sends its key and then its deltas, and answers; the host then *)
(* stops the reader, joins it and parses the answer.                       *)
(*                                                                         *)
(* Calls overlap, and a plugin may be late: it may connect to a port that  *)
(* by then belongs to another call, send garbage, stop half way, or stay   *)
(* connected after its call was answered.                                  *)
(***************************************************************************)
EXTENDS Integers, Sequences

CONSTANTS
    Call,       \* completions under way
    MaxFrame    \* bound: frames one connection sends

Free == "free"

ASSUME SinkAssumption == MaxFrame \in Nat /\ Free \notin Call

Delta(c, n) == [t |-> "delta", of |-> c, n |-> n]
KeyOf(c) == [t |-> "key", of |-> c, n |-> 0]
Garbage == [t |-> "garbage", of |-> Free, n |-> 0]

VARIABLES
    call,       \* complete: "new", "invoked", "joining", "ok", "error"
    wants,      \* whether the caller gave a sink
    reader,     \* "none", "accept", "read", "over"
    stopped,    \* whether the stop message was sent
    expired,    \* whether the budget of accept or of one read has passed
    peer,       \* the call whose plugin the reader of a call talks to, or Free
    shaken,     \* handshaked
    sent,       \* frames the plugin of a call has sent
    unread,     \* frames sent to the reader of a call and not read
    open,       \* whether the connection of a call's plugin is open
    out         \* what reached the sink of a call

sinkVars == <<call, wants, reader, stopped, expired, peer, shaken, sent, unread, open, out>>

------------------------------------------------------------------------------
(* complete *)

\* bind may fail, and then there is no side channel.
Complete(c) ==
    /\ call[c] = "new"
    /\ call' = [call EXCEPT ![c] = "invoked"]
    /\ reader' = [reader EXCEPT ![c] = IF wants[c] THEN "accept" ELSE "none"]
    /\ UNCHANGED <<wants, stopped, expired, peer, shaken, sent, unread, open, out>>

\* The invocation ends, with an answer or an error: in both cases the
\* listener is dropped, which sends stop and joins the reader.
InvokeEnds(c) ==
    /\ call[c] = "invoked"
    /\ call' = [call EXCEPT ![c] = "joining"]
    /\ stopped' = [stopped EXCEPT ![c] = TRUE]
    /\ UNCHANGED <<wants, reader, expired, peer, shaken, sent, unread, open, out>>

\* parse_llm_reply, after the join: the answer alone decides.
Joined(c) ==
    /\ call[c] = "joining" /\ reader[c] \in {"none", "over"}
    /\ \E end \in {"ok", "error"} : call' = [call EXCEPT ![c] = end]
    /\ UNCHANGED <<wants, reader, stopped, expired, peer, shaken, sent, unread, open, out>>

------------------------------------------------------------------------------
(* serve_once *)

\* One connection is accepted and the listener serves no other.  Connect is
\* the plugin of call p reaching the listener of call c; it connects once.
Connect(p, c) ==
    /\ call[p] # "new" /\ wants[p] /\ \A d \in Call : peer[d] # p
    /\ reader[c] = "accept"
    /\ reader' = [reader EXCEPT ![c] = "read"]
    /\ peer' = [peer EXCEPT ![c] = p]
    /\ open' = [open EXCEPT ![p] = TRUE]
    /\ expired' = [expired EXCEPT ![c] = FALSE]
    /\ UNCHANGED <<call, wants, stopped, shaken, sent, unread, out>>

\* accept_retry: nobody has connected and the caller is done or the budget
\* is spent.
GiveUp(c) ==
    /\ reader[c] = "accept" /\ (stopped[c] \/ expired[c])
    /\ reader' = [reader EXCEPT ![c] = "over"]
    /\ expired' = [expired EXCEPT ![c] = FALSE]
    /\ UNCHANGED <<call, wants, stopped, peer, shaken, sent, unread, open, out>>

\* Mutant: a data frame is taken whatever came before it.
ClassifyLoosely(c, f) ==
    IF f.t = "garbage" \/ f.t = "key" THEN "ignore" ELSE "forward"

\* classify_frame
ClassifyFrame(c, f) ==
    CASE f.t = "garbage"              -> "ignore"
      [] f.t = "key" /\ shaken[c]     -> "ignore"
      [] f.t = "key" /\ ~ shaken[c]   -> IF f.of = c THEN "accept" ELSE "reject"
      [] f.t = "delta" /\ ~ shaken[c] -> "reject"
      [] f.t = "delta" /\ shaken[c]   -> "forward"

\* The next line; a rejected connection is closed with what it still holds.
ReadFrame(c) ==
    /\ reader[c] = "read" /\ unread[c] # <<>>
    /\ LET what == ClassifyFrame(c, Head(unread[c]))
       IN  /\ shaken' = [shaken EXCEPT ![c] = @ \/ what = "accept"]
           /\ out' = IF what = "forward"
                     THEN [out EXCEPT ![c] = Append(@, Head(unread[c]))] ELSE out
           /\ reader' = IF what = "reject" THEN [reader EXCEPT ![c] = "over"] ELSE reader
    /\ unread' = [unread EXCEPT ![c] = IF reader'[c] = "over" THEN <<>> ELSE Tail(@)]
    /\ expired' = [expired EXCEPT ![c] = FALSE]
    /\ UNCHANGED <<call, wants, stopped, peer, sent, open>>

\* The end of the stream, or a read that waited for the whole budget.
ReadEnds(c) ==
    /\ reader[c] = "read" /\ unread[c] = <<>>
    /\ ~ open[peer[c]] \/ expired[c]
    /\ reader' = [reader EXCEPT ![c] = "over"]
    /\ expired' = [expired EXCEPT ![c] = FALSE]
    /\ UNCHANGED <<call, wants, stopped, peer, shaken, sent, unread, open, out>>

Reader(c) == GiveUp(c) \/ ReadFrame(c) \/ ReadEnds(c)

\* The budget passes with nothing to accept, or with nothing to read.
Budget(c) ==
    /\ reader[c] = "accept" \/ (reader[c] = "read" /\ unread[c] = <<>>)
    /\ ~ expired[c]
    /\ expired' = [expired EXCEPT ![c] = TRUE]
    /\ UNCHANGED <<call, wants, reader, stopped, peer, shaken, sent, unread, open, out>>

------------------------------------------------------------------------------
(* The plugin: external, as the contract in llm.rs describes it *)

Frames(p) == {KeyOf(p), Garbage} \cup {Delta(p, Len(sent[p]) + 1)}

\* What is sent to a reader that has ended is lost.
Send(p) ==
    /\ open[p] /\ Len(sent[p]) < MaxFrame
    /\ \E c \in Call : peer[c] = p /\ reader[c] = "read"
    /\ \E f \in Frames(p) :
        /\ sent' = [sent EXCEPT ![p] = Append(@, f)]
        /\ unread' = [c \in Call |-> IF peer[c] = p /\ reader[c] = "read"
                                     THEN Append(unread[c], f) ELSE unread[c]]
    /\ UNCHANGED <<call, wants, reader, stopped, expired, peer, shaken, open, out>>

Disconnect(p) ==
    /\ open[p]
    /\ open' = [open EXCEPT ![p] = FALSE]
    /\ UNCHANGED <<call, wants, reader, stopped, expired, peer, shaken, sent, unread, out>>

------------------------------------------------------------------------------
SinkInit ==
    /\ call = [c \in Call |-> "new"]
    /\ wants \in [Call -> BOOLEAN]
    /\ reader = [c \in Call |-> "none"]
    /\ stopped = [c \in Call |-> FALSE]
    /\ expired = [c \in Call |-> FALSE]
    /\ peer = [c \in Call |-> Free]
    /\ shaken = [c \in Call |-> FALSE]
    /\ sent = [c \in Call |-> <<>>]
    /\ unread = [c \in Call |-> <<>>]
    /\ open = [c \in Call |-> FALSE]
    /\ out = [c \in Call |-> <<>>]

SinkNext ==
    \/ \E c \in Call :
        \/ Complete(c) \/ InvokeEnds(c) \/ Joined(c) \/ Reader(c) \/ Budget(c)
        \/ Send(c) \/ Disconnect(c)
    \/ \E p, c \in Call : Connect(p, c)

SinkSpec == SinkInit /\ [][SinkNext]_sinkVars

\* The reader's thread and the caller run, and time passes.  A plugin
\* promises nothing, and invoke has no deadline.
SinkFairness ==
    \A c \in Call :
        WF_sinkVars(Joined(c)) /\ WF_sinkVars(Reader(c)) /\ WF_sinkVars(Budget(c))
SinkFairSpec == SinkSpec /\ SinkFairness

------------------------------------------------------------------------------
(* Properties *)

SinkTypeOK ==
    /\ call \in [Call -> {"new", "invoked", "joining", "ok", "error"}]
    /\ reader \in [Call -> {"none", "accept", "read", "over"}]
    /\ peer \in [Call -> Call \cup {Free}]
    /\ \A c \in Call : Len(sent[c]) <= MaxFrame

\* What reached the sink of a call is what its own plugin sent, in order and
\* without a gap: no token of another call, none before the handshake, none
\* twice.
TokensAreOwn ==
    \A c \in Call : \A i \in DOMAIN out[c] :
        LET n == out[c][i].n
        IN  /\ n \in DOMAIN sent[c] /\ sent[c][n] = out[c][i] /\ out[c][i].t = "delta"
            /\ \A j \in 1 .. i - 1 : out[c][j].n < n
            /\ \A m \in 1 .. n - 1 : sent[c][m].t = "delta" =>
                  \E j \in 1 .. i - 1 : out[c][j].n = m

\* Once the plugin has answered, the side channel does not keep the
\* completion from returning, whatever the plugin does with its connection,
\* as long as it does not send for ever.
CompletionReturns == \A c \in Call : call[c] = "joining" ~> call[c] \in {"ok", "error"}
==============================================================================
