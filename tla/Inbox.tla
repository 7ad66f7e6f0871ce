-------------------------------- MODULE Inbox --------------------------------
(***************************************************************************)
(* The inbox of `serve --runtime-only` (main.rs): plugins push messages    *)
(* through a bounded channel; one thread takes everything that is there,   *)
(* sorts it by session key, runs the commands, sends the rest to the       *)
(* agent's session and spills to disk what the model could not take.       *)
(*                                                                         *)
(* A message is a record of a serial number, a session key and what it is: *)
(* a text, a command or /reset.  Keys are numbers in the order of the      *)
(* BTreeMap that shards a batch.  FileOf is `sanitize`: the name of the    *)
(* file a key is spilled to.  The inbox thread is the only one that        *)
(* touches the session cache and the files, so a step is what happens      *)
(* between two effects that a crash can separate.                          *)
(***************************************************************************)
EXTENDS SeqFilter, FiniteSets

CONSTANTS
  Keys,         \* session keys, numbers from 1
  FileOf,       \* the file of a key
  Capacity,     \* AGENT_TRIGGER_CAPACITY
  MaxSessions,  \* MAX_SESSIONS
  Senders,      \* sender identities of envelopes
  MaxMessages,  \* bound: messages sent by plugins
  MaxCrashes,   \* bound: crashes of the process
  NoSession     \* the empty session id

ASSUME InboxBounds ==
  /\ Keys \subseteq Nat \ {0} /\ IsFiniteSet(Keys) /\ FileOf \in [Keys -> Keys]
  /\ Capacity \in Nat \ {0} /\ MaxSessions \in Nat \ {0}
  /\ MaxMessages \in Nat /\ MaxCrashes \in Nat /\ NoSession \notin 1..(MaxSessions + 1)

VARIABLES
  channel,      \* AGENT_TRIGGER_TX
  inboxPc,      \* where the thread is
  groups,       \* by_session: what is left of the batch
  key,          \* session_key of the group in work
  normals,      \* its messages that are not commands
  combined,     \* what is sent: the spilled messages and the normals
  sessions,     \* the cache: key -> session id
  live,         \* sessions of the host that the inbox started
  pending,      \* data/pending: file -> messages
  serial,       \* messages sent so far
  crashes,
  soul,         \* soul key of the host's session of a key: whom it speaks to
  asked,        \* history variable: per key, <<messages, soul>> of the turns answered
  gone          \* history variable: messages that may be missing, with the reason

cache == <<sessions, live, soul>>
work == <<inboxPc, groups, key, normals, combined>>
inboxVars == <<channel, work, cache, pending, serial, crashes, asked, gone>>

Files == {FileOf[k] : k \in Keys}
Kinds == {"text", "command", "reset"}
NoKey == 0
Stages == {"recv", "groups", "load", "open", "soul", "send", "clear", "retry", "spill"}
Texts(ms) == ElementsAt(ms, {i \in DOMAIN ms : ms[i].kind = "text"})
OfKey(ms, k) == ElementsAt(ms, {i \in DOMAIN ms : ms[i].key = k})
OtherKeys(ms, k) == ElementsAt(ms, {i \in DOMAIN ms : ms[i].key /= k})

InboxInit ==
  /\ channel = <<>> /\ inboxPc = "recv" /\ groups = <<>> /\ key = NoKey
  /\ normals = <<>> /\ combined = <<>> /\ sessions = <<>> /\ live = {} /\ soul = <<>>
  /\ pending = [f \in Files |-> <<>>] /\ serial = 0 /\ crashes = 0
  /\ asked = [k \in Keys |-> <<>>] /\ gone = {}

Lose(ms, why) == gone' = gone \cup {<<ms[i].id, why>> : i \in DOMAIN ms}

\* _cordis_agent_trigger: try_send drops the newest message when the channel
\* is full.
Trigger(k, sender, kind) ==
  /\ serial < MaxMessages /\ serial' = serial + 1
  /\ LET m == [id |-> serial + 1, key |-> k, sender |-> sender, kind |-> kind]
     IN  IF Len(channel) < Capacity
         THEN channel' = Append(channel, m) /\ UNCHANGED gone
         ELSE Lose(<<m>>, "full") /\ UNCHANGED channel
  /\ UNCHANGED <<work, cache, pending, crashes, asked>>

\* recv, then try_recv until the channel is empty, then shard by session key;
\* an envelope with a display and no session key is left out.
Receive ==
  /\ inboxPc = "recv" /\ channel /= <<>>
  /\ groups' = OtherKeys(channel, NoKey)
  /\ Lose(OfKey(channel, NoKey), "keyless")
  /\ channel' = <<>> /\ inboxPc' = "groups"
  /\ UNCHANGED <<key, normals, combined, cache, pending, serial, crashes, asked>>

Without(f, S) == [x \in DOMAIN f \ S |-> f[x]]
With(f, x, v) == [y \in DOMAIN f \cup {x} |-> IF y = x THEN v ELSE f[y]]

\* The keys of a batch are served in order.  The commands of a group run first,
\* whatever their place in it: /reset drops the session and the spilled
\* messages.  A group without normal messages is done and leaves the spill alone.
NextGroup ==
  /\ inboxPc = "groups" /\ groups /= <<>>
  /\ LET k == CHOOSE x \in {groups[i].key : i \in DOMAIN groups} :
                \A i \in DOMAIN groups : x <= groups[i].key
         group == OfKey(groups, k)
         reset == \E i \in DOMAIN group : group[i].kind = "reset"
         old == IF k \in DOMAIN sessions THEN {sessions[k]} ELSE {}
     IN  /\ groups' = OtherKeys(groups, k)
         /\ IF reset
            THEN /\ sessions' = Without(sessions, {k})
                 /\ live' = live \ old /\ soul' = Without(soul, old)
                 /\ pending' = [pending EXCEPT ![FileOf[k]] = <<>>]
                 /\ Lose(pending[FileOf[k]], "reset")
            ELSE UNCHANGED <<cache, pending, gone>>
         /\ normals' = Texts(group)
         /\ IF Texts(group) = <<>> THEN inboxPc' = "groups" /\ key' = NoKey
            ELSE inboxPc' = "load" /\ key' = k
  /\ UNCHANGED <<channel, combined, serial, crashes, asked>>

BatchDone ==
  /\ inboxPc = "groups" /\ groups = <<>>
  /\ inboxPc' = "recv" /\ key' = NoKey /\ normals' = <<>> /\ combined' = <<>>
  /\ UNCHANGED <<channel, groups, cache, pending, serial, crashes, asked, gone>>

\* Mutant: the file is taken with its messages.
TakePending ==
  /\ inboxPc = "load"
  /\ combined' = pending[FileOf[key]] \o normals
  /\ pending' = [pending EXCEPT ![FileOf[key]] = <<>>]
  /\ inboxPc' = "open"
  /\ UNCHANGED <<channel, groups, key, normals, cache, serial, crashes, asked, gone>>

\* What an outage spilled goes in front of the batch; the file is kept until the
\* answer is there.
LoadPending ==
  /\ inboxPc = "load"
  /\ combined' = pending[FileOf[key]] \o normals
  /\ inboxPc' = "open"
  /\ UNCHANGED <<channel, groups, key, normals, cache, pending, serial, crashes, asked, gone>>

\* A full cache gives up its smallest key, and that session is dropped.
Evicted ==
  IF key \notin DOMAIN sessions /\ Cardinality(DOMAIN sessions) >= MaxSessions
  THEN {CHOOSE k \in DOMAIN sessions : \A x \in DOMAIN sessions : k <= x}
  ELSE {}

Route == Last(normals)

\* The session of the key, started for the speaker of the last message if there
\* is none.  A start that fails leaves the empty id in the cache.
OpenSession(started) ==
  /\ inboxPc = "open"
  /\ IF key \in DOMAIN sessions
     THEN started /\ UNCHANGED cache
     ELSE LET evicted == {sessions[k] : k \in Evicted}
              sid == CHOOSE s \in 1..(MaxSessions + 1) : s \notin live
              new == IF started THEN sid ELSE NoSession
          IN  /\ sessions' = With(Without(sessions, Evicted), key, new)
              /\ live' = (live \ evicted) \cup ({new} \ {NoSession})
              /\ soul' = IF started THEN With(Without(soul, evicted), sid, Route.sender)
                         ELSE Without(soul, evicted)
  /\ inboxPc' = "soul"
  /\ UNCHANGED <<channel, groups, key, normals, combined, pending, serial, crashes, asked, gone>>

\* refresh_session_soul: a session is shared by the speakers of its key; each
\* batch scopes it to the one who spoke last.
RefreshSoul ==
  /\ inboxPc = "soul" /\ inboxPc' = "send"
  /\ soul' = IF sessions[key] \in live THEN [soul EXCEPT ![sessions[key]] = Route.sender] ELSE soul
  /\ UNCHANGED <<channel, groups, key, normals, combined, sessions, live, pending, serial,
                 crashes, asked, gone>>

\* agent_send_with_fallback succeeds ...
SendAnswered ==
  /\ inboxPc = "send" /\ sessions[key] \in live
  /\ asked' = [asked EXCEPT ![key] = Append(@, <<combined, soul[sessions[key]]>>)]
  /\ inboxPc' = "clear"
  /\ UNCHANGED <<channel, groups, key, normals, combined, cache, pending, serial, crashes, gone>>

\* ... or the profile and its fallbacks are down, or the session is not there.
SendFails ==
  /\ inboxPc = "send" /\ inboxPc' = "spill"
  /\ UNCHANGED <<channel, groups, key, normals, combined, cache, pending, serial, crashes, asked, gone>>

\* The answer is here: the spill is cleared.  A verdict, "suspend" or "respond",
\* ends the turn; anything else is sent back to the model once.
ClearPending(verdict) ==
  /\ inboxPc = "clear"
  /\ pending' = [pending EXCEPT ![FileOf[key]] = <<>>]
  /\ inboxPc' = IF verdict THEN "groups" ELSE "retry"
  /\ UNCHANGED <<channel, groups, key, normals, combined, cache, serial, crashes, asked, gone>>

\* The second answer counts whatever it is, and a second failure is ignored.
Retry ==
  /\ inboxPc = "retry" /\ inboxPc' = "groups"
  /\ UNCHANGED <<channel, groups, key, normals, combined, cache, pending, serial, crashes, asked, gone>>

\* pending::save: only the normals, after what the file already has.
Spill(saved) ==
  /\ inboxPc = "spill"
  /\ IF saved
     THEN pending' = [pending EXCEPT ![FileOf[key]] = @ \o normals] /\ UNCHANGED gone
     ELSE Lose(normals, "io") /\ UNCHANGED pending
  /\ inboxPc' = "groups"
  /\ UNCHANGED <<channel, groups, key, normals, combined, cache, serial, crashes, asked>>

\* The process dies: the channel, the batch and the cache are gone.  The host
\* recovers its sessions; the inbox does not know them any more.
InWork == IF inboxPc \in {"load", "open", "soul", "send", "spill"} THEN normals ELSE <<>>
Crash ==
  /\ crashes < MaxCrashes /\ crashes' = crashes + 1
  /\ gone' = gone \cup {<<m.id, "crash">> : m \in ToSet(channel \o groups \o InWork)}
                  \cup {<<m.id, "again">> : m \in ToSet(IF inboxPc = "clear" THEN combined ELSE <<>>)}
  /\ channel' = <<>> /\ groups' = <<>> /\ normals' = <<>> /\ combined' = <<>>
  /\ key' = NoKey /\ inboxPc' = "recv" /\ sessions' = <<>> /\ live' = {} /\ soul' = <<>>
  /\ UNCHANGED <<pending, serial, asked>>

Serve ==
  \/ Receive \/ NextGroup \/ BatchDone \/ LoadPending \/ RefreshSoul \/ SendAnswered \/ SendFails \/ Retry
  \/ \E ok \in BOOLEAN : OpenSession(ok) \/ ClearPending(ok) \/ Spill(ok)

InboxNext ==
  \/ \E k \in Keys, sender \in Senders, kind \in Kinds : Trigger(k, sender, kind)
  \/ Trigger(NoKey, CHOOSE x \in Senders : TRUE, "text")
  \/ Serve
  \/ Crash

InboxSpec == InboxInit /\ [][InboxNext]_inboxVars
-----------------------------------------------------------------------------
Ids(ms) == {ms[i].id : i \in DOMAIN ms}
Gone(reasons) == {g[1] : g \in {x \in gone : x[2] \in reasons}}
AskedFrom(k) == FlattenSeq([i \in DOMAIN asked[k] |-> asked[k][i][1]])
AnsweredIds == UNION {Ids(AskedFrom(k)) : k \in Keys}
SpilledIds == UNION {Ids(pending[f]) : f \in Files}

\* Type correctness.
InboxTypeOK ==
  /\ inboxPc \in Stages /\ key \in Keys \cup {NoKey} /\ (inboxPc \notin {"recv", "groups"} => key \in Keys)
  /\ DOMAIN sessions \subseteq Keys /\ DOMAIN soul = live /\ Len(channel) <= Capacity

\* "the user's message must not vanish" (main.rs, mod pending): a text the thread
\* took up is in work, answered or in the spill, whatever fails, evicts or resets
\* in between; lost are only what /reset clears, what a crash finds in memory and
\* a spill that cannot be written.
NothingVanishes ==
  [][\A m \in ToSet(channel \o groups \o InWork \o combined) :
       m.kind = "text" =>
         m.id \in Gone({"full", "keyless", "reset", "crash", "io"})'
                  \cup (Ids(channel \o groups \o InWork) \cup AnsweredIds \cup SpilledIds)']_inboxVars

\* The messages of a key are answered in the order they were sent and once,
\* through outages, merged spills and batches; only a crash between the answer and
\* the removal of the spill repeats some.
AnsweredOnceInOrder ==
  \A k \in Keys : LET a == AskedFrom(k) IN
    \A i, j \in DOMAIN a : i < j /\ a[j].id \notin Gone({"again"}) => a[i].id < a[j].id

\* A turn is answered for its own key only and under the soul of the one who spoke
\* last in it ("replies never leak across sources/chats"; H1).
OwnTurns ==
  \A k \in Keys : \A i \in DOMAIN asked[k] :
    LET turn == asked[k][i]
    IN  turn[2] = Last(turn[1]).sender /\ \A m \in ToSet(turn[1]) : m.key = k

\* The cache and the host agree: no session the inbox started is left behind by an
\* eviction, a reset or a failed start, none is shared, and the cache is bounded.
CacheExact ==
  /\ live = {sessions[k] : k \in DOMAIN sessions} \ {NoSession}
  /\ \A j, k \in DOMAIN sessions : sessions[j] = sessions[k] /\ j /= k => sessions[k] = NoSession
  /\ Cardinality(DOMAIN sessions) <= MaxSessions

\* The thread of the inbox loses no message, answers each once, in order, to the
\* one who asked, and keeps no session it has forgotten.
InboxSound ==
  /\ [](InboxTypeOK /\ AnsweredOnceInOrder /\ OwnTurns /\ CacheExact)
  /\ NothingVanishes
=============================================================================
