----------------------------- MODULE ChatAdapter -----------------------------
(***************************************************************************)
(* The shipped adapter to a chat platform (fixtures/plugins/feishu):       *)
(* feishu_serve starts an event loop, over a long connection or as a       *)
(* webhook, and one poller; a loop puts fragments together, asks the       *)
(* access policy and queues a message; the poller posts a card that says   *)
(* "thinking" and triggers the agent; feishu_send turns the card into the  *)
(* answer; feishu_entry changes the configuration and approves pairings.   *)
(*                                                                         *)
(* The platform is external: it may send any fragment of any message to    *)
(* any open connection, in any order and more than once.  Texts, tokens    *)
(* and the HTTP calls are left out but for whether they succeed.           *)
(***************************************************************************)
EXTENDS Integers, Sequences, FiniteSets

CONSTANTS
    Messages,    \* records [id, kind, chat, user, mentioned, blank, sum]
    Users, Chats,
    CodeOf,      \* pairing_code_for: the code of a user
    Updates,     \* what configure may set: functions of some of the fields
    QueueCap,    \* MESSAGE_QUEUE_CAP
    RecentCap,   \* RECENT_IDS_CAP
    MaxStarts, MaxFrames, MaxAdmin   \* bounds

ASSUME ChatAssumption ==
    /\ QueueCap \in Nat \ {0} /\ RecentCap \in Nat \ {0}
    /\ MaxStarts \in Nat /\ MaxFrames \in Nat /\ MaxAdmin \in Nat

NoMessage == [id |-> "none"]
NoUser == "nobody"
NoCard == 0
Loops == 1 .. MaxStarts
Codes == {CodeOf[u] : u \in Users}
Callers == {1, 2}   \* calls of feishu_entry at a time

\* A configuration without any field, and a file that does not parse.
Defaults == [creds |-> FALSE, dmPolicy |-> "pairing", allow |-> {},
             groupPolicy |-> "allowlist", groups |-> {}, mention |-> "unset"]
Torn == [creds |-> "torn"]
NoEntryCall == [at |-> "none"]

VARIABLES
    running, shutdown,   \* SERVER_RUNNING, SERVER_SHUTDOWN
    polling,             \* POLLER_STARTED
    loops,               \* "none", "idle", "pump", "mark", "push", "over"
    modes,               \* "ws" or "webhook"
    parts,               \* the Reassembler of each loop
    hand,                \* the message a loop is about to queue
    seen, messageQueue, dropped,
    poller, batch,       \* the poller's thread: "none", "top", "work", "over"
    config, settings,    \* the file, and STATE
    pairings,            \* PENDING_PAIRINGS
    admin,               \* calls of feishu_entry: where, what they write, for whom
    pendingCards,        \* PENDING_CARDS
    cards,               \* how often each posted card was turned into an answer
    replier,             \* the card a feishu_send has taken
    frames, adminCalls, starts,   \* bounds
    accepted,            \* history: what was marked as seen
    unparsed,            \* history: acknowledged payloads that did not parse
    given, skipped,      \* history: how many the agent got, and how many were trivial
    everStopped,         \* history: whether feishu_serve was ever stopped
    approved, raced      \* history: users approved; a call overlapped another or
                         \* could not write its file

chatVars == <<running, shutdown, polling, loops, modes, parts, hand, seen, messageQueue,
              dropped, poller, batch, config, settings, pairings, admin,
              pendingCards, cards, replier, frames, adminCalls, starts, accepted,
              unparsed, given, skipped, everStopped, approved, raced>>

loopVars == <<running, shutdown, polling, modes, starts, everStopped>>
queueVars == <<seen, messageQueue, dropped, accepted>>
pollVars == <<poller, batch, given, skipped>>
cardVars == <<pendingCards, cards, replier>>
adminVars == <<config, admin, adminCalls, approved, raced>>

Live(l) == loops[l] \in {"idle", "pump", "mark", "push"}
\* STATE after the file was read: as it was if the file does not parse.
Hydrated == IF config = Torn THEN settings ELSE config
NoParts == [m \in Messages |-> {}]

------------------------------------------------------------------------------
(* feishu_serve *)

\* stop only sets the flags: it waits for nobody.
Stop ==
    /\ running \/ ~ shutdown
    /\ shutdown' = TRUE /\ running' = FALSE /\ everStopped' = TRUE
    /\ UNCHANGED <<polling, loops, modes, parts, hand, starts, frames, unparsed,
                   settings, pairings, queueVars, pollVars, cardVars, adminVars>>

\* A port that an earlier webhook loop still holds cannot be bound.
Bound == \E l \in Loops : modes[l] = "webhook" /\ Live(l)

\* The configuration is read first, also when the adapter runs already or the
\* port cannot be bound.  The poller is started once in the life of the
\* library.
StartServe(mode) ==
    /\ starts < MaxStarts
    /\ settings' = Hydrated
    /\ IF running \/ (mode = "webhook" /\ Bound)
       THEN UNCHANGED <<running, shutdown, polling, loops, modes, parts, starts, poller>>
       ELSE /\ starts' = starts + 1
            /\ shutdown' = FALSE /\ running' = TRUE /\ polling' = TRUE
            /\ loops' = [loops EXCEPT ![starts'] = IF mode = "ws" THEN "idle" ELSE "pump"]
            /\ modes' = [modes EXCEPT ![starts'] = mode]
            /\ parts' = [parts EXCEPT ![starts'] = NoParts]
            /\ poller' = IF polling THEN poller ELSE "top"
    /\ UNCHANGED <<everStopped, hand, frames, unparsed, pairings, queueVars, batch,
                   given, skipped, cardVars, adminVars>>

------------------------------------------------------------------------------
(* run_ws_loop, pump_connection, run_event_loop *)

LoopUnchanged == UNCHANGED <<loopVars, hand, frames, unparsed, pairings, queueVars,
                             pollVars, cardVars, adminVars>>

\* The flag is looked at before every round.
LoopStops(l) ==
    /\ loops[l] \in {"idle", "pump"} /\ shutdown
    /\ loops' = [loops EXCEPT ![l] = "over"]
    /\ parts' = [parts EXCEPT ![l] = NoParts]
    /\ UNCHANGED settings /\ LoopUnchanged

\* Without credentials the loop waits and reads the file again.
AwaitCredentials(l) ==
    /\ loops[l] = "idle" /\ ~ shutdown /\ ~ settings.creds
    /\ settings' = Hydrated
    /\ UNCHANGED <<loops, parts>> /\ LoopUnchanged

\* bootstrap_endpoint and the dial succeed; when they fail the loop sleeps and
\* is where it was.  A connection begins with an empty Reassembler.
Dial(l) ==
    /\ loops[l] = "idle" /\ ~ shutdown /\ settings.creds
    /\ loops' = [loops EXCEPT ![l] = "pump"]
    /\ parts' = [parts EXCEPT ![l] = NoParts]
    /\ UNCHANGED settings /\ LoopUnchanged

\* The connection is lost and dialled again; a webhook server that fails ends.
ConnectionLost(l) ==
    /\ loops[l] = "pump"
    /\ loops' = [loops EXCEPT ![l] = IF modes[l] = "ws" THEN "idle" ELSE "over"]
    /\ parts' = [parts EXCEPT ![l] = NoParts]
    /\ UNCHANGED settings /\ LoopUnchanged

------------------------------------------------------------------------------
(* interpret_inbound, policy_gate, process_outcome *)

MentionNeeded(s) == IF s.mention = "unset" THEN s.groupPolicy # "open" ELSE s.mention = "yes"

\* A card action is not asked about: a click is an interaction with the bot.
PolicyGate(m, s) ==
    CASE m.kind = "card" -> "message"
      [] m.kind = "p2p" ->
            IF s.dmPolicy = "open" \/ m.user \in s.allow THEN "message"
            ELSE IF s.dmPolicy = "allowlist" THEN "ignore" ELSE "pairing"
      [] m.kind = "group" ->
            IF /\ s.groupPolicy # "disabled"
               /\ s.groupPolicy = "open" \/ m.chat \in s.groups
               /\ MentionNeeded(s) => m.mentioned
            THEN "message" ELSE "ignore"

\* An interpreted message goes to the queue, or its sender gets a code.
Process(l, m) ==
    LET what == PolicyGate(m, settings)
    IN  /\ loops' = [loops EXCEPT ![l] = IF what = "message" THEN "mark" ELSE "pump"]
        /\ hand' = [hand EXCEPT ![l] = IF what = "message" THEN m ELSE NoMessage]
        /\ pairings' = IF what = "pairing"
                       THEN [pairings EXCEPT ![CodeOf[m.user]] = m.user] ELSE pairings

\* Mutant: a message is whole after as many fragments as it has, repeated or not.
WholeByCount(m, got, seq) == Cardinality(got) + 1 >= m.sum

\* feed: whole when every fragment is there.
Whole(m, got, seq) == got \cup {seq} = 0 .. m.sum - 1

\* handle_data_frame: windows that are too old are dropped first, then the
\* fragment is added; a message that is whole is interpreted, once, and its
\* window removed.  A payload with a fragment missing does not parse and is
\* acknowledged all the same.
Frame(l, m, seq) ==
    /\ loops[l] = "pump" /\ modes[l] = "ws" /\ frames < MaxFrames
    /\ frames' = frames + 1
    /\ \E old \in SUBSET {x \in Messages : parts[l][x] # {}} :
        LET kept == IF m.sum <= 1 THEN parts[l]
                    ELSE [x \in Messages |-> IF x \in old THEN {} ELSE parts[l][x]]
        IN  /\ m.sum <= 1 => old = {}
            /\ IF Whole(m, kept[m], seq)
               THEN /\ parts' = [parts EXCEPT ![l] = [kept EXCEPT ![m] = {}]]
                    /\ IF kept[m] \cup {seq} = 0 .. m.sum - 1
                       THEN Process(l, m) /\ UNCHANGED unparsed
                       ELSE unparsed' = unparsed \cup {m} /\ UNCHANGED <<loops, hand, pairings>>
               ELSE /\ parts' = [parts EXCEPT ![l] = [kept EXCEPT ![m] = @ \cup {seq}]]
                    /\ UNCHANGED <<unparsed, loops, hand, pairings>>
    /\ UNCHANGED <<loopVars, settings, queueVars, pollVars, cardVars, adminVars>>

\* A webhook request is answered before it is processed.
Post(l, m) ==
    /\ loops[l] = "pump" /\ modes[l] = "webhook" /\ frames < MaxFrames
    /\ frames' = frames + 1
    /\ Process(l, m)
    /\ UNCHANGED <<unparsed, loopVars, settings, parts, queueVars, pollVars, cardVars, adminVars>>

------------------------------------------------------------------------------
(* enqueue_message: two lock sections *)

Recent(s) == IF Len(s) > RecentCap THEN Tail(s) ELSE s

MarkSeen(l) ==
    /\ loops[l] = "mark"
    /\ LET m == hand[l]
           known == \E i \in DOMAIN seen : seen[i] = m.id
       IN  /\ seen' = IF known THEN seen ELSE Recent(Append(seen, m.id))
           /\ accepted' = IF known THEN accepted ELSE Append(accepted, m.id)
           /\ loops' = [loops EXCEPT ![l] = IF known THEN "pump" ELSE "push"]
           /\ hand' = IF known THEN [hand EXCEPT ![l] = NoMessage] ELSE hand
    /\ UNCHANGED <<loopVars, parts, settings, frames, unparsed, pairings, messageQueue,
                   dropped, pollVars, cardVars, adminVars>>

\* A message that finds the queue full is counted, and stays marked as seen.
PushQueue(l) ==
    /\ loops[l] = "push"
    /\ IF Len(messageQueue) >= QueueCap
       THEN dropped' = dropped + 1 /\ UNCHANGED messageQueue
       ELSE messageQueue' = Append(messageQueue, hand[l]) /\ UNCHANGED dropped
    /\ loops' = [loops EXCEPT ![l] = "pump"]
    /\ hand' = [hand EXCEPT ![l] = NoMessage]
    /\ UNCHANGED <<loopVars, parts, settings, frames, unparsed, pairings, seen,
                   accepted, pollVars, cardVars, adminVars>>

------------------------------------------------------------------------------
(* start_agent_poller *)

PollTop ==
    /\ poller = "top"
    /\ IF shutdown
       THEN poller' = "over" /\ UNCHANGED <<messageQueue, batch>>
       ELSE poller' = "work" /\ batch' = messageQueue /\ messageQueue' = <<>>
    /\ UNCHANGED <<loopVars, loops, parts, hand, settings, frames, unparsed,
                   pairings, seen, dropped, accepted, given, skipped, cardVars, adminVars>>

\* A trivial message is left out; for the others a card may be posted, which
\* takes the place of an earlier card of the same chat.
PollWork ==
    /\ poller = "work"
    /\ IF batch = <<>>
       THEN /\ poller' = "top"
            /\ UNCHANGED <<batch, given, skipped, pendingCards, cards>>
       ELSE LET m == Head(batch)
            IN  /\ batch' = Tail(batch)
                /\ IF m.blank
                   THEN /\ skipped' = skipped + 1
                        /\ UNCHANGED <<given, pendingCards, cards>>
                   ELSE /\ given' = given + 1
                        /\ \/ /\ cards' = Append(cards, 0)
                              /\ pendingCards' = [pendingCards EXCEPT ![m.chat] = Len(cards')]
                           \/ UNCHANGED <<pendingCards, cards>>
                        /\ UNCHANGED skipped
                /\ UNCHANGED poller
    /\ UNCHANGED <<loopVars, loops, parts, hand, settings, frames, unparsed,
                   pairings, queueVars, replier, adminVars>>

------------------------------------------------------------------------------
(* handle_feishu_send *)

\* A reply to a chat takes the card of the chat out.  Without a card the reply is
\* a message of its own, and is done.
Reply(c) ==
    /\ replier = NoCard /\ pendingCards[c] # NoCard
    /\ replier' = pendingCards[c]
    /\ pendingCards' = [pendingCards EXCEPT ![c] = NoCard]
    /\ UNCHANGED <<loopVars, loops, parts, hand, settings, frames, unparsed,
                   pairings, queueVars, pollVars, cards, adminVars>>

\* feishu_update_card; a card that cannot be changed is left, and the reply is
\* sent as a message.
UpdateCard ==
    /\ replier # NoCard
    /\ replier' = NoCard
    /\ \E ok \in BOOLEAN :
        cards' = IF ok THEN [cards EXCEPT ![replier] = @ + 1] ELSE cards
    /\ UNCHANGED <<loopVars, loops, parts, hand, settings, frames, unparsed,
                   pairings, queueVars, pollVars, pendingCards, adminVars>>

------------------------------------------------------------------------------
(* feishu_entry: the file is read, changed and written without a lock *)

AdminUnchanged == UNCHANGED <<loopVars, loops, parts, hand, frames, unparsed,
                              queueVars, pollVars, cardVars>>

Merge(c, u) == [f \in DOMAIN c |-> IF f \in DOMAIN u THEN u[f] ELSE c[f]]

\* load_runtime_config: a file that does not parse counts as empty.
Loaded == IF config = Torn THEN Defaults ELSE config

Overlaps(a) == \E b \in Callers \ {a} : admin[b] # NoEntryCall

ConfigureLoad(a) ==
    /\ admin[a] = NoEntryCall /\ adminCalls < MaxAdmin
    /\ \E u \in Updates :
        admin' = [admin EXCEPT ![a] = [at |-> "open", new |-> Merge(Loaded, u), whom |-> NoUser]]
    /\ adminCalls' = adminCalls + 1
    /\ raced' = (raced \/ Overlaps(a))
    /\ UNCHANGED <<config, settings, pairings, approved>> /\ AdminUnchanged

\* approve_pairing: the code is consumed before the file is read.
ApproveLoad(a, code) ==
    /\ admin[a] = NoEntryCall /\ adminCalls < MaxAdmin /\ pairings[code] # NoUser
    /\ pairings' = [pairings EXCEPT ![code] = NoUser]
    /\ admin' = [admin EXCEPT ![a] = [at |-> "open", whom |-> pairings[code],
                    new |-> [Loaded EXCEPT !.allow = @ \cup {pairings[code]}]]]
    /\ adminCalls' = adminCalls + 1
    /\ raced' = (raced \/ Overlaps(a))
    /\ UNCHANGED <<config, settings, approved>> /\ AdminUnchanged

\* save_runtime_config: opening the file empties it.
EntryOpen(a) ==
    /\ admin[a].at = "open"
    /\ \/ config' = Torn /\ admin' = [admin EXCEPT ![a].at = "write"] /\ UNCHANGED raced
       \/ admin' = [admin EXCEPT ![a] = NoEntryCall] /\ raced' = TRUE /\ UNCHANGED config
    /\ UNCHANGED <<settings, pairings, adminCalls, approved>> /\ AdminUnchanged

EntryWrite(a) ==
    /\ admin[a].at = "write"
    /\ \/ config' = admin[a].new /\ admin' = [admin EXCEPT ![a].at = "apply"] /\ UNCHANGED raced
       \/ admin' = [admin EXCEPT ![a] = NoEntryCall] /\ raced' = TRUE /\ UNCHANGED config
    /\ UNCHANGED <<settings, pairings, adminCalls, approved>> /\ AdminUnchanged

\* apply_config_to_state
EntryApply(a) ==
    /\ admin[a].at = "apply"
    /\ settings' = admin[a].new
    /\ admin' = [admin EXCEPT ![a] = NoEntryCall]
    /\ approved' = approved \cup ({admin[a].whom} \ {NoUser})
    /\ UNCHANGED <<config, pairings, adminCalls, raced>> /\ AdminUnchanged

------------------------------------------------------------------------------
\* The library is loaded; file is what an earlier process left in the file, and
\* the other arguments are what is spent of the bounds.
ChatBegins(file, frameCount, callCount, startCount) ==
    /\ running = FALSE /\ shutdown = FALSE /\ polling = FALSE
    /\ loops = [l \in Loops |-> "none"] /\ modes = [l \in Loops |-> "ws"]
    /\ parts = [l \in Loops |-> NoParts] /\ hand = [l \in Loops |-> NoMessage]
    /\ seen = <<>> /\ messageQueue = <<>> /\ dropped = 0
    /\ poller = "none" /\ batch = <<>>
    /\ config = file /\ settings = Defaults
    /\ pairings = [c \in Codes |-> NoUser] /\ admin = [a \in Callers |-> NoEntryCall]
    /\ pendingCards = [c \in Chats |-> NoCard] /\ cards = <<>> /\ replier = NoCard
    /\ frames = frameCount /\ adminCalls = callCount /\ starts = startCount
    /\ accepted = <<>> /\ unparsed = {} /\ given = 0 /\ skipped = 0
    /\ everStopped = FALSE /\ approved = {} /\ raced = FALSE

ChatInit == ChatBegins(Defaults, 0, 0, 0)

Poller == PollTop \/ PollWork
Entry(a) == EntryOpen(a) \/ EntryWrite(a) \/ EntryApply(a)

ChatNext ==
    \/ Stop \/ StartServe("ws") \/ StartServe("webhook") \/ Poller \/ UpdateCard
    \/ \E l \in Loops :
        \/ LoopStops(l) \/ AwaitCredentials(l) \/ Dial(l) \/ ConnectionLost(l)
        \/ MarkSeen(l) \/ PushQueue(l)
        \/ \E m \in Messages : Post(l, m) \/ \E seq \in 0 .. m.sum - 1 : Frame(l, m, seq)
    \/ \E c \in Chats : Reply(c)
    \/ \E a \in Callers :
        ConfigureLoad(a) \/ Entry(a) \/ \E code \in Codes : ApproveLoad(a, code)

ChatSpec == ChatInit /\ [][ChatNext]_chatVars

------------------------------------------------------------------------------
(* Properties *)

ChatTypeOK ==
    /\ loops \in [Loops -> {"none", "idle", "pump", "mark", "push", "over"}]
    /\ Len(messageQueue) <= QueueCap /\ Len(seen) <= RecentCap
    /\ poller \in {"none", "top", "work", "over"}

\* A message that comes again is queued again only after RecentCap others.
NoEarlyRepeat ==
    \A i, j \in DOMAIN accepted :
        i < j /\ accepted[i] = accepted[j]
            => Cardinality({accepted[k] : k \in i + 1 .. j - 1}) >= RecentCap

\* A message that was marked as seen is on its way, with the agent, trivial, or
\* counted as dropped.
Accounted ==
    Len(accepted) = Cardinality({l \in Loops : loops[l] = "push"}) + Len(messageQueue)
                    + Len(batch) + given + skipped + dropped

\* What the platform is told was received was put together and interpreted,
\* however its fragments came.
AckedIsHandled == unparsed = {}

\* An answer on a card is never replaced by another: the card a reply will
\* change still says "thinking", and no two replies have the same card.
CardsKept ==
    /\ \A i \in DOMAIN cards : cards[i] <= 1
    /\ \A c \in Chats : pendingCards[c] # NoCard =>
           cards[pendingCards[c]] = 0 /\ pendingCards[c] # replier

\* Without overlapping calls and failed writes, an approved user stays approved,
\* and the file says so too.
ApprovalKept ==
    ~ raced /\ admin = [a \in Callers |-> NoEntryCall]
        => approved \subseteq config.allow \cap settings.allow

\* Until it is stopped for the first time, an adapter that says it runs has a
\* poller.
PollerRuns == running /\ ~ everStopped => poller \in {"top", "work"}

ChatSound ==
    NoEarlyRepeat /\ Accounted /\ AckedIsHandled /\ CardsKept /\ ApprovalKept /\ PollerRuns

\* Not so: a start that follows a stop at once takes the flag back before the
\* old loop has seen it, and two loops serve.
OneLoop == \A k, l \in Loops : Live(k) /\ Live(l) => k = l

\* Not so: the poller ends with a stop, POLLER_STARTED stays, and the loop of the
\* next start queues messages that nobody takes.
PollerServes == running => poller \in {"top", "work"}
=============================================================================
