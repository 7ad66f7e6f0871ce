----------------------------- MODULE ServeProofs -----------------------------
(***************************************************************************)
(* Proofs about what serve talks to.  SoulStore, for any set of speakers,  *)
(* personas and profiles and any number of reloads: calls that do not      *)
(* overlap leave every field as the last call that named it asked.         *)
(* ChatAdapter, for any number of loops, messages, fragments, cards and    *)
(* calls: messages are accounted for, cards answered once, approvals kept. *)
(* AgentTurn, for any number of turns, calls, plans and injected messages: *)
(* every request is a chain the provider accepts, and the books of the     *)
(* session are right.  WorkspaceEdits, for any paths, tools, plans and     *)
(* writes: what was done to the workspace can be undone.  Inbox, for any   *)
(* keys, senders and capacity: no message vanishes, none is answered twice *)
(* or out of order, and the session cache and the host agree.              *)
(***************************************************************************)
EXTENDS SoulStore, ChatAdapter, AgentTurn, WorkspaceEdits, Inbox, SequenceTheorems, WellFoundedInduction, FiniteSetTheorems, TLAPS

-----------------------------------------------------------------------------
(* SoulStore *)

\* Where souls are kept, and the record of a call of set_soul.
Stores == {"files", "plugin"}
SoulCall == [at: {"idle", "merge"}, persona: Personas \cup {Keep},
             profile: Profiles \cup {Unset, UnknownProfile, Keep},
             soul: Soul, store: Stores, alone: BOOLEAN]

\* A call that has been alone since it read still holds what the store has.
SoulInv ==
    /\ plugin \in BOOLEAN
    /\ call \in [Speakers -> SoulCall]
    /\ stored \in [Stores -> Soul]
    /\ soulAsked = stored
    /\ \A s \in Speakers : call[s].at = "merge" /\ call[s].alone =>
        /\ \A u \in Speakers \ {s} : ~ Busy(u)
        /\ call[s].soul = stored[call[s].store]

\* The record that a call writes is well formed.
LEMMA MergedIsSoul ==
    ASSUME NEW c \in SoulCall, c.profile # UnknownProfile
    PROVE  Merged(c) \in Soul
BY DEF SoulCall, Merged, Soul

\* A call that found its store unchanged writes what it was told.
LEMMA MergedAsTold ==
    ASSUME NEW c \in SoulCall, NEW was \in Soul, c.soul = was
    PROVE  Merged(c) = Told(c, was)
BY DEF Merged, Told

\* Every step of a session, and a reload, keeps the invariant.
LEMMA SoulInvStep == SoulInv /\ [SoulNext]_soulVars => SoulInv'
<1> SUFFICES ASSUME SoulInv, [SoulNext]_soulVars PROVE SoulInv' OBVIOUS
<1>0. NoCall \in SoulCall /\ NoCall.at = "idle" BY DEF NoCall, SoulCall, NoSoul, Soul, Stores
<1>1. ASSUME NEW s \in Speakers, NEW persona \in Personas \cup {Keep},
             NEW profile \in Profiles \cup {Unset, UnknownProfile, Keep},
             SetSoul(s, persona, profile)
      PROVE  SoulInv'
  <2> DEFINE c == [at |-> "merge", persona |-> persona, profile |-> profile,
                   soul |-> stored[Provider], store |-> Provider,
                   alone |-> \A u \in Speakers \ {s} : ~ Busy(u)]
  <2>1. UNCHANGED <<plugin, stored, soulAsked>> BY <1>1 DEF SetSoul
  <2>2. call' = [t \in Speakers |-> IF t = s THEN c ELSE [call[t] EXCEPT !.alone = FALSE]] BY <1>1 DEF SetSoul
  <2>3. Provider \in Stores /\ stored[Provider] \in Soul BY DEF Provider, Stores, SoulInv
  <2>4. c \in SoulCall BY <2>3 DEF SoulCall
  <2>5. c.soul = stored[c.store] /\ (c.alone <=> \A u \in Speakers \ {s} : ~ Busy(u)) OBVIOUS
  <2> HIDE DEF c
  <2>6. \A t \in Speakers : t # s => /\ call'[t] \in SoulCall /\ call'[t].at = call[t].at
                                     /\ call'[t].alone = FALSE BY <2>2, ZenonT(60) DEF SoulInv, SoulCall
  <2>7. call' \in [Speakers -> SoulCall] /\ call'[s] = c BY <2>2, <2>4, <2>6
  <2>8. ASSUME c.alone PROVE (\A u \in Speakers \ {s} : ~ Busy(u))' BY <2>5, <2>6, <2>8 DEF Busy
  <2> QED BY <2>1, <2>5, <2>6, <2>7, <2>8 DEF SoulInv
<1>2. ASSUME NEW s \in Speakers, Refuse(s) PROVE SoulInv' BY <1>2, <1>0 DEF Refuse, SoulInv, Busy
<1>3. ASSUME NEW s \in Speakers, WriteSoul(s) PROVE SoulInv'
  <2> DEFINE c == call[s]
  <2>1. /\ UNCHANGED plugin /\ call' = [call EXCEPT ![s] = NoCall]
        /\ c.at = "merge" /\ c.profile # UnknownProfile /\ c \in SoulCall BY <1>3 DEF WriteSoul, SoulInv
  <2>2. Provider \in Stores BY DEF Provider, Stores
  <2>3. CASE UNCHANGED <<stored, soulAsked>> BY <1>0, <2>1, <2>3 DEF SoulInv, Busy
  <2>4. CASE /\ stored' = [stored EXCEPT ![Provider] = Merged(c)]
             /\ soulAsked' = [soulAsked EXCEPT ![Provider] =
                          IF c.alone /\ c.store = Provider
                          THEN Told(c, @) ELSE Merged(c)]
    <3>1. Merged(c) \in Soul BY <2>1, MergedIsSoul
    <3>2. c.alone /\ c.store = Provider => Merged(c) = Told(c, stored[Provider])
      BY <2>1, <2>2, MergedAsTold DEF SoulInv
    <3>3. soulAsked' = stored' /\ stored' \in [Stores -> Soul] BY <2>2, <2>4, <3>1, <3>2 DEF SoulInv
    <3>4. ASSUME NEW t \in Speakers, call'[t].at = "merge" PROVE ~ call'[t].alone
      BY <1>0, <2>1, <3>4 DEF SoulInv, Busy
    <3>5. call' \in [Speakers -> SoulCall] BY <1>0, <2>1 DEF SoulInv
    <3> QED BY <2>1, <3>3, <3>4, <3>5 DEF SoulInv
  <2> QED BY <1>3, <2>3, <2>4 DEF WriteSoul
<1>4. CASE ReloadStore BY <1>4 DEF ReloadStore, SoulInv, Busy
<1>5. CASE UNCHANGED soulVars BY <1>5 DEF soulVars, SoulInv, Busy
<1> QED BY <1>1, <1>2, <1>3, <1>4, <1>5 DEF SoulNext

\* For any sessions, personas and profiles, and reloads that change the store
\* under a call: the soul that is stored is what the calls that ran alone were
\* told to set, in every field that they left out too.
THEOREM SoulFieldsKept == SoulSpec => []FieldsKept
<1>1. SoulInit => SoulInv BY DEF SoulInit, SoulInv, NoCall, SoulCall, NoSoul, Soul, Stores, Busy
<1>2. SoulInv => FieldsKept BY DEF SoulInv, FieldsKept, Stores
<1> QED BY <1>1, <1>2, SoulInvStep, PTL DEF SoulSpec

-----------------------------------------------------------------------------
(* ChatAdapter.  Its parts share few variables, and each has an invariant  *)
(* of its own: the accounts of the queue, the ids seen, the cards, the     *)
(* flags of the poller and the configuration.  Lemmas say which steps      *)
(* touch what.                                                             *)

LoopAt == {"none", "idle", "pump", "mark", "push", "over"}
Carried == Messages \cup {NoMessage}
MessageIds == {m.id : m \in Carried}
Pushing == {l \in Loops : loops[l] = "push"}

\* Loops, queue and counters.  A loop that was not started yet has nothing in
\* its hands, so that a start changes no account.
QueueInv ==
    /\ loops \in [Loops -> LoopAt] /\ hand \in [Loops -> Carried]
    /\ starts \in Nat /\ \A l \in Loops : l > starts => loops[l] = "none"
    /\ messageQueue \in Seq(Carried) /\ batch \in Seq(Carried)
    /\ Len(messageQueue) <= QueueCap
    /\ dropped \in Nat /\ given \in Nat /\ skipped \in Nat
    /\ accepted \in Seq(MessageIds)
    /\ Accounted

\* seen holds the last of what was accepted, RecentCap of it if there is so
\* much, and no id twice.
RepeatInv ==
    /\ accepted \in Seq(MessageIds) /\ seen \in Seq(MessageIds)
    /\ Len(seen) <= Len(accepted) /\ Len(seen) <= RecentCap
    /\ Len(seen) = Len(accepted) \/ Len(seen) = RecentCap
    /\ \A i \in 1 .. Len(seen) : seen[i] = accepted[Len(accepted) - Len(seen) + i]
    /\ \A i, j \in 1 .. Len(seen) : seen[i] = seen[j] => i = j
    /\ NoEarlyRepeat

\* A card that waits, or that a reply has taken, was posted and not answered,
\* and waits in one chat.
CardInv ==
    /\ cards \in Seq(Nat) /\ replier \in 0 .. Len(cards)
    /\ pendingCards \in [Chats -> 0 .. Len(cards)]
    /\ replier # NoCard => cards[replier] = 0
    /\ \A c, d \in Chats : pendingCards[c] = pendingCards[d] /\ pendingCards[c] # NoCard => c = d
    /\ CardsKept

\* The poller ends only after a stop, and when it has worked its batch off.
PollerInv ==
    /\ running \in BOOLEAN /\ shutdown \in BOOLEAN /\ polling \in BOOLEAN
    /\ everStopped \in BOOLEAN
    /\ poller \in {"none", "top", "work", "over"}
    /\ polling <=> poller # "none"
    /\ running => polling
    /\ shutdown => everStopped
    /\ poller = "over" => everStopped
    /\ poller # "work" => batch = <<>>

-----------------------------------------------------------------------------
(* Which steps touch what *)

\* Only MarkSeen touches the ids.
LEMMA SeenMoves ==
    ASSUME ChatNext
    PROVE  UNCHANGED <<seen, accepted>> \/ \E l \in Loops : MarkSeen(l)
BY SMTT(60) DEF ChatNext, Stop, StartServe, Poller, PollTop, PollWork, UpdateCard, LoopStops,
       AwaitCredentials, Dial, ConnectionLost, PushQueue, Post, Frame, Process, Reply,
       ConfigureLoad, Entry, EntryOpen, EntryWrite, EntryApply, ApproveLoad,
       LoopUnchanged, AdminUnchanged, queueVars

\* Only the poller and the replies touch the cards.
LEMMA CardMoves ==
    ASSUME ChatNext
    PROVE  UNCHANGED cardVars \/ PollWork \/ UpdateCard \/ \E c \in Chats : Reply(c)
BY SMTT(60) DEF ChatNext, Stop, StartServe, Poller, PollTop, LoopStops,
       AwaitCredentials, Dial, ConnectionLost, MarkSeen, PushQueue, Post, Frame, Process,
       ConfigureLoad, Entry, EntryOpen, EntryWrite, EntryApply, ApproveLoad,
       LoopUnchanged, AdminUnchanged, cardVars

flagVars == <<running, shutdown, polling, everStopped, poller, batch>>

\* Only feishu_serve and the poller touch the flags.
LEMMA FlagMoves ==
    ASSUME ChatNext
    PROVE  UNCHANGED flagVars \/ Stop \/ StartServe("ws") \/ StartServe("webhook") \/ Poller
BY SMTT(60) DEF ChatNext, UpdateCard, LoopStops, Reply, flagVars,
       AwaitCredentials, Dial, ConnectionLost, MarkSeen, PushQueue, Post, Frame, Process,
       ConfigureLoad, Entry, EntryOpen, EntryWrite, EntryApply, ApproveLoad,
       LoopUnchanged, AdminUnchanged, loopVars, pollVars

\* What arrives and is acknowledged was put together.
LEMMA AckMoves ==
    ASSUME ChatNext, unparsed = {}
    PROVE  unparsed' = {}
BY SMTT(60) DEF ChatNext, Stop, StartServe, Poller, PollTop, PollWork, UpdateCard, LoopStops,
       AwaitCredentials, Dial, ConnectionLost, MarkSeen, PushQueue, Post, Frame, Whole, Reply,
       ConfigureLoad, Entry, EntryOpen, EntryWrite, EntryApply, ApproveLoad,
       LoopUnchanged, AdminUnchanged

accountVars == <<messageQueue, batch, dropped, given, skipped, accepted>>

\* A loop that is not queueing moves to another such place.
LoopMoves ==
    /\ UNCHANGED accountVars /\ UNCHANGED starts /\ hand' \in [Loops -> Carried]
    /\ \E l \in Loops : \E x \in LoopAt \ {"push"} :
        loops[l] \in {"idle", "pump"} /\ loops' = [loops EXCEPT ![l] = x]

\* Only the loops, a start and the poller touch the accounts.
LEMMA QueueMoves ==
    ASSUME ChatNext, QueueInv
    PROVE  \/ (UNCHANGED accountVars /\ UNCHANGED <<loops, hand, starts>>)
           \/ LoopMoves
           \/ StartServe("ws") \/ StartServe("webhook") \/ Poller
           \/ \E l \in Loops : MarkSeen(l) \/ PushQueue(l)
<1>1. ASSUME NEW l \in Loops, NEW m \in Messages,
             loops[l] = "pump", Process(l, m), UNCHANGED accountVars, UNCHANGED starts
      PROVE  LoopMoves BY <1>1 DEF Process, Carried, QueueInv, LoopMoves, LoopAt
<1>2. ASSUME NEW l \in Loops, NEW m \in Messages, Post(l, m)
      PROVE  LoopMoves BY <1>1, <1>2 DEF Post, accountVars, queueVars, pollVars, loopVars
<1>3. ASSUME NEW l \in Loops, NEW m \in Messages, NEW seq, Frame(l, m, seq)
      PROVE  LoopMoves \/ (UNCHANGED accountVars /\ UNCHANGED <<loops, hand, starts>>)
  <2>1. loops[l] = "pump" /\ UNCHANGED accountVars /\ UNCHANGED starts
    BY <1>3 DEF Frame, accountVars, queueVars, pollVars, loopVars
  <2>2. Process(l, m) \/ UNCHANGED <<loops, hand>> BY <1>3 DEF Frame
  <2>3. CASE Process(l, m) BY <1>1, <2>1, <2>3
  <2>4. CASE UNCHANGED <<loops, hand>> BY <2>1, <2>4
  <2> QED BY <2>2, <2>3, <2>4
<1>4. ASSUME NEW l \in Loops, LoopStops(l) \/ Dial(l) \/ ConnectionLost(l)
      PROVE  LoopMoves
  <2>1. UNCHANGED accountVars /\ UNCHANGED <<starts, hand>>
    BY <1>4 DEF LoopStops, Dial, ConnectionLost, LoopUnchanged, accountVars, queueVars,
                pollVars, loopVars
  <2>2. \E x \in {"over", "idle", "pump"} :
           loops[l] \in {"idle", "pump"} /\ loops' = [loops EXCEPT ![l] = x]
    BY <1>4 DEF LoopStops, Dial, ConnectionLost
  <2> QED BY <2>1, <2>2 DEF LoopMoves, LoopAt, QueueInv
<1>5. ASSUME Stop \/ UpdateCard \/ (\E l \in Loops : AwaitCredentials(l))
             \/ (\E c \in Chats : Reply(c))
             \/ (\E a \in Callers :
                  ConfigureLoad(a) \/ Entry(a) \/ \E code \in Codes : ApproveLoad(a, code))
      PROVE  UNCHANGED accountVars /\ UNCHANGED <<loops, hand, starts>>
  BY <1>5 DEF Stop, UpdateCard, AwaitCredentials, Reply, ConfigureLoad, Entry, EntryOpen,
              EntryWrite, EntryApply, ApproveLoad, LoopUnchanged, AdminUnchanged,
              accountVars, queueVars, pollVars, loopVars
<1> QED BY <1>2, <1>3, <1>4, <1>5 DEF ChatNext

-----------------------------------------------------------------------------
(* The accounts *)

\* What a step that leaves the accounts alone keeps.
LEMMA SameAccount ==
    ASSUME QueueInv, UNCHANGED accountVars, UNCHANGED starts, hand' \in [Loops -> Carried],
           loops' \in [Loops -> LoopAt], Pushing' = Pushing,
           \A l \in Loops : l > starts => loops'[l] = "none"
    PROVE  QueueInv'
BY DEF QueueInv, Accounted, accountVars, Pushing

\* One loop less is queueing.
LEMMA PushingLess ==
    ASSUME QueueInv, NEW l \in Loops, loops[l] = "push", NEW x \in LoopAt \ {"push"},
           loops' = [loops EXCEPT ![l] = x]
    PROVE  /\ Cardinality(Pushing') = Cardinality(Pushing) - 1
           /\ Cardinality(Pushing) \in Nat /\ Cardinality(Pushing') \in Nat
<1>1. IsFiniteSet(Pushing) /\ IsFiniteSet(Pushing')
  <2>1. IsFiniteSet(Loops) BY FS_Interval, ChatAssumption DEF Loops
  <2>2. Pushing \subseteq Loops /\ Pushing' \subseteq Loops BY DEF Pushing
  <2> QED BY <2>1, <2>2, FS_Subset
<1>2. Pushing' = Pushing \ {l} BY DEF Pushing, QueueInv
<1>3. l \in Pushing BY DEF Pushing
<1> QED BY <1>1, <1>2, <1>3, FS_RemoveElement, FS_CardinalityType

\* One loop more is queueing.
LEMMA PushingMore ==
    ASSUME QueueInv, NEW l \in Loops, loops[l] # "push", loops' = [loops EXCEPT ![l] = "push"]
    PROVE  /\ Cardinality(Pushing') = Cardinality(Pushing) + 1
           /\ Cardinality(Pushing) \in Nat
<1>1. IsFiniteSet(Pushing)
  <2>1. IsFiniteSet(Loops) BY FS_Interval, ChatAssumption DEF Loops
  <2>2. Pushing \subseteq Loops BY DEF Pushing
  <2> QED BY <2>1, <2>2, FS_Subset
<1>2. Pushing' = Pushing \cup {l} BY DEF Pushing, QueueInv
<1>3. l \notin Pushing BY DEF Pushing
<1> QED BY <1>1, <1>2, <1>3, FS_AddElement, FS_CardinalityType

\* The number of loops that are queueing is one.
LEMMA PushingCounts ==
    Cardinality(Pushing) \in Nat
<1>1. IsFiniteSet(Loops) BY FS_Interval, ChatAssumption DEF Loops
<1>2. Pushing \subseteq Loops BY DEF Pushing
<1> QED BY <1>1, <1>2, FS_Subset, FS_CardinalityType

\* Every step keeps the accounts.
LEMMA QueueStep ==
    ASSUME QueueInv, PollerInv, ChatNext
    PROVE  QueueInv'
<1>1. CASE UNCHANGED accountVars /\ UNCHANGED <<loops, hand, starts>>
  BY <1>1, SameAccount DEF QueueInv, Pushing
<1>2. CASE LoopMoves
  <2>1. PICK l \in Loops, x \in LoopAt \ {"push"} :
           loops[l] \in {"idle", "pump"} /\ loops' = [loops EXCEPT ![l] = x] BY <1>2 DEF LoopMoves
  <2>2. Pushing' = Pushing BY <2>1 DEF Pushing, QueueInv
  <2>3. loops' \in [Loops -> LoopAt] /\ \A k \in Loops : k > starts => loops'[k] = "none" BY <2>1 DEF QueueInv
  <2> QED BY <1>2, <2>2, <2>3, SameAccount DEF LoopMoves
<1>3. ASSUME NEW way \in {"ws", "webhook"}, StartServe(way) PROVE QueueInv'
  <2>1. UNCHANGED accountVars /\ UNCHANGED hand BY <1>3 DEF StartServe, accountVars, queueVars
  <2>2. CASE UNCHANGED <<loops, starts>> BY <2>1, <2>2, SameAccount DEF QueueInv, Pushing
  <2>3. CASE ~ UNCHANGED <<loops, starts>>
    <3>1. /\ starts < MaxStarts /\ starts' = starts + 1
          /\ loops' = [loops EXCEPT ![starts'] = IF way = "ws" THEN "idle" ELSE "pump"]
      BY <1>3, <2>3 DEF StartServe
    <3>2. starts \in Nat /\ starts' \in Loops /\ starts' \in Nat BY <3>1, ChatAssumption DEF QueueInv, Loops
    <3>3. loops[starts'] = "none" BY <3>1, <3>2 DEF QueueInv
    <3>4. loops' \in [Loops -> LoopAt] BY <3>1, <3>2 DEF QueueInv, LoopAt
    <3>5. Pushing' = Pushing BY <3>1, <3>2, <3>3 DEF Pushing, QueueInv
    <3>6. \A l \in Loops : l > starts' => loops'[l] = "none" BY <3>1, <3>2 DEF QueueInv, Loops
    <3> QED BY <2>1, <3>2, <3>4, <3>5, <3>6 DEF QueueInv, Accounted, accountVars, Pushing
  <2> QED BY <2>2, <2>3
<1>4. ASSUME NEW l \in Loops, MarkSeen(l) PROVE QueueInv'
  <2>1. UNCHANGED <<messageQueue, batch, dropped, given, skipped, starts>> /\ loops[l] = "mark"
    BY <1>4 DEF MarkSeen, pollVars, loopVars
  <2>2. CASE accepted' = accepted
    <3>1. /\ loops' = [loops EXCEPT ![l] = "pump"] /\ hand' = [hand EXCEPT ![l] = NoMessage]
      <4>1. Len(Append(accepted, hand[l].id)) = Len(accepted) + 1 /\ Len(accepted) \in Nat BY DEF QueueInv
      <4>2. accepted # Append(accepted, hand[l].id) BY <4>1
      <4> QED BY <1>4, <2>2, <4>2 DEF MarkSeen
    <3>2. Pushing' = Pushing BY <2>1, <3>1 DEF Pushing, QueueInv
    <3>3. loops' \in [Loops -> LoopAt] /\ \A k \in Loops : k > starts => loops'[k] = "none"
      BY <2>1, <3>1 DEF QueueInv, LoopAt
    <3>4. hand' \in [Loops -> Carried] BY <3>1 DEF QueueInv, Carried
    <3> QED BY <2>1, <2>2, <3>2, <3>3, <3>4, SameAccount DEF accountVars
  <2>3. CASE accepted' # accepted
    <3>1. /\ accepted' = Append(accepted, hand[l].id) /\ UNCHANGED hand
          /\ loops' = [loops EXCEPT ![l] = "push"] BY <1>4, <2>3 DEF MarkSeen
    <3>2. hand[l].id \in MessageIds BY DEF QueueInv, MessageIds
    <3>3. accepted' \in Seq(MessageIds) /\ Len(accepted') = Len(accepted) + 1 BY <3>1, <3>2 DEF QueueInv
    <3>4. Cardinality(Pushing') = Cardinality(Pushing) + 1 /\ Cardinality(Pushing) \in Nat
      BY <2>1, <3>1, PushingMore
    <3>5. loops' \in [Loops -> LoopAt] /\ \A k \in Loops : k > starts => loops'[k] = "none"
      BY <2>1, <3>1 DEF QueueInv, LoopAt
    <3>6. Accounted'
      <4>1. /\ Len(accepted) = Cardinality(Pushing) + Len(messageQueue) + Len(batch)
                               + given + skipped + dropped
            /\ Len(messageQueue) \in Nat /\ Len(batch) \in Nat /\ Len(accepted) \in Nat
            /\ given \in Nat /\ skipped \in Nat /\ dropped \in Nat BY DEF QueueInv, Accounted, Pushing
      <4>2. Len(accepted') = Cardinality(Pushing') + Len(messageQueue') + Len(batch')
                             + given' + skipped' + dropped' BY <2>1, <3>3, <3>4, <4>1, SMTT(30)
      <4> QED BY <4>2 DEF Accounted, Pushing
    <3> QED BY <2>1, <3>1, <3>3, <3>5, <3>6 DEF QueueInv
  <2> QED BY <2>2, <2>3
<1>5. ASSUME NEW l \in Loops, PushQueue(l) PROVE QueueInv'
  <2>1. /\ UNCHANGED <<accepted, batch, given, skipped, starts>> /\ loops[l] = "push"
        /\ loops' = [loops EXCEPT ![l] = "pump"] /\ hand' = [hand EXCEPT ![l] = NoMessage]
    BY <1>5 DEF PushQueue, pollVars, loopVars
  <2>2. /\ Cardinality(Pushing') = Cardinality(Pushing) - 1
        /\ Cardinality(Pushing) \in Nat /\ Cardinality(Pushing') \in Nat BY <2>1, PushingLess DEF LoopAt
  <2>3. loops' \in [Loops -> LoopAt] /\ \A k \in Loops : k > starts => loops'[k] = "none"
    BY <2>1 DEF QueueInv, LoopAt
  <2>4. hand' \in [Loops -> Carried] /\ hand[l] \in Carried BY <2>1 DEF QueueInv, Carried
  <2>5. /\ Len(accepted) = Cardinality(Pushing) + Len(messageQueue) + Len(batch)
                           + given + skipped + dropped
        /\ Len(messageQueue) \in Nat /\ Len(batch) \in Nat /\ Len(accepted) \in Nat
        /\ given \in Nat /\ skipped \in Nat /\ dropped \in Nat BY DEF QueueInv, Accounted, Pushing
  <2>6. /\ messageQueue' \in Seq(Carried) /\ dropped' \in Nat
        /\ Len(messageQueue') + dropped' = Len(messageQueue) + dropped + 1
        /\ Len(messageQueue') <= QueueCap
    <3>1. CASE Len(messageQueue) >= QueueCap BY <1>5, <3>1, <2>5 DEF PushQueue, QueueInv
    <3>2. CASE ~ (Len(messageQueue) >= QueueCap)
      <4>1. messageQueue' = Append(messageQueue, hand[l]) /\ UNCHANGED dropped BY <1>5, <3>2 DEF PushQueue
      <4>2. messageQueue' \in Seq(Carried) /\ Len(messageQueue') = Len(messageQueue) + 1
        BY <4>1, <2>4 DEF QueueInv
      <4> QED BY <4>1, <4>2, <3>2, <2>5, ChatAssumption
    <3> QED BY <3>1, <3>2
  <2>7. Len(accepted') = Cardinality(Pushing') + Len(messageQueue') + Len(batch')
                         + given' + skipped' + dropped'
    <3>1. Len(messageQueue') \in Nat /\ dropped' \in Nat BY <2>6
    <3>2. /\ Len(accepted') = Len(accepted) /\ Len(batch') = Len(batch)
          /\ given' = given /\ skipped' = skipped BY <2>1
    <3>3. Len(messageQueue') + dropped' = Len(messageQueue) + dropped + 1 BY <2>6
    <3>4. Cardinality(Pushing') + Len(messageQueue') + Len(batch) + given + skipped + dropped'
          = Cardinality(Pushing) + Len(messageQueue) + Len(batch) + given + skipped + dropped
      <4>1. PICK p \in Nat, q \in Nat, b \in Nat, g \in Nat, s \in Nat, d \in Nat :
               /\ p = Cardinality(Pushing) /\ q = Len(messageQueue) /\ b = Len(batch)
               /\ g = given /\ s = skipped /\ d = dropped BY <2>2, <2>5
      <4>2. PICK p2 \in Nat, q2 \in Nat, d2 \in Nat :
               p2 = Cardinality(Pushing') /\ q2 = Len(messageQueue') /\ d2 = dropped' BY <2>2, <3>1
      <4>3. p2 = p - 1 /\ q2 + d2 = q + d + 1 BY <2>2, <3>3, <4>1, <4>2
      <4>4. p2 + q2 + b + g + s + d2 = p + q + b + g + s + d BY <4>3
      <4> QED BY <4>1, <4>2, <4>4
    <3> QED BY <2>5, <3>2, <3>4
  <2>8. Accounted' BY <2>7 DEF Accounted, Pushing
  <2> QED BY <2>1, <2>3, <2>4, <2>6, <2>8 DEF QueueInv
<1>6. CASE PollTop
  <2>1. UNCHANGED <<accepted, given, skipped, dropped, starts, loops, hand>> BY <1>6 DEF PollTop, loopVars
  <2>2. CASE UNCHANGED <<messageQueue, batch>> BY <2>1, <2>2, SameAccount DEF QueueInv, Pushing, accountVars
  <2>3. CASE ~ UNCHANGED <<messageQueue, batch>>
    <3>1. batch' = messageQueue /\ messageQueue' = <<>> /\ batch = <<>> BY <1>6, <2>3 DEF PollTop, PollerInv
    <3>2. Pushing' = Pushing BY <2>1 DEF Pushing
    <3>3. /\ Len(accepted) = Cardinality(Pushing) + Len(messageQueue) + Len(batch)
                             + given + skipped + dropped
          /\ Len(messageQueue) \in Nat BY DEF QueueInv, Accounted, Pushing
    <3>4. Len(batch) = 0 /\ Len(messageQueue') = 0 /\ Len(batch') = Len(messageQueue) BY <3>1
    <3>5. Cardinality(Pushing) \in Nat /\ given \in Nat /\ skipped \in Nat /\ dropped \in Nat
      BY PushingCounts DEF QueueInv
    <3>6. Len(accepted') = Cardinality(Pushing') + Len(messageQueue') + Len(batch')
                           + given' + skipped' + dropped' BY <2>1, <3>2, <3>3, <3>4, <3>5
    <3>7. Accounted' BY <3>6 DEF Accounted, Pushing
    <3>8. messageQueue' \in Seq(Carried) /\ batch' \in Seq(Carried) /\ Len(messageQueue') <= QueueCap
      BY <3>1, <3>4, ChatAssumption DEF QueueInv
    <3> QED BY <2>1, <3>7, <3>8 DEF QueueInv
  <2> QED BY <2>2, <2>3
<1>7. CASE PollWork
  <2>1. UNCHANGED <<accepted, messageQueue, dropped, starts, loops, hand>>
    BY <1>7 DEF PollWork, loopVars, queueVars
  <2>2. CASE batch = <<>> BY <1>7, <2>2, <2>1, SameAccount DEF PollWork, QueueInv, Pushing, accountVars
  <2>3. CASE batch # <<>>
    <3>1. batch' = Tail(batch) BY <1>7, <2>3 DEF PollWork
    <3>2. \/ given' = given + 1 /\ skipped' = skipped
          \/ skipped' = skipped + 1 /\ given' = given BY <1>7, <2>3 DEF PollWork
    <3>3. batch' \in Seq(Carried) /\ Len(batch') = Len(batch) - 1 /\ Len(batch) \in Nat \ {0}
      BY <2>3, <3>1 DEF QueueInv
    <3>4. /\ Len(accepted) = Cardinality(Pushing) + Len(messageQueue) + Len(batch)
                             + given + skipped + dropped
          /\ Len(messageQueue) \in Nat /\ given \in Nat /\ skipped \in Nat /\ dropped \in Nat
      BY DEF QueueInv, Accounted, Pushing
    <3>5. Cardinality(Pushing) \in Nat /\ Cardinality(Pushing') = Cardinality(Pushing)
      BY <2>1, PushingCounts DEF Pushing
    <3>6. /\ Len(accepted') = Len(accepted) /\ Len(messageQueue') = Len(messageQueue)
          /\ dropped' = dropped BY <2>1
    <3>7. given' \in Nat /\ skipped' \in Nat /\ given' + skipped' = given + skipped + 1 BY <3>2, <3>4
    <3>8. Len(accepted') = Cardinality(Pushing') + Len(messageQueue') + Len(batch')
                           + given' + skipped' + dropped'
      <4>1. Len(batch') \in Nat /\ Len(batch') + 1 = Len(batch) BY <3>3
      <4>2. Cardinality(Pushing) + Len(messageQueue) + Len(batch') + given' + skipped' + dropped
            = Cardinality(Pushing) + Len(messageQueue) + Len(batch) + given + skipped + dropped
        <5>1. PICK p \in Nat, q \in Nat, b \in Nat, g \in Nat, s \in Nat, d \in Nat :
                 /\ p = Cardinality(Pushing) /\ q = Len(messageQueue) /\ b = Len(batch)
                 /\ g = given /\ s = skipped /\ d = dropped BY <3>3, <3>4, <3>5
        <5>2. PICK b2 \in Nat, g2 \in Nat, s2 \in Nat :
                 b2 = Len(batch') /\ g2 = given' /\ s2 = skipped' BY <3>7, <4>1
        <5>3. b2 + 1 = b /\ g2 + s2 = g + s + 1 BY <3>7, <4>1, <5>1, <5>2
        <5>4. p + q + b2 + g2 + s2 + d = p + q + b + g + s + d BY <5>3
        <5> QED BY <5>1, <5>2, <5>4
      <4> QED BY <3>4, <3>5, <3>6, <4>2
    <3>9. Accounted' BY <3>8 DEF Accounted, Pushing
    <3> QED BY <2>1, <3>3, <3>7, <3>9 DEF QueueInv
  <2> QED BY <2>2, <2>3
<1> QED BY <1>1, <1>2, <1>3, <1>4, <1>5, <1>6, <1>7, QueueMoves DEF Poller

-----------------------------------------------------------------------------
(* Repeats *)

\* The values of a sequence without repeats are as many as it is long, and a
\* finite set that has them all is no smaller.
LEMMA DistinctValues ==
    ASSUME NEW A, NEW s \in Seq(A), \A i, j \in 1 .. Len(s) : s[i] = s[j] => i = j,
           NEW T, IsFiniteSet(T), \A i \in 1 .. Len(s) : s[i] \in T
    PROVE  Cardinality(T) >= Len(s)
<1>1. Len(s) \in Nat OBVIOUS
<1> DEFINE D == 1 .. Len(s)
           f == [i \in D |-> s[i]]
<1>2. IsFiniteSet(D) /\ Cardinality(D) = Len(s)
  <2>1. /\ IsFiniteSet(1 .. Len(s))
        /\ Cardinality(1 .. Len(s)) = IF 1 > Len(s) THEN 0 ELSE Len(s) - 1 + 1 BY <1>1, FS_Interval, SMTT(30)
  <2>2. Len(s) - 1 + 1 = Len(s) /\ (1 > Len(s) => Len(s) = 0) BY <1>1
  <2> QED BY <2>1, <2>2
<1>3. f \in Injection(D, T) BY DEF Injection, IsInjective
<1>4. Cardinality(D) <= Cardinality(T) BY <1>3, FS_Injection
<1>5. Cardinality(T) \in Nat BY FS_CardinalityType
<1> QED BY <1>1, <1>2, <1>4, <1>5

\* The ids between two positions are finitely many.
LEMMA IdsBetween ==
    ASSUME NEW s, NEW a \in Int, NEW b \in Int, NEW T, \A t \in T : \E k \in a .. b : t = s[k]
    PROVE  IsFiniteSet(T)
<1> DEFINE S == a .. b
           U == {s[k] : k \in S}
           f == [k \in S |-> s[k]]
<1>1. IsFiniteSet(S) BY FS_Interval
<1>2. f \in Surjection(S, U) BY DEF Surjection
<1>3. IsFiniteSet(U) BY <1>1, <1>2, FS_Surjection
<1>4. T \subseteq U OBVIOUS
<1> QED BY <1>3, <1>4, FS_Subset

\* An id that is not among the seen ones is accepted: if it was accepted
\* before, the seen ones have all come since.
LEMMA AcceptedAgain ==
    ASSUME RepeatInv, NEW id \in MessageIds, \A i \in DOMAIN seen : seen[i] # id,
           accepted' = Append(accepted, id)
    PROVE  NoEarlyRepeat'
<1> DEFINE n == Len(accepted)
           k == Len(seen)
<1>0. n \in Nat /\ k \in Nat /\ RecentCap \in Nat /\ k <= n BY ChatAssumption DEF RepeatInv
<1>1. /\ Len(accepted') = n + 1 /\ DOMAIN accepted' = 1 .. n + 1 /\ accepted'[n + 1] = id
      /\ \A i \in 1 .. n : accepted'[i] = accepted[i] BY <1>0 DEF RepeatInv
<1>2. ASSUME NEW i \in DOMAIN accepted', NEW j \in DOMAIN accepted', i < j,
             accepted'[i] = accepted'[j]
      PROVE  Cardinality({accepted'[x] : x \in i + 1 .. j - 1}) >= RecentCap
  <2>1. i \in 1 .. n /\ j \in 1 .. n + 1 BY <1>0, <1>1, <1>2
  <2>2. CASE j <= n
    <3>1. {accepted'[x] : x \in i + 1 .. j - 1} = {accepted[x] : x \in i + 1 .. j - 1}
      <4>1. \A x \in i + 1 .. j - 1 : x \in 1 .. n BY <1>0, <2>1, <2>2
      <4> QED BY <1>1, <4>1
    <3>2. i \in DOMAIN accepted /\ j \in DOMAIN accepted /\ accepted[i] = accepted[j]
      BY <1>0, <1>1, <1>2, <2>1, <2>2 DEF RepeatInv
    <3>3. Cardinality({accepted[x] : x \in i + 1 .. j - 1}) >= RecentCap
      BY <1>2, <3>2 DEF RepeatInv, NoEarlyRepeat
    <3> QED BY <3>1, <3>3
  <2>3. CASE j = n + 1
    <3>1. accepted[i] = id BY <1>1, <1>2, <2>1, <2>3
    <3>2. i <= n - k
      <4> SUFFICES ASSUME ~ (i <= n - k) PROVE FALSE OBVIOUS
      <4>1. i - (n - k) \in 1 .. k BY <1>0, <2>1
      <4>2. seen[i - (n - k)] = accepted[n - k + (i - (n - k))] BY <4>1 DEF RepeatInv
      <4>3. n - k + (i - (n - k)) = i BY <1>0, <2>1
      <4>4. DOMAIN seen = 1 .. k BY DEF RepeatInv
      <4> QED BY <3>1, <4>1, <4>2, <4>3, <4>4
    <3>3. k = RecentCap BY <1>0, <2>1, <3>2 DEF RepeatInv
    <3> DEFINE T == {accepted'[x] : x \in i + 1 .. j - 1}
    <3>4. IsFiniteSet(T)
      <4>1. i + 1 \in Int /\ j - 1 \in Int BY <1>0, <2>1
      <4>2. \A t \in T : \E x \in i + 1 .. j - 1 : t = accepted'[x] OBVIOUS
      <4> HIDE DEF T
      <4> QED BY <4>1, <4>2, IdsBetween
    <3>5. \A x \in 1 .. k : seen[x] \in T
      <4> SUFFICES ASSUME NEW x \in 1 .. k PROVE seen[x] \in T OBVIOUS
      <4>1. seen[x] = accepted[n - k + x] BY DEF RepeatInv
      <4>2. n - k + x \in i + 1 .. j - 1 /\ n - k + x \in 1 .. n BY <1>0, <2>1, <2>3, <3>2
      <4> QED BY <1>1, <4>1, <4>2
    <3> HIDE DEF T
    <3>6. Cardinality(T) >= k BY <3>4, <3>5, DistinctValues DEF RepeatInv
    <3> QED BY <3>3, <3>6 DEF T
  <2>4. j <= n \/ j = n + 1 BY <1>0, <2>1
  <2> QED BY <2>2, <2>3, <2>4
<1> QED BY <1>2 DEF NoEarlyRepeat

\* What a step that leaves the ids alone keeps.
LEMMA SameIds ==
    ASSUME RepeatInv, UNCHANGED <<seen, accepted>>
    PROVE  RepeatInv'
<1>1. NoEarlyRepeat' BY DEF RepeatInv, NoEarlyRepeat
<1> QED BY <1>1 DEF RepeatInv

\* Every step keeps the relation between the ids seen and accepted.
LEMMA RepeatStep ==
    ASSUME RepeatInv, QueueInv, ChatNext
    PROVE  RepeatInv'
<1>1. CASE UNCHANGED <<seen, accepted>> BY <1>1, SameIds
<1>2. ASSUME NEW l \in Loops, MarkSeen(l), ~ UNCHANGED <<seen, accepted>> PROVE RepeatInv'
  <2> DEFINE id == hand[l].id
             n == Len(accepted)
             k == Len(seen)
  <2>1. /\ \A i \in DOMAIN seen : seen[i] # id
        /\ accepted' = Append(accepted, id) /\ seen' = Recent(Append(seen, id)) BY <1>2 DEF MarkSeen
  <2>2. id \in MessageIds BY DEF QueueInv, MessageIds
  <2>3. NoEarlyRepeat' BY <2>1, <2>2, AcceptedAgain
  <2>4. n \in Nat /\ k \in Nat /\ k <= n /\ k <= RecentCap /\ RecentCap \in Nat \ {0}
    BY ChatAssumption DEF RepeatInv
  <2>12. DOMAIN seen = 1 .. k BY DEF RepeatInv
  <2> HIDE DEF id
  <2>5. /\ accepted' \in Seq(MessageIds) /\ Len(accepted') = n + 1 /\ accepted'[n + 1] = id
        /\ \A i \in 1 .. n : accepted'[i] = accepted[i] BY <2>1, <2>2 DEF RepeatInv
  <2> DEFINE longer == Append(seen, id)
  <2>6. /\ longer \in Seq(MessageIds) /\ Len(longer) = k + 1 /\ longer[k + 1] = id
        /\ \A i \in 1 .. k : longer[i] = seen[i] BY <2>2 DEF RepeatInv
  <2>7. \A i \in 1 .. k + 1 : longer[i] = accepted'[n - k + i]
    <3> SUFFICES ASSUME NEW i \in 1 .. k + 1 PROVE longer[i] = accepted'[n - k + i] OBVIOUS
    <3>1. CASE i = k + 1 BY <2>4, <3>1, <2>5, <2>6
    <3>2. CASE i # k + 1
      <4>1. i \in 1 .. k /\ n - k + i \in 1 .. n BY <2>4, <3>2
      <4>2. seen[i] = accepted[n - k + i] BY <4>1 DEF RepeatInv
      <4> QED BY <2>5, <2>6, <4>1, <4>2
    <3> QED BY <3>1, <3>2
  <2>8. \A i, j \in 1 .. k + 1 : longer[i] = longer[j] => i = j
    <3> SUFFICES ASSUME NEW i \in 1 .. k + 1, NEW j \in 1 .. k + 1, longer[i] = longer[j]
                 PROVE  i = j OBVIOUS
    <3>1. i \in 1 .. k \/ i = k + 1 BY <2>4
    <3>2. j \in 1 .. k \/ j = k + 1 BY <2>4
    <3>3. \A x \in 1 .. k : longer[x] # id BY <2>1, <2>6, <2>12
    <3>4. \A x, y \in 1 .. k : longer[x] = longer[y] => x = y BY <2>6 DEF RepeatInv
    <3> HIDE DEF longer
    <3> QED BY <2>6, <3>1, <3>2, <3>3, <3>4
  <2> HIDE DEF longer
  <2>9. CASE k < RecentCap
    <3>1. seen' = longer BY <2>4, <2>6, <2>9, <2>1 DEF longer, Recent
    <3>2. n + 1 - (k + 1) = n - k /\ k + 1 <= n + 1 /\ k + 1 <= RecentCap BY <2>4, <2>9
    <3>3. k + 1 = n + 1 BY <2>4, <2>9 DEF RepeatInv
    <3>4. Len(seen') = k + 1 /\ Len(accepted') - Len(seen') = n - k BY <2>4, <2>5, <2>6, <3>1
    <3>5. \A i \in 1 .. Len(seen') : seen'[i] = accepted'[Len(accepted') - Len(seen') + i] BY <2>7, <3>1, <3>4
    <3>6. \A i, j \in 1 .. Len(seen') : seen'[i] = seen'[j] => i = j BY <2>8, <3>1, <3>4
    <3>7. Len(seen') <= Len(accepted') /\ Len(seen') <= RecentCap /\ Len(seen') = Len(accepted')
      BY <2>5, <3>2, <3>3, <3>4
    <3> QED BY <2>3, <2>5, <2>6, <3>1, <3>5, <3>6, <3>7 DEF RepeatInv
  <2>10. CASE k = RecentCap
    <3>1. seen' = Tail(longer) BY <2>1, <2>4, <2>6, <2>10 DEF Recent, longer
    <3>2. /\ seen' \in Seq(MessageIds) /\ Len(seen') = k
          /\ \A i \in 1 .. k : seen'[i] = longer[i + 1] BY <2>4, <2>6, <3>1
    <3>3. \A i \in 1 .. k : seen'[i] = accepted'[Len(accepted') - Len(seen') + i]
      <4> SUFFICES ASSUME NEW i \in 1 .. k
                   PROVE  seen'[i] = accepted'[Len(accepted') - Len(seen') + i] OBVIOUS
      <4>1. i + 1 \in 1 .. k + 1 /\ n - k + (i + 1) = Len(accepted') - Len(seen') + i BY <2>4, <2>5, <3>2
      <4> QED BY <2>7, <3>2, <4>1
    <3>4. \A i, j \in 1 .. k : seen'[i] = seen'[j] => i = j
      <4> SUFFICES ASSUME NEW i \in 1 .. k, NEW j \in 1 .. k, seen'[i] = seen'[j] PROVE i = j OBVIOUS
      <4>1. i + 1 \in 1 .. k + 1 /\ j + 1 \in 1 .. k + 1 BY <2>4
      <4>2. i + 1 = j + 1 BY <2>8, <3>2, <4>1
      <4> QED BY <2>4, <4>2
    <3>5. Len(seen') <= Len(accepted') /\ Len(seen') <= RecentCap /\ Len(seen') = RecentCap
      BY <2>4, <2>5, <2>10, <3>2
    <3> QED BY <2>3, <2>5, <3>2, <3>3, <3>4, <3>5 DEF RepeatInv
  <2>11. k < RecentCap \/ k = RecentCap BY <2>4
  <2> QED BY <2>9, <2>10, <2>11
<1> QED BY <1>1, <1>2, SeenMoves

-----------------------------------------------------------------------------
(* Cards *)

\* Every step keeps the cards.
LEMMA CardStep ==
    ASSUME CardInv, ChatNext
    PROVE  CardInv'
<1> USE DEF NoCard
<1>0. Len(cards) \in Nat /\ DOMAIN cards = 1 .. Len(cards) BY DEF CardInv
<1>1. CASE UNCHANGED cardVars BY <1>1 DEF CardInv, CardsKept, cardVars
<1>2. ASSUME NEW c \in Chats, Reply(c) PROVE CardInv' BY <1>2, <1>0 DEF Reply, CardInv, CardsKept
<1>3. CASE UpdateCard
  <2>1. replier # 0 /\ replier' = 0 /\ UNCHANGED pendingCards BY <1>3 DEF UpdateCard
  <2>2. cards' = cards \/ cards' = [cards EXCEPT ![replier] = @ + 1] BY <1>3 DEF UpdateCard
  <2>3. CASE cards' = cards BY <1>0, <2>1, <2>3 DEF CardInv, CardsKept
  <2>4. CASE cards' = [cards EXCEPT ![replier] = @ + 1]
    <3>1. replier \in 1 .. Len(cards) /\ cards[replier] = 0 BY <1>0, <2>1 DEF CardInv
    <3>2. /\ cards' \in Seq(Nat) /\ Len(cards') = Len(cards) /\ cards'[replier] = 1
          /\ \A i \in 1 .. Len(cards) : i # replier => cards'[i] = cards[i] BY <1>0, <2>4, <3>1 DEF CardInv
    <3>3. \A i \in DOMAIN cards' : cards'[i] <= 1
      <4> SUFFICES ASSUME NEW i \in DOMAIN cards' PROVE cards'[i] <= 1 OBVIOUS
      <4>1. i \in DOMAIN cards /\ i \in 1 .. Len(cards) BY <1>0, <3>2
      <4>2. CASE i = replier BY <3>2, <4>2
      <4>3. CASE i # replier BY <3>2, <4>1, <4>3 DEF CardInv, CardsKept
      <4> QED BY <4>2, <4>3
    <3>4. ASSUME NEW c \in Chats, pendingCards[c] # 0
          PROVE  cards'[pendingCards[c]] = 0 BY <1>0, <3>4, <3>2 DEF CardInv, CardsKept
    <3> QED BY <2>1, <3>2, <3>3, <3>4 DEF CardInv, CardsKept
  <2> QED BY <2>2, <2>3, <2>4
<1>4. CASE PollWork
  <2>1. UNCHANGED replier BY <1>4 DEF PollWork
  <2>2. CASE UNCHANGED <<pendingCards, cards>> BY <2>1, <2>2 DEF CardInv, CardsKept
  <2>3. CASE ~ UNCHANGED <<pendingCards, cards>>
    <3> DEFINE n == Len(cards) + 1
    <3>1. PICK chat : cards' = Append(cards, 0)
                      /\ pendingCards' = [pendingCards EXCEPT ![chat] = Len(cards')]
      BY <1>4, <2>3 DEF PollWork
    <3>2. /\ cards' \in Seq(Nat) /\ Len(cards') = n /\ cards'[n] = 0
          /\ DOMAIN cards' = 1 .. n /\ \A i \in 1 .. Len(cards) : cards'[i] = cards[i]
      BY <1>0, <3>1 DEF CardInv
    <3>3. \A c \in Chats : pendingCards'[c] = (IF c = chat THEN n ELSE pendingCards[c])
      BY <3>1, <3>2 DEF CardInv
    <3>4. pendingCards' \in [Chats -> 0 .. n] /\ replier' \in 0 .. n
      <4>1. /\ pendingCards \in [Chats -> 0 .. Len(cards)] /\ replier \in 0 .. Len(cards)
            /\ 0 .. Len(cards) \subseteq 0 .. n /\ n \in 0 .. n BY <1>0 DEF CardInv
      <4>2. pendingCards' = [pendingCards EXCEPT ![chat] = n] BY <3>1, <3>2
      <4> HIDE DEF n
      <4> QED BY <2>1, <4>1, <4>2
    <3>5. \A c \in Chats : pendingCards[c] \in 0 .. Len(cards) /\ pendingCards[c] # n BY <1>0 DEF CardInv
    <3>6. replier # n /\ replier \in 0 .. Len(cards) BY <1>0 DEF CardInv
    <3>7. \A i \in DOMAIN cards' : cards'[i] <= 1
      <4> SUFFICES ASSUME NEW i \in DOMAIN cards' PROVE cards'[i] <= 1 OBVIOUS
      <4>1. CASE i = n BY <3>2, <4>1
      <4>2. CASE i # n
        <5>1. i \in 1 .. Len(cards) BY <1>0, <3>2, <4>2
        <5> QED BY <1>0, <3>2, <5>1 DEF CardInv, CardsKept
      <4> QED BY <4>1, <4>2
    <3>8. replier # 0 => cards'[replier] = 0 BY <1>0, <3>6, <3>2 DEF CardInv
    <3>9. ASSUME NEW c \in Chats, pendingCards'[c] # 0
          PROVE  cards'[pendingCards'[c]] = 0 /\ pendingCards'[c] # replier'
      <4>1. CASE c = chat BY <2>1, <3>2, <3>3, <3>6, <4>1
      <4>2. CASE c # chat BY <3>3, <3>9, <4>2, <1>0, <3>5, <2>1, <3>2 DEF CardInv, CardsKept
      <4> QED BY <4>1, <4>2
    <3>10. \A c, d \in Chats :
              pendingCards'[c] = pendingCards'[d] /\ pendingCards'[c] # 0 => c = d BY <3>3, <3>5 DEF CardInv
    <3> QED BY <2>1, <3>2, <3>4, <3>7, <3>8, <3>9, <3>10 DEF CardInv, CardsKept
  <2> QED BY <2>2, <2>3
<1> QED BY <1>1, <1>2, <1>3, <1>4, CardMoves

-----------------------------------------------------------------------------
(* The poller *)

\* Every step keeps the flags.
LEMMA PollerStep ==
    ASSUME PollerInv, ChatNext
    PROVE  PollerInv'
<1>1. CASE UNCHANGED flagVars BY <1>1 DEF PollerInv, flagVars
<1>2. CASE Stop BY <1>2 DEF Stop, PollerInv, pollVars
<1>3. ASSUME NEW way \in {"ws", "webhook"}, StartServe(way) PROVE PollerInv'
  <2>1. UNCHANGED <<everStopped, batch>> BY <1>3 DEF StartServe
  <2>2. CASE UNCHANGED <<running, shutdown, polling, poller>> BY <2>1, <2>2 DEF PollerInv
  <2>3. CASE /\ shutdown' = FALSE /\ running' = TRUE /\ polling' = TRUE
             /\ poller' = IF polling THEN poller ELSE "top" BY <2>1, <2>3 DEF PollerInv
  <2> QED BY <1>3, <2>2, <2>3 DEF StartServe
<1>4. CASE PollTop BY <1>4 DEF PollTop, PollerInv, loopVars
<1>5. CASE PollWork BY <1>5 DEF PollWork, PollerInv, loopVars
<1> QED BY <1>1, <1>2, <1>3, <1>4, <1>5, FlagMoves DEF Poller

-----------------------------------------------------------------------------
(* Approvals *)

\* configure leaves the list of users alone.
ListKept == \A u \in Updates : "allow" \notin DOMAIN u

\* A configuration that has a list of users, and lets the users S in.
LetsIn(c, S) == "allow" \in DOMAIN c /\ S \subseteq c.allow

\* The users whose approval the call r has seen or is about to record.
Approving(r) == approved \cup ({r.whom} \ {NoUser})

\* A call of feishu_entry.
CallInForm(r) ==
    \/ r = NoEntryCall
    \/ /\ r.at \in {"open", "write", "apply"}
       /\ DOMAIN r = {"at", "new", "whom"}

\* Where a call that is alone has got to: what it is about to write lets in
\* everybody who was approved, the file is empty only while it writes it, and
\* what it has written is in the file.
Alone ==
    /\ \A a, b \in Callers : admin[a] # NoEntryCall /\ admin[b] # NoEntryCall => a = b
    /\ LetsIn(settings, approved)
    /\ config # Torn => LetsIn(config, approved)
    /\ config = Torn => \E a \in Callers : admin[a].at = "write"
    /\ \A a \in Callers : admin[a] # NoEntryCall => LetsIn(admin[a].new, Approving(admin[a]))
    /\ \A a \in Callers : admin[a].at = "apply" => config = admin[a].new

ApprovalInv ==
    /\ raced \in BOOLEAN
    /\ DOMAIN admin = Callers /\ \A a \in Callers : CallInForm(admin[a])
    /\ ~ raced => Alone

entryVars == <<config, settings, admin, approved, raced>>

\* A step reads the file again, or leaves the configuration to feishu_entry.
LEMMA EntryMoves ==
    ASSUME ChatNext
    PROVE  \/ UNCHANGED entryVars
           \/ UNCHANGED <<config, admin, approved, raced>> /\ settings' = Hydrated
           \/ \E a \in Callers :
                ConfigureLoad(a) \/ Entry(a) \/ \E code \in Codes : ApproveLoad(a, code)
BY SMTT(60) DEF ChatNext, Stop, StartServe, Poller, PollTop, PollWork, UpdateCard, LoopStops, Reply,
       AwaitCredentials, Dial, ConnectionLost, MarkSeen, PushQueue, Post, Frame, Process,
       LoopUnchanged, adminVars, entryVars

\* A file that was opened has no list, and is no configuration.
LEMMA TornHasNone ==
    ASSUME NEW c, NEW S, LetsIn(c, S)
    PROVE  c # Torn
BY DEF LetsIn, Torn

\* A call that nobody overlaps, and begins, reads the file.
LEMMA BeginsAlone ==
    ASSUME ApprovalInv, NEW a \in Callers, admin[a] = NoEntryCall, ~ raced, ~ Overlaps(a)
    PROVE  config # Torn /\ Loaded = config /\ LetsIn(config, approved) /\ Alone
           /\ \A b \in Callers : admin[b] = NoEntryCall
<1>1. \A b \in Callers : admin[b] = NoEntryCall BY DEF Overlaps
<1>2. \A b \in Callers : admin[b].at # "write" BY <1>1 DEF NoEntryCall
<1>3. Alone /\ config # Torn BY <1>2 DEF ApprovalInv, Alone
<1> QED BY <1>1, <1>3 DEF Alone, Loaded

\* A call begins with a record that lets in whom it should.
LEMMA EntryBegins ==
    ASSUME ApprovalInv, NEW a \in Callers, admin[a] = NoEntryCall, NEW new, NEW whom,
           admin' = [admin EXCEPT ![a] = [at |-> "open", new |-> new, whom |-> whom]],
           raced' = (raced \/ Overlaps(a)), UNCHANGED <<config, settings, approved>>,
           LetsIn(config, approved) /\ Loaded = config => LetsIn(new, approved \cup ({whom} \ {NoUser}))
    PROVE  ApprovalInv'
<1> DEFINE r == [at |-> "open", new |-> new, whom |-> whom]
<1>1. r.at = "open" /\ r.new = new /\ r.whom = whom /\ DOMAIN r = {"at", "new", "whom"} OBVIOUS
<1> HIDE DEF r
<1>2. /\ DOMAIN admin' = Callers /\ admin'[a] = r
      /\ \A b \in Callers : b # a => admin'[b] = admin[b] BY DEF ApprovalInv, r
<1>3. \A b \in Callers : CallInForm(admin'[b]) BY <1>1, <1>2 DEF ApprovalInv, CallInForm
<1>4. raced' \in BOOLEAN BY DEF ApprovalInv
<1>5. ASSUME ~ raced' PROVE Alone'
  <2>1. ~ raced /\ ~ Overlaps(a) BY <1>5
  <2>2. /\ config # Torn /\ Loaded = config /\ LetsIn(config, approved) /\ Alone
        /\ \A b \in Callers : admin[b] = NoEntryCall BY <2>1, BeginsAlone
  <2>3. \A b \in Callers : admin'[b] # NoEntryCall => b = a BY <1>2, <2>2
  <2>4. LetsIn(r.new, approved \cup ({r.whom} \ {NoUser})) BY <1>1, <2>2
  <2>5. \A b \in Callers : admin'[b].at # "apply" BY <1>1, <1>2, <2>2 DEF NoEntryCall
  <2>6. LetsIn(settings, approved) BY <2>2 DEF Alone
  <2> QED BY <1>2, <2>2, <2>3, <2>4, <2>5, <2>6 DEF Alone, Approving
<1> QED BY <1>2, <1>3, <1>4, <1>5 DEF ApprovalInv

\* A call that gives up counts as raced.
LEMMA GivesUp ==
    ASSUME ApprovalInv, NEW a \in Callers, admin' = [admin EXCEPT ![a] = NoEntryCall], raced' = TRUE
    PROVE  ApprovalInv'
BY DEF ApprovalInv, CallInForm

\* Every step keeps the approvals.
LEMMA ApprovalStep ==
    ASSUME ListKept, ApprovalInv, ChatNext
    PROVE  ApprovalInv'
<1>1. CASE UNCHANGED entryVars BY <1>1 DEF ApprovalInv, Alone, Approving, entryVars
<1>2. CASE UNCHANGED <<config, admin, approved, raced>> /\ settings' = Hydrated
  BY <1>2 DEF Alone, Hydrated, ApprovalInv, Approving
<1>3. ASSUME NEW a \in Callers, ConfigureLoad(a) PROVE ApprovalInv'
  <2>1. PICK u \in Updates :
           admin' = [admin EXCEPT ![a] = [at |-> "open", new |-> Merge(Loaded, u), whom |-> NoUser]]
    BY <1>3 DEF ConfigureLoad
  <2>2. /\ admin[a] = NoEntryCall /\ raced' = (raced \/ Overlaps(a))
        /\ UNCHANGED <<config, settings, approved>> BY <1>3 DEF ConfigureLoad
  <2>3. LetsIn(config, approved) /\ Loaded = config
            => LetsIn(Merge(Loaded, u), approved \cup ({NoUser} \ {NoUser})) BY DEF LetsIn, Merge, ListKept
  <2> QED BY <2>1, <2>2, <2>3, EntryBegins
<1>4. ASSUME NEW a \in Callers, NEW code \in Codes, ApproveLoad(a, code) PROVE ApprovalInv'
  <2> DEFINE user == pairings[code]
             new == [Loaded EXCEPT !.allow = @ \cup {user}]
  <2>1. /\ admin' = [admin EXCEPT ![a] = [at |-> "open", new |-> new, whom |-> user]]
        /\ admin[a] = NoEntryCall /\ raced' = (raced \/ Overlaps(a))
        /\ UNCHANGED <<config, settings, approved>> BY <1>4 DEF ApproveLoad
  <2>2. LetsIn(config, approved) /\ Loaded = config
            => LetsIn(new, approved \cup ({user} \ {NoUser})) BY DEF LetsIn
  <2> HIDE DEF new, user
  <2> QED BY <2>1, <2>2, EntryBegins
<1>5. ASSUME NEW a \in Callers, EntryOpen(a) PROVE ApprovalInv'
  <2>1. admin[a].at = "open" /\ UNCHANGED <<settings, approved>> BY <1>5 DEF EntryOpen
  <2>2. CASE config' = Torn /\ admin' = [admin EXCEPT ![a].at = "write"] /\ UNCHANGED raced
    <3>1. CallInForm(admin[a]) /\ admin[a] # NoEntryCall BY <2>1 DEF ApprovalInv, NoEntryCall
    <3>2. /\ DOMAIN admin' = Callers /\ admin'[a] = [admin[a] EXCEPT !.at = "write"]
          /\ \A b \in Callers : b # a => admin'[b] = admin[b] BY <2>2 DEF ApprovalInv
    <3>3. /\ DOMAIN admin'[a] = {"at", "new", "whom"} /\ admin'[a].at = "write"
          /\ admin'[a].new = admin[a].new /\ admin'[a].whom = admin[a].whom BY <3>1, <3>2 DEF CallInForm
    <3>4. \A b \in Callers : CallInForm(admin'[b]) BY <3>2, <3>3 DEF ApprovalInv, CallInForm
    <3>5. ASSUME ~ raced PROVE Alone'
      <4>1. Alone /\ \A b \in Callers : b # a => admin[b] = NoEntryCall BY <3>1, <3>5 DEF ApprovalInv, Alone
      <4>2. \A b \in Callers : b # a => admin'[b] = NoEntryCall /\ admin'[b].at # "apply"
        BY <3>2, <4>1 DEF NoEntryCall
      <4>3. LetsIn(admin'[a].new, Approving(admin[a])') BY <2>1, <3>1, <3>3, <4>1 DEF Alone, Approving
      <4>4. LetsIn(settings', approved') /\ config' = Torn BY <2>1, <2>2, <4>1 DEF Alone
      <4> QED BY <3>3, <4>2, <4>3, <4>4 DEF Alone
    <3> QED BY <2>2, <3>2, <3>4, <3>5 DEF ApprovalInv
  <2> QED BY <1>5, <2>2, GivesUp DEF EntryOpen
<1>6. ASSUME NEW a \in Callers, EntryWrite(a) PROVE ApprovalInv'
  <2>1. admin[a].at = "write" /\ UNCHANGED <<settings, approved>> BY <1>6 DEF EntryWrite
  <2>2. CASE config' = admin[a].new /\ admin' = [admin EXCEPT ![a].at = "apply"] /\ UNCHANGED raced
    <3>1. CallInForm(admin[a]) /\ admin[a] # NoEntryCall BY <2>1 DEF ApprovalInv, NoEntryCall
    <3>2. /\ DOMAIN admin' = Callers /\ admin'[a] = [admin[a] EXCEPT !.at = "apply"]
          /\ \A b \in Callers : b # a => admin'[b] = admin[b] BY <2>2 DEF ApprovalInv
    <3>3. /\ DOMAIN admin'[a] = {"at", "new", "whom"} /\ admin'[a].at = "apply"
          /\ admin'[a].new = admin[a].new /\ admin'[a].whom = admin[a].whom BY <3>1, <3>2 DEF CallInForm
    <3>4. \A b \in Callers : CallInForm(admin'[b]) BY <3>2, <3>3 DEF ApprovalInv, CallInForm
    <3>5. ASSUME ~ raced PROVE Alone'
      <4>1. Alone /\ \A b \in Callers : b # a => admin[b] = NoEntryCall BY <3>1, <3>5 DEF ApprovalInv, Alone
      <4>2. \A b \in Callers : b # a => admin'[b] = NoEntryCall /\ admin'[b].at # "apply"
        BY <3>2, <4>1 DEF NoEntryCall
      <4>3. LetsIn(admin'[a].new, Approving(admin[a])') BY <2>1, <3>1, <3>3, <4>1 DEF Alone, Approving
      <4>4. LetsIn(settings', approved') BY <2>1, <4>1 DEF Alone
      <4>5. config' = admin'[a].new BY <2>2, <3>3
      <4>6. LetsIn(config', approved') /\ config' # Torn BY <4>3, <4>5, TornHasNone DEF LetsIn, Approving
      <4> QED BY <3>3, <4>2, <4>3, <4>4, <4>5, <4>6 DEF Alone
    <3> QED BY <2>2, <3>2, <3>4, <3>5 DEF ApprovalInv
  <2> QED BY <1>6, <2>2, GivesUp DEF EntryWrite
<1>7. ASSUME NEW a \in Callers, EntryApply(a) PROVE ApprovalInv'
  <2>1. /\ admin[a].at = "apply" /\ settings' = admin[a].new /\ UNCHANGED <<config, raced>>
        /\ admin' = [admin EXCEPT ![a] = NoEntryCall] /\ approved' = Approving(admin[a])
    BY <1>7 DEF EntryApply, Approving
  <2>2. admin[a] # NoEntryCall BY <2>1 DEF NoEntryCall
  <2>3. /\ DOMAIN admin' = Callers /\ admin'[a] = NoEntryCall
        /\ \A b \in Callers : b # a => admin'[b] = admin[b] BY <2>1 DEF ApprovalInv
  <2>4. \A b \in Callers : CallInForm(admin'[b]) BY <2>3 DEF ApprovalInv, CallInForm
  <2>5. ASSUME ~ raced PROVE Alone' BY <2>2, <2>5, <2>3, <2>1, TornHasNone DEF ApprovalInv, Alone, NoEntryCall
  <2> QED BY <2>1, <2>3, <2>4, <2>5 DEF ApprovalInv
<1> QED BY <1>1, <1>2, <1>3, <1>4, <1>5, <1>6, <1>7, EntryMoves DEF Entry

-----------------------------------------------------------------------------
(* The theorems *)

ChatInv == QueueInv /\ RepeatInv /\ CardInv /\ PollerInv /\ unparsed = {}

\* The library as it is loaded.
LEMMA ChatInitInv == ChatInit => ChatInv /\ ApprovalInv
<1> SUFFICES ASSUME ChatInit PROVE ChatInv /\ ApprovalInv OBVIOUS
<1>1. Pushing = {} /\ Cardinality(Pushing) = 0 BY FS_EmptySet DEF ChatInit, ChatBegins, Pushing
<1>2. QueueInv BY <1>1, ChatAssumption DEF ChatInit, ChatBegins, Accounted, Pushing, QueueInv, LoopAt, Carried
<1>3. RepeatInv BY ChatAssumption DEF ChatInit, ChatBegins, RepeatInv, NoEarlyRepeat
<1>4. CardInv BY DEF ChatInit, ChatBegins, CardInv, CardsKept, NoCard
<1>5. PollerInv /\ unparsed = {} BY DEF ChatInit, ChatBegins, PollerInv
<1>6. ApprovalInv
  BY TornHasNone DEF LetsIn, Defaults, ChatInit, ChatBegins, NoEntryCall, ApprovalInv, Alone, CallInForm
<1> QED BY <1>2, <1>3, <1>4, <1>5, <1>6 DEF ChatInv

\* Every step keeps the invariant.
LEMMA ChatInvStep == ChatInv /\ [ChatNext]_chatVars => ChatInv'
<1>1. ASSUME ChatInv, ChatNext PROVE ChatInv'
  BY <1>1, QueueStep, RepeatStep, CardStep, PollerStep, AckMoves DEF ChatInv
<1>2. ASSUME ChatInv, UNCHANGED chatVars PROVE ChatInv'
  <2>1. QueueInv' BY <1>2, SameAccount DEF accountVars, chatVars, ChatInv, QueueInv, Pushing
  <2>2. RepeatInv' BY <1>2, SameIds DEF chatVars, ChatInv
  <2>3. CardInv' BY <1>2 DEF cardVars, chatVars, ChatInv, CardInv, CardsKept
  <2>4. PollerInv' /\ unparsed' = {} BY <1>2 DEF ChatInv, PollerInv, chatVars
  <2> QED BY <2>1, <2>2, <2>3, <2>4 DEF ChatInv
<1> QED BY <1>1, <1>2

\* Every step keeps the approvals, when configure leaves them alone.
LEMMA ApprovalInvStep ==
    ASSUME ListKept
    PROVE  ApprovalInv /\ [ChatNext]_chatVars => ApprovalInv'
<1>1. ASSUME ApprovalInv, UNCHANGED chatVars PROVE ApprovalInv'
  BY <1>1 DEF ApprovalInv, Alone, Approving, chatVars
<1> QED BY <1>1, ApprovalStep

\* What the adapter promises of its messages, cards and poller.
ChatKept == ChatTypeOK /\ NoEarlyRepeat /\ Accounted /\ AckedIsHandled /\ CardsKept /\ PollerRuns

\* The invariant gives it.
LEMMA ChatAnswers == ChatInv => ChatKept
<1> SUFFICES ASSUME ChatInv PROVE ChatKept OBVIOUS
<1>1. NoEarlyRepeat /\ Accounted /\ AckedIsHandled /\ CardsKept
  BY DEF ChatInv, QueueInv, RepeatInv, CardInv, AckedIsHandled
<1>2. PollerRuns BY DEF ChatInv, PollerInv, PollerRuns
<1>3. ChatTypeOK BY DEF ChatInv, QueueInv, RepeatInv, PollerInv, ChatTypeOK, LoopAt
<1> QED BY <1>1, <1>2, <1>3 DEF ChatKept

\* For any number of loops, messages, fragments and replies, however starts and
\* stops race with the loops and the poller: a repeated message is taken again
\* only after RECENT_IDS_CAP others, every accepted one is accounted for,
\* nothing that was acknowledged was left unparsed, no answered card is written
\* again, and the poller runs until the first stop.
THEOREM ChatKeepsMessages == ChatSpec => []ChatKept
<1>1. ChatInit => ChatInv BY ChatInitInv
<1> QED BY <1>1, ChatInvStep, ChatAnswers, PTL DEF ChatSpec

\* When configure leaves the list of users alone, calls of feishu_entry that do
\* not overlap and can write their file lose no approval, neither in memory nor
\* in the file; with the above, the adapter is sound.
THEOREM ChatIsSound == ListKept /\ ChatSpec => []ChatSound
<1> SUFFICES ASSUME ListKept PROVE ChatSpec => []ChatSound OBVIOUS
<1>1. ChatInit => ChatInv /\ ApprovalInv BY ChatInitInv
<1>2. ApprovalInv => ApprovalKept
  <2> SUFFICES ASSUME ApprovalInv, ~ raced, admin = [a \in Callers |-> NoEntryCall]
               PROVE  approved \subseteq config.allow \cap settings.allow BY DEF ApprovalKept
  <2>1. \A a \in Callers : admin[a].at # "write" BY DEF NoEntryCall
  <2> QED BY <2>1 DEF ApprovalInv, Alone, LetsIn
<1>3. ChatInv /\ ApprovalInv => ChatSound BY <1>2, ChatAnswers DEF ChatKept, ChatSound
<1>4. ApprovalInv /\ [ChatNext]_chatVars => ApprovalInv' BY ApprovalInvStep
<1> QED BY <1>1, <1>3, <1>4, ChatInvStep, PTL DEF ChatSpec

-----------------------------------------------------------------------------
(* Sequences: induction over a set of numbers, and what the folds keep *)

\* A set of numbers has a least one.
LEMMA LeastNumber ==
    ASSUME NEW T, T \subseteq Nat, T # {}
    PROVE  \E n \in T : \A m \in T : n <= m
<1>1. PICK n \in T : \A m \in T : <<m, n>> \notin OpToRel(<, Nat) BY NatLessThanWellFounded, WFMin
<1>2. \A m \in T : ~ (m < n) BY <1>1 DEF OpToRel
<1>3. n \in Nat /\ \A m \in T : m \in Nat OBVIOUS
<1>4. \A m \in T : n <= m BY <1>2, <1>3
<1> QED BY <1>4

\* Induction, for a set of numbers.
LEMMA SetInduction ==
    ASSUME NEW P, 0 \in P, \A n \in Nat : n \in P => n + 1 \in P
    PROVE  Nat \subseteq P
<1> DEFINE T == Nat \ P
<1> SUFFICES ASSUME T # {} PROVE FALSE OBVIOUS
<1>1. T \subseteq Nat OBVIOUS
<1> HIDE DEF T
<1>2. PICK n \in T : \A m \in T : n <= m BY <1>1, LeastNumber
<1> USE DEF T
<1>3. n \in Nat \ {0} BY <1>2
<1>4. n - 1 \in Nat /\ n - 1 \in P BY <1>2, <1>3
<1> QED BY <1>2, <1>3, <1>4

\* The table of FlattenSeq, up to its k-th entry.
Flattens(s, k, g) == g = [i \in 1..k |-> IF i = 1 THEN s[i] ELSE g[i - 1] \o s[i]]

\* There is such a table.
LEMMA FlattenTable ==
    ASSUME NEW s, NEW n \in Nat
    PROVE  \E g : Flattens(s, n, g)
<1> DEFINE P == {k \in Nat : \E g : Flattens(s, k, g)}
<1>1. 0 \in P
  <2>1. Flattens(s, 0, [i \in 1..0 |-> <<>>]) BY DEF Flattens
  <2> QED BY <2>1
<1>2. ASSUME NEW k \in Nat, k \in P PROVE k + 1 \in P
  <2>1. PICK g : Flattens(s, k, g) BY <1>2
  <2>2. /\ DOMAIN g = 1..k
        /\ \A i \in 1..k : g[i] = IF i = 1 THEN s[i] ELSE g[i - 1] \o s[i] BY <2>1 DEF Flattens
  <2> DEFINE whole == IF k = 0 THEN s[k + 1] ELSE g[k] \o s[k + 1]
             h == [i \in 1..k + 1 |-> IF i = k + 1 THEN whole ELSE g[i]]
  <2>3. \A i \in 1..k + 1 : h[i] = IF i = 1 THEN s[i] ELSE h[i - 1] \o s[i]
    <3> SUFFICES ASSUME NEW i \in 1..k + 1
                 PROVE  h[i] = IF i = 1 THEN s[i] ELSE h[i - 1] \o s[i] OBVIOUS
    <3>1. CASE i = k + 1
      <4>1. CASE k = 0 BY <3>1, <4>1
      <4>2. CASE k # 0
        <5>1. i # 1 /\ i - 1 = k /\ k \in 1..k + 1 /\ k # k + 1 BY <3>1, <4>2
        <5>2. h[k] = g[k] BY <5>1
        <5> QED BY <3>1, <4>2, <5>1, <5>2
      <4> QED BY <4>1, <4>2
    <3>2. CASE i # k + 1
      <4>1. i \in 1..k /\ h[i] = g[i] BY <3>2
      <4>2. i # 1 => i - 1 \in 1..k + 1 /\ i - 1 # k + 1 BY <4>1
      <4>3. i # 1 => h[i - 1] = g[i - 1] BY <4>2
      <4> QED BY <2>2, <4>1, <4>3
    <3> QED BY <3>1, <3>2
  <2>4. Flattens(s, k + 1, h)
    <3>1. DOMAIN h = 1..k + 1 /\ h = [i \in 1..k + 1 |-> h[i]] OBVIOUS
    <3> HIDE DEF h
    <3> QED BY <2>3, <3>1, Zenon DEF Flattens
  <2> QED BY <2>4
<1> HIDE DEF P
<1>3. Nat \subseteq P BY <1>1, <1>2, SetInduction
<1> QED BY <1>3 DEF P

\* What FlattenSeq is: the last entry of the table.
LEMMA FlattenFromTable ==
    ASSUME NEW s, Len(s) \in Nat \ {0}
    PROVE  \E g : Flattens(s, Len(s), g) /\ FlattenSeq(s) = g[Len(s)]
<1>0. Len(s) \in Nat /\ Len(s) # 0 OBVIOUS
<1>1. PICK g : Flattens(s, Len(s), g) BY <1>0, FlattenTable
<1>2. g = [i \in 1..Len(s) |-> IF i = 1 THEN s[i] ELSE g[i - 1] \o s[i]] BY <1>1 DEF Flattens
<1> QED BY <1>0, <1>2, Zenon DEF FlattenSeq, Flattens

LEMMA FlattenEmpty == FlattenSeq(<<>>) = <<>>
BY DEF FlattenSeq

\* Two tables agree where both have entries.
LEMMA TablesAgree ==
    \A s, t, g, h : \A m \in Nat :
      Flattens(s, m, g) /\ Flattens(t, m + 1, h) /\ (\A i \in 1..m : s[i] = t[i])
        => \A i \in 1..m : g[i] = h[i]
<1> SUFFICES ASSUME NEW s, NEW t, NEW g, NEW h, NEW m \in Nat, Flattens(s, m, g),
                    Flattens(t, m + 1, h), \A i \in 1..m : s[i] = t[i]
             PROVE  \A i \in 1..m : g[i] = h[i] OBVIOUS
<1> DEFINE P == {k \in Nat : k \in 1..m => g[k] = h[k]}
<1>0. /\ \A i \in 1..m : g[i] = IF i = 1 THEN s[i] ELSE g[i - 1] \o s[i]
      /\ \A i \in 1..m + 1 : h[i] = IF i = 1 THEN t[i] ELSE h[i - 1] \o t[i] BY DEF Flattens
<1>1. 0 \in P OBVIOUS
<1>2. ASSUME NEW k \in Nat, k \in P PROVE k + 1 \in P
  <2> SUFFICES ASSUME k + 1 \in 1..m PROVE g[k + 1] = h[k + 1] OBVIOUS
  <2>1. k + 1 \in 1..m + 1 /\ s[k + 1] = t[k + 1] /\ (k + 1) - 1 = k OBVIOUS
  <2>2. CASE k = 0 BY <1>0, <2>1, <2>2
  <2>3. CASE k # 0 BY <2>3, <1>2, <1>0, <2>1
  <2> QED BY <2>2, <2>3
<1> HIDE DEF P
<1>3. Nat \subseteq P BY <1>1, <1>2, SetInduction
<1> QED BY <1>3 DEF P

\* One more sequence comes last.
LEMMA FlattenAppend ==
    ASSUME NEW S, NEW s \in Seq(Seq(S)), NEW x \in Seq(S)
    PROVE  FlattenSeq(Append(s, x)) = FlattenSeq(s) \o x
<1> DEFINE t == Append(s, x)
           n == Len(s)
<1>1. /\ t \in Seq(Seq(S)) /\ Len(t) = n + 1 /\ n \in Nat
      /\ (\A i \in 1..n : t[i] = s[i]) /\ t[n + 1] = x BY AppendProperties
<1> HIDE DEF t
<1>2. PICK h : Flattens(t, n + 1, h) /\ FlattenSeq(t) = h[n + 1] BY <1>1, FlattenFromTable, SMTT(30)
<1>3. \A i \in 1..n + 1 : h[i] = IF i = 1 THEN t[i] ELSE h[i - 1] \o t[i] BY <1>2 DEF Flattens
<1>4. CASE n = 0
  <2>1. s = <<>> BY <1>4
  <2>2. h[1] = x /\ 1 = n + 1 BY <1>1, <1>3, <1>4
  <2>3. <<>> \o x = x BY ConcatEmptySeq
  <2> QED BY <1>2, <2>1, <2>2, <2>3, FlattenEmpty DEF t
<1>5. CASE n # 0
  <2>1. PICK g : Flattens(s, n, g) /\ FlattenSeq(s) = g[n] BY <1>1, <1>5, FlattenFromTable
  <2>2. n \in 1..n /\ n + 1 \in 1..n + 1 /\ n + 1 # 1 /\ (n + 1) - 1 = n BY <1>1, <1>5
  <2>3. g[n] = h[n]
    <3>1. \A i \in 1..n : s[i] = t[i] BY <1>1
    <3>2. \A i \in 1..n : g[i] = h[i]
      <4>1. n \in Nat /\ Flattens(s, n, g) /\ Flattens(t, n + 1, h) BY <1>1, <1>2, <2>1
      <4> HIDE DEF n
      <4> QED BY <3>1, <4>1, TablesAgree
    <3> QED BY <2>2, <3>2
  <2>4. h[n + 1] = h[n] \o t[n + 1] BY <1>3, <2>2
  <2> QED BY <1>1, <1>2, <2>1, <2>3, <2>4 DEF t
<1> QED BY <1>4, <1>5

\* A sequence that is not empty ends with its last element.
LEMMA EndsWithLast ==
    ASSUME NEW S, NEW s \in Seq(S), Len(s) # 0
    PROVE  \E r \in Seq(S), x \in S : s = Append(r, x) /\ Len(r) = Len(s) - 1
<1>1. s # <<>> OBVIOUS
<1>2. PICK r \in Seq(S), x \in S : s = Append(r, x) BY <1>1, SequenceEmptyOrAppend
<1> QED BY <1>2, AppendProperties

\* A flattened sequence has the elements of its parts.
LEMMA FlattenType ==
    ASSUME NEW S, NEW s \in Seq(Seq(S))
    PROVE  FlattenSeq(s) \in Seq(S)
<1> DEFINE P == {n \in Nat : \A t \in Seq(Seq(S)) : Len(t) = n => FlattenSeq(t) \in Seq(S)}
<1>1. 0 \in P
  <2>1. ASSUME NEW t \in Seq(Seq(S)), Len(t) = 0 PROVE FlattenSeq(t) \in Seq(S)
    BY <2>1, EmptySeq, FlattenEmpty
  <2> QED BY <2>1
<1>2. ASSUME NEW n \in Nat, n \in P PROVE n + 1 \in P
  <2>1. ASSUME NEW t \in Seq(Seq(S)), Len(t) = n + 1 PROVE FlattenSeq(t) \in Seq(S)
    <3>1. PICK r \in Seq(Seq(S)), x \in Seq(S) : t = Append(r, x) /\ Len(r) = Len(t) - 1
      <4>1. Len(t) # 0 BY <2>1
      <4> QED BY <4>1, EndsWithLast, Zenon
    <3>2. FlattenSeq(r) \in Seq(S) BY <1>2, <2>1, <3>1
    <3>3. FlattenSeq(t) = FlattenSeq(r) \o x BY <3>1, FlattenAppend
    <3> QED BY <3>1, <3>2, <3>3, ConcatProperties
  <2> QED BY <2>1
<1> HIDE DEF P
<1>3. Nat \subseteq P BY <1>1, <1>2, SetInduction
<1> QED BY <1>3 DEF P

\* A sequence of at most one element.
LEMMA OneElement ==
    ASSUME NEW S, NEW x \in Seq(S), x # <<>>, Len(x) <= 1
    PROVE  Len(x) = 1 /\ x = <<x[1]>>
<1>1. Len(x) = 1 BY EmptySeq
<1>2. x[1] \in S BY <1>1
<1>3. <<x[1]>> \in Seq(S) /\ Len(<<x[1]>>) = 1 /\ <<x[1]>>[1] = x[1] BY <1>2
<1>4. \A i \in 1..Len(x) : x[i] = <<x[1]>>[i] BY <1>1, <1>3
<1>5. \A y \in Seq(S) : Len(x) = Len(y) /\ (\A i \in 1..Len(x) : x[i] = y[i]) => x = y BY SeqEqual
<1> QED BY <1>1, <1>3, <1>4, <1>5, Zenon

\* f lists, in order, the positions of s that have an element, and t has these elements.
Selects(f, s, t) ==
    /\ f \in [1..Len(t) -> 1..Len(s)]
    /\ \A j, k \in 1..Len(t) : j < k => f[j] < f[k]
    /\ \A k \in 1..Len(t) : s[f[k]] = <<t[k]>>
    /\ \A i \in 1..Len(s) : s[i] # <<>> => \E k \in 1..Len(t) : f[k] = i

\* Parts of at most one element are selected in their order.
LEMMA FlattenSelects ==
    ASSUME NEW S, NEW s \in Seq(Seq(S)), \A i \in 1..Len(s) : Len(s[i]) <= 1
    PROVE  \E f : Selects(f, s, FlattenSeq(s))
<1> DEFINE P == {n \in Nat : \A t \in Seq(Seq(S)) :
                   Len(t) = n /\ (\A i \in 1..Len(t) : Len(t[i]) <= 1) => \E f : Selects(f, t, FlattenSeq(t))}
<1>1. 0 \in P
  <2>1. ASSUME NEW t \in Seq(Seq(S)), Len(t) = 0 PROVE \E f : Selects(f, t, FlattenSeq(t))
    <3>1. t = <<>> BY <2>1
    <3>2. Len(FlattenSeq(t)) = 0 BY <3>1, FlattenEmpty
    <3>3. Selects([i \in 1..0 |-> 1], t, FlattenSeq(t)) BY <2>1, <3>2 DEF Selects
    <3> QED BY <3>3
  <2> QED BY <2>1
<1>2. ASSUME NEW n \in Nat, n \in P PROVE n + 1 \in P
  <2> SUFFICES ASSUME NEW t \in Seq(Seq(S)), Len(t) = n + 1, \A i \in 1..Len(t) : Len(t[i]) <= 1
               PROVE  \E f : Selects(f, t, FlattenSeq(t)) OBVIOUS
  <2>1. PICK r \in Seq(Seq(S)), x \in Seq(S) : t = Append(r, x) /\ Len(r) = Len(t) - 1
    <3>1. Len(t) # 0 OBVIOUS
    <3> QED BY <3>1, EndsWithLast, Zenon
  <2>2. Len(r) = n /\ (\A i \in 1..n : t[i] = r[i]) /\ t[n + 1] = x BY <2>1, AppendProperties
  <2>3. PICK f : Selects(f, r, FlattenSeq(r))
    <3>1. \A i \in 1..Len(r) : Len(r[i]) <= 1 BY <2>2
    <3> QED BY <1>2, <2>2, <3>1
  <2> DEFINE u == FlattenSeq(r)
             v == FlattenSeq(t)
             m == Len(u)
  <2>4. u \in Seq(S) /\ v = u \o x BY <2>1, FlattenType, FlattenAppend
  <2>5. /\ f \in [1..m -> 1..n]
        /\ \A j, k \in 1..m : j < k => f[j] < f[k]
        /\ \A k \in 1..m : r[f[k]] = <<u[k]>>
        /\ \A i \in 1..n : r[i] # <<>> => \E k \in 1..m : f[k] = i BY <2>2, <2>3 DEF Selects
  <2>6. m \in Nat BY <2>4
  <2> HIDE DEF u, v
  <2>7. CASE x = <<>>
    <3>1. v = u BY <2>4, <2>7, ConcatEmptySeq
    <3>2. \A i \in 1..n + 1 : i \in 1..n \/ i = n + 1 OBVIOUS
    <3>3. f \in [1..Len(v) -> 1..Len(t)] BY <2>5, <3>1
    <3>4. \A k \in 1..Len(v) : t[f[k]] = <<v[k]>> BY <2>2, <2>5, <3>1
    <3>5. \A i \in 1..Len(t) : t[i] # <<>> => \E k \in 1..Len(v) : f[k] = i BY <2>2, <2>5, <2>7, <3>1, <3>2
    <3>6. Selects(f, t, v) BY <2>5, <3>1, <3>3, <3>4, <3>5 DEF Selects
    <3> QED BY <3>6 DEF v
  <2>8. CASE x # <<>>
    <3>1. Len(x) = 1 /\ x = <<x[1]>> BY <2>2, <2>8, OneElement
    <3>2. /\ Len(v) = m + 1 /\ (\A k \in 1..m : v[k] = u[k]) /\ v[m + 1] = x[1]
      <4>1. /\ Len(v) = Len(u) + Len(x)
            /\ \A i \in 1..Len(u) + Len(x) : v[i] = IF i <= Len(u) THEN u[i] ELSE x[i - Len(u)]
        BY <2>4, ConcatProperties
      <4>2. m + 1 \in 1..m + 1 /\ ~ (m + 1 <= m) /\ (m + 1) - m = 1 BY <2>6
      <4>3. \A k \in 1..m : k \in 1..m + 1 /\ k <= m BY <2>6
      <4> QED BY <3>1, <4>1, <4>2, <4>3
    <3> DEFINE h == [k \in 1..m + 1 |-> IF k = m + 1 THEN n + 1 ELSE f[k]]
    <3>3. /\ h \in [1..m + 1 -> 1..n + 1] /\ h[m + 1] = n + 1
          /\ \A k \in 1..m : h[k] = f[k] /\ f[k] \in 1..n
      <4> HIDE DEF m
      <4>0. \A k \in 1..m : k \in 1..m + 1 /\ k # m + 1 BY <2>6
      <4>1. \A k \in 1..m : f[k] \in 1..n /\ k \in 1..m + 1 /\ k # m + 1 BY <2>5, <4>0, Zenon
      <4>2. \A k \in 1..m + 1 : k \in 1..m \/ k = m + 1 BY <2>6
      <4>3. m + 1 \in 1..m + 1 /\ n + 1 \in 1..n + 1 /\ \A i \in 1..n : i \in 1..n + 1 BY <2>6
      <4>4. \A k \in 1..m + 1 : (IF k = m + 1 THEN n + 1 ELSE f[k]) \in 1..n + 1 BY <4>1, <4>2, <4>3
      <4>5. h \in [1..m + 1 -> 1..n + 1] BY <4>4, Zenon
      <4>6. h[m + 1] = n + 1 BY <4>3, Zenon
      <4>7. \A k \in 1..m : h[k] = f[k] BY <4>1, Zenon
      <4> QED BY <4>1, <4>5, <4>6, <4>7
    <3> HIDE DEF h
    <3>4. \A k \in 1..m + 1 : k \in 1..m \/ k = m + 1 BY <2>6
    <3>5. \A k \in 1..m : k \in 1..m + 1 BY <2>6
    <3>6. \A j, k \in 1..m + 1 : j < k => h[j] < h[k]
      <4> SUFFICES ASSUME NEW j \in 1..m + 1, NEW k \in 1..m + 1, j < k PROVE h[j] < h[k] OBVIOUS
      <4>1. j \in 1..m BY <2>6
      <4>2. CASE k = m + 1
        <5>1. h[k] = n + 1 /\ h[j] \in 1..n BY <3>3, <4>1, <4>2
        <5> QED BY <5>1
      <4>3. CASE k \in 1..m BY <2>5, <3>3, <4>1, <4>3
      <4> QED BY <3>4, <4>2, <4>3
    <3>7. \A k \in 1..m + 1 : t[h[k]] = <<v[k]>>
      <4>1. ASSUME NEW k \in 1..m PROVE t[h[k]] = <<v[k]>>
        <5>1. h[k] = f[k] /\ f[k] \in 1..n BY <3>3
        <5>2. t[f[k]] = r[f[k]] BY <2>2, <5>1
        <5>3. r[f[k]] = <<u[k]>> /\ v[k] = u[k] BY <2>5, <3>2
        <5> QED BY <5>1, <5>2, <5>3
      <4>2. t[h[m + 1]] = <<v[m + 1]>> BY <2>2, <3>1, <3>2, <3>3
      <4> QED BY <3>4, <4>1, <4>2
    <3>8. \A i \in 1..n + 1 : t[i] # <<>> => \E k \in 1..m + 1 : h[k] = i
      <4>1. \A i \in 1..n + 1 : i \in 1..n \/ i = n + 1 OBVIOUS
      <4>2. m + 1 \in 1..m + 1 BY <2>6
      <4>3. ASSUME NEW i \in 1..n, t[i] # <<>> PROVE \E k \in 1..m + 1 : h[k] = i
        <5>1. r[i] # <<>> BY <2>2, <4>3
        <5>2. PICK k \in 1..m : f[k] = i BY <2>5, <5>1
        <5> QED BY <3>3, <3>5, <5>2
      <4>4. h[m + 1] = n + 1 BY <3>3
      <4> QED BY <4>1, <4>2, <4>3, <4>4
    <3>9. Selects(h, t, v) BY <3>2, <3>3, <3>6, <3>7, <3>8 DEF Selects
    <3> QED BY <3>9 DEF v
  <2> QED BY <2>7, <2>8
<1> HIDE DEF P
<1>3. Nat \subseteq P BY <1>1, <1>2, SetInduction
<1> QED BY <1>3 DEF P

\* f lists, in order, the positions I of s, and t has the elements there.
PlacedBy(f, s, I, t) ==
    /\ f \in [1..Len(t) -> 1..Len(s)]
    /\ \A j, k \in 1..Len(t) : j < k => f[j] < f[k]
    /\ \A k \in 1..Len(t) : f[k] \in I /\ t[k] = s[f[k]]
    /\ \A i \in 1..Len(s) : i \in I => \E k \in 1..Len(t) : f[k] = i

\* What ElementsAt returns.
LEMMA ElementsPlaced ==
    ASSUME NEW S, NEW s \in Seq(S), NEW I
    PROVE  ElementsAt(s, I) \in Seq(S) /\ \E f : PlacedBy(f, s, I, ElementsAt(s, I))
<1> DEFINE p == [i \in DOMAIN s |-> IF i \in I THEN <<s[i]>> ELSE <<>>]
           t == ElementsAt(s, I)
<1>1. t = FlattenSeq(p) BY DEF ElementsAt
<1>2. DOMAIN s = 1..Len(s) /\ Len(s) \in Nat OBVIOUS
<1>3. /\ p \in Seq(Seq(S)) /\ Len(p) = Len(s)
      /\ \A i \in 1..Len(s) : p[i] = IF i \in I THEN <<s[i]>> ELSE <<>> BY <1>2
<1> HIDE DEF p, t
<1>4. \A i \in 1..Len(p) : Len(p[i]) <= 1
  <2> SUFFICES ASSUME NEW i \in 1..Len(p) PROVE Len(p[i]) <= 1 OBVIOUS
  <2>1. p[i] = <<s[i]>> \/ p[i] = <<>> BY <1>3, Zenon
  <2>2. Len(<<s[i]>>) <= 1 /\ Len(<<>>) <= 1 OBVIOUS
  <2> QED BY <2>1, <2>2, Zenon
<1>5. t \in Seq(S) BY <1>1, <1>3, FlattenType
<1>6. PICK f : Selects(f, p, t) BY <1>1, <1>3, <1>4, FlattenSelects
<1>7. \A k \in 1..Len(t) : f[k] \in 1..Len(s) /\ p[f[k]] = <<t[k]>> BY <1>3, <1>6 DEF Selects
<1>8. \A k \in 1..Len(t) : f[k] \in I /\ t[k] = s[f[k]]
  <2> SUFFICES ASSUME NEW k \in 1..Len(t) PROVE f[k] \in I /\ t[k] = s[f[k]] OBVIOUS
  <2>1. p[f[k]] = <<t[k]>> /\ p[f[k]] = IF f[k] \in I THEN <<s[f[k]]>> ELSE <<>> BY <1>3, <1>7
  <2>2. <<t[k]>> # <<>> OBVIOUS
  <2>3. f[k] \in I /\ <<t[k]>> = <<s[f[k]]>> BY <2>1, <2>2
  <2> QED BY <2>3
<1>9. \A i \in 1..Len(s) : i \in I => p[i] # <<>>
  <2> SUFFICES ASSUME NEW i \in 1..Len(s), i \in I PROVE p[i] # <<>> OBVIOUS
  <2>1. p[i] = <<s[i]>> BY <1>3, Zenon
  <2>2. <<s[i]>> # <<>> OBVIOUS
  <2> QED BY <2>1, <2>2, Zenon
<1>10. PlacedBy(f, s, I, t) BY <1>3, <1>6, <1>8, <1>9 DEF Selects, PlacedBy
<1> QED BY <1>5, <1>10 DEF t

-----------------------------------------------------------------------------
(* AgentTurn: the chain of tool calls *)

\* The messages of a request.
Call == [id : Nat, kind : STRING]
Role == {"system", "user", "assistant", "tool"}
Tag ==
    Injected \cup {plan.text : plan \in Plans}
      \cup {"", "prompt", "summary", "input", "reply", "result", "no such tool", "tool failed", "answer please"}
Message == [role : Role, tag : Tag, calls : Seq(Call), id : Nat]

\* A user message follows message i before any assistant message: nothing that
\* comes later can change what has been found for i.
Fenced(ms, i) ==
    \E u \in i+1..Len(ms) : ms[u].role = "user" /\ \A n \in i+1..u-1 : ms[n].role /= "assistant"

\* The calls of message i are answered, or the repair will see which are not.
Settled(ms, i) ==
    /\ ms[i].role /= "assistant" => ms[i].calls = NoCalls
    /\ \/ CallIds(ms[i].calls) \subseteq Found(ms, i)
       \/ Fenced(ms, i) /\ Found(ms, i) \subseteq CallIds(ms[i].calls)
SettledChain(ms) == \A i \in 1..Len(ms) : Settled(ms, i)

\* The results found for a message.
LEMMA InFound ==
    ASSUME NEW ms, NEW i, NEW x
    PROVE  x \in Found(ms, i) <=>
             \E k \in i+1..Len(ms) : /\ ms[k].role = "tool" /\ ms[k].id = x
                                     /\ \A n \in i+1..k-1 : ms[n].role \notin {"user", "assistant"}
BY Zenon DEF Found

\* f maps the messages of t, in order, to messages of s of the same role and id.
Embeds(f, t, s) ==
    /\ f \in [1..Len(t) -> 1..Len(s)]
    /\ \A j, k \in 1..Len(t) : j < k => f[j] < f[k]
    /\ \A k \in 1..Len(t) : t[k].role = s[f[k]].role /\ t[k].id = s[f[k]].id

\* An embedding keeps and reflects the order.
LEMMA EmbedOrder ==
    ASSUME NEW s \in Seq(Message), NEW t \in Seq(Message), NEW f, Embeds(f, t, s)
    PROVE  /\ \A j \in 1..Len(t) : f[j] \in 1..Len(s)
           /\ \A j, k \in 1..Len(t) : j < k <=> f[j] < f[k]
<1>1. /\ \A j \in 1..Len(t) : f[j] \in 1..Len(s)
      /\ \A j, k \in 1..Len(t) : j < k => f[j] < f[k] BY DEF Embeds
<1>2. ASSUME NEW j \in 1..Len(t), NEW k \in 1..Len(t), f[j] < f[k] PROVE j < k
  <2>1. f[j] \in Int /\ f[k] \in Int BY <1>1
  <2>2. CASE j = k BY <1>2, <2>1, <2>2
  <2>3. CASE k < j BY <1>1, <2>3, <1>2, <2>1
  <2> QED BY <2>2, <2>3
<1> QED BY <1>1, <1>2

\* What is found for a message is found for it in a part that has the results.
LEMMA EmbedFinds ==
    ASSUME NEW s \in Seq(Message), NEW t \in Seq(Message), NEW f, Embeds(f, t, s),
           NEW j \in 1..Len(t), NEW drop,
           \A p \in 1..Len(s) : p > f[j] /\ s[p].role = "tool" /\ s[p].id \notin drop => \E k \in 1..Len(t) : f[k] = p
    PROVE  Found(s, f[j]) \ drop \subseteq Found(t, j)
<1>1. /\ \A i \in 1..Len(t) : f[i] \in 1..Len(s)
      /\ \A i, k \in 1..Len(t) : i < k <=> f[i] < f[k]
      /\ \A k \in 1..Len(t) : t[k].role = s[f[k]].role /\ t[k].id = s[f[k]].id BY EmbedOrder DEF Embeds
<1>2. f[j] \in 1..Len(s) /\ Len(s) \in Nat /\ Len(t) \in Nat BY <1>1
<1> SUFFICES ASSUME NEW x \in Found(s, f[j]), x \notin drop PROVE x \in Found(t, j) OBVIOUS
<1>3. PICK p \in f[j]+1..Len(s) : /\ s[p].role = "tool" /\ s[p].id = x
                                  /\ \A n \in f[j]+1..p-1 : s[n].role \notin {"user", "assistant"} BY InFound
<1>4. p \in 1..Len(s) /\ p > f[j] BY <1>2
<1>5. PICK k \in 1..Len(t) : f[k] = p BY <1>3, <1>4
<1>6. k \in j+1..Len(t) BY <1>1, <1>2, <1>4, <1>5
<1>7. ASSUME NEW n \in j+1..k-1 PROVE t[n].role \notin {"user", "assistant"}
  <2>1. n \in 1..Len(t) /\ j < n /\ n < k BY <1>6
  <2>2. f[j] < f[n] /\ f[n] < p /\ f[n] \in 1..Len(s) BY <1>1, <1>5, <2>1
  <2>3. f[n] \in f[j]+1..p-1 BY <1>2, <1>4, <2>2
  <2> QED BY <1>1, <1>3, <2>1, <2>3
<1>8. t[k].role = "tool" /\ t[k].id = x BY <1>1, <1>3, <1>5
<1> QED BY <1>6, <1>7, <1>8, InFound

\* A part that has the user messages keeps the fence, and finds nothing new behind it.
LEMMA EmbedFence ==
    ASSUME NEW s \in Seq(Message), NEW t \in Seq(Message), NEW f, Embeds(f, t, s),
           NEW j \in 1..Len(t), Fenced(s, f[j]),
           \A p \in 1..Len(s) : p > f[j] /\ s[p].role = "user" => \E k \in 1..Len(t) : f[k] = p
    PROVE  Fenced(t, j) /\ Found(t, j) \subseteq Found(s, f[j])
<1>1. /\ \A i \in 1..Len(t) : f[i] \in 1..Len(s)
      /\ \A i, k \in 1..Len(t) : i < k <=> f[i] < f[k]
      /\ \A k \in 1..Len(t) : t[k].role = s[f[k]].role /\ t[k].id = s[f[k]].id BY EmbedOrder DEF Embeds
<1>2. f[j] \in 1..Len(s) /\ Len(s) \in Nat /\ Len(t) \in Nat BY <1>1
<1>3. PICK u \in f[j]+1..Len(s) : s[u].role = "user" /\ \A n \in f[j]+1..u-1 : s[n].role /= "assistant"
  BY DEF Fenced
<1>4. u \in 1..Len(s) /\ u > f[j] BY <1>2
<1>5. PICK v \in 1..Len(t) : f[v] = u BY <1>3, <1>4
<1>6. v \in j+1..Len(t) /\ t[v].role = "user" BY <1>1, <1>2, <1>4, <1>5, <1>3
<1>7. Fenced(t, j)
  <2>1. ASSUME NEW n \in j+1..v-1 PROVE t[n].role /= "assistant"
    <3>1. n \in 1..Len(t) /\ j < n /\ n < v BY <1>6
    <3>2. f[j] < f[n] /\ f[n] < u /\ f[n] \in 1..Len(s) BY <1>1, <1>5, <3>1
    <3>3. f[n] \in f[j]+1..u-1 BY <1>2, <1>4, <3>2
    <3> QED BY <1>1, <1>3, <3>1, <3>3
  <2> QED BY <1>6, <2>1 DEF Fenced
<1>8. ASSUME NEW x \in Found(t, j) PROVE x \in Found(s, f[j])
  <2>1. PICK k \in j+1..Len(t) : /\ t[k].role = "tool" /\ t[k].id = x
                                 /\ \A n \in j+1..k-1 : t[n].role \notin {"user", "assistant"} BY InFound
  <2>2. k \in 1..Len(t) /\ j < k OBVIOUS
  <2>3. f[k] \in f[j]+1..Len(s) /\ f[k] \in 1..Len(s) BY <1>1, <1>2, <2>2
  <2>4. f[k] < u BY <1>6, <2>1, <2>2, <1>5, <1>1, SMTT(30)
  <2>5. ASSUME NEW n \in f[j]+1..f[k]-1 PROVE s[n].role \notin {"user", "assistant"}
    <3>1. n \in f[j]+1..u-1 /\ n \in 1..Len(s) /\ n > f[j] /\ n < f[k] BY <1>2, <1>4, <2>3, <2>4, SMTT(30)
    <3>2. s[n].role /= "assistant" BY <1>3, <3>1
    <3>3. s[n].role /= "user"
      <4> SUFFICES ASSUME s[n].role = "user" PROVE FALSE OBVIOUS
      <4>1. PICK m \in 1..Len(t) : f[m] = n BY <3>1
      <4>2. j < m /\ m < k BY <1>1, <2>2, <3>1, <4>1
      <4>3. t[m].role = "user" /\ m \in j+1..k-1 BY <1>1, <2>2, <4>1, <4>2, SMTT(30)
      <4> QED BY <2>1, <4>3
    <3> QED BY <3>2, <3>3
  <2>6. s[f[k]].role = "tool" /\ s[f[k]].id = x BY <1>1, <2>1, <2>2
  <2> QED BY <2>3, <2>5, <2>6, InFound
<1> QED BY <1>7, <1>8

\* A message and those after it are the same in a suffix.
LEMMA SettledShift ==
    ASSUME NEW s \in Seq(Message), NEW t \in Seq(Message), NEW d \in Nat, Len(s) = d + Len(t),
           \A k \in 1..Len(t) : t[k] = s[d + k], NEW j \in 1..Len(t)
    PROVE  Settled(s, d + j) <=> Settled(t, j)
<1> DEFINE e == d + j
<1>0. Len(s) \in Nat /\ Len(t) \in Nat /\ j \in Nat /\ e \in Nat /\ e = d + j OBVIOUS
<1> HIDE DEF e
<1>1. ASSUME NEW x \in Found(s, e) PROVE x \in Found(t, j)
  <2>0. \E p \in e+1..Len(s) : /\ s[p].role = "tool" /\ s[p].id = x
                               /\ \A n \in e+1..p-1 : s[n].role \notin {"user", "assistant"}
    BY <1>1, Zenon DEF Found
  <2>1. PICK p \in e+1..Len(s) : /\ s[p].role = "tool" /\ s[p].id = x
                                 /\ \A n \in e+1..p-1 : s[n].role \notin {"user", "assistant"} BY <2>0, Zenon
  <2>2. p - d \in j+1..Len(t) /\ p - d \in 1..Len(t) /\ d + (p - d) = p BY <1>0
  <2>3. ASSUME NEW n \in j+1..(p-d)-1 PROVE t[n].role \notin {"user", "assistant"}
    <3>1. n \in 1..Len(t) /\ d + n \in e+1..p-1
      <4>1. n \in Int /\ j + 1 <= n /\ n <= (p - d) - 1 /\ p \in Int /\ p - d <= Len(t) BY <1>0, <2>2
      <4> QED BY <1>0, <4>1
    <3>2. t[n] = s[d + n] BY <3>1
    <3> QED BY <2>1, <3>1, <3>2
  <2>4. t[p - d] = s[p] BY <2>2
  <2> QED BY <2>1, <2>2, <2>3, <2>4, InFound
<1>2. ASSUME NEW x \in Found(t, j) PROVE x \in Found(s, e)
  <2>1. PICK k \in j+1..Len(t) : /\ t[k].role = "tool" /\ t[k].id = x
                                 /\ \A n \in j+1..k-1 : t[n].role \notin {"user", "assistant"} BY InFound
  <2>2. d + k \in e+1..Len(s) /\ k \in 1..Len(t) BY <1>0
  <2>3. ASSUME NEW n \in e+1..(d+k)-1 PROVE s[n].role \notin {"user", "assistant"}
    <3>1. n - d \in 1..Len(t) /\ n - d \in j+1..k-1 /\ d + (n - d) = n BY <1>0, <2>2, SMTT(30)
    <3>2. t[n - d] = s[n] BY <3>1
    <3> QED BY <2>1, <3>1, <3>2
  <2>4. t[k] = s[d + k] BY <2>2
  <2> DEFINE q == d + k
  <2>5. q \in e+1..Len(s) /\ s[q] = t[k] /\ \A n \in e+1..q-1 : s[n].role \notin {"user", "assistant"}
    BY <2>2, <2>3, <2>4
  <2> HIDE DEF q
  <2>6. s[q].role = "tool" /\ s[q].id = x BY <2>1, <2>5
  <2>7. \E m \in e+1..Len(s) : /\ s[m].role = "tool" /\ s[m].id = x
                               /\ \A n \in e+1..m-1 : s[n].role \notin {"user", "assistant"} BY <2>5, <2>6
  <2> QED BY <2>7, InFound
<1>3. ASSUME Fenced(s, e) PROVE Fenced(t, j)
  <2>1. PICK u \in e+1..Len(s) : s[u].role = "user" /\ \A n \in e+1..u-1 : s[n].role /= "assistant"
    BY <1>3 DEF Fenced
  <2>2. u - d \in j+1..Len(t) /\ u - d \in 1..Len(t) /\ d + (u - d) = u BY <1>0, SMTT(30)
  <2>3. ASSUME NEW n \in j+1..(u-d)-1 PROVE t[n].role /= "assistant"
    <3>1. n \in 1..Len(t) /\ d + n \in e+1..u-1
      <4>1. n \in Int /\ j + 1 <= n /\ n <= (u - d) - 1 /\ u \in Int /\ u - d <= Len(t) BY <1>0, <2>2
      <4> QED BY <1>0, <4>1
    <3>2. t[n] = s[d + n] BY <3>1
    <3> QED BY <2>1, <3>1, <3>2
  <2>4. t[u - d] = s[u] BY <2>2
  <2> QED BY <2>1, <2>2, <2>3, <2>4 DEF Fenced
<1>4. ASSUME Fenced(t, j) PROVE Fenced(s, e)
  <2>1. PICK v \in j+1..Len(t) : t[v].role = "user" /\ \A n \in j+1..v-1 : t[n].role /= "assistant"
    BY <1>4 DEF Fenced
  <2>2. d + v \in e+1..Len(s) /\ v \in 1..Len(t) BY <1>0
  <2>3. ASSUME NEW n \in e+1..(d+v)-1 PROVE s[n].role /= "assistant"
    <3>1. n - d \in 1..Len(t) /\ n - d \in j+1..v-1 /\ d + (n - d) = n BY <1>0, <2>2, SMTT(30)
    <3>2. t[n - d] = s[n] BY <3>1
    <3> QED BY <2>1, <3>1, <3>2
  <2>4. t[v] = s[d + v] BY <2>2
  <2> QED BY <2>1, <2>2, <2>3, <2>4 DEF Fenced
<1>5. Found(s, e) = Found(t, j) /\ (Fenced(s, e) <=> Fenced(t, j)) /\ s[e] = t[j]
  BY <1>0, <1>1, <1>2, <1>3, <1>4
<1>6. Settled(s, e) <=> Settled(t, j) BY <1>5 DEF Settled
<1> QED BY <1>0, <1>6

\* What is found before a fence stays, whatever comes after.
LEMMA FencePrefix ==
    ASSUME NEW s \in Seq(Message), NEW t \in Seq(Message), Len(s) <= Len(t),
           \A k \in 1..Len(s) : t[k] = s[k], NEW i \in 1..Len(s)
    PROVE  /\ Found(s, i) \subseteq Found(t, i)
           /\ Fenced(s, i) => Fenced(t, i) /\ Found(t, i) = Found(s, i)
<1>0. Len(s) \in Nat /\ Len(t) \in Nat /\ i \in Nat OBVIOUS
<1>1. ASSUME NEW x \in Found(s, i) PROVE x \in Found(t, i)
  <2>1. PICK p \in i+1..Len(s) : /\ s[p].role = "tool" /\ s[p].id = x
                                 /\ \A n \in i+1..p-1 : s[n].role \notin {"user", "assistant"} BY InFound
  <2>2. p \in i+1..Len(t) /\ t[p] = s[p] BY <1>0
  <2>3. \A n \in i+1..p-1 : t[n] = s[n] BY <1>0
  <2> QED BY <2>1, <2>2, <2>3, InFound, SMTT(30)
<1>2. ASSUME Fenced(s, i) PROVE Fenced(t, i) /\ Found(t, i) \subseteq Found(s, i)
  <2>1. PICK u \in i+1..Len(s) : s[u].role = "user" /\ \A n \in i+1..u-1 : s[n].role /= "assistant"
    BY <1>2 DEF Fenced
  <2>2. u \in i+1..Len(t) /\ t[u] = s[u] /\ \A n \in i+1..u-1 : t[n] = s[n] BY <1>0
  <2>3. Fenced(t, i) BY <2>1, <2>2 DEF Fenced
  <2>4. ASSUME NEW x \in Found(t, i) PROVE x \in Found(s, i)
    <3>1. PICK k \in i+1..Len(t) : /\ t[k].role = "tool" /\ t[k].id = x
                                   /\ \A n \in i+1..k-1 : t[n].role \notin {"user", "assistant"} BY InFound
    <3>2. k < u BY <2>1, <2>2, <3>1, <1>0
    <3>3. k \in i+1..Len(s) /\ t[k] = s[k] /\ \A n \in i+1..k-1 : t[n] = s[n] BY <1>0, <3>2
    <3> QED BY <3>1, <3>3, InFound, SMTT(30)
  <2> QED BY <2>3, <2>4
<1> QED BY <1>1, <1>2

LEMMA SettledPrefix ==
    ASSUME NEW s \in Seq(Message), NEW t \in Seq(Message), Len(s) <= Len(t),
           \A k \in 1..Len(s) : t[k] = s[k], NEW i \in 1..Len(s), Settled(s, i)
    PROVE  Settled(t, i)
<1>1. t[i] = s[i] OBVIOUS
<1> QED BY <1>1, FencePrefix DEF Settled

\* Two settled chains one after the other, a suffix of one, and messages without calls.
LEMMA SettledConcat ==
    ASSUME NEW s \in Seq(Message), NEW t \in Seq(Message), SettledChain(s), SettledChain(t)
    PROVE  s \o t \in Seq(Message) /\ SettledChain(s \o t)
<1> DEFINE c == s \o t
<1>1. /\ c \in Seq(Message) /\ Len(c) = Len(s) + Len(t) /\ Len(s) \in Nat /\ Len(t) \in Nat
      /\ \A i \in 1..Len(s) + Len(t) : c[i] = IF i <= Len(s) THEN s[i] ELSE t[i - Len(s)] BY ConcatProperties
<1> HIDE DEF c
<1>2. \A k \in 1..Len(s) : c[k] = s[k] BY <1>1
<1>3. \A k \in 1..Len(t) : t[k] = c[Len(s) + k] BY <1>1
<1>4. ASSUME NEW i \in 1..Len(c) PROVE Settled(c, i)
  <2>1. CASE i <= Len(s)
    <3>1. i \in 1..Len(s) /\ Len(s) <= Len(c) BY <1>1, <2>1
    <3> QED BY <1>1, <1>2, <3>1, SettledPrefix DEF SettledChain
  <2>2. CASE i > Len(s)
    <3>1. i - Len(s) \in 1..Len(t) /\ Len(s) + (i - Len(s)) = i BY <1>1, <2>2
    <3>2. Settled(t, i - Len(s)) BY <3>1 DEF SettledChain
    <3>3. Settled(c, Len(s) + (i - Len(s))) BY <1>1, <1>3, <3>1, <3>2, SettledShift
    <3> QED BY <3>1, <3>3
  <2> QED BY <1>1, <2>1, <2>2
<1> QED BY <1>1, <1>4 DEF SettledChain, c

\* The suffix of a sequence of messages.
LEMMA SuffixOf ==
    ASSUME NEW s \in Seq(Message), NEW d \in Nat, d <= Len(s)
    PROVE  /\ SubSeq(s, d + 1, Len(s)) \in Seq(Message)
           /\ Len(SubSeq(s, d + 1, Len(s))) = Len(s) - d
           /\ \A i \in 1..Len(s) - d : SubSeq(s, d + 1, Len(s))[i] = s[d + i]
<1> DEFINE c == SubSeq(s, d + 1, Len(s))
<1>0. Len(s) \in Nat OBVIOUS
<1>1. /\ c \in Seq(Message) /\ Len(c) = Len(s) - d
      /\ \A i \in 1..Len(s) - d : c[i] = s[d + i]
  <2>1. \A i \in d + 1..Len(s) : s[i] \in Message BY <1>0
  <2>2. /\ c \in Seq(Message)
        /\ Len(c) = IF d + 1 <= Len(s) THEN Len(s) - (d + 1) + 1 ELSE 0
        /\ \A i \in 1..Len(s) - (d + 1) + 1 : c[i] = s[(d + 1) + i - 1] BY <1>0, <2>1, SubSeqProperties
  <2> HIDE DEF c
  <2>3. Len(c) = Len(s) - d /\ Len(s) - (d + 1) + 1 = Len(s) - d BY <1>0, <2>2
  <2>4. \A i \in 1..Len(s) - d : (d + 1) + i - 1 = d + i BY <1>0
  <2> QED BY <2>2, <2>3, <2>4
<1> QED BY <1>1

LEMMA SettledSuffix ==
    ASSUME NEW s \in Seq(Message), SettledChain(s), NEW d \in Nat, d <= Len(s)
    PROVE  SubSeq(s, d + 1, Len(s)) \in Seq(Message) /\ SettledChain(SubSeq(s, d + 1, Len(s)))
<1> DEFINE c == SubSeq(s, d + 1, Len(s))
<1>0. Len(s) \in Nat OBVIOUS
<1>1. /\ c \in Seq(Message) /\ Len(c) = Len(s) - d
      /\ \A i \in 1..Len(s) - d : c[i] = s[d + i] BY SuffixOf
<1> HIDE DEF c
<1>2. ASSUME NEW i \in 1..Len(c) PROVE Settled(c, i)
  <2>1. Len(s) = d + Len(c) /\ (\A k \in 1..Len(c) : c[k] = s[d + k]) /\ d + i \in 1..Len(s) BY <1>0, <1>1
  <2>2. Settled(s, d + i) BY <2>1 DEF SettledChain
  <2> QED BY <1>1, <2>1, <2>2, SettledShift
<1> QED BY <1>1, <1>2 DEF SettledChain, c

LEMMA SettledPlain ==
    ASSUME NEW s \in Seq(Message), \A i \in 1..Len(s) : s[i].calls = NoCalls
    PROVE  SettledChain(s)
BY DEF SettledChain, Settled, CallIds, NoCalls

-----------------------------------------------------------------------------
(* AgentTurn: the repair at the top of the loop *)

\* The calls that a filter by position keeps.
LEMMA CallsKept ==
    ASSUME NEW cs \in Seq(Call), NEW I
    PROVE  /\ ElementsAt(cs, I) \in Seq(Call)
           /\ \A n \in 1..Len(ElementsAt(cs, I)) : \E k \in 1..Len(cs) \cap I : ElementsAt(cs, I)[n] = cs[k]
           /\ \A k \in 1..Len(cs) \cap I : \E n \in 1..Len(ElementsAt(cs, I)) : ElementsAt(cs, I)[n] = cs[k]
<1> DEFINE t == ElementsAt(cs, I)
<1>1. t \in Seq(Call) BY ElementsPlaced
<1>2. PICK f : PlacedBy(f, cs, I, t) BY ElementsPlaced
<1> HIDE DEF t
<1>3. \A n \in 1..Len(t) : f[n] \in 1..Len(cs) /\ f[n] \in I /\ t[n] = cs[f[n]] BY <1>2 DEF PlacedBy
<1>4. \A k \in 1..Len(cs) : k \in I => \E n \in 1..Len(t) : f[n] = k BY <1>2 DEF PlacedBy
<1>5. \A n \in 1..Len(t) : \E k \in 1..Len(cs) \cap I : t[n] = cs[k] BY <1>3
<1>6. \A k \in 1..Len(cs) \cap I : \E n \in 1..Len(t) : t[n] = cs[k] BY <1>3, <1>4
<1> QED BY <1>1, <1>5, <1>6 DEF t

LEMMA CallsWithIds ==
    ASSUME NEW cs \in Seq(Call), NEW ids
    PROVE  /\ CallsWith(cs, ids) \in Seq(Call)
           /\ CallIds(CallsWith(cs, ids)) = CallIds(cs) \cap ids
<1> DEFINE I == {k \in DOMAIN cs : cs[k].id \in ids}
           t == CallsWith(cs, ids)
<1>1. /\ t \in Seq(Call)
      /\ \A n \in 1..Len(t) : \E k \in 1..Len(cs) \cap I : t[n] = cs[k]
      /\ \A k \in 1..Len(cs) \cap I : \E n \in 1..Len(t) : t[n] = cs[k]
  <2>1. t = ElementsAt(cs, I) BY DEF CallsWith
  <2> HIDE DEF t, I
  <2>2. /\ ElementsAt(cs, I) \in Seq(Call)
        /\ \A n \in 1..Len(ElementsAt(cs, I)) : \E k \in 1..Len(cs) \cap I : ElementsAt(cs, I)[n] = cs[k]
        /\ \A k \in 1..Len(cs) \cap I : \E n \in 1..Len(ElementsAt(cs, I)) : ElementsAt(cs, I)[n] = cs[k]
    BY CallsKept
  <2> QED BY <2>1, <2>2, Zenon
<1> HIDE DEF t
<1>2. DOMAIN cs = 1..Len(cs) /\ DOMAIN t = 1..Len(t) BY <1>1
<1>3. CallIds(t) = CallIds(cs) \cap ids
  <2>1. \A k \in DOMAIN cs : k \in I <=> cs[k].id \in ids OBVIOUS
  <2> HIDE DEF I
  <2>2. ASSUME NEW x \in CallIds(t) PROVE x \in CallIds(cs) /\ x \in ids
    <3>1. PICK n \in 1..Len(t) : x = t[n].id BY <1>2 DEF CallIds
    <3>2. PICK k \in 1..Len(cs) \cap I : t[n] = cs[k] BY <1>1
    <3> QED BY <1>2, <2>1, <3>1, <3>2 DEF CallIds
  <2>3. ASSUME NEW x \in CallIds(cs), x \in ids PROVE x \in CallIds(t)
    <3>1. PICK k \in 1..Len(cs) : x = cs[k].id BY <1>2 DEF CallIds
    <3>2. k \in 1..Len(cs) \cap I BY <1>2, <2>1, <2>3, <3>1
    <3>3. PICK n \in 1..Len(t) : t[n] = cs[k] BY <1>1, <3>2
    <3> QED BY <1>2, <3>1, <3>3 DEF CallIds
  <2> QED BY <2>2, <2>3
<1> QED BY <1>1, <1>3 DEF t

LEMMA CallsWithoutIds ==
    ASSUME NEW cs \in Seq(Call), NEW ids
    PROVE  /\ CallsWithout(cs, ids) \in Seq(Call)
           /\ CallIds(CallsWithout(cs, ids)) = CallIds(cs) \ ids
           /\ \A n \in DOMAIN CallsWithout(cs, ids) : \E k \in DOMAIN cs : CallsWithout(cs, ids)[n] = cs[k]
<1> DEFINE I == {k \in DOMAIN cs : cs[k].id \notin ids}
           t == CallsWithout(cs, ids)
<1>1. /\ t \in Seq(Call)
      /\ \A n \in 1..Len(t) : \E k \in 1..Len(cs) \cap I : t[n] = cs[k]
      /\ \A k \in 1..Len(cs) \cap I : \E n \in 1..Len(t) : t[n] = cs[k]
  <2>1. t = ElementsAt(cs, I) BY DEF CallsWithout
  <2> HIDE DEF t, I
  <2>2. /\ ElementsAt(cs, I) \in Seq(Call)
        /\ \A n \in 1..Len(ElementsAt(cs, I)) : \E k \in 1..Len(cs) \cap I : ElementsAt(cs, I)[n] = cs[k]
        /\ \A k \in 1..Len(cs) \cap I : \E n \in 1..Len(ElementsAt(cs, I)) : ElementsAt(cs, I)[n] = cs[k]
    BY CallsKept
  <2> QED BY <2>1, <2>2, Zenon
<1> HIDE DEF t
<1>2. DOMAIN cs = 1..Len(cs) /\ DOMAIN t = 1..Len(t) BY <1>1
<1>3. CallIds(t) = CallIds(cs) \ ids
  <2>1. \A k \in DOMAIN cs : k \in I <=> cs[k].id \notin ids OBVIOUS
  <2> HIDE DEF I
  <2>2. ASSUME NEW x \in CallIds(t) PROVE x \in CallIds(cs) /\ x \notin ids
    <3>1. PICK n \in 1..Len(t) : x = t[n].id BY <1>2 DEF CallIds
    <3>2. PICK k \in 1..Len(cs) \cap I : t[n] = cs[k] BY <1>1
    <3> QED BY <1>2, <2>1, <3>1, <3>2 DEF CallIds
  <2>3. ASSUME NEW x \in CallIds(cs), x \notin ids PROVE x \in CallIds(t)
    <3>1. PICK k \in 1..Len(cs) : x = cs[k].id BY <1>2 DEF CallIds
    <3>2. k \in 1..Len(cs) \cap I BY <1>2, <2>1, <2>3, <3>1
    <3>3. PICK n \in 1..Len(t) : t[n] = cs[k] BY <1>1, <3>2
    <3> QED BY <1>2, <3>1, <3>3 DEF CallIds
  <2> QED BY <2>2, <2>3
<1>4. \A n \in DOMAIN t : \E k \in DOMAIN cs : t[n] = cs[k] BY <1>1, <1>2
<1> QED BY <1>1, <1>3, <1>4 DEF t

\* There are at most as many ids as calls.
LEMMA CallIdsFinite ==
    ASSUME NEW cs \in Seq(Call)
    PROVE  IsFiniteSet(CallIds(cs)) /\ Cardinality(CallIds(cs)) <= Len(cs)
<1> DEFINE g == [k \in 1..Len(cs) |-> cs[k].id]
           D == 1..Len(cs)
<1>1. Len(cs) \in Nat /\ DOMAIN cs = D OBVIOUS
<1>2. IsFiniteSet(D) /\ Cardinality(D) = Len(cs) BY <1>1, FS_Interval, SMTT(30)
<1>3. g \in Surjection(D, CallIds(cs)) BY <1>1 DEF Surjection, CallIds
<1> HIDE DEF g, D
<1>4. IsFiniteSet(CallIds(cs)) /\ Cardinality(CallIds(cs)) <= Cardinality(D) BY <1>2, <1>3, FS_Surjection
<1> QED BY <1>2, <1>4

\* What the repair does to one message.
LEMMA RepairOneDoes ==
    ASSUME NEW ms \in Seq(Message), NEW i \in 1..Len(ms)
    PROVE  /\ ms[i].role /= "assistant" => RepairOne(ms, i) = <<ms[i]>>
           /\ \/ RepairOne(ms, i) = <<>>
              \/ \E m \in Message :
                   /\ RepairOne(ms, i) = <<m>> /\ m.role = ms[i].role /\ m.id = ms[i].id /\ m.tag = ms[i].tag
                   /\ ms[i].role /= "assistant" => m.calls = ms[i].calls
                   /\ Settled(ms, i) => CallIds(m.calls) \subseteq Found(ms, i)
<1> DEFINE m == ms[i]
           kept == CallsWith(m.calls, Found(ms, i))
           n == [m EXCEPT !.calls = kept]
<1>1. m \in Message OBVIOUS
<1>2. m.calls \in Seq(Call) BY <1>1 DEF Message
<1>3. kept \in Seq(Call) /\ CallIds(kept) = CallIds(m.calls) \cap Found(ms, i) BY <1>2, CallsWithIds
<1> HIDE DEF kept, m
<1>4. n \in Message /\ n.role = m.role /\ n.id = m.id /\ n.tag = m.tag /\ n.calls = kept
  BY <1>1, <1>3 DEF Message
<1> HIDE DEF n
<1>5. CASE m.role /= "assistant" \/ Cardinality(Found(ms, i)) >= Len(m.calls)
  <2>1. RepairOne(ms, i) = <<m>> BY <1>5 DEF RepairOne, m
  <2>2. ASSUME Settled(ms, i) PROVE CallIds(m.calls) \subseteq Found(ms, i)
    <3>1. CASE CallIds(m.calls) \subseteq Found(ms, i) BY <3>1
    <3>2. CASE m.role /= "assistant" BY <2>2, <3>2 DEF Settled, m, NoCalls, CallIds
    <3>3. CASE m.role = "assistant" /\ Found(ms, i) \subseteq CallIds(m.calls)
      <4> DEFINE C == CallIds(m.calls)
                 F == Found(ms, i)
      <4>1. IsFiniteSet(C) /\ Cardinality(C) <= Len(m.calls) /\ Len(m.calls) \in Nat BY <1>2, CallIdsFinite
      <4>2. Cardinality(F) >= Len(m.calls) /\ F \in SUBSET C BY <1>5, <3>3
      <4> HIDE DEF C, F
      <4>3. IsFiniteSet(F) /\ Cardinality(F) <= Cardinality(C) /\ (Cardinality(C) = Cardinality(F) => C = F)
        BY <4>1, <4>2, FS_Subset
      <4>4. Cardinality(C) \in Nat /\ Cardinality(F) \in Nat BY <4>1, <4>3, FS_CardinalityType
      <4>5. C = F BY <4>1, <4>2, <4>3, <4>4
      <4> QED BY <4>5 DEF C, F
    <3> QED BY <2>2, <3>1, <3>2, <3>3 DEF Settled, m
  <2> QED BY <1>1, <2>1, <2>2 DEF m
<1>6. CASE m.role = "assistant" /\ ~ (Cardinality(Found(ms, i)) >= Len(m.calls)) /\ kept = NoCalls
  BY <1>6 DEF RepairOne, m, kept
<1>7. CASE m.role = "assistant" /\ ~ (Cardinality(Found(ms, i)) >= Len(m.calls)) /\ kept # NoCalls
  BY <1>7, <1>3, <1>4 DEF RepairOne, m, kept, n
<1> QED BY <1>5, <1>6, <1>7

\* Parts of at most one message each, of the role and id of the message they come from.
Parts(r, ms) ==
    /\ r = [i \in 1..Len(ms) |-> r[i]]
    /\ \A i \in 1..Len(ms) :
         r[i] = <<>> \/ \E m \in Message : r[i] = <<m>> /\ m.role = ms[i].role /\ m.id = ms[i].id

\* f embeds t, the parts put together.
Together(f, r, ms, t) ==
    /\ Embeds(f, t, ms)
    /\ \A k \in 1..Len(t) : r[f[k]] = <<t[k]>>
    /\ \A i \in 1..Len(ms) : r[i] # <<>> => \E k \in 1..Len(t) : f[k] = i

LEMMA PartsEmbed ==
    ASSUME NEW ms \in Seq(Message), NEW r, Parts(r, ms)
    PROVE  /\ FlattenSeq(r) \in Seq(Message)
           /\ \E f : Together(f, r, ms, FlattenSeq(r))
<1> DEFINE t == FlattenSeq(r)
<1>p. /\ r = [i \in 1..Len(ms) |-> r[i]] /\ DOMAIN r = 1..Len(ms)
      /\ \A i \in 1..Len(ms) :
         r[i] = <<>> \/ \E m \in Message : r[i] = <<m>> /\ m.role = ms[i].role /\ m.id = ms[i].id BY DEF Parts
<1>0. Len(ms) \in Nat OBVIOUS
<1>1. \A i \in 1..Len(ms) : r[i] \in Seq(Message) /\ Len(r[i]) <= 1
  <2> SUFFICES ASSUME NEW i \in 1..Len(ms) PROVE r[i] \in Seq(Message) /\ Len(r[i]) <= 1 OBVIOUS
  <2>1. CASE r[i] = <<>> BY <2>1
  <2>2. ASSUME NEW m \in Message, r[i] = <<m>> PROVE r[i] \in Seq(Message) /\ Len(r[i]) <= 1 BY <2>2
  <2> QED BY <1>p, <2>1, <2>2, Zenon
<1>2. r \in Seq(Seq(Message)) /\ Len(r) = Len(ms) BY <1>1, <1>p, <1>0
<1>3. t \in Seq(Message) BY <1>2, FlattenType
<1>4. \A i \in 1..Len(r) : Len(r[i]) <= 1 BY <1>1, <1>2
<1>5. PICK f : Selects(f, r, t) BY <1>2, <1>4, FlattenSelects
<1> HIDE DEF t
<1>6. /\ f \in [1..Len(t) -> 1..Len(ms)]
      /\ \A j, k \in 1..Len(t) : j < k => f[j] < f[k]
      /\ \A k \in 1..Len(t) : r[f[k]] = <<t[k]>>
      /\ \A i \in 1..Len(ms) : r[i] # <<>> => \E k \in 1..Len(t) : f[k] = i BY <1>2, <1>5 DEF Selects
<1>7. \A k \in 1..Len(t) : t[k].role = ms[f[k]].role /\ t[k].id = ms[f[k]].id
  <2> SUFFICES ASSUME NEW k \in 1..Len(t) PROVE t[k].role = ms[f[k]].role /\ t[k].id = ms[f[k]].id OBVIOUS
  <2>1. f[k] \in 1..Len(ms) /\ r[f[k]] = <<t[k]>> BY <1>6
  <2>2. <<t[k]>> # <<>> OBVIOUS
  <2>3. PICK m \in Message : r[f[k]] = <<m>> /\ m.role = ms[f[k]].role /\ m.id = ms[f[k]].id
    BY <1>p, <2>1, <2>2
  <2>4. m = t[k] BY <2>1, <2>3
  <2> QED BY <2>3, <2>4
<1>8. Together(f, r, ms, t) BY <1>6, <1>7 DEF Embeds, Together
<1> QED BY <1>3, <1>8 DEF t

\* After the repair every call has its result, and no other message is lost.
LEMMA RepairSettles ==
    ASSUME NEW ms \in Seq(Message), SettledChain(ms)
    PROVE  /\ Repair(ms) \in Seq(Message) /\ SettledChain(Repair(ms)) /\ ChainClosed(Repair(ms))
           /\ \A i \in 1..Len(ms) : ms[i].role = "user" => \E k \in 1..Len(Repair(ms)) : Repair(ms)[k] = ms[i]
<1> DEFINE r == [i \in 1..Len(ms) |-> RepairOne(ms, i)]
           t == Repair(ms)
<1>1. t = FlattenSeq(r) /\ DOMAIN r = 1..Len(ms) /\ (\A i \in 1..Len(ms) : r[i] = RepairOne(ms, i))
      /\ r = [i \in 1..Len(ms) |-> r[i]] BY DEF Repair
<1> HIDE DEF r
<1>2. ASSUME NEW i \in 1..Len(ms)
      PROVE  /\ ms[i].role /= "assistant" => r[i] = <<ms[i]>>
             /\ \/ r[i] = <<>>
                \/ \E m \in Message : /\ r[i] = <<m>> /\ m.role = ms[i].role /\ m.id = ms[i].id
                                      /\ ms[i].role /= "assistant" => m.calls = ms[i].calls
                                      /\ CallIds(m.calls) \subseteq Found(ms, i)
  BY <1>1, RepairOneDoes DEF SettledChain
<1>3. Parts(r, ms) BY <1>1, <1>2 DEF Parts
<1>4. t \in Seq(Message) BY <1>1, <1>3, PartsEmbed
<1>t. PICK f : Together(f, r, ms, t) BY <1>1, <1>3, PartsEmbed
<1> HIDE DEF t
<1>5. /\ Embeds(f, t, ms)
      /\ \A k \in 1..Len(t) : r[f[k]] = <<t[k]>>
      /\ \A i \in 1..Len(ms) : r[i] # <<>> => \E k \in 1..Len(t) : f[k] = i BY <1>t DEF Together
<1>6. ASSUME NEW k \in 1..Len(t)
      PROVE  /\ ms[f[k]].role /= "assistant" => t[k].calls = ms[f[k]].calls
             /\ CallIds(t[k].calls) \subseteq Found(ms, f[k])
  <2>1. f[k] \in 1..Len(ms) /\ r[f[k]] = <<t[k]>> BY <1>5 DEF Embeds
  <2>2. <<t[k]>> # <<>> OBVIOUS
  <2>3. PICK m \in Message : /\ r[f[k]] = <<m>>
                             /\ ms[f[k]].role /= "assistant" => m.calls = ms[f[k]].calls
                             /\ CallIds(m.calls) \subseteq Found(ms, f[k]) BY <1>2, <2>1, <2>2
  <2>4. m = t[k] BY <2>1, <2>3
  <2> QED BY <2>3, <2>4
<1>7. \A i \in 1..Len(ms) : ms[i].role /= "assistant" => \E k \in 1..Len(t) : f[k] = i /\ t[k] = ms[i]
  <2> SUFFICES ASSUME NEW i \in 1..Len(ms), ms[i].role /= "assistant"
               PROVE  \E k \in 1..Len(t) : f[k] = i /\ t[k] = ms[i] OBVIOUS
  <2>1. r[i] = <<ms[i]>> /\ <<ms[i]>> # <<>> BY <1>2
  <2>2. PICK k \in 1..Len(t) : f[k] = i BY <1>5, <2>1
  <2>3. <<t[k]>> = <<ms[i]>> BY <1>5, <2>1, <2>2
  <2>4. t[k] = ms[i] BY <2>3
  <2> QED BY <2>2, <2>4
<1>8. ASSUME NEW k \in 1..Len(t)
      PROVE  /\ CallIds(t[k].calls) \subseteq Found(t, k)
             /\ t[k].role /= "assistant" => t[k].calls = NoCalls
  <2>1. f[k] \in 1..Len(ms) /\ t[k].role = ms[f[k]].role BY <1>5 DEF Embeds
  <2>2. \A p \in 1..Len(ms) : p > f[k] /\ ms[p].role = "tool" /\ ms[p].id \notin {} => \E n \in 1..Len(t) : f[n] = p
    BY <1>7
  <2>3. Found(ms, f[k]) \ {} \subseteq Found(t, k) BY <1>4, <1>5, <2>2, EmbedFinds
  <2>4. Settled(ms, f[k]) BY <2>1 DEF SettledChain
  <2> QED BY <1>6, <2>1, <2>3, <2>4 DEF Settled
<1>9. DOMAIN t = 1..Len(t) BY <1>4
<1> QED BY <1>4, <1>7, <1>8, <1>9 DEF SettledChain, Settled, ChainClosed, t

\* What the filter leaves of one message.
Filtered(m, drop, x) ==
    \/ /\ x = <<>>
       /\ \/ m.role = "tool" /\ m.id \in drop
          \/ m.role = "assistant" /\ CallIds(m.calls) \subseteq drop
    \/ /\ ~ (m.role = "tool" /\ m.id \in drop)
       /\ \E n \in Message :
            /\ x = <<n>> /\ n.role = m.role /\ n.id = m.id
            /\ CallIds(n.calls) = CallIds(m.calls) \ drop
            /\ m.calls = NoCalls => n.calls = NoCalls
            /\ \A j \in DOMAIN n.calls : \E k \in DOMAIN m.calls : n.calls[j] = m.calls[k]

LEMMA FilterOneDoes ==
    ASSUME NEW m \in Message, NEW drop
    PROVE  Filtered(m, drop, FilterOne(m, drop))
<1> DEFINE kept == CallsWithout(m.calls, drop)
           n == [m EXCEPT !.calls = kept]
<1>1. m.calls \in Seq(Call) BY DEF Message
<1>2. /\ kept \in Seq(Call) /\ CallIds(kept) = CallIds(m.calls) \ drop
      /\ \A j \in DOMAIN kept : \E k \in DOMAIN m.calls : kept[j] = m.calls[k] BY <1>1, CallsWithoutIds
<1>3. m.calls = NoCalls => kept = NoCalls
  <2>1. CASE m.calls = <<>>
    <3>1. DOMAIN m.calls = {} BY <2>1
    <3>2. DOMAIN kept = {} BY <1>2, <3>1
    <3>3. kept = <<>> BY <1>2, <3>2
    <3> QED BY <3>3 DEF NoCalls
  <2> QED BY <2>1 DEF NoCalls
<1> HIDE DEF kept
<1>4. n \in Message /\ n.role = m.role /\ n.id = m.id /\ n.tag = m.tag /\ n.calls = kept BY <1>2 DEF Message
<1> HIDE DEF n
<1>5. CASE m.role = "tool" /\ m.id \in drop BY <1>5 DEF FilterOne, Filtered
<1>6. CASE m.role = "assistant" /\ m.calls /= NoCalls /\ kept = NoCalls /\ m.tag = ""
  <2>1. FilterOne(m, drop) = <<>> BY <1>6 DEF FilterOne, kept
  <2>2. CallIds(kept) = {}
    <3>1. CallIds(<<>>) = {} BY DEF CallIds
    <3> QED BY <1>6, <3>1 DEF NoCalls
  <2> QED BY <1>2, <1>6, <2>1, <2>2 DEF Filtered
<1>7. CASE /\ ~ (m.role = "tool" /\ m.id \in drop)
           /\ ~ (m.role = "assistant" /\ m.calls /= NoCalls /\ kept = NoCalls /\ m.tag = "")
  <2>1. FilterOne(m, drop) = <<n>> BY <1>7 DEF kept, n, FilterOne
  <2>2. \E p \in Message :
            /\ FilterOne(m, drop) = <<p>> /\ p.role = m.role /\ p.id = m.id
            /\ CallIds(p.calls) = CallIds(m.calls) \ drop
            /\ m.calls = NoCalls => p.calls = NoCalls
            /\ \A j \in DOMAIN p.calls : \E k \in DOMAIN m.calls : p.calls[j] = m.calls[k]
    BY <1>2, <1>3, <1>4, <2>1
  <2> QED BY <1>7, <2>2 DEF Filtered
<1> QED BY <1>5, <1>6, <1>7

\* The filtered chain, as a part of the chain.
Filters(f, ms, t) ==
    /\ Embeds(f, t, ms)
    /\ \A k \in 1..Len(t) :
         /\ ~ (t[k].role = "tool" /\ t[k].id \in KernelIds(ms))
         /\ CallIds(t[k].calls) = CallIds(ms[f[k]].calls) \ KernelIds(ms)
         /\ ms[f[k]].calls = NoCalls => t[k].calls = NoCalls
         /\ \A j \in DOMAIN t[k].calls : \E n \in DOMAIN ms[f[k]].calls : t[k].calls[j] = ms[f[k]].calls[n]
    /\ \A i \in 1..Len(ms) :
         \/ \E k \in 1..Len(t) : f[k] = i
         \/ ms[i].role = "tool" /\ ms[i].id \in KernelIds(ms)
         \/ ms[i].role = "assistant" /\ CallIds(ms[i].calls) \subseteq KernelIds(ms)

LEMMA FilterDoes ==
    ASSUME NEW ms \in Seq(Message)
    PROVE  Filter(ms) \in Seq(Message) /\ \E f : Filters(f, ms, Filter(ms))
<1> DEFINE drop == KernelIds(ms)
           r == [i \in 1..Len(ms) |-> FilterOne(ms[i], drop)]
           t == Filter(ms)
<1>1. t = FlattenSeq(r) /\ DOMAIN r = 1..Len(ms) /\ (\A i \in 1..Len(ms) : r[i] = FilterOne(ms[i], drop))
      /\ r = [i \in 1..Len(ms) |-> r[i]] BY DEF Filter
<1> HIDE DEF r, drop
<1>2. ASSUME NEW i \in 1..Len(ms) PROVE Filtered(ms[i], drop, r[i]) BY <1>1, FilterOneDoes
<1>3. Parts(r, ms) BY <1>1, <1>2 DEF Parts, Filtered
<1>4. t \in Seq(Message) BY <1>1, <1>3, PartsEmbed
<1>t. PICK f : Together(f, r, ms, t) BY <1>1, <1>3, PartsEmbed
<1> HIDE DEF t
<1>5. /\ Embeds(f, t, ms)
      /\ \A k \in 1..Len(t) : r[f[k]] = <<t[k]>>
      /\ \A i \in 1..Len(ms) : r[i] # <<>> => \E k \in 1..Len(t) : f[k] = i BY <1>t DEF Together
<1>6. ASSUME NEW k \in 1..Len(t)
      PROVE  /\ ~ (t[k].role = "tool" /\ t[k].id \in drop)
             /\ CallIds(t[k].calls) = CallIds(ms[f[k]].calls) \ drop
             /\ ms[f[k]].calls = NoCalls => t[k].calls = NoCalls
             /\ \A j \in DOMAIN t[k].calls : \E n \in DOMAIN ms[f[k]].calls : t[k].calls[j] = ms[f[k]].calls[n]
  <2>1. f[k] \in 1..Len(ms) /\ r[f[k]] = <<t[k]>> BY <1>5 DEF Embeds
  <2>2. r[f[k]] # <<>> BY <2>1
  <2>3. /\ ~ (ms[f[k]].role = "tool" /\ ms[f[k]].id \in drop)
        /\ \E n \in Message :
             /\ r[f[k]] = <<n>> /\ n.role = ms[f[k]].role /\ n.id = ms[f[k]].id
             /\ CallIds(n.calls) = CallIds(ms[f[k]].calls) \ drop
             /\ ms[f[k]].calls = NoCalls => n.calls = NoCalls
             /\ \A j \in DOMAIN n.calls : \E p \in DOMAIN ms[f[k]].calls : n.calls[j] = ms[f[k]].calls[p]
    BY <1>2, <2>1, <2>2 DEF Filtered
  <2>4. PICK n \in Message :
             /\ r[f[k]] = <<n>> /\ n.role = ms[f[k]].role /\ n.id = ms[f[k]].id
             /\ CallIds(n.calls) = CallIds(ms[f[k]].calls) \ drop
             /\ ms[f[k]].calls = NoCalls => n.calls = NoCalls
             /\ \A j \in DOMAIN n.calls : \E p \in DOMAIN ms[f[k]].calls : n.calls[j] = ms[f[k]].calls[p]
    BY <2>3
  <2>5. n = t[k] BY <2>1, <2>4
  <2> QED BY <2>3, <2>4, <2>5
<1>7. ASSUME NEW i \in 1..Len(ms)
      PROVE  \/ \E k \in 1..Len(t) : f[k] = i
             \/ ms[i].role = "tool" /\ ms[i].id \in drop
             \/ ms[i].role = "assistant" /\ CallIds(ms[i].calls) \subseteq drop
  <2>1. CASE r[i] = <<>>
    <3>1. \A n : <<n>> # <<>> OBVIOUS
    <3> QED BY <1>2, <2>1, <3>1 DEF Filtered
  <2>2. CASE r[i] # <<>> BY <1>5, <2>2
  <2> QED BY <2>1, <2>2
<1>8. Filters(f, ms, t) BY <1>5, <1>6, <1>7 DEF Filters, drop
<1> QED BY <1>4, <1>8 DEF t

-----------------------------------------------------------------------------
(* AgentTurn: the filter of introspection calls *)

\* The filter keeps a chain settled, and closed, and leaves no introspection in it.
LEMMA FilterSettles ==
    ASSUME NEW ms \in Seq(Message), SettledChain(ms)
    PROVE  Filter(ms) \in Seq(Message) /\ SettledChain(Filter(ms))
<1> DEFINE t == Filter(ms)
           drop == KernelIds(ms)
<1>1. t \in Seq(Message) BY FilterDoes
<1>2. PICK f : Filters(f, ms, t) BY FilterDoes
<1> HIDE DEF t, drop
<1>3. ASSUME NEW k \in 1..Len(t) PROVE Settled(t, k)
  <2>1. /\ Embeds(f, t, ms) /\ f[k] \in 1..Len(ms) /\ t[k].role = ms[f[k]].role
        /\ CallIds(t[k].calls) = CallIds(ms[f[k]].calls) \ drop
        /\ ms[f[k]].calls = NoCalls => t[k].calls = NoCalls BY <1>2 DEF Filters, Embeds, drop
  <2>2. Settled(ms, f[k]) BY <2>1 DEF SettledChain
  <2>3. Found(ms, f[k]) \ drop \subseteq Found(t, k) BY <1>2, <1>1, <2>1, EmbedFinds DEF Filters, drop
  <2>4. CASE CallIds(ms[f[k]].calls) \subseteq Found(ms, f[k]) BY <2>1, <2>2, <2>3, <2>4 DEF Settled
  <2>5. CASE Fenced(ms, f[k]) /\ Found(ms, f[k]) \subseteq CallIds(ms[f[k]].calls)
    <3>1. \A p \in 1..Len(ms) : p > f[k] /\ ms[p].role = "user" => \E n \in 1..Len(t) : f[n] = p
      BY <1>2 DEF Filters
    <3>2. Fenced(t, k) /\ Found(t, k) \subseteq Found(ms, f[k]) BY <1>1, <2>1, <2>5, <3>1, EmbedFence
    <3>3. ASSUME NEW x \in Found(t, k) PROVE x \notin drop
      <4>1. PICK n \in k+1..Len(t) : t[n].role = "tool" /\ t[n].id = x BY InFound
      <4>2. n \in 1..Len(t) BY <1>1
      <4> QED BY <1>2, <4>1, <4>2 DEF Filters, drop
    <3> QED BY <2>1, <2>2, <2>5, <3>2, <3>3 DEF Settled
  <2> QED BY <2>2, <2>4, <2>5 DEF Settled
<1> QED BY <1>1, <1>3 DEF SettledChain, t

LEMMA FilterKeeps ==
    ASSUME NEW ms \in Seq(Message), \A i \in 1..Len(ms) : ms[i].role /= "assistant" => ms[i].calls = NoCalls,
           ChainClosed(ms), ResultsFollow(ms)
    PROVE  ChainClosed(Filter(ms)) /\ ResultsFollow(Filter(ms)) /\ KernelIds(Filter(ms)) = {}
<1> DEFINE t == Filter(ms)
           drop == KernelIds(ms)
<1>1. t \in Seq(Message) BY FilterDoes
<1>2. PICK f : Filters(f, ms, t) BY FilterDoes
<1> HIDE DEF t, drop
<1>3. DOMAIN t = 1..Len(t) /\ DOMAIN ms = 1..Len(ms) /\ Len(t) \in Nat /\ Len(ms) \in Nat BY <1>1
<1>4. ASSUME NEW k \in 1..Len(t)
      PROVE  /\ f[k] \in 1..Len(ms) /\ t[k].role = ms[f[k]].role /\ t[k].id = ms[f[k]].id
             /\ CallIds(t[k].calls) = CallIds(ms[f[k]].calls) \ drop
             /\ Found(ms, f[k]) \ drop \subseteq Found(t, k)
  BY <1>2, <1>1, EmbedFinds DEF Filters, Embeds, drop
<1>5. ChainClosed(t)
  <2> SUFFICES ASSUME NEW k \in 1..Len(t) PROVE CallIds(t[k].calls) \subseteq Found(t, k)
    BY <1>3 DEF ChainClosed
  <2>1. CallIds(ms[f[k]].calls) \subseteq Found(ms, f[k]) BY <1>3, <1>4 DEF ChainClosed
  <2> QED BY <1>4, <2>1
<1>6. ResultsFollow(t)
  <2> SUFFICES ASSUME NEW j \in 1..Len(t), t[j].role = "tool"
               PROVE  \E i \in 1..j-1 : t[j].id \in CallIds(t[i].calls) \cap Found(t, i)
    BY <1>3 DEF ResultsFollow
  <2> DEFINE x == t[j].id
  <2>1. f[j] \in 1..Len(ms) /\ ms[f[j]].role = "tool" /\ ms[f[j]].id = x /\ x \notin drop
    BY <1>2, <1>4 DEF Filters, drop
  <2> HIDE DEF x
  <2>2. PICK i \in 1..f[j]-1 : x \in CallIds(ms[i].calls) \cap Found(ms, i) BY <1>3, <2>1 DEF ResultsFollow
  <2>3. i \in 1..Len(ms) /\ i < f[j] BY <1>3, <2>1
  <2>4. ms[i].role = "assistant" BY <2>2, <2>3 DEF CallIds, NoCalls
  <2>5. PICK k \in 1..Len(t) : f[k] = i BY <1>2, <2>1, <2>2, <2>3, <2>4 DEF Filters, drop
  <2>6. k < j BY <1>1, <1>2, <2>3, <2>5, EmbedOrder DEF Filters
  <2>7. x \in CallIds(t[k].calls) \cap Found(t, k) BY <1>4, <2>1, <2>2, <2>5
  <2>8. k \in 1..j-1 BY <1>3, <2>6
  <2> QED BY <2>7, <2>8 DEF x
<1>7. KernelIds(t) = {}
  <2>1. ASSUME NEW k \in 1..Len(t), NEW n \in DOMAIN t[k].calls, t[k].calls[n].kind = "kernel" PROVE FALSE
    <3>1. f[k] \in 1..Len(ms) /\ CallIds(t[k].calls) = CallIds(ms[f[k]].calls) \ drop BY <1>4
    <3>2. PICK p \in DOMAIN ms[f[k]].calls : t[k].calls[n] = ms[f[k]].calls[p] BY <1>2 DEF Filters
    <3>3. ms[f[k]].calls[p].id \in drop
      <4>1. f[k] \in DOMAIN ms /\ ms[f[k]].calls[p].kind = "kernel" BY <1>3, <2>1, <3>1, <3>2
      <4> QED BY <4>1 DEF KernelIds, drop
    <3>4. t[k].calls[n].id \in CallIds(t[k].calls) BY DEF CallIds
    <3> QED BY <3>1, <3>2, <3>3, <3>4
  <2> QED BY <1>3, <2>1 DEF KernelIds
<1> QED BY <1>5, <1>6, <1>7 DEF t

\* The token count of a concatenation, and of a suffix.
TextAt(ms) == {i \in 1..Len(ms) : ms[i].tag /= ""}
LEMMA TokensFinite ==
    ASSUME NEW ms \in Seq(Message)
    PROVE  Tokens(ms) = Cardinality(TextAt(ms)) /\ IsFiniteSet(TextAt(ms)) /\ Tokens(ms) \in Nat
<1>1. DOMAIN ms = 1..Len(ms) /\ Len(ms) \in Nat OBVIOUS
<1>2. IsFiniteSet(1..Len(ms)) /\ TextAt(ms) \in SUBSET (1..Len(ms))
  <2>1. IsFiniteSet(1..Len(ms)) BY <1>1, FS_Interval
  <2>2. TextAt(ms) \subseteq 1..Len(ms) BY DEF TextAt
  <2> QED BY <2>1, <2>2
<1>3. IsFiniteSet(TextAt(ms)) BY <1>2, FS_Subset
<1>4. Cardinality(TextAt(ms)) \in Nat BY <1>3, FS_CardinalityType
<1>5. Tokens(ms) = Cardinality(TextAt(ms)) BY <1>1 DEF Tokens, TextAt
<1> QED BY <1>3, <1>4, <1>5

LEMMA TokensConcat ==
    ASSUME NEW s \in Seq(Message), NEW t \in Seq(Message)
    PROVE  Tokens(s \o t) <= Tokens(s) + Tokens(t)
<1> DEFINE c == s \o t
           d == Len(s)
           A == TextAt(s)
           B == TextAt(t)
           C == {d + j : j \in B}
           g == [j \in B |-> d + j]
<1>1. /\ c \in Seq(Message) /\ Len(c) = d + Len(t) /\ d \in Nat /\ Len(t) \in Nat
      /\ \A i \in 1..d + Len(t) : c[i] = IF i <= d THEN s[i] ELSE t[i - d] BY ConcatProperties
<1> HIDE DEF c
<1>2. /\ Tokens(s) = Cardinality(A) /\ IsFiniteSet(A) /\ Tokens(s) \in Nat
      /\ Tokens(t) = Cardinality(B) /\ IsFiniteSet(B) /\ Tokens(t) \in Nat
      /\ Tokens(c) = Cardinality(TextAt(c)) /\ IsFiniteSet(TextAt(c)) /\ Tokens(c) \in Nat
  BY <1>1, TokensFinite
<1>3. g \in Surjection(B, C) BY DEF Surjection
<1>4. IsFiniteSet(C) /\ Cardinality(C) <= Cardinality(B)
  <2> HIDE DEF g, C, B
  <2> QED BY <1>2, <1>3, FS_Surjection
<1>a. \A k \in 1..Len(c) : k \in 1..Len(s) \/ k - d \in 1..Len(t) BY <1>1
<1>d. \A k \in 1..Len(c) : d + (k - d) = k BY <1>1
<1>b. \A k \in 1..Len(s) : c[k] = s[k] BY <1>1
<1>c. \A k \in 1..Len(t) : c[d + k] = t[k] BY <1>1
<1>5. TextAt(c) \subseteq A \cup C
  <2> SUFFICES ASSUME NEW i \in 1..Len(c), c[i].tag /= "" PROVE i \in A \/ i \in C BY DEF TextAt
  <2>1. CASE i \in 1..Len(s) BY <1>b, <2>1 DEF TextAt
  <2>2. CASE i - d \in 1..Len(t)
    <3>1. d + (i - d) = i BY <1>d
    <3>2. c[i] = t[i - d]
      <4>1. ASSUME NEW n \in 1..Len(t), d + n = i PROVE c[i] = t[n] BY <1>c, <4>1
      <4> QED BY <2>2, <3>1, <4>1
    <3>3. i - d \in B BY <2>2, <3>2 DEF TextAt
    <3> QED BY <3>1, <3>3
  <2> QED BY <1>a, <2>1, <2>2
<1> HIDE DEF A, B, C, g
<1>6. IsFiniteSet(A \cup C) /\ Cardinality(A \cup C) = Cardinality(A) + Cardinality(C) - Cardinality(A \cap C)
  BY <1>2, <1>4, FS_Union
<1>7. Cardinality(A \cap C) \in Nat /\ Cardinality(C) \in Nat /\ Cardinality(A \cup C) \in Nat
  BY <1>2, FS_Subset, <1>4, <1>6, FS_CardinalityType
<1>8. Cardinality(TextAt(c)) <= Cardinality(A \cup C) BY <1>5, <1>6, FS_Subset
<1> QED BY <1>2, <1>4, <1>6, <1>7, <1>8 DEF c

LEMMA TokensSuffix ==
    ASSUME NEW s \in Seq(Message), NEW d \in Nat, d <= Len(s)
    PROVE  Tokens(SubSeq(s, d + 1, Len(s))) <= Tokens(s)
<1> DEFINE c == SubSeq(s, d + 1, Len(s))
           g == [i \in TextAt(c) |-> d + i]
<1>0. Len(s) \in Nat OBVIOUS
<1>1. /\ c \in Seq(Message) /\ Len(c) = Len(s) - d
      /\ \A i \in 1..Len(s) - d : c[i] = s[d + i] BY SuffixOf
<1> HIDE DEF c
<1>2. /\ Tokens(s) = Cardinality(TextAt(s)) /\ IsFiniteSet(TextAt(s))
      /\ Tokens(c) = Cardinality(TextAt(c)) /\ IsFiniteSet(TextAt(c)) BY <1>1, TokensFinite
<1>3. g \in Injection(TextAt(c), TextAt(s))
  <2>1. \A i \in TextAt(c) : d + i \in TextAt(s) /\ i \in Int
    <3>1. \A i \in 1..Len(c) : d + i \in 1..Len(s) /\ i \in Int /\ c[i] = s[d + i] BY <1>0, <1>1
    <3> QED BY <3>1 DEF TextAt
  <2> QED BY <2>1 DEF Injection, IsInjective
<1> HIDE DEF g
<1> QED BY <1>2, <1>3, FS_Injection DEF c

-----------------------------------------------------------------------------
(* AgentTurn: calls that are being run *)

\* Messages of users.
FromUsers(us) == us \in Seq(Message) /\ \A i \in 1..Len(us) : us[i].role = "user" /\ us[i].calls = NoCalls

\* Message a asked for calls, of which cs are still to run.
OpenAt(ms, cs, a) ==
    /\ ms[a].role = "assistant"
    /\ \A n \in a+1..Len(ms) : ms[n].role /= "assistant"
    /\ Found(ms, a) \subseteq CallIds(ms[a].calls) /\ CallIds(cs) \subseteq CallIds(ms[a].calls)
    /\ Fenced(ms, a) \/ CallIds(ms[a].calls) \subseteq Found(ms, a) \cup CallIds(cs)
Opened(ms, cs) ==
    \E a \in 1..Len(ms) : OpenAt(ms, cs, a) /\ \A i \in 1..Len(ms) : i # a => Settled(ms, i)

LEMMA RecordTypes ==
    ASSUME NEW m, NEW r \in Role, NEW x \in Tag, NEW cs \in Seq(Call), NEW n \in Nat,
           m = [role |-> r, tag |-> x, calls |-> cs, id |-> n]
    PROVE  m \in Message /\ m.role = r /\ m.tag = x /\ m.calls = cs /\ m.id = n
BY DEF Message

LEMMA MessageTypes ==
    /\ \A r \in Role, x \in Tag :
         /\ Msg(r, x) \in Message /\ Msg(r, x).role = r /\ Msg(r, x).calls = NoCalls
         /\ Msg(r, x).tag = x /\ Msg(r, x).id = 0
    /\ \A cs \in Seq(Call), x \in Tag :
         /\ Asks(cs, x) \in Message /\ Asks(cs, x).role = "assistant" /\ Asks(cs, x).calls = cs
         /\ Asks(cs, x).tag = x
    /\ \A c \in Call :
         /\ Answers(c) \in Message /\ Answers(c).role = "tool" /\ Answers(c).id = c.id
         /\ Answers(c).calls = NoCalls /\ Answers(c).tag = "result"
<1>1. NoCalls \in Seq(Call) BY DEF NoCalls
<1>2. ASSUME NEW r \in Role, NEW x \in Tag
      PROVE  /\ Msg(r, x) \in Message /\ Msg(r, x).role = r /\ Msg(r, x).calls = NoCalls
             /\ Msg(r, x).tag = x /\ Msg(r, x).id = 0 BY <1>1 DEF Msg, Message
<1>3. ASSUME NEW cs \in Seq(Call), NEW x \in Tag
      PROVE  /\ Asks(cs, x) \in Message /\ Asks(cs, x).role = "assistant" /\ Asks(cs, x).calls = cs
             /\ Asks(cs, x).tag = x
  <2> DEFINE m == Msg("assistant", x)
  <2>1. m = [role |-> "assistant", tag |-> x, calls |-> NoCalls, id |-> 0] BY DEF Msg
  <2>2. Asks(cs, x) = [m EXCEPT !.calls = cs] BY DEF Asks
  <2> HIDE DEF m
  <2>3. Asks(cs, x) = [role |-> "assistant", tag |-> x, calls |-> cs, id |-> 0] BY <2>1, <2>2
  <2>4. "assistant" \in Role /\ 0 \in Nat BY DEF Role
  <2> QED BY <2>3, <2>4, RecordTypes
<1>4. ASSUME NEW c \in Call
      PROVE  /\ Answers(c) \in Message /\ Answers(c).role = "tool" /\ Answers(c).id = c.id
             /\ Answers(c).calls = NoCalls /\ Answers(c).tag = "result"
  <2> DEFINE m == Msg("tool", "result")
  <2>1. m = [role |-> "tool", tag |-> "result", calls |-> NoCalls, id |-> 0] BY DEF Msg
  <2>2. Answers(c) = [m EXCEPT !.id = c.id] BY DEF Answers
  <2> HIDE DEF m
  <2>3. Answers(c) = [role |-> "tool", tag |-> "result", calls |-> NoCalls, id |-> c.id] BY <2>1, <2>2
  <2>4. c.id \in Nat BY DEF Call
  <2>5. "tool" \in Role /\ "result" \in Tag BY DEF Role, Tag
  <2> QED BY <1>1, <2>3, <2>4, <2>5, RecordTypes
<1> QED BY <1>2, <1>3, <1>4

LEMMA CallIdsEmpty == CallIds(NoCalls) = {}
BY DEF CallIds, NoCalls

LEMMA SettledWithout ==
    ASSUME NEW ms, NEW i, ms[i].calls = NoCalls
    PROVE  Settled(ms, i)
BY CallIdsEmpty DEF Settled

\* The assistant's message with its calls, and a note for each call that cannot be run.
LEMMA OpenBegins ==
    ASSUME NEW ms \in Seq(Message), SettledChain(ms), NEW m \in Message, m.role = "assistant",
           NEW us, FromUsers(us)
    PROVE  (ms \o <<m>>) \o us \in Seq(Message) /\ Opened((ms \o <<m>>) \o us, m.calls)
<1> DEFINE t == (ms \o <<m>>) \o us
           a == Len(ms) + 1
<1>0. us \in Seq(Message) /\ Len(us) \in Nat /\ Len(ms) \in Nat BY DEF FromUsers
<1>1. /\ ms \o <<m>> \in Seq(Message) /\ Len(ms \o <<m>>) = a
      /\ (\A k \in 1..Len(ms) : (ms \o <<m>>)[k] = ms[k]) /\ (ms \o <<m>>)[a] = m BY ConcatProperties, <1>0
<1> DEFINE h == ms \o <<m>>
<1>2. /\ t \in Seq(Message) /\ Len(t) = a + Len(us)
      /\ \A i \in 1..a + Len(us) : t[i] = IF i <= a THEN h[i] ELSE us[i - a]
  <2> HIDE DEF h
  <2>1. h \in Seq(Message) /\ Len(h) = a /\ t = h \o us BY <1>1 DEF h
  <2>2. /\ h \o us \in Seq(Message) /\ Len(h \o us) = Len(h) + Len(us)
        /\ \A i \in 1..Len(h) + Len(us) : (h \o us)[i] = IF i <= Len(h) THEN h[i] ELSE us[i - Len(h)]
    BY <1>0, <2>1, ConcatProperties
  <2> HIDE DEF t, a
  <2> QED BY <2>1, <2>2
<1>3. /\ \A k \in 1..Len(ms) : t[k] = ms[k]
      /\ t[a] = m
      /\ \A n \in a+1..Len(t) : t[n].role = "user" /\ t[n].calls = NoCalls
  <2> HIDE DEF h, t
  <2>1. \A k \in 1..Len(ms) : k \in 1..a + Len(us) /\ k <= a BY <1>0
  <2>2. a \in 1..a + Len(us) /\ a <= a BY <1>0
  <2>3. ASSUME NEW n \in a+1..Len(t) PROVE t[n].role = "user" /\ t[n].calls = NoCalls
    BY <1>0, <1>2 DEF FromUsers
  <2> QED BY <1>1, <1>2, <2>1, <2>2, <2>3 DEF h
<1> HIDE DEF t, h
<1>4. a \in 1..Len(t) /\ Len(t) \in Nat /\ Len(ms) <= Len(t) /\ a \in Nat BY <1>0, <1>2
<1>5. Found(t, a) = {}
  <2> SUFFICES ASSUME NEW x \in Found(t, a) PROVE FALSE OBVIOUS
  <2> HIDE DEF a
  <2>1. PICK k \in a+1..Len(t) : t[k].role = "tool" BY InFound
  <2> QED BY <1>3, <2>1
<1>6. OpenAt(t, m.calls, a) BY <1>3, <1>5 DEF OpenAt
<1>7. ASSUME NEW i \in 1..Len(t), i # a PROVE Settled(t, i)
  <2>1. CASE i \in 1..Len(ms) BY <1>2, <1>3, <1>4, <2>1, SettledPrefix DEF SettledChain
  <2>2. CASE i \in a+1..Len(t) BY <1>3, <2>2, SettledWithout
  <2> QED BY <1>0, <1>4, <1>7, <2>1, <2>2
<1> QED BY <1>2, <1>4, <1>6, <1>7 DEF Opened, t

\* One more message at the end.
LEMMA AddOne ==
    ASSUME NEW ms \in Seq(Message), NEW m \in Message
    PROVE  /\ ms \o <<m>> \in Seq(Message) /\ Len(ms \o <<m>>) = Len(ms) + 1
           /\ (\A k \in 1..Len(ms) : (ms \o <<m>>)[k] = ms[k]) /\ (ms \o <<m>>)[Len(ms) + 1] = m
<1>0. Len(ms) \in Nat OBVIOUS
<1>1. <<m>> \in Seq(Message) /\ Len(<<m>>) = 1 /\ <<m>>[1] = m OBVIOUS
<1>2. /\ ms \o <<m>> \in Seq(Message) /\ Len(ms \o <<m>>) = Len(ms) + Len(<<m>>)
      /\ \A i \in 1..Len(ms) + Len(<<m>>) : (ms \o <<m>>)[i] = IF i <= Len(ms) THEN ms[i] ELSE <<m>>[i - Len(ms)]
  BY <1>1, ConcatProperties
<1>3. Len(ms) + 1 \in 1..Len(ms) + 1 /\ ~ (Len(ms) + 1 <= Len(ms)) /\ (Len(ms) + 1) - Len(ms) = 1 BY <1>0
<1>4. \A k \in 1..Len(ms) : k \in 1..Len(ms) + 1 /\ k <= Len(ms) BY <1>0
<1> QED BY <1>1, <1>2, <1>3, <1>4

\* Without a fence nothing but results follows the open message.
LEMMA OpenTail ==
    ASSUME NEW ms \in Seq(Message), NEW cs, NEW a \in 1..Len(ms), OpenAt(ms, cs, a), ~ Fenced(ms, a)
    PROVE  \A n \in a+1..Len(ms) : ms[n].role \notin {"user", "assistant"}
<1> SUFFICES ASSUME NEW n \in a+1..Len(ms), ms[n].role = "user" PROVE FALSE BY DEF OpenAt
<1>1. \A k \in a+1..n-1 : k \in a+1..Len(ms) OBVIOUS
<1> QED BY <1>1 DEF OpenAt, Fenced

\* The result of the next call.
LEMMA OpenAnswers ==
    ASSUME NEW ms \in Seq(Message), NEW cs \in Seq(Call), cs # <<>>, Opened(ms, cs)
    PROVE  ms \o <<Answers(Head(cs))>> \in Seq(Message) /\ Opened(ms \o <<Answers(Head(cs))>>, Tail(cs))
<1> DEFINE c == Head(cs)
           t == ms \o <<Answers(c)>>
           p == Len(ms) + 1
<1>1. c \in Call /\ CallIds(cs) = {c.id} \cup CallIds(Tail(cs)) /\ Tail(cs) \in Seq(Call)
  <2>1. c \in Call /\ Tail(cs) \in Seq(Call) /\ Len(Tail(cs)) = Len(cs) - 1 /\ c = cs[1]
        /\ \A i \in 1..Len(Tail(cs)) : Tail(cs)[i] = cs[i + 1] BY HeadTailProperties
  <2>2. Len(cs) \in Nat \ {0} /\ DOMAIN cs = 1..Len(cs) /\ DOMAIN Tail(cs) = 1..Len(Tail(cs))
    BY <2>1, EmptySeq
  <2> HIDE DEF c
  <2> DEFINE u == Tail(cs)
  <2> HIDE DEF u
  <2>3. /\ Len(u) = Len(cs) - 1 /\ DOMAIN u = 1..Len(u)
        /\ \A i \in 1..Len(u) : u[i] = cs[i + 1] BY <2>1, <2>2 DEF u
  <2>4. \A k \in 1..Len(cs) : k = 1 \/ (k - 1 \in 1..Len(u) /\ (k - 1) + 1 = k) BY <2>2, <2>3
  <2>5. 1 \in 1..Len(cs) /\ \A i \in 1..Len(u) : i + 1 \in 1..Len(cs) BY <2>2, <2>3
  <2>6. ASSUME NEW x \in CallIds(cs) PROVE x = c.id \/ x \in CallIds(u)
    <3>1. PICK k \in 1..Len(cs) : x = cs[k].id BY <2>2 DEF CallIds
    <3>2. CASE k = 1 BY <2>1, <3>1, <3>2
    <3>3. CASE k - 1 \in 1..Len(u) /\ (k - 1) + 1 = k
      <4>1. PICK i \in 1..Len(u) : i + 1 = k BY <3>3
      <4>2. u[i] = cs[k] BY <2>3, <4>1
      <4> QED BY <2>3, <3>1, <4>2 DEF CallIds
    <3> QED BY <2>4, <3>2, <3>3
  <2>7. c.id \in CallIds(cs) BY <2>1, <2>2, <2>5 DEF CallIds
  <2>8. ASSUME NEW x \in CallIds(u) PROVE x \in CallIds(cs)
    <3>1. PICK i \in 1..Len(u) : x = u[i].id BY <2>3 DEF CallIds
    <3> QED BY <2>2, <2>3, <2>5, <3>1 DEF CallIds
  <2> QED BY <2>1, <2>6, <2>7, <2>8 DEF u
<1> HIDE DEF c
<1>2. /\ Answers(c) \in Message /\ Answers(c).role = "tool" /\ Answers(c).id = c.id
      /\ Answers(c).calls = NoCalls BY <1>1, MessageTypes
<1>3. /\ t \in Seq(Message) /\ Len(t) = p /\ (\A k \in 1..Len(ms) : t[k] = ms[k]) /\ t[p] = Answers(c)
  BY <1>2, AddOne
<1> HIDE DEF t
<1>4. PICK a \in 1..Len(ms) : OpenAt(ms, cs, a) /\ \A i \in 1..Len(ms) : i # a => Settled(ms, i) BY DEF Opened
<1>5. Len(ms) \in Nat /\ Len(ms) <= Len(t) /\ a \in Nat /\ p \in Nat /\ a \in 1..Len(t) /\ t[a] = ms[a]
  BY <1>3
<1>6. /\ Found(ms, a) \subseteq Found(t, a)
      /\ Fenced(ms, a) => Fenced(t, a) /\ Found(t, a) = Found(ms, a) BY <1>3, <1>5, FencePrefix
<1>7. \A n \in a+1..Len(t) : t[n].role /= "assistant"
  <2> SUFFICES ASSUME NEW n \in a+1..Len(t) PROVE t[n].role /= "assistant" OBVIOUS
  <2>1. CASE n = p BY <1>2, <1>3, <2>1
  <2>2. CASE n # p
    <3>1. n \in a+1..Len(ms) /\ n \in 1..Len(ms) BY <1>3, <1>5, <2>2
    <3> QED BY <1>3, <1>4, <3>1 DEF OpenAt
  <2> QED BY <2>1, <2>2
<1>8. OpenAt(t, Tail(cs), a)
  <2>1. CASE Fenced(ms, a) BY <1>1, <1>4, <1>5, <1>6, <1>7, <2>1 DEF OpenAt
  <2>2. CASE ~ Fenced(ms, a)
    <3>1. \A n \in a+1..Len(ms) : ms[n].role \notin {"user", "assistant"} BY <1>4, <2>2, OpenTail
    <3>2. c.id \in Found(t, a)
      <4>1. p \in a+1..Len(t) /\ \A n \in a+1..p-1 : n \in a+1..Len(ms) /\ n \in 1..Len(ms) BY <1>3, <1>5
      <4>2. t[p].role = "tool" /\ t[p].id = c.id /\ \A n \in a+1..p-1 : t[n].role \notin {"user", "assistant"}
        BY <1>2, <1>3, <3>1, <4>1
      <4> HIDE DEF p
      <4> QED BY <4>1, <4>2, InFound
    <3>3. ASSUME NEW x \in Found(t, a) PROVE x \in Found(ms, a) \/ x = c.id
      <4>1. PICK k \in a+1..Len(t) : /\ t[k].role = "tool" /\ t[k].id = x
                                     /\ \A n \in a+1..k-1 : t[n].role \notin {"user", "assistant"} BY InFound
      <4>2. CASE k = p BY <1>2, <1>3, <4>1, <4>2
      <4>3. CASE k # p
        <5>1. k \in a+1..Len(ms) /\ k \in 1..Len(ms) /\ \A n \in a+1..k-1 : n \in 1..Len(ms)
          BY <1>3, <1>5, <4>3
        <5>2. ms[k].role = "tool" /\ ms[k].id = x /\ \A n \in a+1..k-1 : ms[n].role \notin {"user", "assistant"}
          BY <1>3, <4>1, <5>1
        <5> QED BY <5>1, <5>2, InFound
      <4> QED BY <4>2, <4>3
    <3>4. Found(t, a) \subseteq CallIds(t[a].calls) /\ CallIds(Tail(cs)) \subseteq CallIds(t[a].calls)
      BY <1>1, <1>4, <1>5, <3>3 DEF OpenAt
    <3>5. CallIds(t[a].calls) \subseteq Found(t, a) \cup CallIds(Tail(cs))
      BY <1>1, <1>4, <1>5, <1>6, <2>2, <3>2 DEF OpenAt
    <3> QED BY <1>4, <1>5, <1>7, <3>4, <3>5 DEF OpenAt
  <2> QED BY <2>1, <2>2
<1>9. ASSUME NEW i \in 1..Len(t), i # a PROVE Settled(t, i)
  <2>1. CASE i \in 1..Len(ms) BY <1>3, <1>4, <1>5, <1>9, <2>1, SettledPrefix
  <2>2. CASE i = p BY <1>2, <1>3, <2>2, SettledWithout
  <2> QED BY <1>3, <1>5, <2>1, <2>2, SMTT(30)
<1> QED BY <1>3, <1>5, <1>8, <1>9 DEF Opened, t, c

\* Messages of users while calls are still to run.
LEMMA OpenHears ==
    ASSUME NEW ms \in Seq(Message), NEW cs, Opened(ms, cs), NEW us, FromUsers(us)
    PROVE  ms \o us \in Seq(Message) /\ Opened(ms \o us, cs)
<1> DEFINE t == ms \o us
<1>0. us \in Seq(Message) /\ Len(us) \in Nat /\ Len(ms) \in Nat BY DEF FromUsers
<1>1. /\ t \in Seq(Message) /\ Len(t) = Len(ms) + Len(us)
      /\ \A i \in 1..Len(ms) + Len(us) : t[i] = IF i <= Len(ms) THEN ms[i] ELSE us[i - Len(ms)]
  BY <1>0, ConcatProperties
<1> HIDE DEF t
<1>2. \A k \in 1..Len(ms) : t[k] = ms[k] BY <1>0, <1>1
<1>3. \A n \in Len(ms)+1..Len(t) : t[n].role = "user" /\ t[n].calls = NoCalls
  <2> SUFFICES ASSUME NEW n \in Len(ms)+1..Len(t) PROVE t[n].role = "user" /\ t[n].calls = NoCalls OBVIOUS
  <2>1. n \in 1..Len(ms) + Len(us) /\ ~ (n <= Len(ms)) /\ n - Len(ms) \in 1..Len(us) BY <1>0, <1>1
  <2>2. t[n] = us[n - Len(ms)] BY <1>1, <2>1
  <2> QED BY <2>1, <2>2 DEF FromUsers
<1>4. PICK a \in 1..Len(ms) : OpenAt(ms, cs, a) /\ \A i \in 1..Len(ms) : i # a => Settled(ms, i) BY DEF Opened
<1>5. Len(ms) <= Len(t) /\ a \in Nat /\ a \in 1..Len(t) /\ t[a] = ms[a] /\ Len(t) \in Nat BY <1>0, <1>1, <1>2
<1>6. /\ Found(ms, a) \subseteq Found(t, a)
      /\ Fenced(ms, a) => Fenced(t, a) /\ Found(t, a) = Found(ms, a) BY <1>1, <1>2, <1>5, FencePrefix
<1>7. \A n \in 1..Len(t) : n \in 1..Len(ms) \/ n \in Len(ms)+1..Len(t) BY <1>0, <1>5
<1>8. \A n \in a+1..Len(t) : t[n].role /= "assistant"
  <2> SUFFICES ASSUME NEW n \in a+1..Len(t) PROVE t[n].role /= "assistant" OBVIOUS
  <2>1. CASE n \in Len(ms)+1..Len(t) BY <1>3, <2>1
  <2>2. CASE n \in 1..Len(ms) BY <2>2, <1>2, <1>4 DEF OpenAt
  <2> QED BY <1>5, <1>7, <2>1, <2>2
<1>9. Found(t, a) \subseteq Found(ms, a)
  <2> SUFFICES ASSUME NEW x \in Found(t, a) PROVE x \in Found(ms, a) OBVIOUS
  <2>1. PICK k \in a+1..Len(t) : /\ t[k].role = "tool" /\ t[k].id = x
                                 /\ \A n \in a+1..k-1 : t[n].role \notin {"user", "assistant"} BY InFound
  <2>2. k \notin Len(ms)+1..Len(t) BY <1>3, <2>1
  <2>3. k \in a+1..Len(ms) /\ k \in 1..Len(ms) /\ \A n \in a+1..k-1 : n \in 1..Len(ms) BY <1>0, <1>5, <2>2
  <2>4. ms[k].role = "tool" /\ ms[k].id = x /\ \A n \in a+1..k-1 : ms[n].role \notin {"user", "assistant"}
    BY <1>2, <2>1, <2>3
  <2> QED BY <2>3, <2>4, InFound
<1>10. OpenAt(t, cs, a) BY <1>4, <1>5, <1>6, <1>8, <1>9 DEF OpenAt
<1>11. ASSUME NEW i \in 1..Len(t), i # a PROVE Settled(t, i)
  <2>1. CASE i \in 1..Len(ms) BY <1>1, <1>2, <1>4, <1>5, <1>11, <2>1, SettledPrefix
  <2>2. CASE i \in Len(ms)+1..Len(t) BY <1>3, <2>2, SettledWithout
  <2> QED BY <1>7, <2>1, <2>2
<1> QED BY <1>1, <1>5, <1>10, <1>11 DEF Opened, t

\* When no call is left the chain is settled.
LEMMA OpenDone ==
    ASSUME NEW ms \in Seq(Message), Opened(ms, <<>>)
    PROVE  SettledChain(ms)
<1>1. PICK a \in 1..Len(ms) : OpenAt(ms, <<>>, a) /\ \A i \in 1..Len(ms) : i # a => Settled(ms, i)
  BY DEF Opened
<1>2. CallIds(<<>>) = {} BY CallIdsEmpty DEF NoCalls
<1>3. Settled(ms, a) BY <1>1, <1>2 DEF OpenAt, Settled
<1> QED BY <1>1, <1>3 DEF SettledChain

LEMMA OpenPlain ==
    ASSUME NEW ms \in Seq(Message), NEW cs, Opened(ms, cs)
    PROVE  \A i \in 1..Len(ms) : ms[i].role /= "assistant" => ms[i].calls = NoCalls
BY DEF Opened, OpenAt, Settled

-----------------------------------------------------------------------------
(* AgentTurn: fresh ids, tokens and suffixes *)

\* A list of numbers has a bound.
LEMMA BoundedNumbers ==
    ASSUME NEW s \in Seq(Nat)
    PROVE  \E b \in Nat : \A i \in 1..Len(s) : s[i] <= b
<1> DEFINE P == {n \in Nat : \A t \in Seq(Nat) : Len(t) = n => \E b \in Nat : \A i \in 1..Len(t) : t[i] <= b}
<1>1. 0 \in P OBVIOUS
<1>2. ASSUME NEW n \in Nat, n \in P PROVE n + 1 \in P
  <2> SUFFICES ASSUME NEW t \in Seq(Nat), Len(t) = n + 1
               PROVE  \E b \in Nat : \A i \in 1..Len(t) : t[i] <= b OBVIOUS
  <2>1. Len(t) # 0 OBVIOUS
  <2>2. PICK r \in Seq(Nat), x \in Nat : t = Append(r, x) /\ Len(r) = Len(t) - 1 BY <2>1, EndsWithLast, Zenon
  <2>3. Len(r) = n /\ (\A i \in 1..n : t[i] = r[i]) /\ t[n + 1] = x BY <2>2, AppendProperties
  <2>4. PICK b \in Nat : \A i \in 1..n : r[i] <= b BY <1>2, <2>3
  <2>5. \A i \in 1..n : r[i] \in Nat BY <2>3
  <2>6. \A i \in 1..n + 1 : i \in 1..n \/ i = n + 1 OBVIOUS
  <2>7. b + x \in Nat /\ \A i \in 1..n + 1 : t[i] <= b + x BY <2>3, <2>4, <2>5, <2>6
  <2> QED BY <2>7
<1> HIDE DEF P
<1>3. Nat \subseteq P BY <1>1, <1>2, SetInduction
<1>4. Len(s) \in P BY <1>3
<1> USE DEF P
<1> QED BY <1>4

\* The ids of a request have a bound, so there is a fresh one.
IdsBelow(m, b) == m.id <= b /\ \A k \in 1..Len(m.calls) : m.calls[k].id <= b
LEMMA MessageBounded ==
    ASSUME NEW m \in Message
    PROVE  \E b \in Nat : IdsBelow(m, b)
<1> DEFINE s == [k \in 1..Len(m.calls) |-> m.calls[k].id]
<1>1. m.calls \in Seq(Call) /\ m.id \in Nat /\ Len(m.calls) \in Nat BY DEF Message
<1>2. \A k \in 1..Len(m.calls) : m.calls[k].id \in Nat
  <2>1. \A k \in 1..Len(m.calls) : m.calls[k] \in Call BY <1>1, ElementOfSeq
  <2> QED BY <2>1 DEF Call
<1>3. s \in Seq(Nat) /\ Len(s) = Len(m.calls) /\ \A k \in 1..Len(m.calls) : s[k] = m.calls[k].id BY <1>1, <1>2
<1> HIDE DEF s
<1>4. PICK b \in Nat : \A k \in 1..Len(s) : s[k] <= b BY <1>3, BoundedNumbers
<1>5. IdsBelow(m, b + m.id) BY <1>3, <1>4, <1>1, <1>2 DEF IdsBelow
<1>6. b + m.id \in Nat BY <1>1
<1> QED BY <1>5, <1>6

LEMMA RequestBounded ==
    ASSUME NEW ms \in Seq(Message)
    PROVE  \E b \in Nat : \A i \in 1..Len(ms) : IdsBelow(ms[i], b)
<1> DEFINE bound(i) == CHOOSE b \in Nat : IdsBelow(ms[i], b)
           s == [i \in 1..Len(ms) |-> bound(i)]
<1>0. Len(ms) \in Nat OBVIOUS
<1>1. \A i \in 1..Len(ms) : bound(i) \in Nat /\ IdsBelow(ms[i], bound(i))
  <2> SUFFICES ASSUME NEW i \in 1..Len(ms) PROVE bound(i) \in Nat /\ IdsBelow(ms[i], bound(i)) OBVIOUS
  <2>1. ms[i] \in Message OBVIOUS
  <2>2. \E b \in Nat : IdsBelow(ms[i], b) BY <2>1, MessageBounded
  <2> QED BY <2>2, Zenon
<1> HIDE DEF bound
<1>2. s \in Seq(Nat) /\ Len(s) = Len(ms) /\ \A i \in 1..Len(ms) : s[i] = bound(i) BY <1>0, <1>1
<1> HIDE DEF s
<1>3. PICK b \in Nat : \A i \in 1..Len(s) : s[i] <= b BY <1>2, BoundedNumbers
<1>4. ASSUME NEW i \in 1..Len(ms) PROVE IdsBelow(ms[i], b)
  <2> DEFINE c == bound(i)
             m == ms[i]
  <2>1. c \in Nat /\ c <= b /\ IdsBelow(m, c) /\ m \in Message BY <1>1, <1>2, <1>3
  <2> HIDE DEF c, m
  <2>2. m.id \in Nat /\ m.calls \in Seq(Call) BY <2>1 DEF Message
  <2>3. \A k \in 1..Len(m.calls) : m.calls[k].id \in Nat
    <3>1. \A k \in 1..Len(m.calls) : m.calls[k] \in Call BY <2>2, ElementOfSeq
    <3> QED BY <3>1 DEF Call
  <2>4. m.id <= c /\ \A k \in 1..Len(m.calls) : m.calls[k].id <= c BY <2>1 DEF IdsBelow
  <2>5. m.id <= b BY <2>1, <2>2, <2>4
  <2>6. \A k \in 1..Len(m.calls) : m.calls[k].id <= b BY <2>1, <2>3, <2>4
  <2>7. IdsBelow(m, b) BY <2>5, <2>6 DEF IdsBelow
  <2> QED BY <2>7 DEF m
<1> QED BY <1>4

\* A bounded set of numbers has a greatest one.
LEMMA GreatestNumber ==
    ASSUME NEW T, T \subseteq Nat, T # {}, NEW b \in Nat, \A x \in T : x <= b
    PROVE  Max(T) \in T /\ \A x \in T : x <= Max(T)
<1> DEFINE D == {b - x : x \in T}
<1>1. D \subseteq Nat /\ D # {}
  <2>1. ASSUME NEW x \in T PROVE b - x \in Nat OBVIOUS
  <2> QED BY <2>1
<1> HIDE DEF D
<1>2. PICK d \in D : \A e \in D : d <= e BY <1>1, LeastNumber
<1>3. PICK x \in T : d = b - x BY DEF D
<1>4. \A y \in T : x >= y
  <2> SUFFICES ASSUME NEW y \in T PROVE x >= y OBVIOUS
  <2>1. b - y \in D BY DEF D
  <2>2. d <= b - y BY <1>2, <2>1
  <2>3. x \in Nat /\ y \in Nat OBVIOUS
  <2> QED BY <1>3, <2>2, <2>3
<1>5. \E z \in T : \A y \in T : z >= y BY <1>4
<1>6. Max(T) \in T /\ \A y \in T : Max(T) >= y BY <1>5, Zenon DEF Max
<1>7. \A y \in T : y \in Nat OBVIOUS
<1> QED BY <1>6, <1>7

LEMMA FreshIdType ==
    ASSUME messages \in Seq(Message)
    PROVE  FreshId \in Nat
<1> DEFINE U == UNION {CallIds(messages[i].calls) \cup {messages[i].id} : i \in DOMAIN messages}
           T == {0} \cup U
<1>1. PICK b \in Nat : \A i \in 1..Len(messages) : IdsBelow(messages[i], b) BY RequestBounded
<1>2. ASSUME NEW x \in U PROVE x \in Nat /\ x <= b
  <2>1. PICK i \in 1..Len(messages) : x \in CallIds(messages[i].calls) \cup {messages[i].id} OBVIOUS
  <2> DEFINE m == messages[i]
  <2>2. m \in Message /\ IdsBelow(m, b) BY <1>1
  <2>3. x \in CallIds(m.calls) \/ x = m.id BY <2>1
  <2> HIDE DEF m
  <2>4. m.id \in Nat /\ m.calls \in Seq(Call) /\ DOMAIN m.calls = 1..Len(m.calls) BY <2>2 DEF Message
  <2>5. CASE x = m.id BY <2>2, <2>4, <2>5 DEF IdsBelow
  <2>6. CASE x \in CallIds(m.calls)
    <3>1. PICK k \in 1..Len(m.calls) : x = m.calls[k].id BY <2>4, <2>6 DEF CallIds
    <3>2. m.calls[k] \in Call BY <2>4
    <3> QED BY <2>2, <3>1, <3>2 DEF IdsBelow, Call
  <2> QED BY <2>3, <2>5, <2>6
<1> HIDE DEF U
<1>3. T \subseteq Nat /\ T # {} /\ \A x \in T : x <= b BY <1>2
<1>4. FreshId = 1 + Max(T) BY DEF FreshId, U
<1> HIDE DEF T
<1>u. ASSUME T \subseteq Nat, T # {}, NEW c \in Nat, \A x \in T : x <= c PROVE Max(T) \in T
  BY <1>u, GreatestNumber
<1>5. Max(T) \in T BY <1>1, <1>3, <1>u
<1>6. Max(T) \in Nat BY <1>3, <1>5, Zenon
<1> QED BY <1>4, <1>6

\* Any suffix of a settled history is one, and has no more text.
LEMMA SuffixWell ==
    ASSUME NEW s \in Seq(Message), SettledChain(s), NEW d \in Nat
    PROVE  LET c == SubSeq(s, d + 1, Len(s))
           IN  c \in Seq(Message) /\ SettledChain(c) /\ Tokens(c) <= Tokens(s)
<1>0. Len(s) \in Nat /\ Tokens(s) \in Nat BY TokensFinite
<1>1. CASE d <= Len(s) BY <1>1, SettledSuffix, TokensSuffix
<1>2. CASE d > Len(s)
  <2>1. SubSeq(s, d + 1, Len(s)) = <<>> BY <1>0, <1>2, SubSeqEmpty
  <2>2. <<>> \in Seq(Message) /\ Len(<<>>) = 0 OBVIOUS
  <2>3. SettledChain(<<>>) BY <2>2 DEF SettledChain
  <2>4. Tokens(<<>>) <= 0
    <3>1. Tokens(<<>>) = Cardinality(TextAt(<<>>)) BY <2>2, TokensFinite
    <3>2. TextAt(<<>>) = {} BY DEF TextAt
    <3>3. Cardinality({}) = 0 BY FS_EmptySet
    <3>4. Tokens(<<>>) = 0 BY <3>1, <3>2, <3>3, Zenon
    <3> QED BY <3>4
  <2>5. Tokens(<<>>) \in Nat BY <2>2, TokensFinite
  <2>6. Tokens(<<>>) <= Tokens(s) BY <1>0, <2>4, <2>5
  <2> QED BY <2>1, <2>2, <2>3, <2>6
<1> QED BY <1>0, <1>1, <1>2

\* There is at most one token for each message.
LEMMA TokensLength ==
    ASSUME NEW s \in Seq(Message)
    PROVE  Tokens(s) <= Len(s)
<1>1. Tokens(s) = Cardinality(TextAt(s)) /\ Len(s) \in Nat BY TokensFinite
<1>2. IsFiniteSet(1..Len(s)) /\ Cardinality(1..Len(s)) = Len(s) BY <1>1, FS_Interval, SMTT(30)
<1>3. TextAt(s) \in SUBSET (1..Len(s)) BY DEF TextAt
<1> QED BY <1>1, <1>2, <1>3, FS_Subset

-----------------------------------------------------------------------------
(* AgentTurn: the invariant of a turn and its steps *)

\* The session between responds: its history is a settled chain, and the estimate covers it.
TurnHistory ==
    /\ history \in Seq(Message) /\ SettledChain(history)
    /\ estimate \in Nat /\ Tokens(history) <= estimate
    /\ reasoning \in 0..StuckLimit-1

\* The calls still to run are in the order of their ids.
Ordered(cs, l) ==
    /\ \A k \in 1..Len(cs) : cs[k].id <= l
    /\ \A j, k \in 1..Len(cs) : j < k => cs[j].id < cs[k].id

\* The loop: its counters, and the chain of the request.
TurnLoop ==
    /\ turnPc \in {"idle", "top", "model", "tools"} /\ result \in {"none", "ok", "err"}
    /\ turn \in 0..MaxTurns /\ (turnPc \in {"model", "tools"} => turn < MaxTurns)
    /\ queue \in Seq(Injected) /\ messages \in Seq(Message) /\ calls \in Seq(Call) /\ last \in Nat
    /\ turnPc = "tools" <=> calls # NoCalls
    /\ turnPc = "tools" => Opened(messages, calls) /\ Ordered(calls, last)
    /\ turnPc # "tools" => SettledChain(messages)
    /\ turnPc = "model" => ChainClosed(messages)

\* The transcript, and which of its messages the model has been sent.
TurnEntry == ({"User"} \X (Injected \cup {"input"})) \cup ({"Assistant"} \X {"reply", "error"})
Hears(ms, m) == \E i \in 1..Len(ms) : ms[i].role = "user" /\ ms[i].tag = m
TurnEntries ==
    /\ transcript \subseteq TurnEntry /\ TurnRecorded
    /\ turnPc # "idle" => result = "none"
    /\ turnPc \in {"model", "tools"} => \A m \in Injected : <<"User", m>> \in transcript => m \in heard
    /\ turnPc = "top" => \A m \in Injected : <<"User", m>> \in transcript => m \in heard \/ Hears(messages, m)

TurnInv == TurnHistory /\ TurnLoop /\ TurnEntries

LEMMA RoundsUp == \A n \in Nat : RoundUpToEven(n) \in Nat
BY DEF RoundUpToEven

\* remember_exchange.
LEMMA RememberKeeps ==
    ASSUME TurnBounds, TurnHistory, NEW r \in BOOLEAN, RememberExchange(r), reasoning' = reasoning
    PROVE  TurnHistory'
<1> DEFINE pair == <<Msg("user", "input"), Msg("assistant", "reply")>>
           h == history \o pair
           e == estimate + 2 + (IF r THEN 1 ELSE 0)
<1>1. history' = Trimmed(h) /\ estimate' = e BY DEF RememberExchange, Remembered
<1>2. pair \in Seq(Message) /\ Len(pair) = 2 /\ SettledChain(pair)
  <2>1. "user" \in Role /\ "assistant" \in Role /\ "input" \in Tag /\ "reply" \in Tag BY DEF Role, Tag
  <2> DEFINE a == Msg("user", "input")
             b == Msg("assistant", "reply")
  <2>2. a \in Message /\ b \in Message /\ a.calls = NoCalls /\ b.calls = NoCalls BY <2>1, MessageTypes
  <2> HIDE DEF a, b
  <2> DEFINE p == <<a, b>>
  <2>3. p \in Seq(Message) /\ Len(p) = 2 /\ p[1] = a /\ p[2] = b BY <2>2
  <2> HIDE DEF p
  <2>4. \A i \in 1..Len(p) : p[i].calls = NoCalls BY <2>2, <2>3
  <2>5. SettledChain(p) BY <2>3, <2>4, SettledPlain
  <2> QED BY <2>3, <2>5 DEF p, a, b
<1> HIDE DEF pair
<1>3. h \in Seq(Message) /\ SettledChain(h) BY <1>2, SettledConcat DEF TurnHistory
<1>4. Tokens(h) <= estimate + 2 /\ Tokens(h) \in Nat
  <2>1. Tokens(h) <= Tokens(history) + Tokens(pair) BY <1>2, TokensConcat DEF TurnHistory
  <2>2. Tokens(pair) <= 2 /\ Tokens(pair) \in Nat /\ Tokens(history) \in Nat /\ Tokens(h) \in Nat
    BY <1>2, <1>3, TokensLength, TokensFinite DEF TurnHistory
  <2> QED BY <2>1, <2>2 DEF TurnHistory
<1> HIDE DEF h
<1>5. Trimmed(h) \in Seq(Message) /\ SettledChain(Trimmed(h)) /\ Tokens(Trimmed(h)) <= Tokens(h)
  <2>1. Len(h) \in Nat /\ HistoryLimit \in Nat BY <1>3 DEF TurnBounds
  <2>2. CASE Len(h) <= HistoryLimit BY <1>3, <1>4, <2>2 DEF Trimmed
  <2>3. CASE ~ (Len(h) <= HistoryLimit)
    <3> DEFINE over == RoundUpToEven(Len(h) - HistoryLimit)
    <3>1. over \in Nat BY <2>1, <2>3, RoundsUp
    <3>2. Trimmed(h) = SubSeq(h, over + 1, Len(h)) BY <2>3 DEF Trimmed
    <3> HIDE DEF over
    <3> QED BY <1>3, <3>1, <3>2, SuffixWell
  <2> QED BY <2>2, <2>3
<1>6. e \in Nat /\ estimate + 2 <= e BY DEF TurnHistory
<1>7. Tokens(Trimmed(h)) \in Nat BY <1>5, TokensFinite
<1> HIDE DEF e
<1>8. Tokens(Trimmed(h)) <= e BY <1>4, <1>5, <1>6, <1>7 DEF TurnHistory
<1> QED BY <1>1, <1>5, <1>6, <1>8 DEF TurnHistory

\* compact_history.
LEMMA CompactKeeps ==
    ASSUME TurnBounds, TurnHistory
    PROVE  /\ Compacted(history) \in Seq(Message) /\ SettledChain(Compacted(history))
           /\ CompactedEstimate(history, estimate) \in Nat
           /\ Tokens(Compacted(history)) <= CompactedEstimate(history, estimate)
<1>1. CASE Len(history) <= CompactAt BY <1>1 DEF Compacted, CompactedEstimate, TurnHistory
<1>2. CASE ~ (Len(history) <= CompactAt)
  <2> DEFINE d == CompactSplit(history)
             s == SubSeq(history, d + 1, Len(history))
             p == <<Msg("system", "summary")>>
  <2>1. Len(history) \in Nat /\ CompactAt \in Nat /\ KeepRecent \in 2..CompactAt
    BY DEF TurnHistory, TurnBounds
  <2>2. d \in Nat BY <1>2, <2>1, RoundsUp DEF CompactSplit
  <2> HIDE DEF d
  <2>3. s \in Seq(Message) /\ SettledChain(s) BY <2>2, SuffixWell DEF TurnHistory
  <2> HIDE DEF s
  <2>4. p \in Seq(Message) /\ SettledChain(p)
    <3> DEFINE a == Msg("system", "summary")
    <3>1. a \in Message /\ a.calls = NoCalls
      <4>1. "system" \in Role /\ "summary" \in Tag BY DEF Role, Tag
      <4> QED BY <4>1, MessageTypes
    <3> HIDE DEF a
    <3>2. <<a>> \in Seq(Message) /\ \A i \in 1..Len(<<a>>) : <<a>>[i].calls = NoCalls BY <3>1
    <3>3. SettledChain(<<a>>) BY <3>2, SettledPlain
    <3> QED BY <3>2, <3>3 DEF a
  <2> HIDE DEF p
  <2>5. p \o s \in Seq(Message) /\ SettledChain(p \o s) BY <2>3, <2>4, SettledConcat
  <2>6. Compacted(history) = p \o s /\ CompactedEstimate(history, estimate) = Tokens(p \o s)
    BY <1>2 DEF Compacted, CompactedEstimate, p, s, d
  <2>7. Tokens(p \o s) \in Nat BY <2>5, TokensFinite
  <2> QED BY <2>5, <2>6, <2>7
<1> QED BY <1>1, <1>2

\* A respond that fails leaves the session as it is, and an error in the transcript.
LEMMA FailKeeps ==
    ASSUME TurnBounds, TurnInv, TurnHistory', NEW e, e \subseteq TurnEntry, Fail(e), queue' = queue
    PROVE  TurnInv'
<1>1. /\ turnPc' = "idle" /\ result' = "err" /\ turn' = 0 /\ messages' = <<>>
      /\ calls' = <<>> /\ last' = 0 /\ transcript' = RepairTranscript(e) BY DEF Fail, Leave, NoCalls
<1>2. TurnLoop'
  <2>1. <<>> \in Seq(Message) /\ <<>> \in Seq(Call) /\ SettledChain(<<>>) BY DEF SettledChain
  <2>2. 0 \in 0..MaxTurns BY DEF TurnBounds
  <2> QED BY <1>1, <2>1, <2>2 DEF TurnInv, TurnLoop, NoCalls
<1>3. transcript' \subseteq TurnEntry /\ ((\E x \in transcript' : x[1] = "User") => \E x \in transcript' : x[1] = "Assistant")
  <2>1. <<"Assistant", "error">> \in TurnEntry /\ <<"Assistant", "error">>[1] = "Assistant"
        /\ <<"Assistant", "reply">>[1] = "Assistant" BY DEF TurnEntry
  <2>2. ASSUME NEW x \in e, x[1] = "User" PROVE \E m \in Injected \cup {"input"} : <<"User", m>> \in e
    <3>1. x \in TurnEntry OBVIOUS
    <3>2. PICK m \in Injected \cup {"input"} : x = <<"User", m>> BY <2>2, <3>1 DEF TurnEntry
    <3> QED BY <3>2
  <2>3. CASE (\E m \in Injected \cup {"input"} : <<"User", m>> \in e) /\ <<"Assistant", "reply">> \notin e
    BY <1>1, <2>3, <2>1 DEF RepairTranscript
  <2>4. CASE ~ ((\E m \in Injected \cup {"input"} : <<"User", m>> \in e) /\ <<"Assistant", "reply">> \notin e)
    BY <1>1, <2>4, <2>1, <2>2 DEF RepairTranscript
  <2> QED BY <2>3, <2>4
<1>4. TurnEntries' BY <1>1, <1>3 DEF TurnEntries, TurnRecorded
<1> QED BY <1>2, <1>4 DEF TurnInv

LEMMA HearsConcat ==
    ASSUME NEW s \in Seq(Message), NEW t \in Seq(Message), NEW m, Hears(s, m) \/ Hears(t, m)
    PROVE  Hears(s \o t, m)
<1> DEFINE c == s \o t
<1>1. /\ c \in Seq(Message) /\ Len(c) = Len(s) + Len(t) /\ Len(s) \in Nat /\ Len(t) \in Nat
      /\ \A i \in 1..Len(s) + Len(t) : c[i] = IF i <= Len(s) THEN s[i] ELSE t[i - Len(s)] BY ConcatProperties
<1> HIDE DEF c
<1>2. \A k \in 1..Len(s) : k \in 1..Len(c) /\ c[k] = s[k] BY <1>1
<1>3. \A k \in 1..Len(t) : Len(s) + k \in 1..Len(c) /\ c[Len(s) + k] = t[k]
  <2> TAKE k \in 1..Len(t)
  <2>1. Len(s) + k \in 1..Len(s) + Len(t) /\ ~ (Len(s) + k <= Len(s)) /\ (Len(s) + k) - Len(s) = k BY <1>1
  <2> QED BY <1>1, <2>1
<1>4. CASE Hears(s, m) BY <1>2, <1>4 DEF Hears, c
<1>5. CASE Hears(t, m) BY <1>3, <1>5 DEF Hears, c
<1> QED BY <1>4, <1>5

LEMMA UsersSettled ==
    ASSUME NEW us, FromUsers(us)
    PROVE  us \in Seq(Message) /\ SettledChain(us)
BY SettledPlain DEF FromUsers

\* One message of a user.
LEMMA OneUser ==
    ASSUME NEW x \in Tag
    PROVE  FromUsers(<<Msg("user", x)>>) /\ Hears(<<Msg("user", x)>>, x)
<1> DEFINE a == Msg("user", x)
<1>1. a \in Message /\ a.role = "user" /\ a.calls = NoCalls /\ a.tag = x BY MessageTypes DEF Role
<1> HIDE DEF a
<1>2. <<a>> \in Seq(Message) /\ Len(<<a>>) = 1 /\ <<a>>[1] = a BY <1>1
<1>3. \A i \in 1..Len(<<a>>) : <<a>>[i] = a BY <1>2
<1>4. 1 \in 1..Len(<<a>>) BY <1>2
<1>5. FromUsers(<<a>>) BY <1>1, <1>2, <1>3 DEF FromUsers
<1>6. Hears(<<a>>, x) BY <1>1, <1>3, <1>4 DEF Hears
<1> QED BY <1>5, <1>6 DEF a

\* drain_inject_queue.
LEMMA Drains ==
    ASSUME queue \in Seq(Injected)
    PROVE  \E us : /\ FromUsers(us)
                   /\ \A ms : DrainInto(ms) = ms \o us
                   /\ \A m : <<"User", m>> \in DrainedEntries => Hears(us, m)
                   /\ DrainedEntries \subseteq TurnEntry
<1> DEFINE q == Drained
           us == [i \in DOMAIN q |-> Msg("user", q[i])]
<1>1. q \in Seq(Injected) BY ElementsPlaced DEF Drained
<1>2. /\ \A ms : DrainInto(ms) = ms \o us
      /\ DrainedEntries = {<<"User", m>> : m \in {q[i] : i \in DOMAIN q}}
  BY DEF DrainInto, DrainedEntries, ToSet
<1> HIDE DEF q
<1>3. DOMAIN q = 1..Len(q) /\ Len(q) \in Nat BY <1>1
<1>4. ASSUME NEW i \in 1..Len(q)
      PROVE  /\ Msg("user", q[i]) \in Message /\ Msg("user", q[i]).role = "user"
             /\ Msg("user", q[i]).calls = NoCalls /\ Msg("user", q[i]).tag = q[i]
  <2>1. q[i] \in Injected BY <1>1
  <2>2. q[i] \in Tag /\ "user" \in Role BY <2>1 DEF Tag, Role
  <2> QED BY <2>2, MessageTypes
<1>5. us \in Seq(Message) /\ Len(us) = Len(q) /\ \A i \in 1..Len(q) : us[i] = Msg("user", q[i]) BY <1>3, <1>4
<1> HIDE DEF us
<1>6. FromUsers(us) BY <1>4, <1>5 DEF FromUsers
<1>7. ASSUME NEW m, <<"User", m>> \in DrainedEntries PROVE Hears(us, m)
  <2>1. PICK i \in 1..Len(q) : <<"User", m>> = <<"User", q[i]>> BY <1>2, <1>3, <1>7
  <2>2. m = q[i] BY <2>1
  <2> QED BY <1>4, <1>5, <2>2 DEF Hears
<1>8. DrainedEntries \subseteq TurnEntry
  <2> SUFFICES ASSUME NEW i \in 1..Len(q) PROVE <<"User", q[i]>> \in TurnEntry BY <1>2, <1>3
  <2>1. q[i] \in Injected BY <1>1
  <2> QED BY <2>1 DEF TurnEntry
<1> QED BY <1>2, <1>6, <1>7, <1>8

\* The loop goes round again.
LEMMA AgainKeeps ==
    ASSUME TurnBounds, TurnInv, TurnHistory', turnPc \in {"model", "tools"}, Again,
           messages' \in Seq(Message), SettledChain(messages'), queue' \in Seq(Injected),
           result' = result, heard' = heard, transcript' \subseteq TurnEntry,
           \A m \in Injected : <<"User", m>> \in transcript' => <<"User", m>> \in transcript \/ Hears(messages', m)
    PROVE  TurnInv'
<1>1. turnPc' = "top" /\ turn' = turn + 1 /\ calls' = <<>> /\ last' = 0 BY DEF Again, NoCalls
<1>2. turn + 1 \in 0..MaxTurns BY DEF TurnBounds, TurnInv, TurnLoop
<1>3. TurnLoop' BY <1>1, <1>2 DEF TurnInv, TurnLoop, NoCalls
<1>4. result = "none" /\ \A m \in Injected : <<"User", m>> \in transcript => m \in heard
  BY DEF TurnInv, TurnEntries
<1>5. TurnEntries' BY <1>1, <1>4 DEF TurnEntries, TurnRecorded
<1> QED BY <1>3, <1>5 DEF TurnInv

LEMMA LateKeeps ==
    ASSUME TurnBounds, TurnInv, turnPc \in {"model", "tools"}, NEW ms \in Seq(Message), SettledChain(ms),
           LateMessages(ms), reasoning' = reasoning, heard' = heard
    PROVE  TurnInv'
<1>1. /\ messages' = DrainInto(ms) /\ transcript' = transcript \cup DrainedEntries /\ queue' = <<>>
      /\ Again /\ history' = history /\ estimate' = estimate /\ result' = result BY DEF LateMessages
<1>2. TurnHistory' BY <1>1 DEF TurnInv, TurnHistory
<1>3. PICK us : /\ FromUsers(us)
                /\ \A s : DrainInto(s) = s \o us
                /\ \A m : <<"User", m>> \in DrainedEntries => Hears(us, m)
                /\ DrainedEntries \subseteq TurnEntry BY Drains DEF TurnInv, TurnLoop
<1>4. us \in Seq(Message) /\ SettledChain(us) BY <1>3, UsersSettled
<1>5. messages' = ms \o us /\ messages' \in Seq(Message) /\ SettledChain(messages')
  BY <1>1, <1>3, <1>4, SettledConcat
<1>6. \A m \in Injected : <<"User", m>> \in transcript' => <<"User", m>> \in transcript \/ Hears(messages', m)
  BY <1>1, <1>3, <1>4, <1>5, HearsConcat
<1>7. transcript' \subseteq TurnEntry /\ queue' \in Seq(Injected) BY <1>1, <1>3 DEF TurnInv, TurnEntries
<1> QED BY <1>1, <1>2, <1>5, <1>6, <1>7, AgainKeeps

LEMMA AnsweredKeeps ==
    ASSUME TurnBounds, TurnInv, turnPc \in {"model", "tools"}, NEW r \in BOOLEAN, Answered(r),
           reasoning' = reasoning, heard' = heard
    PROVE  TurnInv'
<1>1. /\ RememberExchange(r) /\ transcript' = transcript \cup {<<"Assistant", "reply">>}
      /\ turnPc' = "idle" /\ result' = "ok" /\ turn' = 0 /\ messages' = <<>> /\ calls' = <<>> /\ last' = 0
      /\ queue' = queue BY DEF Answered, Leave, NoCalls
<1>2. TurnHistory' BY <1>1, RememberKeeps DEF TurnInv
<1>3. TurnLoop' BY <1>1 DEF SettledChain, TurnBounds, TurnInv, TurnLoop, NoCalls
<1>4. \A m \in Injected : <<"User", m>> \in transcript => m \in heard BY DEF TurnInv, TurnEntries
<1>5. \A m : <<"User", m>> # <<"Assistant", "reply">> OBVIOUS
<1>6. <<"Assistant", "reply">> \in TurnEntry /\ <<"Assistant", "reply">>[1] = "Assistant" BY DEF TurnEntry
<1>7. transcript' \subseteq TurnEntry /\ \E e \in transcript' : e[1] = "Assistant"
  BY <1>1, <1>6 DEF TurnInv, TurnEntries
<1>8. \A m \in Injected : <<"User", m>> \in transcript' => m \in heard' BY <1>1, <1>4, <1>5
<1>9. TurnEntries' BY <1>1, <1>7, <1>8 DEF TurnEntries, TurnRecorded
<1> QED BY <1>2, <1>3, <1>9 DEF TurnInv

LEMMA RespondKeeps ==
    ASSUME TurnBounds, TurnInv, Respond
    PROVE  TurnInv'
<1> DEFINE full == estimate + 1 > TokenLimit
           h == IF full THEN Compacted(history) ELSE history
           e == IF full THEN CompactedEstimate(history, estimate) ELSE estimate
           p == <<Msg("system", "prompt")>>
           u == <<Msg("user", "input")>>
<1>1. /\ history' = h /\ estimate' = e /\ messages' = (p \o h) \o u
      /\ turnPc' = "top" /\ turn' = 0 /\ transcript' = {<<"User", "input">>} /\ result' = "none"
      /\ turnPc = "idle" /\ reasoning' = reasoning /\ queue' = queue /\ calls' = calls /\ last' = last
      /\ heard' = heard BY DEF Respond, Bounded
<1>2. h \in Seq(Message) /\ SettledChain(h) /\ e \in Nat /\ Tokens(h) <= e
  <2>1. CASE full BY <2>1, CompactKeeps DEF TurnInv
  <2>2. CASE ~ full BY <2>2 DEF TurnInv, TurnHistory
  <2> QED BY <2>1, <2>2
<1> HIDE DEF h, e, full
<1>3. TurnHistory' BY <1>1, <1>2 DEF TurnInv, TurnHistory
<1>4. p \in Seq(Message) /\ SettledChain(p)
  <2> DEFINE a == Msg("system", "prompt")
  <2>1. "system" \in Role /\ "prompt" \in Tag BY DEF Role, Tag
  <2>2. a \in Message /\ a.calls = NoCalls BY <2>1, MessageTypes
  <2> HIDE DEF a
  <2>3. <<a>> \in Seq(Message) /\ Len(<<a>>) = 1 /\ \A i \in 1..Len(<<a>>) : <<a>>[i] = a BY <2>2
  <2>4. SettledChain(<<a>>) BY <2>2, <2>3, SettledPlain
  <2> QED BY <2>3, <2>4 DEF a
<1>5. u \in Seq(Message) /\ SettledChain(u) /\ Hears(u, "input") BY OneUser, UsersSettled DEF Tag
<1> HIDE DEF p, u
<1>6. p \o h \in Seq(Message) /\ SettledChain(p \o h) BY <1>2, <1>4, SettledConcat
<1>7. messages' \in Seq(Message) /\ SettledChain(messages') /\ Hears(messages', "input")
  BY <1>1, <1>5, <1>6, SettledConcat, HearsConcat
<1>8. TurnLoop' BY <1>1, <1>7 DEF TurnInv, TurnLoop, TurnBounds
<1>9. TurnEntries' BY <1>1, <1>7 DEF TurnEntry, TurnEntries, TurnRecorded
<1> QED BY <1>3, <1>8, <1>9 DEF TurnInv

LEMMA SendKeeps ==
    ASSUME TurnBounds, TurnInv, Send
    PROVE  TurnInv'
<1>1. /\ turnPc = "top" /\ turn < MaxTurns /\ messages' = Repair(DrainInto(messages))
      /\ transcript' = transcript \cup DrainedEntries /\ queue' = <<>> /\ turnPc' = "model"
      /\ heard' = heard \cup {m \in Injected : \E i \in DOMAIN messages' : messages'[i].tag = m}
      /\ history' = history /\ estimate' = estimate /\ reasoning' = reasoning
      /\ turn' = turn /\ calls' = calls /\ last' = last /\ result' = result BY DEF Send, session
<1>2. PICK us : /\ FromUsers(us)
                /\ \A s : DrainInto(s) = s \o us
                /\ \A m : <<"User", m>> \in DrainedEntries => Hears(us, m)
                /\ DrainedEntries \subseteq TurnEntry BY Drains DEF TurnInv, TurnLoop
<1>3. us \in Seq(Message) /\ SettledChain(us) /\ messages \in Seq(Message) /\ SettledChain(messages)
  BY <1>1, <1>2, UsersSettled DEF TurnInv, TurnLoop
<1> DEFINE s == messages \o us
           t == Repair(s)
<1>4. s \in Seq(Message) /\ SettledChain(s) /\ messages' = t BY <1>1, <1>2, <1>3, SettledConcat
<1> HIDE DEF s
<1>5. /\ t \in Seq(Message) /\ SettledChain(t) /\ ChainClosed(t)
      /\ \A i \in 1..Len(s) : s[i].role = "user" => \E k \in 1..Len(t) : t[k] = s[i] BY <1>4, RepairSettles
<1> HIDE DEF t
<1>6. TurnHistory' BY <1>1 DEF TurnInv, TurnHistory
<1>7. TurnLoop' BY <1>1, <1>4, <1>5 DEF TurnInv, TurnLoop
<1>8. ASSUME NEW m \in Injected, <<"User", m>> \in transcript' PROVE m \in heard'
  <2>1. m \in heard \/ Hears(messages, m) \/ Hears(us, m) BY <1>1, <1>2, <1>8 DEF TurnInv, TurnEntries
  <2>2. CASE m \in heard BY <1>1, <2>2
  <2>3. CASE Hears(messages, m) \/ Hears(us, m)
    <3>1. Hears(s, m) BY <1>3, <2>3, HearsConcat DEF s
    <3>2. PICK i \in 1..Len(s) : s[i].role = "user" /\ s[i].tag = m BY <3>1 DEF Hears
    <3>3. PICK k \in 1..Len(t) : t[k] = s[i] BY <1>5, <3>2
    <3>4. k \in DOMAIN t BY <1>5
    <3> QED BY <1>1, <1>4, <3>2, <3>3, <3>4
  <2> QED BY <2>1, <2>2, <2>3
<1>9. TurnEntries' BY <1>1, <1>2, <1>8 DEF TurnInv, TurnEntries, TurnRecorded
<1> QED BY <1>6, <1>7, <1>9 DEF TurnInv

LEMMA OverflowKeeps ==
    ASSUME TurnBounds, TurnInv, Overflow
    PROVE  TurnInv'
<1> DEFINE r == Recovered
<1>1. /\ turnPc = "top" /\ history' = history \o r /\ estimate' = estimate + Tokens(r)
      /\ Fail(transcript) /\ reasoning' = reasoning /\ queue' = queue BY DEF Overflow
<1>2. r \in Seq(Message) /\ SettledChain(r)
  <2>1. messages \in Seq(Message) /\ SettledChain(messages) /\ Len(history) \in Nat
    BY <1>1 DEF TurnInv, TurnLoop, TurnHistory
  <2>2. CASE Len(messages) > Len(history) + 1
    <3> DEFINE d == Len(history) + 1
               s == SubSeq(messages, d + 1, Len(messages))
    <3>1. d \in Nat /\ d + 1 = Len(history) + 2 BY <2>1
    <3>2. r = Filter(s) BY <2>2, <3>1 DEF Recovered
    <3> HIDE DEF d
    <3>3. s \in Seq(Message) /\ SettledChain(s) BY <2>1, <3>1, SuffixWell
    <3> HIDE DEF s, r
    <3> QED BY <3>2, <3>3, FilterSettles
  <2>3. CASE ~ (Len(messages) > Len(history) + 1)
    <3>1. r = <<>> BY <2>3 DEF Recovered
    <3>2. <<>> \in Seq(Message) /\ Len(<<>>) = 0 OBVIOUS
    <3>3. SettledChain(<<>>) BY <3>2 DEF SettledChain
    <3> HIDE DEF r
    <3> QED BY <3>1, <3>2, <3>3
  <2> QED BY <2>2, <2>3
<1> HIDE DEF r
<1>3. TurnHistory'
  <2>1. history \o r \in Seq(Message) /\ SettledChain(history \o r)
    BY <1>2, SettledConcat DEF TurnInv, TurnHistory
  <2>2. Tokens(history \o r) <= Tokens(history) + Tokens(r) BY <1>2, TokensConcat DEF TurnInv, TurnHistory
  <2>3. Tokens(history \o r) \in Nat /\ Tokens(history) \in Nat /\ Tokens(r) \in Nat
    BY <1>2, <2>1, TokensFinite DEF TurnInv, TurnHistory
  <2>4. Tokens(history \o r) <= estimate + Tokens(r) /\ estimate + Tokens(r) \in Nat
    BY <2>2, <2>3 DEF TurnInv, TurnHistory
  <2> QED BY <1>1, <2>1, <2>4 DEF TurnInv, TurnHistory
<1>4. transcript \subseteq TurnEntry BY DEF TurnInv, TurnEntries
<1> QED BY <1>1, <1>3, <1>4, FailKeeps

LEMMA BetweenKeeps ==
    ASSUME TurnBounds, TurnInv, InjectExchange \/ Reset \/ CompactContext
    PROVE  TurnInv'
<1>1. /\ turnPc = "idle" /\ UNCHANGED <<reasoning, queue, turnPc, turn, messages, calls, last, heard>>
      /\ \/ UNCHANGED <<transcript, result>>
         \/ transcript' = {} /\ result' = "none" BY DEF InjectExchange, Reset, CompactContext, Bounded, loop
<1>2. TurnHistory'
  <2>1. CASE InjectExchange BY <2>1, RememberKeeps DEF InjectExchange, TurnInv
  <2>2. CASE Reset
    <3>1. history' = <<>> /\ estimate' = estimate BY <2>2 DEF Reset
    <3>2. <<>> \in Seq(Message) /\ Len(<<>>) = 0 OBVIOUS
    <3>3. SettledChain(<<>>) BY <3>2 DEF SettledChain
    <3>4. Tokens(<<>>) <= 0 /\ Tokens(<<>>) \in Nat BY <3>2, TokensLength, TokensFinite
    <3>5. Tokens(<<>>) <= estimate BY <3>4 DEF TurnInv, TurnHistory
    <3> QED BY <1>1, <3>1, <3>2, <3>3, <3>5 DEF TurnInv, TurnHistory
  <2>3. CASE CompactContext BY <1>1, <2>3, CompactKeeps DEF CompactContext, TurnInv, TurnHistory
  <2> QED BY <2>1, <2>2, <2>3
<1>3. TurnLoop' BY <1>1 DEF TurnInv, TurnLoop
<1>4. TurnEntries' BY <1>1 DEF TurnInv, TurnEntries, TurnRecorded
<1> QED BY <1>2, <1>3, <1>4 DEF TurnInv

LEMMA InjectKeeps ==
    ASSUME TurnBounds, TurnInv, NEW m \in Injected, Inject(m)
    PROVE  TurnInv'
<1>1. /\ queue' = Append(queue, m)
      /\ UNCHANGED <<history, estimate, reasoning, turnPc, turn, messages, calls, last, transcript, result, heard>>
  BY DEF Inject, session, loop
<1>2. queue' \in Seq(Injected) BY <1>1, AppendProperties DEF TurnInv, TurnLoop
<1>3. TurnHistory' BY <1>1 DEF TurnInv, TurnHistory
<1>4. TurnLoop' BY <1>1, <1>2 DEF TurnInv, TurnLoop
<1>5. TurnEntries' BY <1>1 DEF TurnInv, TurnEntries, TurnRecorded
<1> QED BY <1>3, <1>4, <1>5 DEF TurnInv

\* The calls an answer asks for, and those of them that can be run.
LEMMA AskedCalls ==
    ASSUME NEW kinds \in Seq(STRING), kinds # <<>>, NEW n \in Nat, NEW I,
           NEW wanted, wanted = [k \in DOMAIN kinds |-> [id |-> n + k - 1, kind |-> kinds[k]]]
    PROVE  /\ wanted \in Seq(Call) /\ wanted[Len(wanted)].id \in Nat
           /\ ElementsAt(wanted, I) \in Seq(Call)
           /\ Ordered(ElementsAt(wanted, I), wanted[Len(wanted)].id)
<1> DEFINE v == ElementsAt(wanted, I)
           len == Len(kinds)
<1>1. len \in Nat \ {0} /\ DOMAIN kinds = 1..len /\ \A k \in 1..len : kinds[k] \in STRING BY EmptySeq
<1>2. \A k \in 1..len : n + k - 1 \in Nat BY <1>1
<1>3. \A k \in 1..len : /\ wanted[k] = [id |-> n + k - 1, kind |-> kinds[k]]
                        /\ wanted[k].id = n + k - 1 /\ wanted[k] \in Call BY <1>1, <1>2 DEF Call
<1>4. wanted \in Seq(Call) /\ Len(wanted) = len BY <1>1, <1>3
<1>5. wanted[Len(wanted)].id = n + len - 1 /\ wanted[Len(wanted)].id \in Nat BY <1>1, <1>2, <1>3, <1>4
<1>6. v \in Seq(Call) BY <1>4, ElementsPlaced
<1>7. PICK f : PlacedBy(f, wanted, I, v) BY <1>4, ElementsPlaced
<1> HIDE DEF v
<1>8. /\ \A k \in 1..Len(v) : f[k] \in 1..len /\ v[k] = wanted[f[k]]
      /\ \A j, k \in 1..Len(v) : j < k => f[j] < f[k] BY <1>4, <1>7 DEF PlacedBy
<1>9. \A k \in 1..Len(v) : v[k].id = n + f[k] - 1 /\ f[k] \in 1..len BY <1>3, <1>8
<1>10. \A k \in 1..Len(v) : v[k].id <= n + len - 1
  <2> SUFFICES ASSUME NEW k \in 1..Len(v) PROVE v[k].id <= n + len - 1 OBVIOUS
  <2>1. v[k].id = n + f[k] - 1 /\ f[k] \in 1..len BY <1>9
  <2> HIDE DEF len
  <2> QED BY <1>1, <2>1
<1>11. \A j, k \in 1..Len(v) : j < k => v[j].id < v[k].id
  <2> SUFFICES ASSUME NEW j \in 1..Len(v), NEW k \in 1..Len(v), j < k PROVE v[j].id < v[k].id OBVIOUS
  <2>1. v[k].id = n + f[k] - 1 /\ f[k] \in 1..len /\ v[j].id = n + f[j] - 1 /\ f[j] \in 1..len BY <1>9
  <2>2. f[j] < f[k] BY <1>8
  <2> HIDE DEF len
  <2> QED BY <1>1, <2>1, <2>2
<1>12. Ordered(v, wanted[Len(wanted)].id) BY <1>5, <1>10, <1>11 DEF Ordered
<1> QED BY <1>4, <1>5, <1>6, <1>12 DEF v

\* A note for each call that cannot be run.
LEMMA Notes ==
    ASSUME NEW n \in Int
    PROVE  FromUsers([k \in 1..n |-> Msg("user", "no such tool")])
<1> DEFINE a == Msg("user", "no such tool")
           m == IF n < 0 THEN 0 ELSE n
           us == [k \in 1..n |-> a]
<1>1. a \in Message /\ a.role = "user" /\ a.calls = NoCalls BY MessageTypes, ZenonT(60) DEF Role, Tag
<1> HIDE DEF a
<1>2. m \in Nat /\ 1..n = 1..m
  <2>1. CASE n < 0 BY <2>1
  <2>2. CASE ~ (n < 0) BY <2>2
  <2> QED BY <2>1, <2>2
<1> HIDE DEF m
<1>3. us \in Seq(Message) /\ Len(us) = m /\ \A i \in 1..m : us[i] = a
  <2>1. us = [k \in 1..m |-> a] BY <1>2
  <2> HIDE DEF us
  <2>2. us \in Seq(Message) BY <1>1, <1>2, <2>1
  <2>3. DOMAIN us = 1..m /\ Len(us) = m BY <1>2, <2>1, <2>2
  <2> QED BY <2>1, <2>2, <2>3
<1> HIDE DEF us
<1>4. FromUsers(us) BY <1>1, <1>3 DEF FromUsers
<1> QED BY <1>4 DEF us, a

LEMMA CallsKeep ==
    ASSUME TurnBounds, TurnInv, NEW plan \in Plans, ModelCalls(plan)
    PROVE  TurnInv'
<1> DEFINE wanted == [k \in DOMAIN plan.kinds |-> [id |-> FreshId + k - 1, kind |-> plan.kinds[k]]]
           valid == ElementsAt(wanted, {k \in DOMAIN wanted : wanted[k].kind /= "unknown"})
           us == [k \in 1..Len(wanted) - Len(valid) |-> Msg("user", "no such tool")]
           m == Asks(valid, plan.text)
<1>1. /\ turnPc = "model"
      /\ messages' = (messages \o (IF valid = NoCalls THEN <<>> ELSE <<m>>)) \o us
      /\ calls' = valid /\ last' = wanted[Len(wanted)].id
      /\ turnPc' = IF valid = NoCalls THEN "top" ELSE "tools"
      /\ turn' = IF valid = NoCalls THEN turn + 1 ELSE turn
      /\ UNCHANGED <<history, estimate, reasoning, queue, transcript, result, responds, heard>>
  BY DEF ModelCalls
<1>2. plan.kinds \in Seq(STRING) /\ plan.kinds # <<>> BY DEF TurnBounds
<1>3. messages \in Seq(Message) /\ SettledChain(messages) /\ turn \in 0..MaxTurns /\ turn < MaxTurns
  BY <1>1 DEF TurnInv, TurnLoop
<1>4. FreshId \in Nat BY <1>3, FreshIdType
<1>5. /\ wanted \in Seq(Call) /\ wanted[Len(wanted)].id \in Nat /\ valid \in Seq(Call)
      /\ Ordered(valid, wanted[Len(wanted)].id)
  <2> DEFINE I == {k \in DOMAIN wanted : wanted[k].kind /= "unknown"}
             n == FreshId
  <2>1. valid = ElementsAt(wanted, I) /\ wanted = [k \in DOMAIN plan.kinds |-> [id |-> n + k - 1, kind |-> plan.kinds[k]]]
    OBVIOUS
  <2> HIDE DEF I, n, wanted, valid
  <2>2. n \in Nat BY <1>4 DEF n
  <2> QED BY <1>2, <2>1, <2>2, AskedCalls
<1> HIDE DEF wanted, valid
<1>6. FromUsers(us)
  <2>1. Len(wanted) - Len(valid) \in Int BY <1>5
  <2> QED BY <2>1, Notes
<1> HIDE DEF us
<1>7. TurnHistory' BY <1>1 DEF TurnInv, TurnHistory
<1>8. CASE valid = NoCalls
  <2>1. messages' = messages \o us BY <1>3, ConcatEmptySeq, <1>1, <1>8
  <2>2. us \in Seq(Message) /\ SettledChain(us) BY <1>6, UsersSettled
  <2>3. messages' \in Seq(Message) /\ SettledChain(messages') BY <1>3, <2>1, <2>2, SettledConcat
  <2>4. turn + 1 \in 0..MaxTurns BY <1>3 DEF TurnBounds
  <2>5. TurnLoop' BY <1>1, <1>5, <1>8, <2>3, <2>4 DEF TurnInv, TurnLoop
  <2>6. TurnEntries' BY <1>1, <1>8 DEF TurnInv, TurnEntries, TurnRecorded
  <2> QED BY <1>7, <2>5, <2>6 DEF TurnInv
<1>9. CASE valid # NoCalls
  <2>1. m \in Message /\ m.role = "assistant" /\ m.calls = valid
    <3>1. plan.text \in Tag BY DEF Tag
    <3> QED BY <1>5, <3>1, MessageTypes
  <2> HIDE DEF m
  <2>2. messages' = (messages \o <<m>>) \o us BY <1>1, <1>9
  <2>3. messages' \in Seq(Message) /\ Opened(messages', valid) BY <1>3, <1>6, <2>1, <2>2, OpenBegins
  <2>4. TurnLoop' BY <1>1, <1>3, <1>5, <1>9, <2>3 DEF TurnInv, TurnLoop
  <2>5. TurnEntries' BY <1>1, <1>9 DEF TurnInv, TurnEntries, TurnRecorded
  <2> QED BY <1>7, <2>4, <2>5 DEF TurnInv
<1> QED BY <1>8, <1>9

\* The next tool of the answer, and its result.
LEMMA ToolAnswers ==
    ASSUME TurnBounds, TurnInv, turnPc = "tools", NEW ok \in BOOLEAN
    PROVE  /\ AfterTool(Head(calls), ok) \in Seq(Message) /\ Opened(AfterTool(Head(calls), ok), Tail(calls))
           /\ Tail(calls) \in Seq(Call) /\ Ordered(Tail(calls), last)
<1> DEFINE m == Answers(Head(calls))
           s == messages \o <<m>>
           us == IF ok THEN <<>> ELSE <<Msg("user", "tool failed")>>
<1>1. /\ messages \in Seq(Message) /\ calls \in Seq(Call) /\ calls # <<>> /\ Opened(messages, calls)
      /\ Ordered(calls, last) BY DEF TurnInv, TurnLoop, NoCalls
<1>2. s \in Seq(Message) /\ Opened(s, Tail(calls)) BY <1>1, OpenAnswers
<1>3. FromUsers(us)
  <2>1. CASE ok BY <2>1 DEF FromUsers
  <2>2. CASE ~ ok BY OneUser, <2>2 DEF Tag
  <2> QED BY <2>1, <2>2
<1>4. AfterTool(Head(calls), ok) = s \o us BY DEF AfterTool
<1> HIDE DEF s, us
<1>5. s \o us \in Seq(Message) /\ Opened(s \o us, Tail(calls)) BY <1>2, <1>3, OpenHears
<1>6. Tail(calls) \in Seq(Call) /\ Ordered(Tail(calls), last)
  <2> DEFINE t == Tail(calls)
  <2>1. t \in Seq(Call) /\ Len(t) = Len(calls) - 1 /\ \A i \in 1..Len(t) : t[i] = calls[i + 1]
    BY <1>1, HeadTailProperties
  <2> HIDE DEF t
  <2>2. \A i \in 1..Len(t) : i + 1 \in 1..Len(calls) BY <1>1, <2>1
  <2>3. \A i \in 1..Len(t) : t[i].id <= last
    <3> SUFFICES ASSUME NEW i \in 1..Len(t) PROVE t[i].id <= last OBVIOUS
    <3>1. i + 1 \in 1..Len(calls) /\ t[i] = calls[i + 1] BY <2>1, <2>2
    <3> QED BY <1>1, <3>1 DEF Ordered
  <2>4. \A j, k \in 1..Len(t) : j < k => t[j].id < t[k].id
    <3> SUFFICES ASSUME NEW j \in 1..Len(t), NEW k \in 1..Len(t), j < k PROVE t[j].id < t[k].id OBVIOUS
    <3>1. j + 1 \in 1..Len(calls) /\ k + 1 \in 1..Len(calls) /\ j + 1 < k + 1
          /\ t[j] = calls[j + 1] /\ t[k] = calls[k + 1] BY <2>1, <2>2
    <3> QED BY <1>1, <3>1 DEF Ordered
  <2> QED BY <2>1, <2>3, <2>4 DEF Ordered, t
<1> QED BY <1>4, <1>5, <1>6

LEMMA LastTail ==
    ASSUME NEW cs \in Seq(Call), cs # <<>>
    PROVE  /\ Len(cs) = 1 <=> Tail(cs) = <<>>
           /\ \A l : Ordered(cs, l) /\ l \in Nat /\ Head(cs).id = l => Tail(cs) = <<>>
<1> DEFINE t == Tail(cs)
<1>1. t \in Seq(Call) /\ Len(t) = Len(cs) - 1 /\ Len(cs) \in Nat \ {0} /\ Head(cs) = cs[1]
  BY HeadTailProperties, EmptySeq
<1> HIDE DEF t
<1>2. Len(t) = 0 <=> t = <<>> BY <1>1, EmptySeq
<1>3. Len(cs) = 1 <=> t = <<>> BY <1>1, <1>2
<1>4. ASSUME NEW l \in Nat, Ordered(cs, l), Head(cs).id = l, t # <<>> PROVE FALSE
  <2>1. 1 \in 1..Len(cs) /\ 2 \in 1..Len(cs) /\ 1 < 2 BY <1>1, <1>3, <1>4
  <2>2. cs[1].id < cs[2].id /\ cs[2].id <= l BY <1>4, <2>1 DEF Ordered
  <2>3. cs[2] \in Call BY <2>1
  <2>4. cs[2].id \in Nat BY <2>3 DEF Call
  <2> QED BY <1>1, <1>4, <2>2, <2>4
<1> QED BY <1>3, <1>4 DEF t

LEMMA ToolKeeps ==
    ASSUME TurnBounds, TurnInv, NEW ok \in BOOLEAN, RunTool(ok)
    PROVE  TurnInv'
<1>1. /\ turnPc = "tools" /\ messages' = AfterTool(Head(calls), ok)
      /\ UNCHANGED <<history, estimate, reasoning, queue, transcript, result, responds, heard>>
      /\ IF Len(calls) = 1 THEN Again ELSE calls' = Tail(calls) /\ UNCHANGED <<turnPc, turn, last>>
  BY DEF RunTool
<1>2. /\ messages' \in Seq(Message) /\ Opened(messages', Tail(calls))
      /\ Tail(calls) \in Seq(Call) /\ Ordered(Tail(calls), last) BY <1>1, ToolAnswers
<1>3. calls \in Seq(Call) /\ calls # <<>> /\ last \in Nat BY <1>1 DEF TurnInv, TurnLoop, NoCalls
<1>4. Len(calls) = 1 <=> Tail(calls) = <<>> BY <1>3, LastTail
<1>5. TurnHistory' BY <1>1 DEF TurnInv, TurnHistory
<1>6. CASE Len(calls) = 1
  <2>1. SettledChain(messages') BY <1>2, <1>4, <1>6, OpenDone
  <2>2. queue' \in Seq(Injected) /\ transcript' \subseteq TurnEntry BY <1>1 DEF TurnInv, TurnLoop, TurnEntries
  <2> QED BY <1>1, <1>2, <1>5, <1>6, <2>1, <2>2, AgainKeeps
<1>7. CASE Len(calls) # 1
  <2>1. turnPc' = "tools" /\ calls' = Tail(calls) /\ turn' = turn /\ last' = last /\ Tail(calls) # <<>>
    BY <1>1, <1>4, <1>7
  <2>2. TurnLoop' BY <1>1, <1>2, <2>1 DEF TurnInv, TurnLoop, NoCalls
  <2>3. TurnEntries' BY <1>1, <2>1 DEF TurnInv, TurnEntries, TurnRecorded
  <2> QED BY <1>5, <2>2, <2>3 DEF TurnInv
<1> QED BY <1>6, <1>7

LEMMA TerminalKeeps ==
    ASSUME TurnBounds, TurnInv, TerminalTool
    PROVE  TurnInv'
<1>1. turnPc = "tools" /\ Head(calls).id = last /\ reasoning' = reasoning /\ heard' = heard
  BY DEF TerminalTool
<1>2. calls \in Seq(Call) /\ calls # <<>> /\ last \in Nat /\ Ordered(calls, last)
  BY <1>1 DEF TurnInv, TurnLoop, NoCalls
<1>3. Tail(calls) = <<>> BY <1>1, <1>2, LastTail
<1>4. /\ AfterTool(Head(calls), TRUE) \in Seq(Message)
      /\ SettledChain(AfterTool(Head(calls), TRUE)) BY <1>1, <1>3, ToolAnswers, OpenDone
<1>5. CASE LateMessages(AfterTool(Head(calls), TRUE)) BY <1>1, <1>4, <1>5, LateKeeps
<1>6. CASE \E r \in BOOLEAN : Answered(r) BY <1>1, <1>6, AnsweredKeeps
<1> QED BY <1>5, <1>6 DEF TerminalTool

LEMMA AnswerKeeps ==
    ASSUME TurnBounds, TurnInv, NEW r \in BOOLEAN, ModelAnswers(r)
    PROVE  TurnInv'
<1>1. turnPc = "model" /\ reasoning' = reasoning /\ heard' = heard BY DEF ModelAnswers
<1>2. messages \in Seq(Message) /\ SettledChain(messages) BY <1>1 DEF TurnInv, TurnLoop
<1>3. CASE LateMessages(messages) BY <1>1, <1>2, <1>3, LateKeeps
<1>4. CASE Answered(r) BY <1>1, <1>4, AnsweredKeeps
<1> QED BY <1>3, <1>4 DEF ModelAnswers

\* An answer with reasoning only, and the request for more.
LEMMA NudgeSettled ==
    /\ <<Msg("assistant", ""), Msg("user", "answer please")>> \in Seq(Message)
    /\ SettledChain(<<Msg("assistant", ""), Msg("user", "answer please")>>)
<1> DEFINE a == Msg("assistant", "")
           b == Msg("user", "answer please")
<1>1. "assistant" \in Role /\ "user" \in Role /\ "" \in Tag /\ "answer please" \in Tag BY DEF Role, Tag
<1>2. a \in Message /\ a.calls = NoCalls BY <1>1, MessageTypes
<1>3. b \in Message /\ b.calls = NoCalls BY <1>1, MessageTypes, ZenonT(60)
<1> HIDE DEF a, b
<1> DEFINE q == <<a, b>>
<1>4. q \in Seq(Message) /\ Len(q) = 2 /\ q[1] = a /\ q[2] = b BY <1>2, <1>3
<1> HIDE DEF q
<1>5. \A i \in 1..Len(q) : q[i].calls = NoCalls BY <1>2, <1>3, <1>4
<1>6. SettledChain(q) BY <1>4, <1>5, SettledPlain
<1> QED BY <1>4, <1>6 DEF q, a, b

LEMMA ReasonsKeep ==
    ASSUME TurnBounds, TurnInv, ModelReasons
    PROVE  TurnInv'
<1> DEFINE p == <<Msg("assistant", ""), Msg("user", "answer please")>>
<1>1. /\ turnPc = "model" /\ messages' = messages \o p
      /\ reasoning' = IF reasoning + 1 >= StuckLimit THEN 0 ELSE reasoning + 1
      /\ Again /\ UNCHANGED <<history, estimate, queue, transcript, result, responds, heard>>
  BY DEF ModelReasons
<1>2. p \in Seq(Message) /\ SettledChain(p) BY NudgeSettled
<1> HIDE DEF p
<1>3. messages' \in Seq(Message) /\ SettledChain(messages') BY <1>1, <1>2, SettledConcat DEF TurnInv, TurnLoop
<1>4. TurnHistory' BY <1>1 DEF TurnInv, TurnHistory, TurnBounds
<1>5. queue' \in Seq(Injected) /\ transcript' \subseteq TurnEntry BY <1>1 DEF TurnInv, TurnLoop, TurnEntries
<1> QED BY <1>1, <1>3, <1>4, <1>5, AgainKeeps

LEMMA FailuresKeep ==
    ASSUME TurnBounds, TurnInv,
           RespondRefused \/ BudgetSpent \/ ModelFails \/ ModelSaysNothing \/ TerminalNotLast
    PROVE  TurnInv'
<1>1. /\ Fail({}) \/ Fail(transcript)
      /\ UNCHANGED <<history, estimate, queue>> /\ (reasoning' = reasoning \/ reasoning' = 0)
  BY DEF RespondRefused, BudgetSpent, ModelFails, ModelSaysNothing, TerminalNotLast, session
<1>2. TurnHistory' BY <1>1 DEF TurnInv, TurnHistory, TurnBounds
<1>3. transcript \subseteq TurnEntry /\ {} \subseteq TurnEntry BY DEF TurnInv, TurnEntries
<1> QED BY <1>1, <1>2, <1>3, FailKeeps

\* The session starts with nothing.
LEMMA TurnBegins ==
    ASSUME TurnBounds, TurnInit
    PROVE  TurnInv
<1>1. /\ history = <<>> /\ estimate = 0 /\ reasoning = 0 /\ queue = <<>> /\ turnPc = "idle" /\ turn = 0
      /\ messages = <<>> /\ calls = <<>> /\ last = 0 /\ transcript = {} /\ result = "none"
  BY DEF TurnInit, NoCalls
<1>2. <<>> \in Seq(Message) /\ <<>> \in Seq(Call) /\ <<>> \in Seq(Injected) /\ Len(<<>>) = 0 OBVIOUS
<1>3. SettledChain(<<>>) BY <1>2 DEF SettledChain
<1>4. Tokens(<<>>) = 0
  <2>1. Tokens(<<>>) <= Len(<<>>) /\ Tokens(<<>>) \in Nat BY <1>2, TokensLength, TokensFinite
  <2> QED BY <1>2, <2>1
<1>5. TurnHistory BY <1>1, <1>2, <1>3, <1>4 DEF TurnHistory, TurnBounds
<1>6. TurnLoop BY <1>1, <1>2, <1>3 DEF TurnLoop, TurnBounds, NoCalls
<1>7. TurnEntries BY <1>1 DEF TurnEntries, TurnRecorded
<1> QED BY <1>5, <1>6, <1>7 DEF TurnInv

\* Every step of a turn keeps its invariant.
LEMMA TurnKept ==
    ASSUME TurnBounds, TurnInv, [TurnNext]_turnVars
    PROVE  TurnInv'
<1>1. CASE Respond BY <1>1, RespondKeeps
<1>2. CASE RespondRefused \/ BudgetSpent \/ ModelFails \/ ModelSaysNothing \/ TerminalNotLast
  BY <1>2, FailuresKeep
<1>3. CASE InjectExchange \/ Reset \/ CompactContext BY <1>3, BetweenKeeps
<1>4. CASE Send BY <1>4, SendKeeps
<1>5. CASE Overflow BY <1>5, OverflowKeeps
<1>6. CASE ModelReasons BY <1>6, ReasonsKeep
<1>7. ASSUME NEW plan \in Plans, ModelCalls(plan) PROVE TurnInv' BY <1>7, CallsKeep
<1>8. ASSUME NEW r \in BOOLEAN, ModelAnswers(r) PROVE TurnInv' BY <1>8, AnswerKeeps
<1>9. ASSUME NEW ok \in BOOLEAN, RunTool(ok) PROVE TurnInv' BY <1>9, ToolKeeps
<1>10. CASE TerminalTool BY <1>10, TerminalKeeps
<1>11. ASSUME NEW m \in Injected, Inject(m) PROVE TurnInv' BY <1>11, InjectKeeps
<1>12. CASE UNCHANGED turnVars
  BY <1>12 DEF turnVars, session, loop, TurnInv, TurnHistory, TurnLoop, TurnEntries, TurnRecorded
<1> QED
  BY <1>1, <1>2, <1>3, <1>4, <1>5, <1>6, <1>7, <1>8, <1>9, <1>10, <1>11, <1>12
  DEF TurnNext, Step, ToolOutcomes

\* What filter_kernel_introspection_messages keeps of the request is a valid chain.
LEMMA FilterSound ==
    ASSUME TurnInv
    PROVE  FilterKeepsChain
<1> DEFINE ms == SubSeq(messages, 2, Len(messages))
<1>1. messages \in Seq(Message) /\ \A i \in 1..Len(messages) : messages[i].role /= "assistant" => messages[i].calls = NoCalls
  <2>1. CASE turnPc = "tools" BY <2>1, OpenPlain DEF TurnInv, TurnLoop
  <2>2. CASE turnPc # "tools" BY <2>2 DEF TurnInv, TurnLoop, SettledChain, Settled
  <2> QED BY <2>1, <2>2
<1>2. Len(messages) \in Nat BY <1>1
<1>3. ms \in Seq(Message) /\ \A i \in 1..Len(ms) : ms[i].role /= "assistant" => ms[i].calls = NoCalls
  <2>1. CASE Len(messages) = 0
    <3>1. ms = <<>> BY <1>1, <2>1
    <3> HIDE DEF ms
    <3>2. ms \in Seq(Message) /\ Len(ms) = 0 BY <3>1
    <3> QED BY <3>2
  <2>2. CASE Len(messages) # 0
    <3>1. 1 <= Len(messages) /\ 1 \in Nat /\ 1 + 1 = 2 BY <1>2, <2>2
    <3>2. /\ SubSeq(messages, 1 + 1, Len(messages)) \in Seq(Message)
          /\ Len(SubSeq(messages, 1 + 1, Len(messages))) = Len(messages) - 1
          /\ \A i \in 1..Len(messages) - 1 : SubSeq(messages, 1 + 1, Len(messages))[i] = messages[1 + i]
      BY <1>1, <3>1, SuffixOf
    <3>3. /\ ms \in Seq(Message) /\ Len(ms) = Len(messages) - 1
          /\ \A i \in 1..Len(messages) - 1 : ms[i] = messages[1 + i] BY <3>1, <3>2
    <3> HIDE DEF ms
    <3>4. \A i \in 1..Len(messages) - 1 : 1 + i \in 1..Len(messages) BY <1>2
    <3> QED BY <1>1, <3>3, <3>4
  <2> QED BY <2>1, <2>2
<1> HIDE DEF ms
<1>4. ChainClosed(ms) /\ ResultsFollow(ms) =>
        ChainClosed(Filter(ms)) /\ ResultsFollow(Filter(ms)) /\ KernelIds(Filter(ms)) = {}
  BY <1>3, FilterKeeps
<1> QED BY <1>4 DEF FilterKeepsChain, ms

\* The provider accepts every request of a turn: each tool call in it has its
\* result where the provider expects it, for every plan of the model, every
\* failure and every message that arrives in between, and what the filter keeps
\* of it is a valid chain again (respond_inner, filter_kernel_introspection_messages).
THEOREM TurnChainValid == TurnSpec => []ChainValid
<1>1. TurnInit => TurnInv BY TurnBounds, TurnBegins
<1>2. TurnInv /\ [TurnNext]_turnVars => TurnInv' BY TurnBounds, TurnKept
<1>3. TurnInv => ChainValid
  <2> SUFFICES ASSUME TurnInv PROVE ChainValid OBVIOUS
  <2>1. TurnTypeOK BY DEF TurnInv, TurnHistory, TurnLoop, TurnTypeOK, Call
  <2>2. CallsAnswered BY DEF TurnInv, TurnLoop, CallsAnswered
  <2> QED BY <2>1, <2>2, FilterSound DEF ChainValid
<1> QED BY <1>1, <1>2, <1>3, PTL DEF TurnSpec

\* The books of a session hold after every respond, overflow, compaction and
\* reset: the estimate covers the history, nobody's message is without an answer
\* or a recorded error, and after a reply the model has been sent every message
\* taken from the inject queue (remember_exchange, repair_transcript_on_error).
THEOREM TurnBooksKept == TurnSpec => []TurnBooked
<1>1. TurnInit => TurnInv BY TurnBounds, TurnBegins
<1>2. TurnInv /\ [TurnNext]_turnVars => TurnInv' BY TurnBounds, TurnKept
<1>3. TurnInv => TurnBooked
  <2> SUFFICES ASSUME TurnInv PROVE TurnBooked OBVIOUS
  <2>1. EstimateCovers BY TokensFinite DEF TurnInv, TurnHistory, EstimateCovers
  <2> QED BY <2>1 DEF TurnInv, TurnEntries, TurnBooked
<1> QED BY <1>1, <1>2, <1>3, PTL DEF TurnSpec

-----------------------------------------------------------------------------
(* WorkspaceEdits: backups, plans and drafts *)

\* What a file can hold, the backups of the rollback and of the updater, and a call of a tool.
Content == Absent..MaxWrites
BackupSet == [path : Paths, original : Content]
PatchedSet == [place : Places, original : Content]
ToolCall == [kind : OpKinds, from : Paths, to : Paths, original : Content, dest : Content]
SaverStage == {"off", "diffed", "stashed", "done", "exited"}

\* Each path has one backup.
OneEach(bs) == \A i, j \in 1..Len(bs) : bs[i].path = bs[j].path => i = j
HasPath(bs, p) == \E i \in 1..Len(bs) : bs[i].path = p

\* What absorb makes of two lists of backups.
Absorbs(old, new, r) ==
    /\ r \in Seq(BackupSet) /\ OneEach(r)
    /\ \A i \in 1..Len(r) :
         \/ \E j \in 1..Len(old) : r[i] = old[j]
         \/ ~ HasPath(old, r[i].path) /\ \E j \in 1..Len(new) : r[i] = new[j]
    /\ \A p : HasPath(old, p) \/ HasPath(new, p) => HasPath(r, p)

LEMMA AbsorbDoes ==
    ASSUME NEW old \in Seq(BackupSet), NEW new \in Seq(BackupSet), OneEach(old), OneEach(new)
    PROVE  Absorbs(old, new, Absorb(old, new))
<1> DEFINE I == {i \in DOMAIN new : \A j \in DOMAIN old : old[j].path /= new[i].path}
           t == ElementsAt(new, I)
           r == Absorb(old, new)
<1>1. r = old \o t BY DEF Absorb
<1>2. DOMAIN old = 1..Len(old) /\ DOMAIN new = 1..Len(new) /\ Len(old) \in Nat /\ Len(new) \in Nat OBVIOUS
<1>3. \A i \in 1..Len(new) : i \in I <=> ~ HasPath(old, new[i].path) BY <1>2 DEF HasPath
<1> HIDE DEF I, r
<1>4. t \in Seq(BackupSet) /\ \E f : PlacedBy(f, new, I, t) BY ElementsPlaced
<1>5. PICK f : PlacedBy(f, new, I, t) BY <1>4
<1> HIDE DEF t
<1>6. /\ \A k \in 1..Len(t) : f[k] \in 1..Len(new) /\ f[k] \in I /\ t[k] = new[f[k]]
      /\ \A j, k \in 1..Len(t) : j < k => f[j] < f[k]
      /\ \A i \in 1..Len(new) : i \in I => \E k \in 1..Len(t) : f[k] = i BY <1>5 DEF PlacedBy
<1>7. Len(t) \in Nat BY <1>4
<1>8. /\ r \in Seq(BackupSet) /\ Len(r) = Len(old) + Len(t)
      /\ \A i \in 1..Len(old) + Len(t) : r[i] = IF i <= Len(old) THEN old[i] ELSE t[i - Len(old)]
  BY <1>1, <1>4, ConcatProperties
<1>9. \A i \in 1..Len(old) : i \in 1..Len(r) /\ r[i] = old[i] BY <1>2, <1>7, <1>8
<1>10. \A k \in 1..Len(t) : Len(old) + k \in 1..Len(r) /\ r[Len(old) + k] = t[k]
  <2> TAKE k \in 1..Len(t)
  <2>1. /\ Len(old) + k \in 1..Len(old) + Len(t) /\ ~ (Len(old) + k <= Len(old))
        /\ (Len(old) + k) - Len(old) = k BY <1>2, <1>7
  <2> QED BY <1>8, <2>1
<1>11. \A i \in 1..Len(r) : i \in 1..Len(old) \/ (i - Len(old) \in 1..Len(t) /\ Len(old) + (i - Len(old)) = i)
  <2> SUFFICES ASSUME NEW i \in 1..Len(r)
               PROVE  i \in 1..Len(old) \/ (i - Len(old) \in 1..Len(t) /\ Len(old) + (i - Len(old)) = i)
    OBVIOUS
  <2>1. i \in Nat /\ 1 <= i /\ i <= Len(old) + Len(t) BY <1>2, <1>7, <1>8
  <2> QED BY <1>2, <1>7, <2>1
<1>12. \A k \in 1..Len(t) : ~ HasPath(old, t[k].path) BY <1>3, <1>6
<1>13. \A j, k \in 1..Len(t) : t[j].path = t[k].path => j = k
  <2> SUFFICES ASSUME NEW j \in 1..Len(t), NEW k \in 1..Len(t), t[j].path = t[k].path PROVE j = k OBVIOUS
  <2>0. f[j] \in 1..Len(new) /\ f[k] \in 1..Len(new) /\ new[f[j]].path = new[f[k]].path BY <1>6
  <2>1. f[j] = f[k] /\ f[j] \in Nat BY <1>2, <2>0, SMTT(30) DEF OneEach
  <2>2. ~ (j < k) /\ ~ (k < j) BY <1>6, <2>1
  <2> QED BY <1>7, <2>2
<1>14. OneEach(r)
  <2> SUFFICES ASSUME NEW i \in 1..Len(r), NEW j \in 1..Len(r), r[i].path = r[j].path PROVE i = j
    BY DEF OneEach
  <2>1. CASE i \in 1..Len(old) /\ j \in 1..Len(old) BY <1>9, <2>1 DEF OneEach
  <2>2. CASE i \in 1..Len(old) /\ j \notin 1..Len(old)
    <3>1. r[i] = old[i] /\ r[j] = t[j - Len(old)] /\ j - Len(old) \in 1..Len(t) BY <1>9, <1>10, <1>11, <2>2
    <3> QED BY <1>12, <2>2, <3>1 DEF HasPath
  <2>3. CASE i \notin 1..Len(old) /\ j \in 1..Len(old)
    <3>1. r[j] = old[j] /\ r[i] = t[i - Len(old)] /\ i - Len(old) \in 1..Len(t) BY <1>9, <1>10, <1>11, <2>3
    <3> QED BY <1>12, <2>3, <3>1 DEF HasPath
  <2>4. CASE i \notin 1..Len(old) /\ j \notin 1..Len(old)
    <3>1. /\ r[i] = t[i - Len(old)] /\ i - Len(old) \in 1..Len(t)
          /\ r[j] = t[j - Len(old)] /\ j - Len(old) \in 1..Len(t) BY <1>10, <1>11, <2>4
    <3>2. i - Len(old) = j - Len(old) BY <1>13, <3>1
    <3> QED BY <1>2, <3>2
  <2> QED BY <2>1, <2>2, <2>3, <2>4
<1>15. \A i \in 1..Len(r) :
         \/ \E j \in 1..Len(old) : r[i] = old[j]
         \/ ~ HasPath(old, r[i].path) /\ \E j \in 1..Len(new) : r[i] = new[j]
  <2> SUFFICES ASSUME NEW i \in 1..Len(r), i \notin 1..Len(old)
               PROVE  ~ HasPath(old, r[i].path) /\ \E j \in 1..Len(new) : r[i] = new[j] BY <1>9
  <2>1. PICK k \in 1..Len(t) : r[i] = t[k] BY <1>10, <1>11
  <2> QED BY <1>6, <1>12, <2>1
<1>16. ASSUME NEW p, HasPath(old, p) \/ HasPath(new, p) PROVE HasPath(r, p)
  <2>1. CASE HasPath(old, p) BY <1>9, <2>1 DEF HasPath
  <2>2. CASE ~ HasPath(old, p)
    <3>1. PICK j \in 1..Len(new) : new[j].path = p BY <1>16, <2>2 DEF HasPath
    <3>2. j \in I BY <1>3, <2>2, <3>1
    <3>3. PICK k \in 1..Len(t) : f[k] = j BY <1>6, <3>2
    <3>4. t[k].path = p BY <1>6, <3>1, <3>3
    <3>5. Len(old) + k \in 1..Len(r) /\ r[Len(old) + k].path = p BY <1>10, <3>4
    <3> QED BY <3>5 DEF HasPath
  <2> QED BY <2>1, <2>2
<1>17. Absorbs(old, new, r) BY <1>8, <1>14, <1>15, <1>16 DEF Absorbs
<1> QED BY <1>17 DEF r

\* The backups that a call hands over.
LEMMA CallBacksUp ==
    ASSUME NEW c \in ToolCall, c.kind = "rename" => c.from # c.to,
           c.kind \notin {"rename", "copy"} => c.from = c.to
    PROVE  LET bs == BackupsOf(c) IN
           /\ bs \in Seq(BackupSet) /\ OneEach(bs)
           /\ \A i \in 1..Len(bs) : /\ bs[i].path \in Touched(c)
                                    /\ \/ bs[i].path = c.from /\ bs[i].original = c.original
                                       \/ bs[i].path = c.to /\ bs[i].original = c.dest
           /\ \A p \in Touched(c) : HasPath(bs, p) \/ (c.kind = "rename" /\ c.dest = Absent /\ p = c.to)
<1> DEFINE a == Backup(c.from, c.original)
           b == Backup(c.to, c.dest)
           bs == BackupsOf(c)
<1>1. /\ a \in BackupSet /\ a.path = c.from /\ a.original = c.original
      /\ b \in BackupSet /\ b.path = c.to /\ b.original = c.dest BY DEF Backup, BackupSet, ToolCall
<1> HIDE DEF a, b
<1>2. ASSUME NEW x \in BackupSet PROVE <<x>> \in Seq(BackupSet) /\ Len(<<x>>) = 1 /\ <<x>>[1] = x OBVIOUS
<1>3. <<a, b>> \in Seq(BackupSet) /\ Len(<<a, b>>) = 2 /\ <<a, b>>[1] = a /\ <<a, b>>[2] = b BY <1>1
<1>4. (\A i \in 1..1 : i = 1) /\ (\A i \in 1..2 : i = 1 \/ i = 2) /\ 1 \in 1..1 /\ 1 \in 1..2 /\ 2 \in 1..2
  OBVIOUS
<1>5. CASE c.kind = "copy"
  <2>1. bs = <<b>> BY <1>5 DEF BackupsOf, b
  <2>2. Touched(c) = {c.to} BY <1>5 DEF Touched
  <2> HIDE DEF bs
  <2>3. bs \in Seq(BackupSet) /\ Len(bs) = 1 /\ bs[1] = b BY <1>1, <1>2, <2>1
  <2>4. OneEach(bs) /\ HasPath(bs, c.to) BY <1>1, <1>4, <2>3 DEF OneEach, HasPath
  <2>5. \A i \in 1..Len(bs) : bs[i] = b BY <1>4, <2>3
  <2> QED BY <1>1, <2>2, <2>3, <2>4, <2>5 DEF bs
<1>6. CASE c.kind = "rename" /\ c.dest /= Absent
  <2>1. bs = <<a, b>> BY <1>6 DEF BackupsOf, a, b
  <2>2. Touched(c) = {c.from, c.to} BY <1>6 DEF Touched
  <2> HIDE DEF bs
  <2>3. bs \in Seq(BackupSet) /\ Len(bs) = 2 /\ bs[1] = a /\ bs[2] = b BY <1>3, <2>1
  <2>4. OneEach(bs) /\ HasPath(bs, c.to) /\ HasPath(bs, c.from) BY <1>1, <1>4, <1>6, <2>3 DEF OneEach, HasPath
  <2>5. \A i \in 1..Len(bs) : bs[i] = a \/ bs[i] = b BY <1>4, <2>3
  <2> QED BY <1>1, <2>2, <2>3, <2>4, <2>5 DEF bs
<1>7. CASE c.kind /= "copy" /\ ~ (c.kind = "rename" /\ c.dest /= Absent)
  <2>1. bs = <<a>> BY <1>7 DEF BackupsOf, a
  <2>2. Touched(c) = {c.from, c.to} BY <1>7 DEF Touched
  <2> HIDE DEF bs
  <2>3. bs \in Seq(BackupSet) /\ Len(bs) = 1 /\ bs[1] = a BY <1>1, <1>2, <2>1
  <2>4. OneEach(bs) /\ HasPath(bs, c.from) BY <1>1, <1>4, <2>3 DEF OneEach, HasPath
  <2>5. \A i \in 1..Len(bs) : bs[i] = a BY <1>4, <2>3
  <2> QED BY <1>1, <1>7, <2>2, <2>3, <2>4, <2>5 DEF bs
<1> QED BY <1>5, <1>6, <1>7

\* The least number of a set.
LEMMA LeastChosen ==
    ASSUME NEW T, T \subseteq Nat, NEW m \in T, \A j \in T : m <= j
    PROVE  (CHOOSE i \in T : \A j \in T : i <= j) = m
<1> DEFINE c == CHOOSE i \in T : \A j \in T : i <= j
<1>1. c \in T /\ \A j \in T : c <= j OBVIOUS
<1> HIDE DEF c
<1>2. c <= m /\ m <= c /\ c \in Nat /\ m \in Nat BY <1>1
<1>3. c = m BY <1>2
<1> QED BY <1>3 DEF c

\* The rollback of a plan is not changed by one more patch, and neither by the
\* write that the patch makes: AutoUpdater's backup comes before the write.
LEMMA UndoneKept ==
    ASSUME NEW d \in [Places -> Content], NEW bs \in Seq(PatchedSet), NEW l \in Places, NEW n \in Content
    PROVE  /\ Append(bs, [place |-> l, original |-> d[l]]) \in Seq(PatchedSet)
           /\ Undone([d EXCEPT ![l] = n], Append(bs, [place |-> l, original |-> d[l]])) = Undone(d, bs)
<1> DEFINE b == [place |-> l, original |-> d[l]]
           e == [d EXCEPT ![l] = n]
           cs == Append(bs, b)
           own(x) == {i \in DOMAIN bs : bs[i].place = x}
           more(x) == {i \in DOMAIN cs : cs[i].place = x}
           first(T) == CHOOSE i \in T : \A j \in T : i <= j
<1>1. b \in PatchedSet /\ b.place = l /\ b.original = d[l] BY DEF PatchedSet
<1> HIDE DEF b
<1>2. /\ Len(bs) \in Nat /\ DOMAIN bs = 1..Len(bs)
      /\ cs \in Seq(PatchedSet) /\ Len(cs) = Len(bs) + 1 /\ DOMAIN cs = 1..Len(bs) + 1
      /\ (\A i \in 1..Len(bs) : cs[i] = bs[i]) /\ cs[Len(bs) + 1] = b BY <1>1, AppendProperties
<1>3. \A i \in 1..Len(bs) + 1 : i \in 1..Len(bs) \/ i = Len(bs) + 1 BY <1>2
<1>4. \A i \in 1..Len(bs) : i \in 1..Len(bs) + 1 /\ i < Len(bs) + 1 /\ i \in Nat BY <1>2
<1>5. Len(bs) + 1 \in 1..Len(bs) + 1 /\ Len(bs) + 1 \in Nat BY <1>2
<1> HIDE DEF cs
<1>6. ASSUME NEW x \in Places
      PROVE  (IF more(x) = {} THEN e[x] ELSE cs[first(more(x))].original)
               = IF own(x) = {} THEN d[x] ELSE bs[first(own(x))].original
  <2>1. own(x) \subseteq 1..Len(bs) /\ own(x) \subseteq Nat BY <1>2, <1>4
  <2>2. \A i \in own(x) : i \in more(x) BY <1>2, <1>4
  <2>3. more(x) \subseteq Nat /\ \A i \in more(x) : i \in own(x) \/ (i = Len(bs) + 1 /\ x = l)
    BY <1>1, <1>2, <1>3, <1>4, <1>5
  <2>4. x = l => Len(bs) + 1 \in more(x) BY <1>1, <1>2, <1>5
  <2> HIDE DEF own, more
  <2>5. CASE own(x) # {}
    <3>1. PICK m \in own(x) : \A j \in own(x) : m <= j BY <2>1, <2>5, LeastNumber
    <3>2. m \in 1..Len(bs) /\ m \in more(x) BY <2>1, <2>2
    <3>3. \A j \in more(x) : m <= j BY <1>4, <2>3, <3>1, <3>2
    <3>4. first(own(x)) = m BY <2>1, <3>1, LeastChosen
    <3>5. first(more(x)) = m BY <2>3, <3>2, <3>3, LeastChosen
    <3> HIDE DEF first
    <3>6. cs[m] = bs[m] /\ more(x) # {} BY <1>2, <3>2
    <3> QED BY <2>5, <3>4, <3>5, <3>6
  <2>6. CASE own(x) = {} /\ x # l BY <2>3, <2>6
  <2>7. CASE own(x) = {} /\ x = l
    <3>1. Len(bs) + 1 \in more(x) /\ \A j \in more(x) : Len(bs) + 1 <= j BY <1>5, <2>3, <2>4, <2>7
    <3>2. first(more(x)) = Len(bs) + 1 BY <2>3, <3>1, LeastChosen
    <3> HIDE DEF first
    <3>3. cs[Len(bs) + 1].original = d[x] /\ more(x) # {} BY <1>1, <1>2, <2>7, <3>1
    <3> QED BY <2>7, <3>2, <3>3
  <2> QED BY <2>5, <2>6, <2>7
<1>7. Undone(e, cs) = [x \in Places |-> IF more(x) = {} THEN e[x] ELSE cs[first(more(x))].original]
  BY DEF Undone
<1>8. Undone(d, bs) = [x \in Places |-> IF own(x) = {} THEN d[x] ELSE bs[first(own(x))].original]
  BY DEF Undone
<1> HIDE DEF more, own, first, e
<1>9. Undone(e, cs) = Undone(d, bs) BY <1>6, <1>7, <1>8
<1> QED BY <1>2, <1>9 DEF e, cs, b

\* What the rollback of a plan makes of the disk.
LEMMA UndoneType ==
    ASSUME NEW d \in [Places -> Content], NEW bs \in Seq(PatchedSet)
    PROVE  Undone(d, bs) \in [Places -> Content] /\ Undone(d, <<>>) = d
<1> DEFINE own(x) == {i \in DOMAIN bs : bs[i].place = x}
           first(T) == CHOOSE i \in T : \A j \in T : i <= j
<1>1. DOMAIN bs = 1..Len(bs) /\ Len(bs) \in Nat /\ \A i \in 1..Len(bs) : bs[i].original \in Content
  <2>1. \A i \in 1..Len(bs) : bs[i] \in PatchedSet OBVIOUS
  <2> QED BY <2>1 DEF PatchedSet
<1>2. ASSUME NEW x \in Places PROVE (IF own(x) = {} THEN d[x] ELSE bs[first(own(x))].original) \in Content
  <2>1. own(x) \subseteq 1..Len(bs) /\ own(x) \subseteq Nat BY <1>1
  <2> HIDE DEF own
  <2>2. CASE own(x) # {}
    <3>1. PICK m \in own(x) : \A j \in own(x) : m <= j BY <2>1, <2>2, LeastNumber
    <3>2. first(own(x)) = m BY <2>1, <3>1, LeastChosen
    <3> HIDE DEF first
    <3> QED BY <1>1, <2>1, <2>2, <3>2
  <2> QED BY <2>2
<1>3. Undone(d, bs) = [x \in Places |-> IF own(x) = {} THEN d[x] ELSE bs[first(own(x))].original]
  BY DEF Undone
<1> HIDE DEF own, first
<1>4. Undone(d, bs) \in [Places -> Content] BY <1>2, <1>3
<1>5. Undone(d, <<>>) = [x \in Places |-> d[x]] BY DEF Undone
<1>6. [x \in Places |-> d[x]] = d OBVIOUS
<1> QED BY <1>4, <1>5, <1>6

\* PluginEditRollback::rollback: a path with one backup gets that backup's content.
LEMMA RestoreGives ==
    ASSUME NEW d \in [Places -> Content], NEW bs \in Seq(BackupSet)
    PROVE  /\ Restore(d, bs) \in [Places -> Content]
           /\ \A p \in Paths : HasPath(bs, p) =>
                \E i \in 1..Len(bs) : bs[i].path = p /\ Restore(d, bs)[Restored(p)] = bs[i].original
<1> DEFINE first(l) == CHOOSE i \in DOMAIN bs : /\ Restored(bs[i].path) = l
                                                /\ \A j \in 1..i-1 : Restored(bs[j].path) /= l
           hit(l) == \E i \in DOMAIN bs : Restored(bs[i].path) = l
<1>1. DOMAIN bs = 1..Len(bs) /\ Len(bs) \in Nat /\ \A i \in 1..Len(bs) : bs[i].original \in Content
  <2>1. \A i \in 1..Len(bs) : bs[i] \in BackupSet OBVIOUS
  <2> QED BY <2>1 DEF BackupSet
<1>2. ASSUME NEW l, hit(l) PROVE first(l) \in 1..Len(bs) /\ Restored(bs[first(l)].path) = l
  <2> DEFINE T == {i \in 1..Len(bs) : Restored(bs[i].path) = l}
  <2>1. T \subseteq Nat /\ T # {} BY <1>1, <1>2
  <2>2. PICK m \in T : \A j \in T : m <= j BY <2>1, LeastNumber
  <2>3. m \in DOMAIN bs /\ Restored(bs[m].path) = l /\ \A j \in 1..m-1 : Restored(bs[j].path) /= l
    BY <1>1, <2>2
  <2> QED BY <1>1, <2>3
<1>3. Restore(d, bs) = [l \in Places |-> IF hit(l) THEN bs[first(l)].original ELSE d[l]] BY DEF Restore
<1>4. ASSUME NEW p \in Paths, HasPath(bs, p) PROVE hit(Restored(p)) /\ Restored(p) \in Places
  BY <1>1, <1>4 DEF HasPath, Places
<1> HIDE DEF hit, first
<1>5. Restore(d, bs) \in [Places -> Content] BY <1>1, <1>2, <1>3
<1>6. ASSUME NEW p \in Paths, HasPath(bs, p)
      PROVE  \E i \in 1..Len(bs) : bs[i].path = p /\ Restore(d, bs)[Restored(p)] = bs[i].original
  <2> DEFINE i == first(Restored(p))
  <2>1. i \in 1..Len(bs) /\ Restored(bs[i].path) = Restored(p) BY <1>2, <1>4, <1>6
  <2>2. Restore(d, bs)[Restored(p)] = bs[i].original BY <1>3, <1>4, <1>6
  <2> HIDE DEF i
  <2>3. bs[i].path = p BY <2>1 DEF Restored
  <2> QED BY <2>1, <2>2, <2>3
<1> QED BY <1>5, <1>6

\* The console, its savers and its books.
EditsPlace ==
    /\ disk \in [Places -> Content] /\ writes \in 0..MaxWrites
    /\ mode \in {"command", "chat", "shell"}
    /\ editsPc \in {"prompt", "turn", "tool", "txn", "undo", "draft"}
    /\ saver \in [Threads -> SaverStage] /\ (saver["console"] # "off" => editsPc = "draft")
    /\ backups \in Seq(BackupSet) /\ txn \in Seq(PatchedSet) /\ before \in [Places -> Content]

\* What a tool has read is still on the disk when it writes.
ToolRead ==
    editsPc = "tool" =>
      /\ tool \in ToolCall /\ writes < MaxWrites
      /\ tool.kind = "rename" => tool.from # tool.to
      /\ tool.kind \notin {"rename", "copy"} => tool.from = tool.to
      /\ Quiet => tool.original = disk[Place(tool.from)] /\ tool.dest = disk[Place(tool.to)]

\* Every path that was edited has one backup, of the content before the first edit.
Backed ==
    /\ OneEach(backups)
    /\ Quiet => /\ \A i \in 1..Len(backups) :
                     /\ backups[i].path \in DOMAIN base
                     /\ backups[i].path \notin loose => backups[i].original = base[backups[i].path]
                /\ \A p \in DOMAIN base \ loose : HasPath(backups, p)

\* The backups of a plan lead back to where it began.
PlanKept == editsPc = "txn" /\ Quiet => Undone(disk, txn) = before

EditsInv == EditsPlace /\ ToolRead /\ Backed /\ PlanKept

\* The disk as it is when the console is not inside a tool or a plan.
LEMMA EditsCalm ==
    ASSUME EditsInv, EditsPlace', editsPc' \notin {"tool", "txn"}, UNCHANGED <<backups, base, loose>>,
           Quiet' => Quiet
    PROVE  EditsInv'
<1>1. ToolRead' /\ PlanKept' BY DEF ToolRead, PlanKept
<1>2. Backed' BY DEF EditsInv, Backed, OneEach, HasPath
<1> QED BY <1>1, <1>2 DEF EditsInv

LEMMA PlacesKnown ==
    ASSUME WorkspaceBounds
    PROVE  /\ \A p \in Paths : Place(p) \in Places /\ Restored(p) \in Places
           /\ CleanTree \in [Places -> Content] /\ Absent \in Content
           /\ \A n \in 0..MaxWrites : n \in Content
<1>1. Absent \in Content /\ \A n \in 0..MaxWrites : n \in Content BY DEF WorkspaceBounds, Absent, Content
<1>2. 0 \in Content BY <1>1 DEF WorkspaceBounds
<1>3. CleanTree \in [Places -> Content] BY <1>1, <1>2 DEF CleanTree, GitHead
<1> QED BY <1>1, <1>3 DEF Places

LEMMA EditsBegin ==
    ASSUME WorkspaceBounds, EditsInit
    PROVE  EditsInv
<1>1. /\ disk = CleanTree /\ mode = "command" /\ editsPc = "prompt" /\ backups = <<>> /\ txn = <<>>
      /\ saver = [t \in Threads |-> "off"] /\ writes = 0 /\ base = <<>> /\ before = disk BY DEF EditsInit
<1>2. "console" \in Threads /\ saver["console"] = "off" /\ saver \in [Threads -> SaverStage]
  BY <1>1 DEF Threads, SaverStage
<1>3. <<>> \in Seq(BackupSet) /\ <<>> \in Seq(PatchedSet) /\ Len(<<>>) = 0 /\ DOMAIN <<>> = {} OBVIOUS
<1>4. EditsPlace BY <1>1, <1>2, <1>3, PlacesKnown DEF EditsPlace, WorkspaceBounds
<1>5. ToolRead /\ PlanKept BY <1>1 DEF ToolRead, PlanKept
<1>6. Backed BY <1>1, <1>3 DEF Backed, OneEach
<1> QED BY <1>4, <1>5, <1>6 DEF EditsInv

\* The prompt and the ends of a turn.
LEMMA PromptKeeps ==
    ASSUME WorkspaceBounds, EditsInv, ChangeMode \/ StartTurn \/ PlanAccepted \/ \E b \in BOOLEAN : TurnEnds(b)
    PROVE  EditsInv'
<1>1. /\ UNCHANGED <<disk, writes, backups, saver, base, loose>>
      /\ mode' \in {"command", "chat", "shell"} /\ editsPc' \in {"prompt", "turn", "undo"}
      /\ editsPc # "draft" /\ (txn' = txn \/ txn' = <<>>) /\ (before' = before \/ before' = CleanTree)
  BY DEF ChangeMode, StartTurn, PlanAccepted, TurnEnds, files, editHistory, EditsInv, EditsPlace
<1>2. <<>> \in Seq(PatchedSet) OBVIOUS
<1>3. EditsPlace' BY <1>1, <1>2, PlacesKnown DEF EditsInv, EditsPlace
<1> QED BY <1>1, <1>3, EditsCalm DEF Quiet

\* A tool reads its originals.
LEMMA ReadKeeps ==
    ASSUME WorkspaceBounds, EditsInv, NEW k \in OpKinds, NEW p \in Paths, NEW q \in Paths, ReadOriginals(k, p, q)
    PROVE  EditsInv'
<1>1. /\ editsPc = "turn" /\ writes < MaxWrites /\ editsPc' = "tool"
      /\ (k \in {"rename", "copy"} => p # q) /\ (k \notin {"rename", "copy"} => p = q)
      /\ tool' = [kind |-> k, from |-> p, to |-> q, original |-> disk[Place(p)], dest |-> disk[Place(q)]]
      /\ UNCHANGED <<disk, writes, mode, backups, txn, saver, base, loose, before>>
  BY DEF ReadOriginals, files, editHistory
<1>2. disk[Place(p)] \in Content /\ disk[Place(q)] \in Content BY PlacesKnown DEF EditsInv, EditsPlace
<1>3. /\ tool' \in ToolCall /\ tool'.kind = k /\ tool'.from = p /\ tool'.to = q
      /\ tool'.original = disk[Place(p)] /\ tool'.dest = disk[Place(q)] BY <1>1, <1>2 DEF ToolCall
<1>4. EditsPlace' BY <1>1 DEF EditsInv, EditsPlace
<1>5. ToolRead' BY <1>1, <1>3 DEF ToolRead
<1>6. Backed' /\ PlanKept' BY <1>1 DEF EditsInv, Backed, PlanKept, OneEach, HasPath, Quiet
<1> QED BY <1>4, <1>5, <1>6 DEF EditsInv

\* A tool changes the disk and hands over its backups.
LEMMA EditKeeps ==
    ASSUME WorkspaceBounds, EditsInv, Edit
    PROVE  EditsInv'
<1> DEFINE new == BackupsOf(tool)
           n == writes + 1
<1>1. /\ editsPc = "tool" /\ editsPc' = "turn" /\ writes' = n /\ disk' = Changed(tool, n)
      /\ backups' = Absorb(backups, new)
      /\ base' = [p \in DOMAIN base \cup Touched(tool) |->
                    IF p \in DOMAIN base THEN base[p] ELSE disk[Place(p)]]
      /\ loose' = loose \cup IF tool.kind = "rename" /\ tool.dest = Absent THEN {tool.to} ELSE {}
      /\ UNCHANGED <<mode, txn, saver, before>> BY DEF Edit
<1>2. /\ tool \in ToolCall /\ writes < MaxWrites /\ writes \in 0..MaxWrites
      /\ tool.kind = "rename" => tool.from # tool.to
      /\ tool.kind \notin {"rename", "copy"} => tool.from = tool.to
      /\ Quiet => tool.original = disk[Place(tool.from)] /\ tool.dest = disk[Place(tool.to)]
  BY <1>1 DEF EditsInv, ToolRead, EditsPlace
<1>3. n \in 0..MaxWrites /\ n \in Content BY <1>2, PlacesKnown DEF WorkspaceBounds
<1> HIDE DEF n
<1>4. /\ new \in Seq(BackupSet) /\ OneEach(new)
      /\ \A i \in 1..Len(new) : /\ new[i].path \in Touched(tool)
                                /\ \/ new[i].path = tool.from /\ new[i].original = tool.original
                                   \/ new[i].path = tool.to /\ new[i].original = tool.dest
      /\ \A p \in Touched(tool) : HasPath(new, p) \/ (tool.kind = "rename" /\ tool.dest = Absent /\ p = tool.to)
  BY <1>2, CallBacksUp
<1> HIDE DEF new
<1>5. Absorbs(backups, new, backups') BY <1>1, <1>4, AbsorbDoes DEF EditsInv, EditsPlace, Backed
<1>6. disk' \in [Places -> Content]
  <2>1. disk \in [Places -> Content] /\ tool.from \in Paths /\ tool.to \in Paths /\ tool.kind \in OpKinds
    BY <1>2 DEF EditsInv, EditsPlace, ToolCall
  <2>2. Place(tool.from) \in Places /\ Place(tool.to) \in Places /\ Absent \in Content BY <2>1, PlacesKnown
  <2>3. CASE tool.kind \in {"write", "append", "replace"} BY <1>1, <2>3, <1>3, <2>1, <2>2 DEF Changed
  <2>4. CASE tool.kind = "delete" BY <1>1, <2>4, <2>1, <2>2 DEF Changed
  <2>5. CASE tool.kind = "rename" BY <1>1, <2>5, <2>1, <2>2 DEF Changed
  <2>6. CASE tool.kind = "copy" BY <1>1, <2>6, <2>1, <2>2 DEF Changed
  <2> QED BY <2>1, <2>3, <2>4, <2>5, <2>6 DEF OpKinds
<1>7. EditsPlace' BY <1>1, <1>3, <1>5, <1>6 DEF EditsInv, EditsPlace, Absorbs
<1>8. ToolRead' /\ PlanKept' BY <1>1 DEF ToolRead, PlanKept
<1>9. DOMAIN base' = DOMAIN base \cup Touched(tool) BY <1>1
<1>10. ASSUME Quiet, NEW i \in 1..Len(backups')
       PROVE  /\ backups'[i].path \in DOMAIN base'
              /\ backups'[i].path \notin loose' => backups'[i].original = base'[backups'[i].path]
  <2>1. CASE \E j \in 1..Len(backups) : backups'[i] = backups[j]
    <3>1. PICK j \in 1..Len(backups) : backups'[i] = backups[j] BY <2>1
    <3>2. /\ backups[j].path \in DOMAIN base
          /\ backups[j].path \notin loose => backups[j].original = base[backups[j].path]
      BY <1>10 DEF EditsInv, Backed
    <3>3. base'[backups[j].path] = base[backups[j].path] BY <1>1, <3>2
    <3> QED BY <1>1, <1>9, <3>1, <3>2, <3>3
  <2>2. CASE ~ (\E j \in 1..Len(backups) : backups'[i] = backups[j])
    <3>1. ~ HasPath(backups, backups'[i].path) /\ \E j \in 1..Len(new) : backups'[i] = new[j]
      BY <1>5, <2>2 DEF Absorbs
    <3>2. PICK j \in 1..Len(new) : backups'[i] = new[j] BY <3>1
    <3> DEFINE p == new[j].path
    <3>3. /\ p \in Touched(tool)
          /\ \/ p = tool.from /\ new[j].original = tool.original
             \/ p = tool.to /\ new[j].original = tool.dest BY <1>4
    <3>4. new[j].original = disk[Place(p)] BY <1>2, <1>10, <3>3
    <3>5. ASSUME p \notin loose' PROVE base'[p] = disk[Place(p)]
      <4>1. p \notin loose BY <1>1, <3>5
      <4>2. p \notin DOMAIN base BY <1>10, <3>1, <3>2, <4>1 DEF EditsInv, Backed
      <4> HIDE DEF p
      <4> QED BY <1>1, <3>3, <4>2
    <3> QED BY <1>9, <3>2, <3>3, <3>4, <3>5
  <2> QED BY <2>1, <2>2
<1>11. ASSUME Quiet, NEW p \in DOMAIN base' \ loose' PROVE HasPath(backups', p)
  <2>1. p \notin loose /\ ~ (tool.kind = "rename" /\ tool.dest = Absent /\ p = tool.to) BY <1>1
  <2>2. CASE p \in DOMAIN base BY <1>11, <2>1, <2>2, <1>5 DEF EditsInv, Backed, Absorbs
  <2>3. CASE p \in Touched(tool) BY <1>4, <2>1, <2>3, <1>5 DEF Absorbs
  <2> QED BY <1>9, <2>2, <2>3
<1>12. Backed' BY <1>5, <1>1, <1>10, <1>11 DEF Absorbs, OneEach, Quiet, HasPath, Backed
<1> QED BY <1>7, <1>8, <1>12 DEF EditsInv

\* A write that fails may have torn the file; no backup is taken.
LEMMA FailedEditKeeps ==
    ASSUME WorkspaceBounds, EditsInv, NEW torn \in BOOLEAN, EditFails(torn)
    PROVE  EditsInv'
<1>1. /\ editsPc = "tool" /\ editsPc' = "turn"
      /\ UNCHANGED <<mode, backups, txn, saver, base, loose, before>>
      /\ IF torn THEN writes' = writes + 1 /\ disk' = [disk EXCEPT ![Place(tool.to)] = writes + 1]
         ELSE UNCHANGED <<disk, writes>> BY DEF EditFails, editHistory, files
<1>2. tool \in ToolCall /\ writes < MaxWrites /\ writes \in 0..MaxWrites /\ disk \in [Places -> Content]
  BY <1>1 DEF EditsInv, ToolRead, EditsPlace
<1>3. writes + 1 \in 0..MaxWrites /\ writes + 1 \in Content BY <1>2, PlacesKnown DEF WorkspaceBounds
<1>4. Place(tool.to) \in Places BY <1>2, PlacesKnown DEF ToolCall
<1>5. disk' \in [Places -> Content] /\ writes' \in 0..MaxWrites BY <1>1, <1>2, <1>3, <1>4
<1>6. EditsPlace' BY <1>1, <1>5 DEF EditsInv, EditsPlace
<1> QED BY <1>1, <1>6, EditsCalm DEF Quiet

\* A revert, by the tool or after a failed turn.
LEMMA RevertKeeps ==
    ASSUME WorkspaceBounds, EditsInv, RevertTool \/ UndoTurn
    PROVE  EditsInv'
<1>1. /\ disk' = Restore(disk, backups) /\ backups' = <<>> /\ base' = <<>>
      /\ editsPc # "draft" /\ editsPc' \in {"turn", "draft"}
      /\ UNCHANGED <<mode, txn, saver, writes, before>> BY DEF RevertTool, UndoTurn, Revert
<1>2. <<>> \in Seq(BackupSet) /\ Len(<<>>) = 0 /\ DOMAIN <<>> = {} OBVIOUS
<1>3. disk' \in [Places -> Content] BY <1>1, RestoreGives DEF EditsInv, EditsPlace
<1>4. EditsPlace' BY <1>1, <1>2, <1>3 DEF EditsInv, EditsPlace
<1>5. ToolRead' /\ PlanKept' BY <1>1 DEF ToolRead, PlanKept
<1>6. Backed' BY <1>1, <1>2 DEF Backed, OneEach
<1> QED BY <1>4, <1>5, <1>6 DEF EditsInv

\* A draft is saved: by the console, which is inside no tool and no plan, or by
\* the signal handler, after which nothing is promised about its reads.
LEMMA DraftKeeps ==
    ASSUME WorkspaceBounds, EditsInv, NEW t \in Threads, SaveDraft(t)
    PROVE  EditsInv'
<1>1. /\ UNCHANGED <<mode, tool, backups, txn, writes, base, loose, before>>
      /\ saver' = [saver EXCEPT ![t] = saver'[t]] /\ saver'[t] \in SaverStage
      /\ t = "console" => editsPc = "draft"
      /\ t = "signal" => editsPc' = editsPc
      /\ editsPc' \in {editsPc, "prompt"} /\ (t = "console" => editsPc' = "draft" \/ saver'[t] = "off")
      /\ t = "signal" => saver'[t] # "off"
  <2>0. saver \in [Threads -> SaverStage] /\ (saver["console"] # "off" => editsPc = "draft")
    BY DEF EditsInv, EditsPlace
  <2>1. CASE DraftDiff(t) BY <2>0, <2>1 DEF DraftDiff, files, editHistory, SaverStage
  <2>2. CASE DraftStash(t) BY <2>0, <2>2 DEF DraftStash, editHistory, SaverStage
  <2>3. CASE DraftCheckout(t) BY <2>0, <2>3 DEF DraftCheckout, editHistory, SaverStage
  <2>4. CASE DraftDone(t) BY <2>0, <2>4 DEF DraftDone, files, editHistory, SaverStage
  <2> QED BY <2>1, <2>2, <2>3, <2>4 DEF SaveDraft
<1>2. disk' \in [Places -> Content]
  <2>1. disk \in [Places -> Content] /\ Absent \in Content /\ \A l : GitHead(l) \in Content
    BY PlacesKnown DEF EditsInv, EditsPlace, GitHead, WorkspaceBounds
  <2>2. CASE DraftStash(t) BY <2>2, <2>1 DEF DraftStash
  <2>3. CASE DraftCheckout(t) BY <2>3, <2>1 DEF DraftCheckout
  <2>4. CASE DraftDiff(t) \/ DraftDone(t) BY <2>1, <2>4 DEF DraftDiff, DraftDone, files
  <2> QED BY <2>2, <2>3, <2>4 DEF SaveDraft
<1>3. saver \in [Threads -> SaverStage] /\ "console" \in Threads /\ "signal" \in Threads
      /\ (t = "console" \/ t = "signal") BY DEF EditsInv, EditsPlace, Threads
<1>4. saver' \in [Threads -> SaverStage] BY <1>1, <1>3
<1>5. EditsPlace' BY <1>1, <1>2, <1>3, <1>4 DEF EditsInv, EditsPlace
<1>6. CASE t = "console" BY <1>1, <1>6, <1>3, <1>5, EditsCalm DEF Quiet
<1>7. CASE t = "signal"
  <2>1. ~ Quiet' BY <1>1, <1>3, <1>7 DEF Quiet
  <2>2. ToolRead' BY <1>1, <1>7, <2>1 DEF EditsInv, ToolRead
  <2>3. Backed' /\ PlanKept' BY <1>1, <2>1 DEF EditsInv, Backed, OneEach, PlanKept
  <2> QED BY <1>5, <2>2, <2>3 DEF EditsInv
<1> QED BY <1>3, <1>6, <1>7

\* A patch of a plan.
LEMMA PatchKeeps ==
    ASSUME WorkspaceBounds, EditsInv, NEW l \in Places, ApplyPatch(l)
    PROVE  EditsInv'
<1> DEFINE bs == Append(txn, [place |-> l, original |-> disk[l]])
           n == writes + 1
           d == [disk EXCEPT ![l] = n]
<1>1. /\ editsPc = "txn" /\ writes < MaxWrites /\ txn' = bs /\ writes' = n /\ disk' = d
      /\ UNCHANGED <<mode, editsPc, backups, saver, base, loose, before>> BY DEF ApplyPatch, editHistory
<1>2. disk \in [Places -> Content] /\ txn \in Seq(PatchedSet) /\ n \in 0..MaxWrites /\ n \in Content
  BY <1>1, PlacesKnown DEF EditsInv, EditsPlace, WorkspaceBounds
<1>3. bs \in Seq(PatchedSet) /\ Undone(d, bs) = Undone(disk, txn) BY <1>2, UndoneKept, ZenonT(60)
<1> HIDE DEF n
<1>4. d \in [Places -> Content] BY <1>2
<1> HIDE DEF bs, d
<1>5. EditsPlace' BY <1>1, <1>2, <1>3, <1>4 DEF EditsInv, EditsPlace
<1>6. PlanKept' BY <1>1, <1>3 DEF EditsInv, PlanKept, Quiet
<1>7. ToolRead' /\ Backed' BY <1>1 DEF EditsInv, ToolRead, Backed, OneEach, HasPath, Quiet
<1> QED BY <1>5, <1>6, <1>7 DEF EditsInv

\* The plans of the updater.
LEMMA PlanKeeps ==
    ASSUME WorkspaceBounds, EditsInv, StartPlan \/ \E l \in Places : ApplyPatch(l)
    PROVE  EditsInv'
<1>1. CASE StartPlan
  <2>1. /\ editsPc = "prompt" /\ editsPc' = "txn" /\ txn' = <<>> /\ before' = disk
        /\ UNCHANGED <<disk, writes, mode, backups, saver, base, loose>> BY <1>1 DEF StartPlan, files
  <2>2. <<>> \in Seq(PatchedSet) OBVIOUS
  <2>3. EditsPlace' BY <2>1, <2>2 DEF EditsInv, EditsPlace
  <2>4. Undone(disk, <<>>) = disk BY <2>2, UndoneType DEF EditsInv, EditsPlace
  <2>5. PlanKept' BY <2>1, <2>4 DEF PlanKept
  <2>6. ToolRead' /\ Backed' BY <2>1 DEF EditsInv, ToolRead, Backed, OneEach, HasPath, Quiet
  <2> QED BY <2>3, <2>5, <2>6 DEF EditsInv
<1>2. ASSUME NEW l \in Places, ApplyPatch(l) PROVE EditsInv' BY <1>2, PatchKeeps
<1> QED BY <1>1, <1>2

\* A plan fails: the disk is what it was when the plan began.
LEMMA PlanUndone ==
    ASSUME WorkspaceBounds, EditsInv, NEW torn \in BOOLEAN, NEW l \in Places, PlanFails(torn, l)
    PROVE  EditsInv' /\ (Quiet => disk' = before)
<1> DEFINE bs == IF torn THEN Append(txn, [place |-> l, original |-> disk[l]]) ELSE txn
           d == IF torn THEN [disk EXCEPT ![l] = writes + 1] ELSE disk
<1>1. /\ editsPc = "txn" /\ (torn => writes < MaxWrites) /\ disk' = Undone(d, bs)
      /\ writes' = IF torn THEN writes + 1 ELSE writes
      /\ txn' = <<>> /\ editsPc' = "prompt" /\ before' = CleanTree
      /\ UNCHANGED <<mode, backups, saver, base, loose>> BY DEF PlanFails
<1>2. disk \in [Places -> Content] /\ txn \in Seq(PatchedSet) /\ writes \in 0..MaxWrites
  BY DEF EditsInv, EditsPlace
<1>3. writes' \in 0..MaxWrites /\ (torn => writes + 1 \in Content)
  BY <1>1, <1>2, PlacesKnown DEF WorkspaceBounds
<1>4. bs \in Seq(PatchedSet) /\ d \in [Places -> Content] /\ Undone(d, bs) = Undone(disk, txn)
  <2>1. CASE torn BY <1>2, <1>3, <2>1, UndoneKept, ZenonT(60)
  <2>2. CASE ~ torn BY <1>2, <2>2
  <2> QED BY <2>1, <2>2
<1> HIDE DEF bs, d
<1>5. disk' \in [Places -> Content] BY <1>1, <1>4, UndoneType
<1>6. EditsPlace' BY <1>1, <1>3, <1>5, PlacesKnown DEF EditsInv, EditsPlace
<1>7. EditsInv' BY <1>1, <1>6, EditsCalm DEF Quiet
<1>8. Quiet => disk' = before BY <1>1, <1>4 DEF EditsInv, PlanKept
<1> QED BY <1>7, <1>8

\* Every step keeps the invariant.
LEMMA EditsKept ==
    ASSUME WorkspaceBounds, EditsInv, [EditsNext]_editsVars
    PROVE  EditsInv'
<1>1. CASE ChangeMode \/ StartTurn \/ PlanAccepted \/ \E b \in BOOLEAN : TurnEnds(b) BY <1>1, PromptKeeps
<1>2. CASE Edit BY <1>2, EditKeeps
<1>3. CASE RevertTool \/ UndoTurn BY <1>3, RevertKeeps
<1>4. CASE StartPlan \/ \E l \in Places : ApplyPatch(l) BY <1>4, PlanKeeps
<1>5. ASSUME NEW k \in OpKinds, NEW p \in Paths, NEW q \in Paths, ReadOriginals(k, p, q) PROVE EditsInv'
  BY <1>5, ReadKeeps
<1>6. ASSUME NEW b \in BOOLEAN, EditFails(b) PROVE EditsInv' BY <1>6, FailedEditKeeps
<1>7. ASSUME NEW l \in Places, NEW torn \in BOOLEAN, PlanFails(torn, l) PROVE EditsInv' BY <1>7, PlanUndone
<1>8. ASSUME NEW t \in Threads, SaveDraft(t) PROVE EditsInv' BY <1>8, DraftKeeps
<1>9. CASE UNCHANGED editsVars
  <2>1. UNCHANGED <<disk, mode, editsPc, tool, backups, txn, saver, writes, base, loose, before>>
    BY <1>9 DEF editsVars, editHistory
  <2> QED BY <2>1 DEF EditsInv, EditsPlace, ToolRead, Backed, PlanKept, OneEach, HasPath, Quiet
<1> QED BY <1>1, <1>2, <1>3, <1>4, <1>5, <1>6, <1>7, <1>8, <1>9 DEF EditsNext, Console

\* Only a revert empties the backups.
LEMMA RevertDone ==
    ASSUME WorkspaceBounds, EditsInv, [EditsNext]_editsVars, backups # <<>>, backups' = <<>>, Quiet
    PROVE  \A p \in DOMAIN base \ (DataPaths \cup loose) : disk'[Place(p)] = base[p]
<1>1. CASE RevertTool \/ UndoTurn
  <2> SUFFICES ASSUME NEW p \in DOMAIN base, p \notin DataPaths, p \notin loose
               PROVE  disk'[Place(p)] = base[p] OBVIOUS
  <2>1. disk' = Restore(disk, backups) /\ Place(p) = Restored(p)
    BY <1>1 DEF RevertTool, UndoTurn, Revert, Place, Restored
  <2>2. HasPath(backups, p) BY DEF EditsInv, Backed
  <2>3. p \in Paths
    <3>1. \A i \in 1..Len(backups) : backups[i] \in BackupSet BY DEF EditsInv, EditsPlace
    <3> QED BY <2>2, <3>1 DEF HasPath, BackupSet
  <2>4. PICK i \in 1..Len(backups) : backups[i].path = p /\ Restore(disk, backups)[Restored(p)] = backups[i].original
    BY <2>2, <2>3, RestoreGives DEF EditsInv, EditsPlace
  <2>5. backups[i].original = base[p] BY <2>4 DEF EditsInv, Backed
  <2> QED BY <2>1, <2>4, <2>5
<1>2. CASE Edit
  <2>1. backups' = Absorb(backups, BackupsOf(tool)) /\ editsPc = "tool" BY <1>2 DEF Edit
  <2>2. tool \in ToolCall /\ (tool.kind = "rename" => tool.from # tool.to)
        /\ (tool.kind \notin {"rename", "copy"} => tool.from = tool.to) BY <2>1 DEF EditsInv, ToolRead
  <2> DEFINE new == BackupsOf(tool)
  <2>3. new \in Seq(BackupSet) /\ OneEach(new) BY <2>2, CallBacksUp
  <2> HIDE DEF new
  <2>4. Absorbs(backups, new, backups') BY <2>1, <2>3, AbsorbDoes DEF EditsInv, EditsPlace, Backed, new
  <2>5. backups \in Seq(BackupSet) /\ Len(backups) \in Nat /\ Len(backups) # 0
    BY EmptySeq DEF EditsInv, EditsPlace
  <2>6. HasPath(backups, backups[1].path) BY <2>5 DEF HasPath
  <2>7. HasPath(backups', backups[1].path) BY <2>4, <2>6 DEF Absorbs
  <2>8. Len(backups') = 0 OBVIOUS
  <2> QED BY <2>7, <2>8 DEF HasPath
<1>3. CASE backups' = backups BY <1>3
<1>4. \/ RevertTool \/ UndoTurn \/ Edit \/ backups' = backups
  <2>1. CASE EditsNext
    BY <2>1 DEF EditsNext, Console, ChangeMode, StartTurn, StartPlan, PlanAccepted, ReadOriginals, EditFails,
       TurnEnds, ApplyPatch, PlanFails, SaveDraft, DraftDiff, DraftStash, DraftCheckout, DraftDone
  <2>2. CASE UNCHANGED editsVars BY <2>2 DEF editsVars
  <2> QED BY <2>1, <2>2
<1> QED BY <1>1, <1>2, <1>3, <1>4

\* Only a plan that fails goes back to the prompt as undone.
LEMMA PlanDone ==
    ASSUME WorkspaceBounds, EditsInv, [EditsNext]_editsVars, editsPc = "txn", editsPc' = "prompt",
           outcome' = "undone", Quiet
    PROVE  disk' = before
<1>1. ASSUME NEW l \in Places, NEW torn \in BOOLEAN, PlanFails(torn, l) PROVE disk' = before
  BY <1>1, PlanUndone
<1>2. saver["console"] = "off" BY DEF EditsInv, EditsPlace
<1>3. CASE EditsNext
  <2>1. ~ (PlanAccepted \/ ChangeMode \/ StartTurn \/ Edit \/ RevertTool \/ UndoTurn \/ StartPlan)
    BY DEF PlanAccepted, ChangeMode, StartTurn, Edit, RevertTool, UndoTurn, StartPlan
  <2>2. ~ (\E k \in OpKinds, p, q \in Paths : ReadOriginals(k, p, q)) BY DEF ReadOriginals
  <2>3. ~ (\E b \in BOOLEAN : EditFails(b) \/ TurnEnds(b)) BY DEF EditFails, TurnEnds
  <2>4. ~ (\E l \in Places : ApplyPatch(l)) BY DEF ApplyPatch
  <2>5. ~ (\E t \in Threads : SaveDraft(t))
    BY <1>2 DEF SaveDraft, DraftDiff, DraftStash, DraftCheckout, DraftDone, Threads
  <2> QED BY <1>1, <1>3, <2>1, <2>2, <2>3, <2>4, <2>5 DEF EditsNext, Console
<1>4. CASE UNCHANGED editsVars BY <1>4 DEF editsVars
<1> QED BY <1>3, <1>4

\* Saving a draft destroys no file that git does not know.
LEMMA DraftSpares ==
    ASSUME EditsInv, [EditsNext]_editsVars, NEW t \in Threads, saver'[t] # saver[t], NEW l \in Untracked
    PROVE  disk'[l] = disk[l] \/ <<l, disk[l]>> \in drafts'
<1>1. l \in Places /\ l \notin Tracked /\ disk \in [Places -> Content] BY DEF Untracked, EditsInv, EditsPlace
<1>2. PICK u \in Threads : SaveDraft(u)
  <2>1. saver' # saver OBVIOUS
  <2> QED BY <2>1 DEF EditsNext, Console, ChangeMode, StartTurn, StartPlan, PlanAccepted, ReadOriginals, EditFails,
       TurnEnds, ApplyPatch, PlanFails, Edit, RevertTool, UndoTurn, Revert, editsVars
<1>3. CASE DraftDiff(u) \/ DraftDone(u) BY <1>3 DEF DraftDiff, DraftDone, files
<1>4. CASE DraftStash(u) BY <1>4 DEF DraftStash
<1>5. CASE DraftCheckout(u) BY <1>5, <1>1 DEF DraftCheckout
<1> QED BY <1>2, <1>3, <1>4, <1>5 DEF SaveDraft

\* What the tools of the agent, a plan of the updater or a draft did to the
\* workspace can be undone to the bytes that were there (PluginEditRollback,
\* AutoUpdater::execute, save_draft_and_revert), for any paths, turns and writes
\* and wherever the signal handler comes in.
THEOREM EditsAreUndone == EditsSpec => EditsUndone
<1>1. EditsInit => EditsInv BY WorkspaceBounds, EditsBegin
<1>2. EditsInv /\ [EditsNext]_editsVars => EditsInv' BY WorkspaceBounds, EditsKept
<1>3. EditsInv => EditsTypeOK /\ BackupsFaithful
  <2> SUFFICES ASSUME EditsInv PROVE EditsTypeOK /\ BackupsFaithful OBVIOUS
  <2>1. EditsTypeOK BY DEF EditsInv, EditsPlace, EditsTypeOK, Content, SaverStage
  <2>2. DOMAIN backups = 1..Len(backups) BY DEF EditsInv, EditsPlace
  <2> QED BY <2>1, <2>2 DEF EditsInv, Backed, OneEach, BackupsFaithful
<1>4. EditsInv /\ [EditsNext]_editsVars =>
        [backups /= <<>> /\ backups' = <<>> /\ Quiet =>
           \A p \in DOMAIN base \ (DataPaths \cup loose) : disk'[Place(p)] = base[p]]_editsVars
  BY WorkspaceBounds, RevertDone
<1>5. EditsInv /\ [EditsNext]_editsVars =>
        [editsPc = "txn" /\ editsPc' = "prompt" /\ outcome' = "undone" /\ before' = CleanTree /\ Quiet => disk' = before]_editsVars
  BY WorkspaceBounds, PlanDone
<1>6. EditsInv /\ [EditsNext]_editsVars =>
        [\A t \in Threads : saver'[t] /= saver[t] =>
           \A l \in Untracked : disk'[l] = disk[l] \/ <<l, disk[l]>> \in drafts']_editsVars BY DraftSpares
<1> QED
  BY <1>1, <1>2, <1>3, <1>4, <1>5, <1>6, PTL
  DEF EditsSpec, EditsUndone, RevertRestores, FailedPlanLeavesNothing, UntrackedSurvives

-----------------------------------------------------------------------------
(* Inbox: lists of messages *)

\* Whom a message can be from, and a message.
Speaker == Senders \cup {CHOOSE x \in Senders : TRUE}
Mail == [id : Nat, key : Keys \cup {NoKey}, sender : Speaker, kind : Kinds]

\* The messages of a list come in the order they were sent.
Rising(ms) == \A i, j \in DOMAIN ms : i < j => ms[i].id < ms[j].id

\* Every message of S was sent before every message of T.
Lower(S, T) == \A x \in S, y \in T : x.id < y.id

LEMMA ListDomain ==
    ASSUME NEW S, NEW ms \in Seq(S)
    PROVE  /\ DOMAIN ms = 1..Len(ms) /\ Len(ms) \in Nat
           /\ \A x : x \in ToSet(ms) <=> \E i \in 1..Len(ms) : x = ms[i]
           /\ \A i \in 1..Len(ms) : ms[i] \in ToSet(ms) /\ ms[i] \in S
<1>1. DOMAIN ms = 1..Len(ms) /\ Len(ms) \in Nat OBVIOUS
<1>2. \A x : x \in ToSet(ms) <=> \E i \in 1..Len(ms) : x = ms[i] BY <1>1, Zenon DEF ToSet
<1>3. \A i \in 1..Len(ms) : ms[i] \in S BY ElementOfSeq
<1> QED BY <1>1, <1>2, <1>3, Zenon

LEMMA ListElements ==
    ASSUME NEW S, NEW ms \in Seq(S)
    PROVE  /\ ToSet(ms) \subseteq S
           /\ Ids(ms) = {x.id : x \in ToSet(ms)}
           /\ ms = <<>> <=> ToSet(ms) = {}
<1>1. /\ DOMAIN ms = 1..Len(ms) /\ Len(ms) \in Nat
      /\ \A x : x \in ToSet(ms) <=> \E i \in 1..Len(ms) : x = ms[i]
      /\ \A i \in 1..Len(ms) : ms[i] \in ToSet(ms) /\ ms[i] \in S BY ListDomain
<1>2. ToSet(ms) \subseteq S BY <1>1
<1>3. Ids(ms) = {x.id : x \in ToSet(ms)}
  <2>1. ASSUME NEW d, d \in Ids(ms) PROVE d \in {x.id : x \in ToSet(ms)} BY <1>1, <2>1, Zenon DEF Ids
  <2>2. ASSUME NEW x \in ToSet(ms) PROVE x.id \in Ids(ms) BY <1>1, <2>2, Zenon DEF Ids
  <2> QED BY <2>1, <2>2, Zenon
<1>4. ms = <<>> => ToSet(ms) = {} BY <1>1
<1>5. ms # <<>> => ToSet(ms) # {}
  <2> SUFFICES ASSUME ms # <<>> PROVE ToSet(ms) # {} OBVIOUS
  <2>1. Len(ms) # 0 BY EmptySeq
  <2>2. 1 \in 1..Len(ms) BY <1>1, <2>1
  <2> QED BY <1>1, <2>2, Zenon
<1> QED BY <1>2, <1>3, <1>4, <1>5

\* A filter keeps the messages it selects, in their order.
LEMMA MailFiltered ==
    ASSUME NEW ms \in Seq(Mail), NEW I
    PROVE  /\ ElementsAt(ms, I) \in Seq(Mail)
           /\ \A x : x \in ToSet(ElementsAt(ms, I)) <=> \E i \in DOMAIN ms : i \in I /\ x = ms[i]
           /\ Rising(ms) => Rising(ElementsAt(ms, I))
<1> DEFINE t == ElementsAt(ms, I)
<1>1. t \in Seq(Mail) /\ \E f : PlacedBy(f, ms, I, t) BY ElementsPlaced
<1>2. PICK f : PlacedBy(f, ms, I, t) BY <1>1
<1> HIDE DEF t
<1>3. /\ \A k \in 1..Len(t) : f[k] \in 1..Len(ms) /\ f[k] \in I /\ t[k] = ms[f[k]]
      /\ \A j, k \in 1..Len(t) : j < k => f[j] < f[k]
      /\ \A i \in 1..Len(ms) : i \in I => \E k \in 1..Len(t) : f[k] = i BY <1>2 DEF PlacedBy
<1>4. /\ DOMAIN t = 1..Len(t) /\ DOMAIN ms = 1..Len(ms)
      /\ \A x : x \in ToSet(t) <=> \E i \in 1..Len(t) : x = t[i] BY <1>1, ListDomain
<1>5. \A x : x \in ToSet(t) <=> \E i \in DOMAIN ms : i \in I /\ x = ms[i]
  <2>1. ASSUME NEW x, x \in ToSet(t) PROVE \E i \in DOMAIN ms : i \in I /\ x = ms[i]
    <3>1. PICK k \in 1..Len(t) : x = t[k] BY <1>4, <2>1
    <3> QED BY <1>3, <1>4, <3>1, Zenon
  <2>2. ASSUME NEW i \in DOMAIN ms, i \in I PROVE ms[i] \in ToSet(t)
    <3>1. PICK k \in 1..Len(t) : f[k] = i BY <1>3, <1>4, <2>2
    <3>2. t[k] = ms[i] BY <1>3, <3>1, Zenon
    <3> QED BY <1>4, <3>2, Zenon
  <2> QED BY <2>1, <2>2, Zenon
<1>6. Rising(ms) => Rising(t) BY <1>3, <1>4 DEF Rising
<1> QED BY <1>1, <1>5, <1>6 DEF t

\* The messages of a key, those of the others, and the texts.
LEMMA KeyFilter ==
    ASSUME NEW ms \in Seq(Mail), NEW k
    PROVE  /\ OfKey(ms, k) \in Seq(Mail) /\ OtherKeys(ms, k) \in Seq(Mail)
           /\ \A x : x \in ToSet(OfKey(ms, k)) <=> x \in ToSet(ms) /\ x.key = k
           /\ \A x : x \in ToSet(OtherKeys(ms, k)) <=> x \in ToSet(ms) /\ x.key # k
           /\ Rising(ms) => Rising(OfKey(ms, k)) /\ Rising(OtherKeys(ms, k))
<1> DEFINE I == {i \in DOMAIN ms : ms[i].key = k}
           J == {i \in DOMAIN ms : ms[i].key # k}
<1>1. /\ ElementsAt(ms, I) \in Seq(Mail)
      /\ \A x : x \in ToSet(ElementsAt(ms, I)) <=> \E i \in DOMAIN ms : i \in I /\ x = ms[i]
      /\ Rising(ms) => Rising(ElementsAt(ms, I)) BY MailFiltered
<1>2. /\ ElementsAt(ms, J) \in Seq(Mail)
      /\ \A x : x \in ToSet(ElementsAt(ms, J)) <=> \E i \in DOMAIN ms : i \in J /\ x = ms[i]
      /\ Rising(ms) => Rising(ElementsAt(ms, J)) BY MailFiltered
<1>3. OfKey(ms, k) = ElementsAt(ms, I) /\ OtherKeys(ms, k) = ElementsAt(ms, J) BY Zenon DEF OfKey, OtherKeys
<1>4. \A x : x \in ToSet(ms) <=> \E i \in DOMAIN ms : x = ms[i] BY Zenon DEF ToSet
<1>5. \A x : (\E i \in DOMAIN ms : i \in I /\ x = ms[i]) <=> x \in ToSet(ms) /\ x.key = k BY <1>4, Zenon
<1>6. \A x : (\E i \in DOMAIN ms : i \in J /\ x = ms[i]) <=> x \in ToSet(ms) /\ x.key # k BY <1>4, Zenon
<1> HIDE DEF I, J
<1> QED BY <1>1, <1>2, <1>3, <1>5, <1>6, Zenon

LEMMA TextFilter ==
    ASSUME NEW ms \in Seq(Mail)
    PROVE  /\ Texts(ms) \in Seq(Mail)
           /\ \A x : x \in ToSet(Texts(ms)) <=> x \in ToSet(ms) /\ x.kind = "text"
           /\ Rising(ms) => Rising(Texts(ms))
<1> DEFINE I == {i \in DOMAIN ms : ms[i].kind = "text"}
<1>1. /\ ElementsAt(ms, I) \in Seq(Mail)
      /\ \A x : x \in ToSet(ElementsAt(ms, I)) <=> \E i \in DOMAIN ms : i \in I /\ x = ms[i]
      /\ Rising(ms) => Rising(ElementsAt(ms, I)) BY MailFiltered
<1>3. Texts(ms) = ElementsAt(ms, I) BY Zenon DEF Texts
<1>4. \A x : x \in ToSet(ms) <=> \E i \in DOMAIN ms : x = ms[i] BY Zenon DEF ToSet
<1>5. \A x : (\E i \in DOMAIN ms : i \in I /\ x = ms[i]) <=> x \in ToSet(ms) /\ x.kind = "text" BY <1>4, Zenon
<1> HIDE DEF I
<1> QED BY <1>1, <1>3, <1>5, Zenon

\* Two lists one after the other.
LEMMA JoinedLists ==
    ASSUME NEW S, NEW ms \in Seq(S), NEW ns \in Seq(S)
    PROVE  /\ ms \o ns \in Seq(S)
           /\ \A x : x \in ToSet(ms \o ns) <=> x \in ToSet(ms) \/ x \in ToSet(ns)
           /\ ns # <<>> => Last(ms \o ns) = Last(ns) /\ ms \o ns # <<>>
<1> DEFINE t == ms \o ns
           m == Len(ms)
           n == Len(ns)
<1>1. /\ t \in Seq(S) /\ Len(t) = m + n
      /\ \A i \in 1..m + n : t[i] = IF i <= m THEN ms[i] ELSE ns[i - m] BY ConcatProperties
<1>2. /\ \A x : x \in ToSet(ms) <=> \E i \in 1..m : x = ms[i]
      /\ \A x : x \in ToSet(ns) <=> \E i \in 1..n : x = ns[i]
      /\ m \in Nat /\ n \in Nat BY ListDomain
<1>3. \A x : x \in ToSet(t) <=> \E i \in 1..Len(t) : x = t[i] BY <1>1, ListDomain
<1> HIDE DEF t, m, n
<1>4. \A i \in 1..m : i \in 1..m + n /\ i <= m BY <1>2
<1>5. \A i \in 1..n : m + i \in 1..m + n /\ ~ (m + i <= m) /\ (m + i) - m = i BY <1>2
<1>6. \A i \in 1..m + n : IF i <= m THEN i \in 1..m ELSE i - m \in 1..n BY <1>2
<1>7. \A i \in 1..m : t[i] = ms[i] BY <1>1, <1>4
<1>8. \A i \in 1..n : t[m + i] = ns[i] BY <1>1, <1>5
<1>9. \A x : x \in ToSet(t) <=> x \in ToSet(ms) \/ x \in ToSet(ns)
  <2>1. ASSUME NEW x, x \in ToSet(t) PROVE x \in ToSet(ms) \/ x \in ToSet(ns)
    <3>1. PICK i \in 1..m + n : x = t[i] BY <1>1, <1>3, <2>1
    <3> QED BY <1>1, <1>2, <1>6, <3>1
  <2>2. ASSUME NEW x, x \in ToSet(ms) PROVE x \in ToSet(t)
    <3>1. PICK i \in 1..m : x = ms[i] BY <1>2, <2>2
    <3> QED BY <1>1, <1>3, <1>4, <1>7, <3>1
  <2>3. ASSUME NEW x, x \in ToSet(ns) PROVE x \in ToSet(t)
    <3>1. PICK i \in 1..n : x = ns[i] BY <1>2, <2>3
    <3>2. m + i \in 1..Len(t) /\ x = t[m + i] BY <1>1, <1>5, <1>8, <3>1
    <3> QED BY <1>3, <3>2
  <2> QED BY <2>1, <2>2, <2>3, Zenon
<1>10. ns # <<>> => Last(t) = Last(ns) /\ t # <<>>
  <2> SUFFICES ASSUME ns # <<>> PROVE Last(t) = Last(ns) /\ t # <<>> OBVIOUS
  <2>1. n # 0 BY EmptySeq DEF n
  <2>2. n \in 1..n BY <1>2, <2>1
  <2>3. t[m + n] = ns[n] BY <1>8, <2>2
  <2>4. Len(t) # 0 BY <1>1, <1>2, <2>1
  <2>5. t # <<>> BY <2>4
  <2> QED BY <1>1, <2>3, <2>5 DEF Last, n
<1> QED BY <1>1, <1>9, <1>10, Zenon DEF t

LEMMA JoinedRise ==
    ASSUME NEW ms \in Seq(Mail), NEW ns \in Seq(Mail), Rising(ms), Rising(ns), Lower(ToSet(ms), ToSet(ns))
    PROVE  Rising(ms \o ns)
<1> DEFINE t == ms \o ns
           m == Len(ms)
           n == Len(ns)
<1>1. /\ t \in Seq(Mail) /\ Len(t) = m + n
      /\ \A i \in 1..m + n : t[i] = IF i <= m THEN ms[i] ELSE ns[i - m] BY ConcatProperties
<1>2. /\ m \in Nat /\ n \in Nat /\ DOMAIN ms = 1..m /\ DOMAIN ns = 1..n
      /\ \A i \in 1..m : ms[i] \in ToSet(ms)
      /\ \A i \in 1..n : ns[i] \in ToSet(ns) BY ListDomain
<1>3. DOMAIN t = 1..m + n BY <1>1, ListDomain
<1> HIDE DEF t, m, n
<1>6. \A i \in 1..m + n : IF i <= m THEN i \in 1..m ELSE i - m \in 1..n BY <1>2
<1>7. \A i, j \in 1..m + n : i < j /\ ~ (i <= m) => ~ (j <= m) /\ i - m < j - m BY <1>2
<1>8. ASSUME NEW i \in 1..m + n, NEW j \in 1..m + n, i < j PROVE t[i].id < t[j].id
  <2>1. CASE ~ (i <= m) BY <1>1, <1>2, <1>6, <1>7, <1>8, <2>1 DEF Rising
  <2>2. CASE i <= m /\ j <= m BY <1>1, <1>2, <1>6, <1>8, <2>2 DEF Rising
  <2>3. CASE i <= m /\ ~ (j <= m) BY <1>1, <1>6, <2>3, <1>2 DEF Lower
  <2> QED BY <2>1, <2>2, <2>3
<1> QED BY <1>3, <1>8 DEF Rising, t

\* A list and one more message.
LEMMA OneMore ==
    ASSUME NEW S, NEW ms \in Seq(S), NEW m \in S
    PROVE  /\ Append(ms, m) \in Seq(S) /\ Len(Append(ms, m)) = Len(ms) + 1
           /\ \A x : x \in ToSet(Append(ms, m)) <=> x \in ToSet(ms) \/ x = m
           /\ Append(ms, m) = ms \o <<m>>
<1>1. Append(ms, m) = ms \o <<m>> BY AppendIsConcat
<1>2. <<m>> \in Seq(S) /\ \A x : x \in ToSet(<<m>>) <=> x = m
  <2>1. <<m>> \in Seq(S) /\ Len(<<m>>) = 1 /\ <<m>>[1] = m OBVIOUS
  <2>2. \A x : x \in ToSet(<<m>>) <=> \E i \in 1..Len(<<m>>) : x = <<m>>[i] BY <2>1, ListDomain
  <2>3. \A i : i \in 1..1 <=> i = 1 OBVIOUS
  <2> QED BY <2>1, <2>2, <2>3
<1>3. \A x : x \in ToSet(ms \o <<m>>) <=> x \in ToSet(ms) \/ x \in ToSet(<<m>>) BY <1>2, JoinedLists
<1>4. Append(ms, m) \in Seq(S) /\ Len(Append(ms, m)) = Len(ms) + 1 BY AppendProperties
<1> QED BY <1>1, <1>2, <1>3, <1>4, Zenon

LEMMA EmptyList == <<>> \in Seq(Mail) /\ ToSet(<<>>) = {} /\ Rising(<<>>) /\ Ids(<<>>) = {}
<1>1. <<>> \in Seq(Mail) BY EmptySeq
<1>2. ToSet(<<>>) = {} /\ Ids(<<>>) = {x.id : x \in ToSet(<<>>)} BY <1>1, ListElements
<1>3. DOMAIN <<>> = {} BY <1>1, EmptySeq
<1> QED BY <1>1, <1>2, <1>3 DEF Rising

-----------------------------------------------------------------------------
(* Inbox: the batch, the files and the turns *)

\* What the lists, the files and the turns hold.
BoxTyped ==
    /\ channel \in Seq(Mail) /\ groups \in Seq(Mail) /\ normals \in Seq(Mail) /\ combined \in Seq(Mail)
    /\ pending \in [Files -> Seq(Mail)]
    /\ asked \in [Keys -> Seq(Seq(Mail) \X Speaker)]
    /\ serial \in Nat /\ crashes \in Nat
    /\ inboxPc \in Stages /\ key \in Keys \cup {NoKey} /\ Len(channel) <= Capacity

\* The batch: all of it has keys; the group in work has one key, no other message
\* of the batch has it, and what is sent is the spill of the key and the group.
BatchHeld ==
    /\ inboxPc = "recv" => groups = <<>>
    /\ \A x \in ToSet(groups) : x.key \in Keys
    /\ inboxPc \notin {"recv", "groups"} =>
         /\ key \in Keys /\ normals # <<>>
         /\ \A x \in ToSet(normals) : x.key = key
         /\ \A x \in ToSet(groups) : x.key # key
    /\ inboxPc \in {"open", "soul", "send", "clear", "spill"} => combined = pending[FileOf[key]] \o normals

\* The cache: sessions of the host and a free one for each start; a session that
\* is about to be asked speaks to the one who spoke last.
Sids == 1..(MaxSessions + 1)
CacheHeld ==
    /\ DOMAIN sessions \subseteq Keys
    /\ sessions \in [DOMAIN sessions -> Sids \cup {NoSession}]
    /\ live \subseteq Sids /\ soul \in [live -> Speaker]
    /\ CacheExact
    /\ inboxPc \in {"soul", "send"} => key \in DOMAIN sessions
    /\ inboxPc = "send" /\ sessions[key] \in live => soul[sessions[key]] = Last(normals).sender

BoxInv == BoxTyped /\ BatchHeld /\ CacheHeld

\* The part of NextGroup that serves key k, with or without a /reset.
GroupOf(k) ==
    /\ inboxPc = "groups"
    /\ groups' = OtherKeys(groups, k)
    /\ normals' = Texts(OfKey(groups, k))
    /\ IF normals' = <<>> THEN inboxPc' = "groups" /\ key' = NoKey
       ELSE inboxPc' = "load" /\ key' = k
    /\ UNCHANGED <<channel, combined, serial, crashes, asked>>
ResetOf(k) ==
    LET old == IF k \in DOMAIN sessions THEN {sessions[k]} ELSE {}
    IN  /\ sessions' = Without(sessions, {k})
        /\ live' = live \ old /\ soul' = Without(soul, old)
        /\ pending' = [pending EXCEPT ![FileOf[k]] = <<>>]
        /\ Lose(pending[FileOf[k]], "reset")

LEMMA KeyFacts ==
    /\ Keys \subseteq Nat \ {0} /\ NoKey \notin Keys /\ IsFiniteSet(Keys)
    /\ \A k \in Keys : k \in Nat /\ FileOf[k] \in Files
<1>1. Keys \subseteq Nat \ {0} /\ IsFiniteSet(Keys) BY InboxBounds
<1>2. \A k \in Keys : FileOf[k] \in Files BY Zenon DEF Files
<1> QED BY <1>1, <1>2 DEF NoKey

LEMMA NextGroupServes ==
    ASSUME BoxTyped, BatchHeld, NextGroup
    PROVE  \E k \in Keys : GroupOf(k) /\ (ResetOf(k) \/ UNCHANGED <<cache, pending, gone>>)
<1> DEFINE K == {groups[i].key : i \in DOMAIN groups}
           k == CHOOSE x \in K : \A i \in DOMAIN groups : x <= groups[i].key
           group == OfKey(groups, k)
<1>0. groups \in Seq(Mail) /\ groups # <<>> BY DEF BoxTyped, NextGroup
<1>1. K \subseteq Keys /\ K # {} BY <1>0, ListElements DEF ToSet, BatchHeld
<1>2. \E x \in K : \A i \in DOMAIN groups : x <= groups[i].key
  <2>1. K \subseteq Nat BY <1>1, KeyFacts
  <2>2. \E x \in K : \A m \in K : x <= m BY <1>1, <2>1, LeastNumber
  <2> QED BY <2>2, Zenon
<1>3. k \in Keys BY <1>1, <1>2, Zenon
<1>4. GroupOf(k) /\ (ResetOf(k) \/ UNCHANGED <<cache, pending, gone>>)
  <2>1. /\ inboxPc = "groups" /\ groups' = OtherKeys(groups, k) /\ normals' = Texts(group)
        /\ IF Texts(group) = <<>> THEN inboxPc' = "groups" /\ key' = NoKey
           ELSE inboxPc' = "load" /\ key' = k
        /\ UNCHANGED <<channel, combined, serial, crashes, asked>>
        /\ \/ ResetOf(k)
           \/ UNCHANGED <<cache, pending, gone>> BY Zenon DEF NextGroup, ResetOf
  <2> HIDE DEF k
  <2> QED BY <2>1, Zenon DEF GroupOf
<1> QED BY <1>3, <1>4, Zenon

\* The spill of a file that is emptied or gets a list more.
LEMMA SpillKept ==
    ASSUME pending \in [Files -> Seq(Mail)], NEW k \in Keys, NEW ms \in Seq(Mail)
    PROVE  /\ pending[FileOf[k]] \in Seq(Mail)
           /\ [pending EXCEPT ![FileOf[k]] = ms] \in [Files -> Seq(Mail)]
           /\ [pending EXCEPT ![FileOf[k]] = ms][FileOf[k]] = ms
           /\ \A f \in Files : f # FileOf[k] => [pending EXCEPT ![FileOf[k]] = ms][f] = pending[f]
<1>1. FileOf[k] \in Files BY KeyFacts
<1> QED BY <1>1

LEMMA BoxInit == InboxInit => BoxTyped /\ BatchHeld
<1> SUFFICES ASSUME InboxInit PROVE BoxTyped /\ BatchHeld OBVIOUS
<1>1. BoxTyped
  <2>1. /\ channel \in Seq(Mail) /\ groups \in Seq(Mail) /\ normals \in Seq(Mail) /\ combined \in Seq(Mail)
    BY EmptyList DEF InboxInit
  <2>2. pending \in [Files -> Seq(Mail)] /\ asked \in [Keys -> Seq(Seq(Mail) \X Speaker)]
    BY EmptySeq, EmptyList DEF InboxInit
  <2>3. Len(channel) <= Capacity BY InboxBounds DEF InboxInit
  <2>4. serial \in Nat /\ crashes \in Nat /\ inboxPc \in Stages /\ key \in Keys \cup {NoKey}
    BY DEF InboxInit, Stages
  <2> QED BY <2>1, <2>2, <2>3, <2>4 DEF BoxTyped
<1>2. BatchHeld BY EmptyList DEF BatchHeld, InboxInit
<1> QED BY <1>1, <1>2

LEMMA BoxTrigger ==
    ASSUME BoxInv, NEW k \in Keys \cup {NoKey}, NEW from \in Speaker, NEW kind \in Kinds, Trigger(k, from, kind)
    PROVE  BoxTyped' /\ BatchHeld'
<1> DEFINE m == [id |-> serial + 1, key |-> k, sender |-> from, kind |-> kind]
<1>1. BoxTyped /\ BatchHeld BY DEF BoxInv
<1>2. m \in Mail BY <1>1 DEF Mail, BoxTyped
<1>3. /\ UNCHANGED <<work, cache, pending, crashes, asked>> /\ serial' = serial + 1
      /\ \/ channel' = channel
         \/ channel' = Append(channel, m) /\ Len(channel) < Capacity BY DEF Trigger
<1> HIDE DEF m
<1>4. channel' \in Seq(Mail) /\ Len(channel') <= Capacity
  <2>1. CASE channel' = channel BY <1>1, <2>1 DEF BoxTyped
  <2>2. CASE channel' = Append(channel, m) /\ Len(channel) < Capacity
    BY <1>1, InboxBounds, <1>2, <2>2, OneMore DEF BoxTyped
  <2> QED BY <1>3, <2>1, <2>2
<1>5. BoxTyped' BY <1>1, <1>3, <1>4 DEF BoxTyped, work, cache
<1>6. BatchHeld' BY <1>1, <1>3 DEF BatchHeld, work, cache
<1> QED BY <1>5, <1>6

LEMMA BoxReceive ==
    ASSUME BoxInv, Receive
    PROVE  BoxTyped' /\ BatchHeld'
<1>1. BoxTyped /\ BatchHeld BY DEF BoxInv
<1>2. /\ groups' = OtherKeys(channel, NoKey) /\ channel' = <<>> /\ inboxPc' = "groups"
      /\ UNCHANGED <<key, normals, combined, cache, pending, serial, crashes, asked>> BY DEF Receive
<1>3. /\ groups' \in Seq(Mail)
      /\ \A x : x \in ToSet(groups') <=> x \in ToSet(channel) /\ x.key # NoKey
  BY <1>1, <1>2, KeyFilter DEF BoxTyped
<1>4. \A x \in ToSet(groups') : x.key \in Keys
  <2>1. ToSet(channel) \subseteq Mail BY <1>1, ListElements DEF BoxTyped
  <2> QED BY <1>3, <2>1 DEF Mail
<1>5. channel' \in Seq(Mail) /\ Len(channel') <= Capacity BY <1>2, EmptyList, InboxBounds
<1>6. BoxTyped' BY <1>1, <1>2, <1>3, <1>5 DEF BoxTyped, Stages
<1>7. BatchHeld' BY <1>2, <1>4 DEF BatchHeld
<1> QED BY <1>6, <1>7

LEMMA BoxNextGroup ==
    ASSUME BoxInv, NextGroup
    PROVE  BoxTyped' /\ BatchHeld'
<1>1. BoxTyped /\ BatchHeld BY DEF BoxInv
<1>2. PICK k \in Keys : GroupOf(k) /\ (ResetOf(k) \/ UNCHANGED <<cache, pending, gone>>)
  BY <1>1, NextGroupServes
<1>3. /\ groups' \in Seq(Mail) /\ OfKey(groups, k) \in Seq(Mail)
      /\ \A x : x \in ToSet(groups') <=> x \in ToSet(groups) /\ x.key # k
      /\ \A x : x \in ToSet(OfKey(groups, k)) <=> x \in ToSet(groups) /\ x.key = k
  BY <1>1, <1>2, KeyFilter DEF BoxTyped, GroupOf
<1>4. /\ normals' \in Seq(Mail)
      /\ \A x : x \in ToSet(normals') <=> x \in ToSet(OfKey(groups, k)) /\ x.kind = "text"
  BY <1>2, <1>3, TextFilter DEF GroupOf
<1>5. pending' \in [Files -> Seq(Mail)]
  <2>1. CASE ResetOf(k) BY <1>1, <2>1, SpillKept, EmptyList DEF ResetOf, BoxTyped
  <2>2. CASE UNCHANGED <<cache, pending, gone>> BY <1>1, <2>2 DEF BoxTyped
  <2> QED BY <1>2, <2>1, <2>2
<1>6. /\ UNCHANGED <<channel, combined, serial, crashes, asked>>
      /\ \/ normals' = <<>> /\ inboxPc' = "groups" /\ key' = NoKey
         \/ normals' # <<>> /\ inboxPc' = "load" /\ key' = k BY <1>2 DEF GroupOf
<1>7. BoxTyped' BY <1>1, <1>3, <1>4, <1>5, <1>6 DEF BoxTyped, Stages
<1>8. BatchHeld' BY <1>1, <1>3, <1>4, <1>6 DEF BatchHeld
<1> QED BY <1>7, <1>8

LEMMA BoxSend ==
    ASSUME BoxInv, SendAnswered
    PROVE  BoxTyped' /\ BatchHeld'
<1>1. BoxTyped /\ BatchHeld /\ CacheHeld /\ key \in Keys BY DEF BoxInv, SendAnswered, BatchHeld
<1>2. /\ asked' = [asked EXCEPT ![key] = Append(@, <<combined, soul[sessions[key]]>>)]
      /\ inboxPc = "send" /\ inboxPc' = "clear" /\ sessions[key] \in live
      /\ UNCHANGED <<channel, groups, key, normals, combined, cache, pending, serial, crashes, gone>>
  BY DEF SendAnswered
<1>3. asked' \in [Keys -> Seq(Seq(Mail) \X Speaker)] BY <1>1, <1>2, AppendProperties DEF BoxTyped, CacheHeld
<1>4. BoxTyped' BY <1>1, <1>2, <1>3 DEF BoxTyped, Stages
<1>5. BatchHeld' BY <1>1, <1>2 DEF BatchHeld
<1> QED BY <1>4, <1>5

LEMMA BoxLoad ==
    ASSUME BoxInv, LoadPending
    PROVE  BoxTyped' /\ BatchHeld'
<1>1. BoxTyped /\ BatchHeld /\ key \in Keys BY DEF BoxInv, LoadPending, BatchHeld
<1>2. /\ inboxPc = "load" /\ inboxPc' = "open" /\ combined' = pending[FileOf[key]] \o normals
      /\ UNCHANGED <<channel, groups, key, normals, cache, pending, serial, crashes, asked, gone>>
  BY DEF LoadPending
<1>3. combined' \in Seq(Mail) BY <1>1, KeyFacts, <1>2, ConcatProperties DEF BoxTyped
<1>4. BoxTyped' BY <1>1, <1>2, <1>3 DEF BoxTyped, Stages
<1>5. BatchHeld' BY <1>1, <1>2 DEF BatchHeld
<1> QED BY <1>4, <1>5

\* The steps that change the files or nothing of the batch.
LEMMA BoxServe ==
    ASSUME BoxInv, NEW ok \in BOOLEAN,
           BatchDone \/ RefreshSoul \/ SendFails \/ Retry \/ OpenSession(ok)
    PROVE  BoxTyped' /\ BatchHeld'
<1>1. BoxTyped /\ BatchHeld BY DEF BoxInv
<1>2. CASE BatchDone BY <1>1, <1>2, EmptyList DEF BoxTyped, BatchDone, Stages, BatchHeld
<1>3. CASE RefreshSoul \/ SendFails \/ Retry \/ OpenSession(ok)
  BY <1>3, <1>1 DEF RefreshSoul, SendFails, Retry, OpenSession, BoxTyped, Stages, BatchHeld
<1> QED BY <1>2, <1>3

LEMMA BoxFiles ==
    ASSUME BoxInv, NEW ok \in BOOLEAN, ClearPending(ok) \/ Spill(ok)
    PROVE  BoxTyped' /\ BatchHeld'
<1>1. BoxTyped /\ BatchHeld /\ key \in Keys BY DEF BoxInv, ClearPending, Spill, BatchHeld
<1>2. /\ UNCHANGED <<channel, groups, key, normals, combined, cache, serial, crashes, asked>>
      /\ inboxPc \in {"clear", "spill"} /\ inboxPc' \in {"groups", "retry"}
      /\ \/ pending' = [pending EXCEPT ![FileOf[key]] = <<>>]
         \/ pending' = [pending EXCEPT ![FileOf[key]] = pending[FileOf[key]] \o normals]
         \/ pending' = pending BY DEF ClearPending, Spill
<1>3. pending \in [Files -> Seq(Mail)] /\ normals \in Seq(Mail) /\ pending[FileOf[key]] \in Seq(Mail)
  BY <1>1, KeyFacts DEF BoxTyped
<1>4. pending[FileOf[key]] \o normals \in Seq(Mail) BY <1>3, ConcatProperties
<1>5. pending' \in [Files -> Seq(Mail)]
  <2>1. \A ms \in Seq(Mail) : [pending EXCEPT ![FileOf[key]] = ms] \in [Files -> Seq(Mail)]
    BY <1>1, <1>3, SpillKept
  <2> QED BY <1>2, <1>3, <1>4, <2>1, EmptyList
<1>6. BoxTyped' BY <1>1, <1>2, <1>5 DEF BoxTyped, Stages
<1>7. BatchHeld' BY <1>1, <1>2 DEF BatchHeld
<1> QED BY <1>6, <1>7

LEMMA BoxCrash ==
    ASSUME BoxInv, Crash
    PROVE  BoxTyped' /\ BatchHeld'
<1>1. BoxTyped BY DEF BoxInv
<1>2. /\ channel' = <<>> /\ groups' = <<>> /\ normals' = <<>> /\ combined' = <<>>
      /\ key' = NoKey /\ inboxPc' = "recv" /\ crashes' = crashes + 1
      /\ UNCHANGED <<pending, serial, asked>> BY DEF Crash
<1>3. Len(channel') <= Capacity BY <1>2, InboxBounds
<1>4. BoxTyped' BY <1>1, <1>2, <1>3, EmptyList DEF BoxTyped, Stages
<1>5. BatchHeld' BY <1>2, EmptyList DEF BatchHeld
<1> QED BY <1>4, <1>5

-----------------------------------------------------------------------------
(* Inbox: the cache of sessions *)

\* The cache ss and the sessions lv of the host agree.
Agree(ss, lv) ==
    /\ lv = {ss[k] : k \in DOMAIN ss} \ {NoSession}
    /\ \A j, k \in DOMAIN ss : ss[j] = ss[k] /\ j # k => ss[k] = NoSession
    /\ Cardinality(DOMAIN ss) <= MaxSessions

LEMMA CacheAgrees == CacheExact <=> Agree(sessions, live)
BY Zenon DEF CacheExact, Agree

LEMMA KeysCounted ==
    ASSUME NEW S \in SUBSET Keys
    PROVE  IsFiniteSet(S) /\ Cardinality(S) \in Nat
<1>1. IsFiniteSet(S) BY KeyFacts, FS_Subset
<1> QED BY <1>1, FS_CardinalityType

\* Keys are dropped with their sessions.
LEMMA DropKeys ==
    ASSUME NEW ss, NEW lv, NEW E, DOMAIN ss \subseteq Keys, Agree(ss, lv)
    PROVE  /\ Agree(Without(ss, E), lv \ {ss[k] : k \in E \cap DOMAIN ss})
           /\ DOMAIN Without(ss, E) = DOMAIN ss \ E
           /\ \A k \in DOMAIN ss \ E : Without(ss, E)[k] = ss[k]
<1> DEFINE tt == Without(ss, E)
           lw == lv \ {ss[k] : k \in E \cap DOMAIN ss}
<1>1. DOMAIN tt = DOMAIN ss \ E /\ \A k \in DOMAIN ss \ E : tt[k] = ss[k] BY DEF Without
<1>2. /\ lv = {ss[k] : k \in DOMAIN ss} \ {NoSession}
      /\ \A j, k \in DOMAIN ss : ss[j] = ss[k] /\ j # k => ss[k] = NoSession
      /\ Cardinality(DOMAIN ss) <= MaxSessions BY DEF Agree
<1> HIDE DEF tt
<1>3. lw = {tt[k] : k \in DOMAIN tt} \ {NoSession}
  <2>1. ASSUME NEW x \in lw PROVE x \in {tt[k] : k \in DOMAIN tt} \ {NoSession}
    <3>1. PICK k \in DOMAIN ss : x = ss[k] /\ x # NoSession BY <1>2, <2>1
    <3>2. k \notin E BY <2>1, <3>1
    <3> QED BY <1>1, <3>1, <3>2
  <2>2. ASSUME NEW k \in DOMAIN tt, tt[k] # NoSession PROVE tt[k] \in lw BY <1>1, <1>2, <2>2
  <2> HIDE DEF lw
  <2> QED BY <2>1, <2>2, Zenon
<1>4. \A j, k \in DOMAIN tt : tt[j] = tt[k] /\ j # k => tt[k] = NoSession BY <1>1, <1>2
<1>5. Cardinality(DOMAIN tt) <= MaxSessions BY KeysCounted, <1>1, FS_Subset, <1>2, InboxBounds
<1> QED BY <1>1, <1>3, <1>4, <1>5, Zenon DEF Agree, tt

\* A key is added with a new session, or with none.
KeyAdded(ss, lv, k, new) ==
    /\ Agree(With(ss, k, new), lv \cup ({new} \ {NoSession}))
    /\ DOMAIN With(ss, k, new) = DOMAIN ss \cup {k}
    /\ With(ss, k, new)[k] = new
    /\ \A j \in DOMAIN ss : With(ss, k, new)[j] = ss[j]

LEMMA AddKey ==
    ASSUME NEW ss, NEW lv, NEW k \in Keys, NEW new, DOMAIN ss \subseteq Keys, Agree(ss, lv),
           k \notin DOMAIN ss, Cardinality(DOMAIN ss) < MaxSessions, new \notin lv
    PROVE  KeyAdded(ss, lv, k, new)
<1> DEFINE tt == With(ss, k, new)
           lw == lv \cup ({new} \ {NoSession})
<1>1. DOMAIN tt = DOMAIN ss \cup {k} /\ tt[k] = new /\ \A j \in DOMAIN ss : tt[j] = ss[j] BY DEF With
<1>2. /\ lv = {ss[j] : j \in DOMAIN ss} \ {NoSession}
      /\ \A i, j \in DOMAIN ss : ss[i] = ss[j] /\ i # j => ss[j] = NoSession BY DEF Agree
<1> HIDE DEF tt
<1>3. lw = {tt[j] : j \in DOMAIN tt} \ {NoSession}
  <2>1. ASSUME NEW x \in lw PROVE x \in {tt[j] : j \in DOMAIN tt} \ {NoSession} BY <1>1, <1>2, <2>1
  <2>2. ASSUME NEW j \in DOMAIN tt, tt[j] # NoSession PROVE tt[j] \in lw BY <1>1, <1>2, <2>2
  <2> HIDE DEF lw
  <2> QED BY <2>1, <2>2, Zenon
<1>4. \A i, j \in DOMAIN tt : tt[i] = tt[j] /\ i # j => tt[j] = NoSession BY <1>1, <1>2
<1>5. Cardinality(DOMAIN tt) <= MaxSessions BY KeysCounted, FS_AddElement, <1>1, InboxBounds
<1> QED BY <1>1, <1>3, <1>4, <1>5, Zenon DEF KeyAdded, Agree, tt

\* A session is free as long as the cache is bounded.
LEMMA FreeSession ==
    ASSUME NEW ss, NEW lv, DOMAIN ss \subseteq Keys, Agree(ss, lv)
    PROVE  \E s \in Sids : s \notin lv
<1> SUFFICES ASSUME Sids \subseteq lv PROVE FALSE OBVIOUS
<1> DEFINE R == {ss[k] : k \in DOMAIN ss}
           ff == [k \in DOMAIN ss |-> ss[k]]
<1>1. IsFiniteSet(DOMAIN ss) /\ Cardinality(DOMAIN ss) \in Nat /\ Cardinality(DOMAIN ss) <= MaxSessions
  BY KeysCounted DEF Agree
<1>2. ff \in Surjection(DOMAIN ss, R) BY DEF Surjection
<1>5. Sids \in SUBSET R BY DEF Agree
<1> HIDE DEF R, ff
<1>4. IsFiniteSet(R) /\ Cardinality(R) <= Cardinality(DOMAIN ss) BY <1>1, <1>2, FS_Surjection, Zenon
<1>6. Cardinality(Sids) <= Cardinality(R) /\ Cardinality(R) \in Nat
  BY <1>4, <1>5, FS_Subset, FS_CardinalityType
<1>7. Cardinality(Sids) = MaxSessions + 1 /\ MaxSessions \in Nat BY InboxBounds, FS_Interval DEF Sids
<1> QED BY <1>1, <1>4, <1>6, <1>7

\* Nothing of the cache changes, and the thread is not about to ask.
LEMMA CacheStays ==
    ASSUME CacheHeld, UNCHANGED cache,
           inboxPc' \notin {"soul", "send"} \/ UNCHANGED <<inboxPc, key, normals>>
    PROVE  CacheHeld'
<1>1. UNCHANGED <<sessions, live, soul>> BY DEF cache
<1>2. CacheExact' <=> CacheExact BY <1>1 DEF CacheExact
<1> QED BY <1>1, <1>2 DEF CacheHeld

NoCache == sessions = <<>> /\ live = {} /\ soul = <<>> /\ inboxPc = "recv"

LEMMA CacheEmpty == NoCache => CacheHeld
<1> SUFFICES ASSUME NoCache PROVE CacheHeld OBVIOUS
<1> USE DEF NoCache
<1>1. DOMAIN sessions = {} /\ sessions \in [DOMAIN sessions -> Sids \cup {NoSession}] OBVIOUS
<1>2. soul \in [live -> Speaker] OBVIOUS
<1>3. Cardinality(DOMAIN sessions) <= MaxSessions BY <1>1, FS_EmptySet, InboxBounds
<1>4. CacheExact BY <1>1, <1>3 DEF CacheExact
<1> QED BY <1>1, <1>2, <1>4 DEF CacheHeld

LEMMA CacheReset ==
    ASSUME BoxInv, NextGroup
    PROVE  CacheHeld'
<1>1. BoxTyped /\ BatchHeld /\ CacheHeld BY DEF BoxInv
<1>2. PICK k \in Keys : GroupOf(k) /\ (ResetOf(k) \/ UNCHANGED <<cache, pending, gone>>)
  BY <1>1, NextGroupServes
<1>3. inboxPc' \notin {"soul", "send"} BY <1>2 DEF GroupOf
<1>4. CASE UNCHANGED <<cache, pending, gone>> BY <1>1, <1>3, <1>4, CacheStays
<1>5. CASE ResetOf(k)
  <2> DEFINE old == {sessions[j] : j \in {k} \cap DOMAIN sessions}
  <2>1. old = IF k \in DOMAIN sessions THEN {sessions[k]} ELSE {} OBVIOUS
  <2>2. sessions' = Without(sessions, {k}) /\ live' = live \ old /\ soul' = Without(soul, old)
    BY <1>5, <2>1, Zenon DEF ResetOf
  <2> HIDE DEF old
  <2>3. /\ Agree(sessions', live') /\ DOMAIN sessions' = DOMAIN sessions \ {k}
        /\ \A j \in DOMAIN sessions \ {k} : sessions'[j] = sessions[j]
    <3>1. Agree(sessions, live) /\ DOMAIN sessions \subseteq Keys BY <1>1, CacheAgrees, Zenon DEF CacheHeld
    <3>2. /\ Agree(Without(sessions, {k}), live \ old)
          /\ DOMAIN Without(sessions, {k}) = DOMAIN sessions \ {k}
          /\ \A j \in DOMAIN sessions \ {k} : Without(sessions, {k})[j] = sessions[j]
      BY <3>1, DropKeys, Zenon DEF old
    <3> QED BY <2>2, <3>2, Zenon
  <2>4. CacheExact' BY <2>3 DEF CacheExact, Agree
  <2>5. sessions' \in [DOMAIN sessions' -> Sids \cup {NoSession}] BY <1>1, <2>2, <2>3 DEF CacheHeld, Without
  <2>6. soul' \in [live' -> Speaker] BY <1>1, <2>2 DEF CacheHeld, Without
  <2> QED BY <1>1, <1>3, <2>2, <2>3, <2>4, <2>5, <2>6 DEF CacheHeld
<1> QED BY <1>2, <1>4, <1>5

LEMMA RouteSender ==
    ASSUME BoxTyped, BatchHeld, inboxPc \notin {"recv", "groups"}
    PROVE  Route.sender \in Speaker
<1>1. normals \in Seq(Mail) /\ normals # <<>> BY DEF BoxTyped, BatchHeld
<1>2. Len(normals) \in 1..Len(normals) BY <1>1, EmptySeq
<1>3. normals[Len(normals)] \in Mail BY <1>1, <1>2, ElementOfSeq
<1> QED BY <1>3 DEF Route, Last, Mail

LEMMA CacheRefresh ==
    ASSUME BoxInv, RefreshSoul
    PROVE  CacheHeld'
<1>1. BoxTyped /\ BatchHeld /\ CacheHeld BY DEF BoxInv
<1>2. /\ inboxPc = "soul" /\ inboxPc' = "send" /\ UNCHANGED <<key, normals, sessions, live>>
      /\ soul' = IF sessions[key] \in live THEN [soul EXCEPT ![sessions[key]] = Route.sender] ELSE soul
  BY DEF RefreshSoul
<1>3. Route.sender \in Speaker BY <1>1, <1>2, RouteSender
<1>4. soul' \in [live' -> Speaker] /\ (sessions[key] \in live => soul'[sessions[key]] = Last(normals).sender)
  BY <1>1, <1>2, <1>3 DEF CacheHeld, Route
<1>5. CacheExact' BY <1>1, <1>2 DEF CacheExact, CacheHeld
<1> QED BY <1>1, <1>2, <1>4, <1>5 DEF CacheHeld

\* A full cache gives up one key.
LEMMA RoomMade ==
    ASSUME CacheHeld, key \in Keys, key \notin DOMAIN sessions
    PROVE  Cardinality(DOMAIN sessions \ Evicted) < MaxSessions
<1> DEFINE D == DOMAIN sessions
<1>1. D \subseteq Keys /\ IsFiniteSet(D) /\ Cardinality(D) \in Nat /\ Cardinality(D) <= MaxSessions
  BY KeysCounted DEF CacheHeld, CacheExact
<1>2. MaxSessions \in Nat \ {0} BY InboxBounds
<1>3. CASE Cardinality(D) >= MaxSessions
  <2> DEFINE e == CHOOSE k \in D : \A x \in D : k <= x
  <2>1. Evicted = {e} BY <1>3 DEF Evicted
  <2>2. D # {} BY <1>1, <1>2, <1>3, FS_EmptySet
  <2>3. D \subseteq Nat BY <1>1, KeyFacts
  <2> HIDE DEF D
  <2>4. e \in D BY <2>2, <2>3, LeastNumber
  <2> HIDE DEF e
  <2>5. Cardinality(D \ {e}) = Cardinality(D) - 1 BY <1>1, <2>4, FS_RemoveElement
  <2> QED BY <1>1, <1>2, <2>1, <2>5 DEF D
<1>4. CASE ~ (Cardinality(D) >= MaxSessions)
  <2>1. Evicted = {} BY <1>4 DEF Evicted
  <2>2. D \ Evicted = D BY <2>1
  <2> HIDE DEF D
  <2> QED BY <1>1, <1>2, <1>4, <2>2 DEF D
<1> QED BY <1>3, <1>4

LEMMA EvictedCached == CacheHeld /\ key \notin DOMAIN sessions => Evicted \subseteq DOMAIN sessions
<1> SUFFICES ASSUME CacheHeld, key \notin DOMAIN sessions, NEW e \in Evicted PROVE e \in DOMAIN sessions
  OBVIOUS
<1> DEFINE D == DOMAIN sessions
<1>1. e = CHOOSE k \in D : \A x \in D : k <= x BY Zenon DEF Evicted
<1>2. Cardinality(D) >= MaxSessions BY Zenon DEF Evicted
<1>3. D \subseteq Keys BY DEF CacheHeld
<1>4. D # {} /\ D \subseteq Nat
  <2>1. D \subseteq Nat BY <1>3, KeyFacts
  <2>2. Cardinality({}) = 0 /\ ~ (0 >= MaxSessions) BY FS_EmptySet, InboxBounds
  <2> HIDE DEF D
  <2>3. D # {} BY <1>2, <2>2, Zenon
  <2> QED BY <2>1, <2>3
<1> HIDE DEF D
<1>5. \E k \in D : \A x \in D : k <= x BY <1>4, LeastNumber
<1>6. e \in D BY <1>1, <1>5, Zenon
<1> QED BY <1>6 DEF D

LEMMA CacheOpen ==
    ASSUME BoxInv, NEW started \in BOOLEAN, OpenSession(started)
    PROVE  CacheHeld'
<1>1. BoxTyped /\ BatchHeld /\ CacheHeld BY DEF BoxInv
<1>2. inboxPc = "open" /\ inboxPc' = "soul" /\ UNCHANGED <<key, normals>> /\ key \in Keys
  BY <1>1 DEF OpenSession, BatchHeld
<1>3. CASE key \in DOMAIN sessions BY <1>3, <1>1, <1>2 DEF OpenSession, CacheExact, cache, CacheHeld
<1>4. CASE key \notin DOMAIN sessions
  <2> DEFINE evicted == {sessions[k] : k \in Evicted}
             sid == CHOOSE s \in 1..(MaxSessions + 1) : s \notin live
             new == IF started THEN sid ELSE NoSession
             mid == Without(sessions, Evicted)
  <2>1. /\ sessions' = With(mid, key, new)
        /\ live' = (live \ evicted) \cup ({new} \ {NoSession})
        /\ soul' = IF started THEN With(Without(soul, evicted), sid, Route.sender)
                   ELSE Without(soul, evicted) BY <1>4, Zenon DEF OpenSession
  <2>2. sid \in Sids /\ sid \notin live BY <1>1, CacheAgrees, FreeSession DEF CacheHeld, Sids
  <2>3. NoSession \notin Sids BY InboxBounds DEF Sids
  <2> HIDE DEF sid
  <2>4. new \in Sids \cup {NoSession} /\ new \notin live /\ (new # NoSession => started /\ new = sid)
        /\ (started => new = sid /\ new # NoSession) BY <1>1, <2>2, <2>3 DEF CacheHeld
  <2>5. evicted = {sessions[k] : k \in Evicted \cap DOMAIN sessions} BY <1>1, <1>4, EvictedCached
  <2>6. /\ Agree(mid, live \ evicted) /\ DOMAIN mid = DOMAIN sessions \ Evicted
        /\ \A k \in DOMAIN sessions \ Evicted : mid[k] = sessions[k]
    <3>1. Agree(sessions, live) /\ DOMAIN sessions \subseteq Keys BY <1>1, CacheAgrees, Zenon DEF CacheHeld
    <3> HIDE DEF evicted
    <3> QED BY <2>5, <3>1, DropKeys, Zenon
  <2>7. Cardinality(DOMAIN mid) < MaxSessions BY <1>1, <1>2, <1>4, <2>6, RoomMade
  <2> HIDE DEF mid, new, evicted
  <2>8. DOMAIN mid \subseteq Keys /\ key \notin DOMAIN mid /\ new \notin live \ evicted
    BY <1>1, <1>4, <2>4, <2>6 DEF CacheHeld
  <2>9. /\ Agree(sessions', live') /\ DOMAIN sessions' = DOMAIN mid \cup {key}
        /\ sessions'[key] = new /\ \A j \in DOMAIN mid : sessions'[j] = mid[j]
    <3>1. key \in Keys /\ DOMAIN mid \subseteq Keys /\ key \notin DOMAIN mid BY <1>2, <2>8, Zenon
    <3>2. KeyAdded(mid, live \ evicted, key, new) BY <2>6, <2>7, <2>8, <3>1, AddKey
    <3> QED BY <2>1, <3>2, Zenon DEF KeyAdded
  <2>10. CacheExact' BY <2>9 DEF CacheExact, Agree
  <2>11. sessions' \in [DOMAIN sessions' -> Sids \cup {NoSession}]
    BY <2>1, <2>9, <1>1, <2>4, <2>6 DEF With, CacheHeld
  <2>12. live' \subseteq Sids BY <1>1, <2>1, <2>4 DEF CacheHeld
  <2>13. soul' \in [live' -> Speaker]
    <3>1. Without(soul, evicted) \in [live \ evicted -> Speaker] BY <1>1 DEF CacheHeld, Without
    <3>2. CASE started BY <2>1, <2>4, <3>2, <1>1, <1>2, RouteSender, <3>1 DEF With
    <3>3. CASE ~ started BY <2>1, <2>4, <3>1, <3>3
    <3> QED BY <3>2, <3>3
  <2> QED BY <1>2, <2>8, <2>9, <2>10, <2>11, <2>12, <2>13 DEF CacheHeld
<1> QED BY <1>3, <1>4

LEMMA SomeSpeaker == Senders \subseteq Speaker /\ (CHOOSE x \in Senders : TRUE) \in Speaker
BY Zenon DEF Speaker

LEMMA BoxStarts == InboxInit => BoxInv
<1> SUFFICES ASSUME InboxInit PROVE BoxInv OBVIOUS
<1>1. CacheHeld BY CacheEmpty DEF InboxInit, NoCache
<1> QED BY <1>1, BoxInit DEF BoxInv

LEMMA BoxKept == BoxInv /\ [InboxNext]_inboxVars => BoxInv'
<1> SUFFICES ASSUME BoxInv, [InboxNext]_inboxVars PROVE BoxInv' OBVIOUS
<1>0. BoxTyped /\ BatchHeld /\ CacheHeld BY DEF BoxInv
<1>1. ASSUME NEW k \in Keys \cup {NoKey}, NEW from \in Speaker, NEW kind \in Kinds, Trigger(k, from, kind)
      PROVE  BoxInv' BY <1>1, <1>0, CacheStays, BoxTrigger DEF Trigger, work, BoxInv
<1>2. ASSUME NEW k \in Keys, NEW from \in Senders, NEW kind \in Kinds, Trigger(k, from, kind)
      PROVE  BoxInv' BY <1>1, <1>2, SomeSpeaker
<1>3. CASE Trigger(NoKey, CHOOSE x \in Senders : TRUE, "text") BY <1>1, <1>3, SomeSpeaker DEF Kinds
<1>4. CASE Receive \/ BatchDone \/ LoadPending \/ SendAnswered \/ SendFails \/ Retry
  <2>1. UNCHANGED cache /\ inboxPc' \notin {"soul", "send"}
    BY <1>4 DEF Receive, BatchDone, LoadPending, SendAnswered, SendFails, Retry
  <2>2. CacheHeld' BY <1>0, <2>1, CacheStays
  <2> QED BY <1>4, <2>2, BoxReceive, BoxLoad, BoxSend, BoxServe DEF BoxInv
<1>5. CASE NextGroup BY <1>5, BoxNextGroup, CacheReset DEF BoxInv
<1>6. CASE RefreshSoul BY <1>6, BoxServe, CacheRefresh DEF BoxInv
<1>7. ASSUME NEW ok \in BOOLEAN, OpenSession(ok) PROVE BoxInv' BY <1>7, BoxServe, CacheOpen DEF BoxInv
<1>8. ASSUME NEW ok \in BOOLEAN, ClearPending(ok) \/ Spill(ok) PROVE BoxInv'
  BY <1>8, <1>0, CacheStays, BoxFiles DEF ClearPending, Spill, BoxInv
<1>9. CASE Crash
  <2>1. CacheHeld'
    <3>1. NoCache' BY <1>9 DEF Crash, NoCache
    <3> QED BY <3>1, CacheEmpty, PTL
  <2> QED BY <1>9, <2>1, BoxCrash DEF BoxInv
<1>10. CASE UNCHANGED inboxVars
  BY <1>10, <1>0, CacheStays DEF inboxVars, work, cache, BoxInv, BoxTyped, BatchHeld
<1>11. CASE Serve BY <1>4, <1>5, <1>6, <1>7, <1>8, <1>11 DEF Serve
<1> QED BY <1>2, <1>3, <1>9, <1>10, <1>11, Zenon DEF InboxNext

-----------------------------------------------------------------------------
(* Inbox: the messages that are accounted for *)

\* The reasons for which a message may be missing, and the messages that are
\* accounted for: missing for one of them, in memory, answered or spilled.
Reasons == {"full", "keyless", "reset", "crash", "io"}
TextIds(ms) == {x.id : x \in {y \in ToSet(ms) : y.kind = "text"}}
KeptIds == Gone(Reasons) \cup TextIds(channel) \cup TextIds(groups) \cup Ids(InWork)
             \cup AnsweredIds \cup SpilledIds

\* What was sent to the model is accounted for; before the spill is cleared it is answered.
SentKept ==
    /\ Ids(combined) \subseteq KeptIds
    /\ inboxPc = "clear" => Ids(combined) \subseteq Ids(AskedFrom(key))

\* The messages of a list of turns.
TurnMail(a) == FlattenSeq([i \in DOMAIN a |-> a[i][1]])

LEMMA TurnMailGrows ==
    ASSUME NEW a \in Seq(Seq(Mail) \X Speaker), NEW ms \in Seq(Mail), NEW who \in Speaker
    PROVE  /\ TurnMail(a) \in Seq(Mail)
           /\ TurnMail(Append(a, <<ms, who>>)) = TurnMail(a) \o ms
<1> DEFINE S == Seq(Mail) \X Speaker
           p == [i \in DOMAIN a |-> a[i][1]]
           b == Append(a, <<ms, who>>)
           q == [i \in DOMAIN b |-> b[i][1]]
           n == Len(a)
<1>1. /\ n \in Nat /\ DOMAIN a = 1..n /\ \A i \in 1..n : a[i] \in S /\ a[i][1] \in Seq(Mail) OBVIOUS
<1>2. /\ b \in Seq(S) /\ Len(b) = n + 1 /\ (\A i \in 1..n : b[i] = a[i]) /\ b[n + 1] = <<ms, who>>
  BY AppendProperties
<1>3. DOMAIN b = 1..n + 1 BY <1>2, LenProperties
<1> HIDE DEF b
<1>4. p \in Seq(Seq(Mail)) /\ Len(p) = n /\ \A i \in 1..n : p[i] = a[i][1] BY <1>1
<1>5. \A i \in 1..n + 1 : i \in 1..n \/ i = n + 1 BY <1>1
<1>6. \A i \in 1..n + 1 : b[i][1] \in Seq(Mail) BY <1>1, <1>2, <1>5
<1>7. q \in Seq(Seq(Mail)) /\ Len(q) = n + 1 /\ \A i \in 1..n + 1 : q[i] = b[i][1] BY <1>1, <1>3, <1>6
<1> HIDE DEF p, q
<1>8. q = Append(p, ms)
  <2>1. /\ Append(p, ms) \in Seq(Seq(Mail)) /\ Len(Append(p, ms)) = n + 1
        /\ (\A i \in 1..n : Append(p, ms)[i] = p[i]) /\ Append(p, ms)[n + 1] = ms BY <1>4, AppendProperties
  <2>2. n + 1 \in 1..n + 1 /\ \A i \in 1..n : i \in 1..n + 1 BY <1>1
  <2>3. \A i \in 1..n + 1 : q[i] = Append(p, ms)[i]
    <3>1. \A i \in 1..n : q[i] = Append(p, ms)[i] BY <1>2, <1>4, <1>7, <2>1, <2>2, SMTT(30)
    <3>2. q[n + 1] = ms BY <1>2, <1>7, <2>2
    <3> QED BY <1>5, <2>1, <3>1, <3>2
  <2> QED BY <1>7, <2>1, <2>3, SeqEqual
<1>9. FlattenSeq(p) \in Seq(Mail) /\ FlattenSeq(Append(p, ms)) = FlattenSeq(p) \o ms
  BY <1>4, FlattenType, FlattenAppend
<1>10. TurnMail(a) = FlattenSeq(p) /\ TurnMail(b) = FlattenSeq(q) BY DEF TurnMail, p, q
<1> QED BY <1>8, <1>9, <1>10 DEF b

LEMMA AskedMail ==
    ASSUME BoxTyped, NEW k \in Keys
    PROVE  AskedFrom(k) = TurnMail(asked[k]) /\ AskedFrom(k) \in Seq(Mail) /\ asked[k] \in Seq(Seq(Mail) \X Speaker)
<1>1. asked[k] \in Seq(Seq(Mail) \X Speaker) BY DEF BoxTyped
<1>2. AskedFrom(k) = TurnMail(asked[k]) BY DEF AskedFrom, TurnMail
<1>3. <<>> \in Seq(Mail) /\ (CHOOSE x \in Senders : TRUE) \in Speaker BY EmptyList, SomeSpeaker
<1> QED BY <1>1, <1>2, <1>3, TurnMailGrows

\* An answer adds what was sent to the turns of its key.
LEMMA AnswerAdds ==
    ASSUME BoxInv, SendAnswered
    PROVE  /\ AskedFrom(key)' = AskedFrom(key) \o combined
           /\ \A k \in Keys : k # key => AskedFrom(k)' = AskedFrom(k)
<1>1. BoxTyped /\ BatchHeld /\ CacheHeld /\ key \in Keys /\ key' = key BY DEF BoxInv, SendAnswered, BatchHeld
<1>2. /\ asked' = [asked EXCEPT ![key] = Append(asked[key], <<combined, soul[sessions[key]]>>)]
      /\ sessions[key] \in live BY DEF SendAnswered
<1>3. combined \in Seq(Mail) /\ soul[sessions[key]] \in Speaker /\ asked \in [Keys -> Seq(Seq(Mail) \X Speaker)]
  BY <1>1, <1>2 DEF BoxTyped, CacheHeld
<1>4. asked'[key] = Append(asked[key], <<combined, soul[sessions[key]]>>) BY <1>1, <1>2, <1>3
<1>5. \A k \in Keys : k # key => asked'[k] = asked[k] BY <1>2, <1>3
<1>6. AskedFrom(key)' = TurnMail(asked'[key]) BY <1>1 DEF AskedFrom, TurnMail
<1>7. asked[key] \in Seq(Seq(Mail) \X Speaker) /\ AskedFrom(key) = TurnMail(asked[key]) BY <1>1, AskedMail
<1>8. TurnMail(asked'[key]) = TurnMail(asked[key]) \o combined BY <1>3, <1>4, <1>7, TurnMailGrows
<1>9. \A k \in Keys : k # key => AskedFrom(k)' = AskedFrom(k) BY <1>5 DEF AskedFrom
<1> QED BY <1>6, <1>7, <1>8, <1>9

LEMMA GoneGrows ==
    ASSUME NEW R, gone \subseteq gone'
    PROVE  Gone(R) \subseteq Gone(R)'
BY DEF Gone

LEMMA LostGone ==
    ASSUME NEW R, NEW ms, NEW why \in R, Lose(ms, why)
    PROVE  gone \subseteq gone' /\ Ids(ms) \subseteq Gone(R)'
<1>1. gone' = gone \cup {<<ms[i].id, why>> : i \in DOMAIN ms} BY DEF Lose
<1>2. ASSUME NEW i \in DOMAIN ms PROVE ms[i].id \in Gone(R)'
  <2>1. <<ms[i].id, why>> \in gone' BY <1>1, <1>2
  <2>2. <<ms[i].id, why>>[1] = ms[i].id /\ <<ms[i].id, why>>[2] = why OBVIOUS
  <2> QED BY <2>1, <2>2, Zenon DEF Gone
<1> QED BY <1>1, <1>2 DEF Ids

\* What is accounted for.
LEMMA KeptIs ==
    \A d : d \in KeptIds <=> \/ d \in Gone(Reasons) \/ d \in TextIds(channel) \/ d \in TextIds(groups)
                             \/ d \in Ids(InWork) \/ d \in AnsweredIds \/ d \in SpilledIds
BY Zenon DEF KeptIds

LEMMA KeptGrows ==
    ASSUME Gone(Reasons) \subseteq KeptIds', TextIds(channel) \subseteq KeptIds', TextIds(groups) \subseteq KeptIds',
           Ids(InWork) \subseteq KeptIds', AnsweredIds \subseteq KeptIds', SpilledIds \subseteq KeptIds'
    PROVE  KeptIds \subseteq KeptIds'
BY KeptIs

KeptCovers ==
    /\ Gone(Reasons) \subseteq KeptIds /\ TextIds(channel) \subseteq KeptIds /\ TextIds(groups) \subseteq KeptIds
    /\ Ids(InWork) \subseteq KeptIds /\ AnsweredIds \subseteq KeptIds /\ SpilledIds \subseteq KeptIds

LEMMA KeptHolds == KeptCovers
BY KeptIs DEF KeptCovers

LEMMA KeptHoldsNext == KeptCovers'
BY KeptHolds, PTL

LEMMA SpilledIn ==
    ASSUME NEW k \in Keys
    PROVE  Ids(pending[FileOf[k]]) \subseteq SpilledIds
BY KeyFacts DEF SpilledIds

LEMMA AnsweredIn ==
    ASSUME NEW k \in Keys
    PROVE  Ids(AskedFrom(k)) \subseteq AnsweredIds
BY DEF AnsweredIds

\* The ids of a list in which nothing is lost.
LEMMA IdsOfText ==
    ASSUME NEW ms \in Seq(Mail), NEW ns \in Seq(Mail)
    PROVE  /\ \A x \in ToSet(ms) : x.kind = "text" => x.id \in TextIds(ms)
           /\ \A d \in TextIds(ms) : \E x \in ToSet(ms) : x.kind = "text" /\ d = x.id
           /\ \A x \in ToSet(ms) : x.id \in Ids(ms)
           /\ \A d \in Ids(ms) : \E x \in ToSet(ms) : d = x.id
           /\ TextIds(ms) \subseteq Ids(ms)
           /\ ToSet(ms) \subseteq ToSet(ns) => Ids(ms) \subseteq Ids(ns) /\ TextIds(ms) \subseteq TextIds(ns)
<1>1. Ids(ms) = {x.id : x \in ToSet(ms)} /\ Ids(ns) = {x.id : x \in ToSet(ns)} BY ListElements
<1> QED BY <1>1, Zenon DEF TextIds

LEMMA JoinedIds ==
    ASSUME NEW ms \in Seq(Mail), NEW ns \in Seq(Mail)
    PROVE  Ids(ms \o ns) = Ids(ms) \cup Ids(ns)
<1>1. /\ ms \o ns \in Seq(Mail)
      /\ \A x : x \in ToSet(ms \o ns) <=> x \in ToSet(ms) \/ x \in ToSet(ns) BY JoinedLists
<1>2. /\ Ids(ms) = {x.id : x \in ToSet(ms)} /\ Ids(ns) = {x.id : x \in ToSet(ns)}
      /\ Ids(ms \o ns) = {x.id : x \in ToSet(ms \o ns)} BY <1>1, ListElements
<1> QED BY <1>1, <1>2, Zenon

LEMMA WorkTyped == BoxTyped => InWork \in Seq(Mail)
BY EmptyList DEF BoxTyped, InWork

\* What is still there after a step that moves nothing.
LEMMA SpilledSame == pending' = pending => SpilledIds' = SpilledIds
BY DEF SpilledIds

LEMMA AnsweredSame == asked' = asked => AnsweredIds' = AnsweredIds /\ \A k \in Keys : AskedFrom(k)' = AskedFrom(k)
BY DEF AnsweredIds, AskedFrom

LEMMA KeptTrigger ==
    ASSUME BoxInv, NEW k \in Keys \cup {NoKey}, NEW from \in Speaker, NEW kind \in Kinds, Trigger(k, from, kind)
    PROVE  KeptIds \subseteq KeptIds'
<1> DEFINE m == [id |-> serial + 1, key |-> k, sender |-> from, kind |-> kind]
<1>1. BoxTyped /\ BoxTyped' BY BoxTrigger DEF BoxInv
<1>2. /\ UNCHANGED <<work, cache, pending, crashes, asked>>
      /\ \/ channel' = channel /\ gone \subseteq gone'
         \/ channel' = Append(channel, m) /\ gone \subseteq gone' BY DEF Trigger, Lose
<1>3. m \in Mail BY <1>1 DEF Mail, BoxTyped
<1> HIDE DEF m
<1>4. TextIds(channel) \subseteq TextIds(channel') BY <1>1, <1>2, <1>3, OneMore, IdsOfText DEF BoxTyped
<1>5. Gone(Reasons) \subseteq Gone(Reasons)' BY <1>2, GoneGrows
<1>6. UNCHANGED <<groups, InWork>> /\ SpilledIds' = SpilledIds /\ AnsweredIds' = AnsweredIds
  BY <1>2, SpilledSame, AnsweredSame DEF work, InWork
<1> QED BY <1>4, <1>5, <1>6, KeptHoldsNext, KeptGrows DEF KeptCovers

LEMMA KeptReceive ==
    ASSUME BoxInv, Receive
    PROVE  KeptIds \subseteq KeptIds'
<1>1. BoxTyped /\ BatchHeld BY DEF BoxInv
<1>2. /\ inboxPc = "recv" /\ groups' = OtherKeys(channel, NoKey) /\ channel' = <<>> /\ inboxPc' = "groups"
      /\ Lose(OfKey(channel, NoKey), "keyless") /\ UNCHANGED <<pending, asked>> BY DEF Receive
<1>3. /\ channel \in Seq(Mail) /\ groups' \in Seq(Mail) /\ OfKey(channel, NoKey) \in Seq(Mail)
      /\ \A x : x \in ToSet(groups') <=> x \in ToSet(channel) /\ x.key # NoKey
      /\ \A x : x \in ToSet(OfKey(channel, NoKey)) <=> x \in ToSet(channel) /\ x.key = NoKey
  BY <1>1, <1>2, KeyFilter DEF BoxTyped
<1>4. gone \subseteq gone' /\ Ids(OfKey(channel, NoKey)) \subseteq Gone(Reasons)'
  BY <1>2, LostGone DEF Reasons
<1>5. Gone(Reasons) \subseteq Gone(Reasons)' BY <1>4, GoneGrows
<1>6. TextIds(channel) \subseteq Gone(Reasons)' \cup TextIds(groups')
  <2> SUFFICES ASSUME NEW d \in TextIds(channel) PROVE d \in Gone(Reasons)' \cup TextIds(groups') OBVIOUS
  <2>1. PICK x \in ToSet(channel) : x.kind = "text" /\ d = x.id BY <1>3, IdsOfText
  <2>2. CASE x.key = NoKey BY <1>3, <2>2, <2>1, IdsOfText, <1>4
  <2>3. CASE x.key # NoKey BY <1>3, <2>3, <2>1, IdsOfText
  <2> QED BY <2>2, <2>3
<1>7. TextIds(groups) = {} /\ Ids(InWork) = {} BY <1>1, <1>2, EmptyList DEF BatchHeld, TextIds, InWork
<1>8. SpilledIds' = SpilledIds /\ AnsweredIds' = AnsweredIds BY <1>2, SpilledSame, AnsweredSame
<1> QED BY <1>5, <1>6, <1>7, <1>8, KeptHoldsNext, KeptGrows DEF KeptCovers

LEMMA KeptNextGroup ==
    ASSUME BoxInv, NextGroup
    PROVE  KeptIds \subseteq KeptIds'
<1>1. BoxTyped /\ BatchHeld BY DEF BoxInv
<1>2. PICK k \in Keys : GroupOf(k) /\ (ResetOf(k) \/ UNCHANGED <<cache, pending, gone>>)
  BY <1>1, NextGroupServes
<1>3. /\ groups \in Seq(Mail) /\ groups' \in Seq(Mail) /\ OfKey(groups, k) \in Seq(Mail)
      /\ \A x : x \in ToSet(groups') <=> x \in ToSet(groups) /\ x.key # k
      /\ \A x : x \in ToSet(OfKey(groups, k)) <=> x \in ToSet(groups) /\ x.key = k
  BY <1>1, <1>2, KeyFilter DEF BoxTyped, GroupOf
<1>4. /\ normals' \in Seq(Mail)
      /\ \A x : x \in ToSet(normals') <=> x \in ToSet(OfKey(groups, k)) /\ x.kind = "text"
  BY <1>2, <1>3, TextFilter DEF GroupOf
<1>5. /\ UNCHANGED <<channel, asked>> /\ inboxPc = "groups"
      /\ \/ normals' = <<>> /\ inboxPc' = "groups"
         \/ inboxPc' = "load" BY <1>2 DEF GroupOf
<1>6. TextIds(groups) \subseteq TextIds(groups') \cup Ids(InWork')
  <2> SUFFICES ASSUME NEW d \in TextIds(groups) PROVE d \in TextIds(groups') \cup Ids(InWork') OBVIOUS
  <2>1. PICK x \in ToSet(groups) : x.kind = "text" /\ d = x.id BY <1>3, IdsOfText
  <2>2. CASE x.key # k BY <1>3, <2>2, <2>1, IdsOfText
  <2>3. CASE x.key = k BY <1>3, <1>4, <2>1, <2>3, EmptyList, <1>5, IdsOfText DEF InWork
  <2> QED BY <2>2, <2>3
<1>7. Ids(InWork) = {} BY <1>5, EmptyList DEF InWork
<1>8. AnsweredIds' = AnsweredIds BY <1>5, AnsweredSame
<1>9. Gone(Reasons) \subseteq Gone(Reasons)' /\ SpilledIds \subseteq SpilledIds' \cup Gone(Reasons)'
  <2>1. CASE UNCHANGED <<cache, pending, gone>> BY <2>1, SpilledSame, GoneGrows
  <2>2. CASE ResetOf(k)
    <3>1. "reset" \in Reasons BY DEF Reasons
    <3>2. gone \subseteq gone' /\ Ids(pending[FileOf[k]]) \subseteq Gone(Reasons)'
      BY <2>2, <3>1, LostGone DEF ResetOf
    <3>3. \A f \in Files : f # FileOf[k] => pending'[f] = pending[f]
      BY <1>1, <2>2, SpillKept, EmptyList DEF ResetOf, BoxTyped
    <3>4. \A f \in Files : Ids(pending[f]) \subseteq SpilledIds' \cup Gone(Reasons)'
      BY <3>2, <3>3 DEF SpilledIds
    <3>5. SpilledIds \subseteq SpilledIds' \cup Gone(Reasons)' BY <3>4, Zenon DEF SpilledIds
    <3> QED BY <3>2, <3>5, GoneGrows
  <2> QED BY <1>2, <2>1, <2>2
<1> QED BY <1>5, <1>6, <1>7, <1>8, <1>9, KeptHoldsNext, KeptGrows DEF KeptCovers

LEMMA KeptSend ==
    ASSUME BoxInv, SendAnswered
    PROVE  KeptIds \subseteq KeptIds' /\ (Ids(combined) \subseteq Ids(AskedFrom(key)))'
<1>1. BoxTyped /\ BatchHeld /\ key \in Keys BY DEF BoxInv, SendAnswered, BatchHeld
<1>2. /\ inboxPc = "send" /\ inboxPc' = "clear" /\ UNCHANGED <<channel, groups, key, normals, combined, pending, gone>>
  BY DEF SendAnswered
<1>3. /\ AskedFrom(key)' = AskedFrom(key) \o combined
      /\ \A k \in Keys : k # key => AskedFrom(k)' = AskedFrom(k) BY AnswerAdds
<1>4. /\ combined = pending[FileOf[key]] \o normals /\ pending[FileOf[key]] \in Seq(Mail)
      /\ normals \in Seq(Mail) /\ combined \in Seq(Mail) /\ AskedFrom(key) \in Seq(Mail)
  BY <1>1, <1>2, KeyFacts, AskedMail DEF BoxTyped, BatchHeld
<1>5. Ids(AskedFrom(key)') = Ids(AskedFrom(key)) \cup Ids(combined) /\ Ids(normals) \subseteq Ids(combined)
  <2>1. Ids(AskedFrom(key) \o combined) = Ids(AskedFrom(key)) \cup Ids(combined) BY <1>4, JoinedIds
  <2>2. Ids(pending[FileOf[key]] \o normals) = Ids(pending[FileOf[key]]) \cup Ids(normals) BY <1>4, JoinedIds
  <2> QED BY <1>3, <1>4, <2>1, <2>2
<1>6. ASSUME NEW k \in Keys PROVE Ids(AskedFrom(k)) \subseteq Ids(AskedFrom(k)')
  <2>1. CASE k = key BY <1>2, <2>1, <1>5 DEF AskedFrom
  <2>2. CASE k # key BY <1>3, <2>2
  <2> QED BY <2>1, <2>2
<1>7. AnsweredIds \subseteq AnsweredIds' /\ Ids(combined) \subseteq AnsweredIds'
  BY <1>6, <1>1, <1>2, <1>5 DEF AnsweredIds
<1>8. SpilledIds' = SpilledIds /\ Gone(Reasons)' = Gone(Reasons) BY <1>2, SpilledSame DEF Gone
<1>9. InWork = normals BY <1>2 DEF InWork
<1>10. KeptIds \subseteq KeptIds' BY <1>2, <1>5, <1>7, <1>8, <1>9, KeptHoldsNext, KeptGrows DEF KeptCovers
<1>11. (Ids(combined) \subseteq Ids(AskedFrom(key)))' BY <1>2, <1>5
<1> QED
  BY <1>10, <1>11
LEMMA KeptFiles ==
    ASSUME BoxInv, SentKept, NEW ok \in BOOLEAN, ClearPending(ok) \/ Spill(ok)
    PROVE  KeptIds \subseteq KeptIds'
<1>1. BoxTyped /\ BatchHeld /\ key \in Keys BY DEF BoxInv, ClearPending, Spill, BatchHeld
<1>2. /\ UNCHANGED <<channel, groups, key, normals, combined, asked>>
      /\ inboxPc \in {"clear", "spill"} /\ inboxPc' \in {"groups", "retry"} BY DEF ClearPending, Spill
<1>3. /\ combined = pending[FileOf[key]] \o normals /\ pending[FileOf[key]] \in Seq(Mail)
      /\ normals \in Seq(Mail) /\ pending \in [Files -> Seq(Mail)] /\ FileOf[key] \in Files
  BY <1>1, <1>2, KeyFacts DEF BoxTyped, BatchHeld
<1>4. Ids(combined) = Ids(pending[FileOf[key]]) \cup Ids(normals) BY <1>3, JoinedIds
<1>5. \A f \in Files : f # FileOf[key] => pending'[f] = pending[f] BY <1>3 DEF ClearPending, Spill
<1>6. AnsweredIds' = AnsweredIds BY <1>2, AnsweredSame
<1>7. \A f \in Files : Ids(pending'[f]) \subseteq SpilledIds' BY DEF SpilledIds
<1>8. \A d \in SpilledIds : \E f \in Files : d \in Ids(pending[f]) BY DEF SpilledIds
<1>9. CASE ClearPending(ok)
  <2>1. inboxPc = "clear" /\ gone' = gone BY <1>9 DEF ClearPending
  <2>2. Ids(pending[FileOf[key]]) \subseteq AnsweredIds BY <2>1, <1>1, <1>4, AnsweredIn DEF SentKept
  <2>3. SpilledIds \subseteq SpilledIds' \cup AnsweredIds'
    <3> SUFFICES ASSUME NEW d \in SpilledIds PROVE d \in SpilledIds' \cup AnsweredIds' OBVIOUS
    <3>1. PICK f \in Files : d \in Ids(pending[f]) BY <1>8
    <3>2. CASE f = FileOf[key] BY <1>6, <2>2, <3>1, <3>2
    <3>3. CASE f # FileOf[key] BY <1>5, <1>7, <3>1, <3>3
    <3> QED BY <3>2, <3>3
  <2>4. Ids(InWork) = {} /\ Gone(Reasons)' = Gone(Reasons) BY <2>1, EmptyList DEF InWork, Gone
  <2> QED BY <1>2, <1>6, <2>3, <2>4, KeptHoldsNext, KeptGrows DEF KeptCovers
<1>10. CASE Spill(ok)
  <2>1. inboxPc = "spill" /\ InWork = normals BY <1>10 DEF Spill, InWork
  <2>2. CASE ok
    <3>1. pending'[FileOf[key]] = combined /\ gone' = gone BY <1>3, <1>10, <2>2 DEF Spill
    <3>2. Ids(normals) \subseteq SpilledIds' BY <1>3, <1>4, <1>7, <3>1
    <3>3. SpilledIds \subseteq SpilledIds'
      <4> SUFFICES ASSUME NEW d \in SpilledIds PROVE d \in SpilledIds' OBVIOUS
      <4>1. PICK f \in Files : d \in Ids(pending[f]) BY <1>8
      <4>2. CASE f = FileOf[key] BY <1>3, <1>4, <1>7, <3>1, <4>1, <4>2
      <4>3. CASE f # FileOf[key] BY <1>5, <1>7, <4>1, <4>3
      <4> QED BY <4>2, <4>3
    <3>4. Gone(Reasons)' = Gone(Reasons) BY <3>1 DEF Gone
    <3> QED BY <1>2, <1>6, <2>1, <3>2, <3>3, <3>4, KeptHoldsNext, KeptGrows DEF KeptCovers
  <2>3. CASE ~ ok
    <3>1. Lose(normals, "io") /\ pending' = pending BY <1>10, <2>3 DEF Spill
    <3>2. "io" \in Reasons BY DEF Reasons
    <3>3. gone \subseteq gone' /\ Ids(normals) \subseteq Gone(Reasons)' BY <3>1, <3>2, LostGone
    <3>4. Gone(Reasons) \subseteq Gone(Reasons)' /\ SpilledIds' = SpilledIds
      BY <3>1, <3>3, GoneGrows, SpilledSame
    <3> QED BY <1>2, <1>6, <2>1, <3>3, <3>4, KeptHoldsNext, KeptGrows DEF KeptCovers
  <2> QED BY <2>2, <2>3
<1> QED BY <1>9, <1>10

LEMMA KeptCrash ==
    ASSUME BoxInv, Crash
    PROVE  KeptIds \subseteq KeptIds'
<1>1. BoxTyped BY DEF BoxInv
<1> DEFINE all == channel \o groups \o InWork
<1>2. /\ gone \subseteq gone' /\ {<<m.id, "crash">> : m \in ToSet(all)} \subseteq gone'
      /\ UNCHANGED <<pending, asked>> BY DEF Crash
<1>3. /\ channel \in Seq(Mail) /\ groups \in Seq(Mail) /\ InWork \in Seq(Mail) BY <1>1, WorkTyped DEF BoxTyped
<1>4. \A x : x \in ToSet(channel) \/ x \in ToSet(groups) \/ x \in ToSet(InWork) => x \in ToSet(all)
  BY <1>3, JoinedLists
<1> HIDE DEF all
<1>5. ASSUME NEW x \in ToSet(all) PROVE x.id \in Gone(Reasons)'
  <2>1. <<x.id, "crash">> \in gone' BY <1>2
  <2>2. <<x.id, "crash">>[1] = x.id /\ <<x.id, "crash">>[2] = "crash" /\ "crash" \in Reasons BY DEF Reasons
  <2> QED BY <2>1, <2>2, Zenon DEF Gone
<1>6. /\ TextIds(channel) \subseteq Gone(Reasons)' /\ TextIds(groups) \subseteq Gone(Reasons)'
      /\ Ids(InWork) \subseteq Gone(Reasons)'
  <2>1. ASSUME NEW ms \in Seq(Mail), ToSet(ms) \subseteq ToSet(all) PROVE Ids(ms) \subseteq Gone(Reasons)'
    BY IdsOfText, <1>5, <2>1
  <2>2. TextIds(channel) \subseteq Ids(channel) /\ TextIds(groups) \subseteq Ids(groups) BY <1>3, IdsOfText
  <2>3. ToSet(channel) \subseteq ToSet(all) /\ ToSet(groups) \subseteq ToSet(all) /\ ToSet(InWork) \subseteq ToSet(all)
    BY <1>4, Zenon
  <2> QED BY <1>3, <2>1, <2>2, <2>3
<1>7. Gone(Reasons) \subseteq Gone(Reasons)' /\ SpilledIds' = SpilledIds /\ AnsweredIds' = AnsweredIds
  BY <1>2, GoneGrows, SpilledSame, AnsweredSame
<1> QED BY <1>6, <1>7, KeptHoldsNext, KeptGrows DEF KeptCovers

\* Nothing that is accounted for is lost by a step.
LEMMA KeptNothingMoves ==
    ASSUME UNCHANGED <<channel, groups, InWork, pending, asked, gone>>
    PROVE  KeptIds' = KeptIds
<1>1. SpilledIds' = SpilledIds /\ AnsweredIds' = AnsweredIds /\ Gone(Reasons)' = Gone(Reasons)
  BY SpilledSame, AnsweredSame DEF Gone
<1> QED BY <1>1 DEF KeptIds

LEMMA KeptStep ==
    ASSUME BoxInv, SentKept, [InboxNext]_inboxVars
    PROVE  KeptIds \subseteq KeptIds'
<1>0. BoxTyped /\ BatchHeld BY DEF BoxInv
<1>1. ASSUME NEW k \in Keys, NEW from \in Senders, NEW kind \in Kinds, Trigger(k, from, kind)
      PROVE  KeptIds \subseteq KeptIds' BY <1>1, SomeSpeaker, KeptTrigger
<1>2. CASE Trigger(NoKey, CHOOSE x \in Senders : TRUE, "text") BY <1>2, SomeSpeaker, KeptTrigger DEF Kinds
<1>3. CASE Receive BY <1>3, KeptReceive
<1>4. CASE NextGroup BY <1>4, KeptNextGroup
<1>5. CASE BatchDone \/ LoadPending \/ RefreshSoul \/ SendFails \/ Retry
  BY <1>5, KeptNothingMoves DEF BatchDone, LoadPending, RefreshSoul, SendFails, Retry, InWork
<1>6. ASSUME NEW ok \in BOOLEAN, OpenSession(ok) PROVE KeptIds \subseteq KeptIds'
  BY <1>6, KeptNothingMoves DEF OpenSession, InWork
<1>7. CASE SendAnswered BY <1>7, KeptSend
<1>8. ASSUME NEW ok \in BOOLEAN, ClearPending(ok) \/ Spill(ok) PROVE KeptIds \subseteq KeptIds'
  BY <1>8, KeptFiles
<1>9. CASE Crash BY <1>9, KeptCrash
<1>10. CASE UNCHANGED inboxVars BY <1>10, KeptNothingMoves DEF inboxVars, work, InWork
<1>11. CASE Serve BY <1>3, <1>4, <1>5, <1>6, <1>7, <1>8, <1>11 DEF Serve
<1> QED BY <1>1, <1>2, <1>9, <1>10, <1>11, Zenon DEF InboxNext

LEMMA SentStarts == InboxInit => SentKept
BY EmptyList DEF InboxInit, SentKept

LEMMA SentStays ==
    ASSUME BoxInv, SentKept, [InboxNext]_inboxVars
    PROVE  SentKept'
<1>0. BoxTyped /\ BatchHeld /\ Ids(combined) \subseteq KeptIds /\ KeptIds \subseteq KeptIds'
  BY KeptStep DEF BoxInv, SentKept
<1>1. ASSUME combined' = combined, inboxPc' # "clear" PROVE SentKept' BY <1>0, <1>1 DEF SentKept
<1>2. ASSUME UNCHANGED <<combined, inboxPc, key, asked>> PROVE SentKept' BY <1>2, <1>0 DEF AskedFrom, SentKept
<1>3. ASSUME NEW k, NEW from, NEW kind, Trigger(k, from, kind) PROVE SentKept' BY <1>2, <1>3 DEF Trigger, work
<1>4. CASE Receive \/ RefreshSoul \/ SendFails \/ Retry
  BY <1>1, <1>4 DEF Receive, RefreshSoul, SendFails, Retry
<1>5. CASE NextGroup BY <1>5, <1>1 DEF NextGroup
<1>6. ASSUME NEW ok \in BOOLEAN, OpenSession(ok) \/ ClearPending(ok) \/ Spill(ok) PROVE SentKept'
  BY <1>6, <1>1 DEF OpenSession, ClearPending, Spill
<1>7. CASE BatchDone \/ Crash BY <1>7, EmptyList DEF BatchDone, Crash, SentKept
<1>8. CASE SendAnswered BY <1>8, KeptSend, <1>0 DEF SendAnswered, SentKept
<1>9. CASE LoadPending
  <2>1. /\ inboxPc = "load" /\ inboxPc' = "open" /\ combined' = pending[FileOf[key]] \o normals
        /\ InWork = normals /\ key \in Keys BY <1>0, <1>9 DEF LoadPending, InWork, BatchHeld
  <2>2. pending[FileOf[key]] \in Seq(Mail) /\ normals \in Seq(Mail) BY <1>0, <2>1, KeyFacts DEF BoxTyped
  <2>3. Ids(combined') = Ids(pending[FileOf[key]]) \cup Ids(normals) BY <2>1, <2>2, JoinedIds
  <2>4. Ids(combined') \subseteq KeptIds BY <2>1, <2>3, SpilledIn, KeptHolds DEF KeptCovers
  <2> QED BY <1>0, <2>1, <2>4 DEF SentKept
<1>10. CASE UNCHANGED inboxVars BY <1>2, <1>10 DEF inboxVars, work
<1>11. CASE Serve BY <1>4, <1>5, <1>6, <1>7, <1>8, <1>9, <1>11 DEF Serve
<1>12. CASE Crash BY <1>7, <1>12
<1> QED BY <1>3, <1>10, <1>11, <1>12, Zenon DEF InboxNext

\* What NothingVanishes says of a step.
LEMMA NothingVanishesStep ==
    ASSUME BoxInv, SentKept, [InboxNext]_inboxVars
    PROVE  \A m \in ToSet(channel \o groups \o InWork \o combined) :
             m.kind = "text" =>
               m.id \in Gone({"full", "keyless", "reset", "crash", "io"})'
                        \cup (Ids(channel \o groups \o InWork) \cup AnsweredIds \cup SpilledIds)'
<1> DEFINE all == channel \o groups \o InWork
<1>1. KeptIds \subseteq KeptIds' /\ BoxInv' BY KeptStep, BoxKept
<1>2. BoxTyped /\ BoxTyped' BY <1>1 DEF BoxInv
<1>3. /\ channel \in Seq(Mail) /\ groups \in Seq(Mail) /\ InWork \in Seq(Mail) /\ combined \in Seq(Mail)
  BY <1>2, WorkTyped DEF BoxTyped
<1>4. /\ channel' \in Seq(Mail) /\ groups' \in Seq(Mail) /\ InWork' \in Seq(Mail)
  BY <1>2, EmptyList DEF BoxTyped, InWork
<1>5. \A x : x \in ToSet(all \o combined) => \/ x \in ToSet(channel) \/ x \in ToSet(groups)
                                             \/ x \in ToSet(InWork) \/ x \in ToSet(combined)
  <2>1. channel \o groups \in Seq(Mail) BY <1>3, JoinedLists
  <2>2. \A x : x \in ToSet(channel \o groups) <=> x \in ToSet(channel) \/ x \in ToSet(groups)
    BY <1>3, JoinedLists
  <2>3. all \in Seq(Mail) BY <1>3, <2>1, JoinedLists
  <2>4. \A x : x \in ToSet(all) <=> x \in ToSet(channel \o groups) \/ x \in ToSet(InWork)
    BY <1>3, <2>1, JoinedLists, ZenonT(60)
  <2> HIDE DEF all
  <2>5. \A x : x \in ToSet(all \o combined) <=> x \in ToSet(all) \/ x \in ToSet(combined)
    BY <1>3, <2>3, JoinedLists
  <2> QED BY <2>2, <2>4, <2>5, Zenon
<1>6. Ids(all') = Ids(channel') \cup Ids(groups') \cup Ids(InWork')
  <2>1. channel' \o groups' \in Seq(Mail) /\ Ids(channel' \o groups') = Ids(channel') \cup Ids(groups')
    BY <1>4, JoinedLists, JoinedIds
  <2>2. Ids((channel' \o groups') \o InWork') = Ids(channel' \o groups') \cup Ids(InWork')
    BY <1>4, <2>1, JoinedIds
  <2> QED BY <2>1, <2>2, Zenon
<1>7. TextIds(channel') \subseteq Ids(channel') /\ TextIds(groups') \subseteq Ids(groups') BY <1>4, IdsOfText
<1>8. KeptIds' \subseteq Gone(Reasons)' \cup Ids(all') \cup AnsweredIds' \cup SpilledIds'
  <2> HIDE DEF all
  <2> QED BY <1>6, <1>7, Zenon DEF KeptIds
<1>9. ASSUME NEW m \in ToSet(all \o combined), m.kind = "text" PROVE m.id \in KeptIds
  <2>1. CASE m \in ToSet(channel) BY <1>3, <1>9, <2>1, IdsOfText, KeptHolds DEF KeptCovers
  <2>2. CASE m \in ToSet(groups) BY <1>3, <1>9, <2>2, IdsOfText, KeptHolds DEF KeptCovers
  <2>3. CASE m \in ToSet(InWork) BY <1>3, <1>9, <2>3, IdsOfText, KeptHolds DEF KeptCovers
  <2>4. CASE m \in ToSet(combined) BY <1>3, <2>4, IdsOfText DEF SentKept
  <2> QED BY <1>5, <2>1, <2>2, <2>3, <2>4
<1> HIDE DEF all
<1>10. \A m \in ToSet(all \o combined) : m.kind = "text" =>
         m.id \in Gone(Reasons)' \cup (Ids(all') \cup AnsweredIds' \cup SpilledIds') BY <1>1, <1>8, <1>9
<1> QED BY <1>10 DEF all, Reasons

\* Through overflows, resets, evictions, outages, spills and crashes,
\* for any keys, any files and any capacity: a message that the inbox took up is in
\* work, answered or spilled, or missing for a reason the code names (main.rs, mod
\* pending), and the session cache and the host agree.
THEOREM InboxKeepsMessages == InboxSpec => [](InboxTypeOK /\ CacheExact) /\ NothingVanishes
<1>1. InboxInit => BoxInv /\ SentKept BY BoxStarts, SentStarts
<1>2. BoxInv /\ SentKept /\ [InboxNext]_inboxVars => BoxInv' /\ SentKept' BY BoxKept, SentStays
<1>3. BoxInv => InboxTypeOK /\ CacheExact
  <2> SUFFICES ASSUME BoxInv PROVE InboxTypeOK /\ CacheExact OBVIOUS
  <2>1. BoxTyped /\ BatchHeld /\ CacheHeld BY DEF BoxInv
  <2>2. DOMAIN soul = live BY <2>1 DEF CacheHeld
  <2> QED BY <2>1, <2>2 DEF InboxTypeOK, BoxTyped, BatchHeld, CacheHeld
<1>4. BoxInv /\ SentKept /\ [InboxNext]_inboxVars =>
        [\A m \in ToSet(channel \o groups \o InWork \o combined) :
           m.kind = "text" =>
             m.id \in Gone({"full", "keyless", "reset", "crash", "io"})'
                      \cup (Ids(channel \o groups \o InWork) \cup AnsweredIds \cup SpilledIds)']_inboxVars
  BY NothingVanishesStep
<1> QED BY <1>1, <1>2, <1>3, <1>4, PTL DEF InboxSpec, NothingVanishes

-----------------------------------------------------------------------------
(* Inbox: the order of the messages of a key *)

\* Every key has a file of its own.  `sanitize` maps every character of a key that
\* is not an ASCII letter, a digit, '-' or '_' to '_', so this is a fact about the keys in use.
FilesDiffer == \A j, k \in Keys : FileOf[j] = FileOf[k] => j = k

\* The messages of a key that are spilled, in work, in the batch and answered.
SpillOf(k) == ToSet(pending[FileOf[k]])
WorkOf(k) == IF key = k THEN ToSet(InWork) ELSE {}
QueueOf(k) == {x \in ToSet(groups) : x.key = k}
AnswerOf(k) == ToSet(AskedFrom(k))

\* They were sent in this order: P spilled, W in work, G in the batch, C in the
\* channel; what is answered, A, before what is not, the spill apart.
KeyOrder(P, W, G, C, A, n) ==
    /\ Lower(P, W) /\ Lower(P, G) /\ Lower(P, C) /\ Lower(W, G) /\ Lower(W, C) /\ Lower(G, C)
    /\ Lower(A, W) /\ Lower(A, G) /\ Lower(A, C)
    /\ \A x \in P \cup W \cup G \cup C \cup A : x.id \in Nat /\ x.id <= n

OrderOf(k) == KeyOrder(SpillOf(k), WorkOf(k), QueueOf(k), ToSet(channel), AnswerOf(k), serial)

\* The spill of a key repeats what is answered only when a crash came before its
\* removal, or it is about to be removed.
RepeatsOf(k) ==
    \A x \in AnswerOf(k), y \in SpillOf(k) :
      x.id < y.id \/ y.id \in Gone({"again"}) \/ (inboxPc = "clear" /\ key = k)

ListsRise ==
    /\ Rising(channel) /\ Rising(groups) /\ Rising(normals) /\ \A f \in Files : Rising(pending[f])
    /\ \A x \in ToSet(channel) : x.id <= serial

OrderInv ==
    /\ ListsRise
    /\ \A k \in Keys : OrderOf(k) /\ RepeatsOf(k) /\ \A x \in SpillOf(k) : x.key = k

-----------------------------------------------------------------------------
LEMMA OrderShrinks ==
    ASSUME NEW P, NEW W, NEW G, NEW C, NEW A, NEW n \in Nat, KeyOrder(P, W, G, C, A, n),
           NEW P1 \in SUBSET P, NEW W1 \in SUBSET W, NEW G1 \in SUBSET G, NEW C1 \in SUBSET C, NEW n1 \in Nat, n <= n1
    PROVE  KeyOrder(P1, W1, G1, C1, A, n1)
BY DEF KeyOrder, Lower

LEMMA OrderArrives ==
    ASSUME NEW P, NEW W, NEW G, NEW C, NEW A, NEW n \in Nat, KeyOrder(P, W, G, C, A, n),
           NEW m, m.id = n + 1, NEW C1, \A x \in C1 : x \in C \/ x = m
    PROVE  KeyOrder(P, W, G, C1, A, n + 1)
<1>1. \A x \in P \cup W \cup G \cup C \cup A : x.id \in Nat /\ x.id <= n /\ x.id < m.id BY DEF KeyOrder
<1>2. Lower(P, C1) /\ Lower(W, C1) /\ Lower(G, C1) /\ Lower(A, C1) BY <1>1 DEF KeyOrder, Lower
<1>3. \A x \in P \cup W \cup G \cup C1 \cup A : x.id \in Nat /\ x.id <= n + 1 BY <1>1
<1> QED BY <1>2, <1>3 DEF KeyOrder

LEMMA OrderReceives ==
    ASSUME NEW P, NEW W, NEW G, NEW C, NEW A, NEW n \in Nat, KeyOrder(P, W, G, C, A, n),
           NEW G1 \in SUBSET C
    PROVE  KeyOrder(P, {}, G1, {}, A, n)
BY DEF KeyOrder, Lower

LEMMA OrderServes ==
    ASSUME NEW P, NEW W, NEW G, NEW C, NEW A, NEW n \in Nat, KeyOrder(P, W, G, C, A, n),
           NEW P1 \in SUBSET P, NEW W1 \in SUBSET G
    PROVE  KeyOrder(P1, W1, {}, C, A, n)
BY DEF KeyOrder, Lower

LEMMA OrderAnswers ==
    ASSUME NEW P, NEW W, NEW G, NEW C, NEW A, NEW n \in Nat, KeyOrder(P, W, G, C, A, n),
           NEW A1 \in SUBSET (A \cup P \cup W)
    PROVE  KeyOrder(P, {}, G, C, A1, n)
BY DEF KeyOrder, Lower

LEMMA OrderSpills ==
    ASSUME NEW P, NEW W, NEW G, NEW C, NEW A, NEW n \in Nat, KeyOrder(P, W, G, C, A, n),
           NEW P1 \in SUBSET (P \cup W)
    PROVE  KeyOrder(P1, {}, G, C, A, n)
BY DEF KeyOrder, Lower

-----------------------------------------------------------------------------
LEMMA OrderStarts == InboxInit => OrderInv
<1> SUFFICES ASSUME InboxInit PROVE OrderInv OBVIOUS
<1>0. BoxTyped BY BoxInit
<1>1. ListsRise BY EmptyList DEF InboxInit, ListsRise
<1>2. ASSUME NEW k \in Keys
      PROVE  SpillOf(k) = {} /\ WorkOf(k) = {} /\ QueueOf(k) = {} /\ ToSet(channel) = {} /\ AnswerOf(k) = {}
  <2>1. pending[FileOf[k]] = <<>> /\ asked[k] = <<>> BY KeyFacts DEF InboxInit
  <2>2. AskedFrom(k) = <<>> BY <2>1, FlattenEmpty DEF AskedFrom
  <2> QED BY <2>1, <2>2, EmptyList DEF SpillOf, WorkOf, QueueOf, AnswerOf, InWork, InboxInit
<1>3. serial \in Nat BY DEF InboxInit
<1>4. \A k \in Keys : OrderOf(k) /\ RepeatsOf(k) /\ \A x \in SpillOf(k) : x.key = k
  BY <1>2, <1>3 DEF OrderOf, KeyOrder, Lower, RepeatsOf
<1> QED BY <1>1, <1>4 DEF OrderInv

LEMMA AnswersSame ==
    ASSUME asked' = asked, NEW k \in Keys
    PROVE  AnswerOf(k)' = AnswerOf(k)
BY AnsweredSame DEF AnswerOf

\* Steps that add nothing to the messages of a key.
LEMMA OrderKept ==
    ASSUME BoxTyped, NEW k \in Keys, OrderOf(k), asked' = asked, serial' = serial,
           SpillOf(k)' \subseteq SpillOf(k), WorkOf(k)' \subseteq WorkOf(k), QueueOf(k)' \subseteq QueueOf(k),
           ToSet(channel') \subseteq ToSet(channel)
    PROVE  OrderOf(k)'
<1>1. AnswerOf(k)' = AnswerOf(k) BY AnswersSame
<1>2. serial \in Nat /\ serial <= serial BY DEF BoxTyped
<1>3. KeyOrder(SpillOf(k), WorkOf(k), QueueOf(k), ToSet(channel), AnswerOf(k), serial) BY DEF OrderOf
<1>4. KeyOrder(SpillOf(k)', WorkOf(k)', QueueOf(k)', ToSet(channel'), AnswerOf(k), serial)
  BY <1>2, <1>3, OrderShrinks
<1> QED BY <1>1, <1>4 DEF OrderOf

LEMMA OrderTrigger ==
    ASSUME BoxInv, OrderInv, NEW k \in Keys \cup {NoKey}, NEW from \in Speaker, NEW kind \in Kinds,
           Trigger(k, from, kind)
    PROVE  OrderInv'
<1> DEFINE m == [id |-> serial + 1, key |-> k, sender |-> from, kind |-> kind]
<1>1. BoxTyped BY DEF BoxInv
<1>2. /\ UNCHANGED <<inboxPc, groups, key, normals, combined, pending, asked>> /\ serial' = serial + 1
      /\ gone \subseteq gone'
      /\ \/ channel' = channel
         \/ channel' = Append(channel, m) BY DEF Trigger, work, Lose
<1>3. m \in Mail /\ m.id = serial + 1 /\ serial \in Nat /\ channel \in Seq(Mail) BY <1>1 DEF Mail, BoxTyped
<1> HIDE DEF m
<1>4. \A x \in ToSet(channel') : x \in ToSet(channel) \/ x = m BY <1>2, <1>3, OneMore
<1>5. ASSUME NEW j \in Keys PROVE OrderOf(j)' /\ RepeatsOf(j)' /\ \A x \in SpillOf(j)' : x.key = j
  <2>1. /\ SpillOf(j)' = SpillOf(j) /\ WorkOf(j)' = WorkOf(j) /\ QueueOf(j)' = QueueOf(j)
    BY <1>2 DEF SpillOf, WorkOf, QueueOf, InWork
  <2>2. AnswerOf(j)' = AnswerOf(j) BY <1>2, AnswersSame
  <2>3. KeyOrder(SpillOf(j), WorkOf(j), QueueOf(j), ToSet(channel), AnswerOf(j), serial)
    BY DEF OrderInv, OrderOf
  <2>4. KeyOrder(SpillOf(j), WorkOf(j), QueueOf(j), ToSet(channel'), AnswerOf(j), serial + 1)
    BY <1>3, <1>4, <2>3, OrderArrives
  <2>5. OrderOf(j)' BY <1>2, <2>1, <2>2, <2>4 DEF OrderOf
  <2>6. Gone({"again"}) \subseteq Gone({"again"})' BY <1>2, GoneGrows
  <2>7. RepeatsOf(j)' BY <1>2, <2>1, <2>2, <2>6 DEF OrderInv, RepeatsOf
  <2> QED BY <2>1, <2>5, <2>7 DEF OrderInv
<1>6. Rising(channel')
  <2>1. CASE channel' = channel BY <2>1 DEF OrderInv, ListsRise
  <2>2. CASE channel' = Append(channel, m)
    <3>1. channel' = channel \o <<m>> BY <1>3, <2>2, OneMore
    <3>2. <<m>> \in Seq(Mail) /\ DOMAIN <<m>> = {1} BY <1>3
    <3>3. Rising(<<m>>) BY <3>2 DEF Rising
    <3>4. ToSet(<<m>>) = {m} BY <3>2 DEF ToSet
    <3>5. \A x \in ToSet(channel) : x.id < m.id
      <4>1. \A x \in ToSet(channel) : x.id \in Nat /\ x.id <= serial
        <5>1. ToSet(channel) \subseteq Mail BY <1>3, ListElements
        <5> QED BY <5>1 DEF Mail, OrderInv, ListsRise
      <4> QED BY <1>3, <4>1
    <3>6. Lower(ToSet(channel), ToSet(<<m>>)) BY <3>4, <3>5 DEF Lower
    <3> QED BY <1>3, <3>1, <3>2, <3>3, <3>6, JoinedRise DEF OrderInv, ListsRise
  <2> QED BY <1>2, <2>1, <2>2
<1>7. \A x \in ToSet(channel') : x.id <= serial'
  <2>1. ToSet(channel) \subseteq Mail BY <1>3, ListElements
  <2>2. \A x \in ToSet(channel) : x.id \in Nat /\ x.id <= serial BY <2>1 DEF Mail, OrderInv, ListsRise
  <2> QED BY <1>2, <1>3, <1>4, <2>2
<1>8. ListsRise' BY <1>2, <1>6, <1>7 DEF OrderInv, ListsRise
<1> QED
  BY <1>5, <1>8 DEF OrderInv
LEMMA OrderReceive ==
    ASSUME BoxInv, OrderInv, Receive
    PROVE  OrderInv'
<1>1. BoxTyped BY DEF BoxInv
<1>2. /\ inboxPc = "recv" /\ groups' = OtherKeys(channel, NoKey) /\ channel' = <<>> /\ inboxPc' = "groups"
      /\ gone \subseteq gone' /\ UNCHANGED <<key, normals, pending, serial, asked>> BY DEF Receive, Lose
<1>3. /\ groups' \in Seq(Mail) /\ Rising(groups')
      /\ \A x : x \in ToSet(groups') <=> x \in ToSet(channel) /\ x.key # NoKey
  BY <1>1, <1>2, KeyFilter DEF BoxTyped, OrderInv, ListsRise
<1>4. ASSUME NEW j \in Keys PROVE OrderOf(j)' /\ RepeatsOf(j)' /\ \A x \in SpillOf(j)' : x.key = j
  <2>1. /\ SpillOf(j)' = SpillOf(j) /\ WorkOf(j)' = {} /\ QueueOf(j)' \subseteq ToSet(channel) /\ ToSet(channel') = {}
    BY <1>2, <1>3, EmptyList DEF SpillOf, WorkOf, QueueOf, InWork
  <2>2. AnswerOf(j)' = AnswerOf(j) BY <1>2, AnswersSame
  <2>3. serial \in Nat /\ KeyOrder(SpillOf(j), WorkOf(j), QueueOf(j), ToSet(channel), AnswerOf(j), serial)
    BY <1>1 DEF OrderInv, OrderOf, BoxTyped
  <2>4. KeyOrder(SpillOf(j), {}, QueueOf(j)', {}, AnswerOf(j), serial) BY <2>1, <2>3, OrderReceives
  <2>5. OrderOf(j)' BY <1>2, <2>1, <2>2, <2>4 DEF OrderOf
  <2>6. Gone({"again"}) \subseteq Gone({"again"})' BY <1>2, GoneGrows
  <2>7. RepeatsOf(j)' BY <1>2, <2>1, <2>2, <2>6 DEF OrderInv, RepeatsOf
  <2> QED BY <2>1, <2>5, <2>7 DEF OrderInv
<1>5. ListsRise' BY <1>2, <1>3, EmptyList DEF OrderInv, ListsRise
<1> QED BY <1>4, <1>5 DEF OrderInv

LEMMA OrderNextGroup ==
    ASSUME BoxInv, OrderInv, NextGroup
    PROVE  OrderInv'
<1>1. BoxTyped /\ BatchHeld BY DEF BoxInv
<1>2. PICK k \in Keys : GroupOf(k) /\ (ResetOf(k) \/ UNCHANGED <<cache, pending, gone>>)
  BY <1>1, NextGroupServes
<1>3. /\ groups' \in Seq(Mail) /\ OfKey(groups, k) \in Seq(Mail) /\ Rising(groups') /\ Rising(OfKey(groups, k))
      /\ \A x : x \in ToSet(groups') <=> x \in ToSet(groups) /\ x.key # k
      /\ \A x : x \in ToSet(OfKey(groups, k)) <=> x \in ToSet(groups) /\ x.key = k
  BY <1>1, <1>2, KeyFilter DEF BoxTyped, GroupOf, OrderInv, ListsRise
<1>4. /\ normals' \in Seq(Mail) /\ Rising(normals')
      /\ \A x : x \in ToSet(normals') <=> x \in ToSet(OfKey(groups, k)) /\ x.kind = "text"
  BY <1>2, <1>3, TextFilter DEF GroupOf
<1>5. /\ UNCHANGED <<channel, asked, serial>> /\ inboxPc = "groups"
      /\ \/ inboxPc' = "groups" /\ key' = NoKey
         \/ inboxPc' = "load" /\ key' = k BY <1>2 DEF GroupOf
<1>6. \A f \in Files : pending'[f] = pending[f] \/ pending'[f] = <<>>
  <2>1. CASE UNCHANGED <<cache, pending, gone>> BY <2>1
  <2>2. CASE ResetOf(k) BY <1>1, <2>2, SpillKept, EmptyList DEF ResetOf, BoxTyped
  <2> QED BY <1>2, <2>1, <2>2
<1>7. gone \subseteq gone' BY <1>2 DEF ResetOf, Lose
<1>8. ASSUME NEW j \in Keys PROVE OrderOf(j)' /\ RepeatsOf(j)' /\ \A x \in SpillOf(j)' : x.key = j
  <2>0. FileOf[j] \in Files BY KeyFacts
  <2>1. SpillOf(j)' \subseteq SpillOf(j) BY <1>6, <2>0, EmptyList DEF SpillOf
  <2>2. AnswerOf(j)' = AnswerOf(j) BY <1>5, AnswersSame
  <2>3. serial \in Nat /\ KeyOrder(SpillOf(j), WorkOf(j), QueueOf(j), ToSet(channel), AnswerOf(j), serial)
    BY <1>1 DEF OrderInv, OrderOf, BoxTyped
  <2>4. ASSUME j = k PROVE OrderOf(j)'
    <3>1. QueueOf(j)' = {} BY <1>3, <2>4 DEF QueueOf
    <3>2. WorkOf(j)' \subseteq QueueOf(j) BY <1>3, <1>4, <1>5, <2>4, EmptyList DEF WorkOf, QueueOf, InWork
    <3>3. KeyOrder(SpillOf(j)', WorkOf(j)', {}, ToSet(channel), AnswerOf(j), serial)
      BY <2>1, <2>3, <3>2, OrderServes
    <3> QED BY <1>5, <2>2, <3>1, <3>3 DEF OrderOf
  <2>5. ASSUME j # k PROVE OrderOf(j)'
    <3>1. QueueOf(j)' \subseteq QueueOf(j) BY <1>3 DEF QueueOf
    <3>2. WorkOf(j)' = {} BY <1>5, <2>5, KeyFacts DEF WorkOf
    <3> QED BY <1>1, <1>5, <2>1, <3>1, <3>2, OrderKept DEF OrderInv
  <2>6. Gone({"again"}) \subseteq Gone({"again"})' BY <1>7, GoneGrows
  <2>7. RepeatsOf(j)' BY <1>5, <2>1, <2>2, <2>6 DEF OrderInv, RepeatsOf
  <2>8. \A x \in SpillOf(j)' : x.key = j BY <2>1 DEF OrderInv
  <2>9. OrderOf(j)' BY <2>4, <2>5
  <2> QED BY <2>7, <2>8, <2>9
<1>9. ListsRise' BY <1>3, <1>4, <1>5, <1>6, EmptyList DEF OrderInv, ListsRise
<1> QED BY <1>8, <1>9 DEF OrderInv

\* Steps after which the lists and the files are as they were.
LEMMA OrderRests ==
    ASSUME BoxInv, OrderInv, UNCHANGED <<channel, groups, normals, pending, serial, asked, gone>>,
           inboxPc # "clear", \A k \in Keys : WorkOf(k)' \subseteq WorkOf(k)
    PROVE  OrderInv'
<1>1. BoxTyped BY DEF BoxInv
<1>2. ASSUME NEW j \in Keys PROVE OrderOf(j)' /\ RepeatsOf(j)' /\ \A x \in SpillOf(j)' : x.key = j
  BY AnswersSame, <1>1, OrderKept DEF SpillOf, QueueOf, Gone, OrderInv, RepeatsOf
<1>3. ListsRise' BY DEF OrderInv, ListsRise
<1> QED BY <1>2, <1>3 DEF OrderInv

LEMMA OrderServe ==
    ASSUME BoxInv, OrderInv, NEW ok \in BOOLEAN,
           LoadPending \/ RefreshSoul \/ SendFails \/ Retry \/ OpenSession(ok)
    PROVE  OrderInv'
<1>1. /\ UNCHANGED <<channel, groups, key, normals, pending, serial, asked, gone, InWork>> /\ inboxPc # "clear"
  BY DEF RefreshSoul, SendFails, Retry, OpenSession, LoadPending, InWork
<1>2. \A k \in Keys : WorkOf(k)' \subseteq WorkOf(k) BY <1>1 DEF WorkOf
<1> QED BY <1>1, <1>2, OrderRests

LEMMA OrderBatchDone ==
    ASSUME BoxInv, OrderInv, BatchDone
    PROVE  OrderInv'
<1>1. BoxTyped BY DEF BoxInv
<1>2. /\ UNCHANGED <<channel, groups, pending, serial, asked, gone>> /\ inboxPc = "groups" /\ normals' = <<>>
      /\ inboxPc' = "recv" BY DEF BatchDone
<1>3. ASSUME NEW j \in Keys PROVE OrderOf(j)' /\ RepeatsOf(j)' /\ \A x \in SpillOf(j)' : x.key = j
  <2>1. SpillOf(j)' = SpillOf(j) /\ QueueOf(j)' = QueueOf(j) /\ Gone({"again"})' = Gone({"again"}) /\ WorkOf(j)' = {}
    BY <1>2, EmptyList DEF SpillOf, QueueOf, Gone, WorkOf, InWork
  <2>2. AnswerOf(j)' = AnswerOf(j) BY <1>2, AnswersSame
  <2>3. OrderOf(j)' BY <1>1, <1>2, <2>1, OrderKept DEF OrderInv
  <2>4. RepeatsOf(j)' BY <1>2, <2>1, <2>2 DEF OrderInv, RepeatsOf
  <2> QED BY <2>1, <2>3, <2>4 DEF OrderInv
<1>4. ListsRise' BY <1>2, EmptyList DEF OrderInv, ListsRise
<1> QED BY <1>3, <1>4 DEF OrderInv

\* The spill and the group in work, sent as one.
LEMMA CombinedRises ==
    ASSUME BoxInv, OrderInv, inboxPc \in {"send", "spill"}
    PROVE  /\ key \in Keys /\ combined = pending[FileOf[key]] \o normals /\ combined \in Seq(Mail)
           /\ Rising(combined) /\ WorkOf(key) = ToSet(normals)
           /\ \A x : x \in ToSet(combined) <=> x \in SpillOf(key) \/ x \in WorkOf(key)
           /\ \A x \in ToSet(combined) : x.key = key
           /\ Last(combined) = Last(normals)
<1>1. BoxTyped /\ BatchHeld BY DEF BoxInv
<1>2. /\ key \in Keys /\ combined = pending[FileOf[key]] \o normals /\ normals # <<>>
      /\ \A x \in ToSet(normals) : x.key = key BY <1>1 DEF BatchHeld
<1>3. /\ pending[FileOf[key]] \in Seq(Mail) /\ normals \in Seq(Mail) /\ FileOf[key] \in Files /\ combined \in Seq(Mail)
  BY <1>1, <1>2, KeyFacts DEF BoxTyped
<1>4. WorkOf(key) = ToSet(normals) BY DEF WorkOf, InWork
<1>5. /\ \A x : x \in ToSet(combined) <=> x \in ToSet(pending[FileOf[key]]) \/ x \in ToSet(normals)
      /\ Last(combined) = Last(normals) BY <1>2, <1>3, JoinedLists
<1>6. Lower(SpillOf(key), WorkOf(key)) BY <1>2 DEF OrderInv, OrderOf, KeyOrder
<1>7. Rising(combined) BY <1>3, <1>2, <1>4, <1>6, JoinedRise DEF OrderInv, ListsRise, SpillOf
<1>8. \A x \in ToSet(combined) : x.key = key BY <1>2, <1>5 DEF OrderInv, SpillOf
<1> QED BY <1>2, <1>3, <1>4, <1>5, <1>7, <1>8 DEF SpillOf

LEMMA OrderSend ==
    ASSUME BoxInv, OrderInv, SendAnswered
    PROVE  OrderInv'
<1>1. BoxTyped BY DEF BoxInv
<1>2. /\ UNCHANGED <<channel, groups, key, normals, pending, serial, gone>> /\ inboxPc = "send" /\ inboxPc' = "clear"
  BY DEF SendAnswered
<1>3. /\ key \in Keys /\ combined \in Seq(Mail)
      /\ \A x : x \in ToSet(combined) <=> x \in SpillOf(key) \/ x \in WorkOf(key) BY <1>2, CombinedRises
<1>4. /\ AskedFrom(key)' = AskedFrom(key) \o combined
      /\ \A k \in Keys : k # key => AskedFrom(k)' = AskedFrom(k) BY AnswerAdds
<1>5. ASSUME NEW j \in Keys PROVE OrderOf(j)' /\ RepeatsOf(j)' /\ \A x \in SpillOf(j)' : x.key = j
  <2>1. /\ SpillOf(j)' = SpillOf(j) /\ QueueOf(j)' = QueueOf(j) /\ Gone({"again"})' = Gone({"again"})
        /\ WorkOf(j)' = {} BY <1>2, EmptyList DEF SpillOf, QueueOf, Gone, WorkOf, InWork
  <2>2. serial \in Nat /\ KeyOrder(SpillOf(j), WorkOf(j), QueueOf(j), ToSet(channel), AnswerOf(j), serial)
    BY <1>1 DEF OrderInv, OrderOf, BoxTyped
  <2>3. AnswerOf(j)' \subseteq AnswerOf(j) \cup SpillOf(j) \cup WorkOf(j)
    <3>1. CASE j = key
      <4>1. AskedFrom(j)' = AskedFrom(j) \o combined BY <1>2, <1>4, <3>1 DEF AskedFrom
      <4>2. \A x : x \in ToSet(AskedFrom(j) \o combined) <=> x \in ToSet(AskedFrom(j)) \/ x \in ToSet(combined)
        BY <1>1, <1>3, AskedMail, JoinedLists
      <4> QED BY <1>3, <3>1, <4>1, <4>2 DEF AnswerOf
    <3>2. CASE j # key BY <1>4, <3>2 DEF AnswerOf
    <3> QED BY <3>1, <3>2
  <2>4. KeyOrder(SpillOf(j), {}, QueueOf(j), ToSet(channel), AnswerOf(j)', serial) BY <2>2, <2>3, OrderAnswers
  <2>5. OrderOf(j)' BY <1>2, <2>1, <2>4 DEF OrderOf
  <2>6. RepeatsOf(j)'
    <3>1. CASE j = key BY <1>2, <3>1 DEF RepeatsOf
    <3>2. CASE j # key BY <1>4, <3>2, <1>2, <2>1 DEF AnswerOf, OrderInv, RepeatsOf
    <3> QED BY <3>1, <3>2
  <2> QED BY <2>1, <2>5, <2>6 DEF OrderInv
<1>6. ListsRise' BY <1>2 DEF OrderInv, ListsRise
<1> QED BY <1>5, <1>6 DEF OrderInv

LEMMA OrderClear ==
    ASSUME BoxInv, OrderInv, NEW ok \in BOOLEAN, ClearPending(ok)
    PROVE  OrderInv'
<1>1. BoxTyped /\ BatchHeld BY DEF BoxInv
<1>2. /\ UNCHANGED <<channel, groups, key, normals, serial, asked, gone>> /\ inboxPc = "clear"
      /\ inboxPc' \in {"groups", "retry"} /\ pending' = [pending EXCEPT ![FileOf[key]] = <<>>]
  BY DEF ClearPending
<1>3. key \in Keys /\ pending \in [Files -> Seq(Mail)] BY <1>1, <1>2 DEF BatchHeld, BoxTyped
<1>4. pending'[FileOf[key]] = <<>> /\ \A f \in Files : pending'[f] = pending[f] \/ pending'[f] = <<>>
  BY <1>2, <1>3, SpillKept, EmptyList
<1>5. ASSUME NEW j \in Keys PROVE OrderOf(j)' /\ RepeatsOf(j)' /\ \A x \in SpillOf(j)' : x.key = j
  <2>1. SpillOf(j)' \subseteq SpillOf(j) /\ (j = key => SpillOf(j)' = {})
    BY <1>4, EmptyList, KeyFacts DEF SpillOf
  <2>2. QueueOf(j)' = QueueOf(j) /\ Gone({"again"})' = Gone({"again"}) /\ WorkOf(j)' = {}
    BY <1>2, EmptyList DEF QueueOf, Gone, WorkOf, InWork
  <2>3. AnswerOf(j)' = AnswerOf(j) BY <1>2, AnswersSame
  <2>4. OrderOf(j)' BY <1>1, <1>2, <2>1, <2>2, OrderKept DEF OrderInv
  <2>5. RepeatsOf(j)' BY <1>2, <2>1, <2>2, <2>3 DEF OrderInv, RepeatsOf
  <2> QED BY <2>1, <2>4, <2>5 DEF OrderInv
<1>6. ListsRise' BY <1>2, <1>4, EmptyList DEF OrderInv, ListsRise
<1> QED BY <1>5, <1>6 DEF OrderInv

LEMMA OrderSpill ==
    ASSUME FilesDiffer, BoxInv, OrderInv, NEW ok \in BOOLEAN, Spill(ok)
    PROVE  OrderInv'
<1>1. BoxTyped /\ BatchHeld BY DEF BoxInv
<1>2. /\ UNCHANGED <<channel, groups, key, normals, serial, asked>> /\ inboxPc = "spill" /\ inboxPc' = "groups"
      /\ gone \subseteq gone'
      /\ \/ pending' = [pending EXCEPT ![FileOf[key]] = pending[FileOf[key]] \o normals]
         \/ pending' = pending BY DEF Spill, Lose
<1>3. /\ key \in Keys /\ combined = pending[FileOf[key]] \o normals /\ combined \in Seq(Mail)
      /\ Rising(combined)
      /\ \A x : x \in ToSet(combined) <=> x \in SpillOf(key) \/ x \in WorkOf(key)
      /\ \A x \in ToSet(combined) : x.key = key BY <1>2, CombinedRises
<1>4. pending \in [Files -> Seq(Mail)] BY <1>1 DEF BoxTyped
<1>5. /\ \A f \in Files : f # FileOf[key] => pending'[f] = pending[f]
      /\ pending'[FileOf[key]] = pending[FileOf[key]] \/ pending'[FileOf[key]] = combined
  <2>1. CASE pending' = pending BY <2>1
  <2>2. CASE pending' = [pending EXCEPT ![FileOf[key]] = pending[FileOf[key]] \o normals]
    BY <1>3, <1>4, <2>2, SpillKept
  <2> QED BY <1>2, <2>1, <2>2
<1>6. ASSUME NEW j \in Keys PROVE OrderOf(j)' /\ RepeatsOf(j)' /\ \A x \in SpillOf(j)' : x.key = j
  <2>0. FileOf[j] \in Files BY KeyFacts
  <2>1. QueueOf(j)' = QueueOf(j) /\ Gone({"again"}) \subseteq Gone({"again"})' /\ WorkOf(j)' = {}
    BY <1>2, EmptyList, GoneGrows DEF QueueOf, WorkOf, InWork
  <2>2. AnswerOf(j)' = AnswerOf(j) BY <1>2, AnswersSame
  <2>3. serial \in Nat /\ KeyOrder(SpillOf(j), WorkOf(j), QueueOf(j), ToSet(channel), AnswerOf(j), serial)
    BY <1>1 DEF OrderInv, OrderOf, BoxTyped
  <2>4. SpillOf(j)' \subseteq SpillOf(j) \cup WorkOf(j)
    <3>1. CASE j = key BY <1>3, <1>5, <3>1 DEF SpillOf
    <3>2. CASE j # key BY <1>3, <3>2, <1>5, <2>0 DEF FilesDiffer, SpillOf
    <3> QED BY <3>1, <3>2
  <2>5. KeyOrder(SpillOf(j)', {}, QueueOf(j), ToSet(channel), AnswerOf(j), serial) BY <2>3, <2>4, OrderSpills
  <2>6. OrderOf(j)' BY <1>2, <2>1, <2>2, <2>5 DEF OrderOf
  <2>7. Lower(AnswerOf(j), WorkOf(j)) BY <2>3 DEF KeyOrder
  <2>8. RepeatsOf(j)' BY <1>2, <2>1, <2>2, <2>4, <2>7 DEF OrderInv, RepeatsOf, Lower
  <2>9. \A x \in SpillOf(j)' : x.key = j
    <3>1. CASE j = key BY <1>3, <2>4, <3>1
    <3>2. CASE j # key BY <2>4, <3>2 DEF OrderInv, WorkOf
    <3> QED BY <3>1, <3>2
  <2> QED BY <2>6, <2>8, <2>9
<1>7. ListsRise' BY <1>2, <1>3, <1>5 DEF OrderInv, ListsRise
<1> QED BY <1>6, <1>7 DEF OrderInv

LEMMA OrderCrash ==
    ASSUME BoxInv, OrderInv, Crash
    PROVE  OrderInv'
<1>1. BoxTyped /\ BatchHeld BY DEF BoxInv
<1>2. /\ channel' = <<>> /\ groups' = <<>> /\ normals' = <<>> /\ inboxPc' = "recv" /\ gone \subseteq gone'
      /\ inboxPc = "clear" => {<<m.id, "again">> : m \in ToSet(combined)} \subseteq gone'
      /\ UNCHANGED <<pending, serial, asked>> BY DEF Crash
<1>3. ASSUME NEW j \in Keys PROVE OrderOf(j)' /\ RepeatsOf(j)' /\ \A x \in SpillOf(j)' : x.key = j
  <2>1. /\ SpillOf(j)' = SpillOf(j) /\ QueueOf(j)' = {} /\ WorkOf(j)' = {} /\ ToSet(channel') = {}
        /\ Gone({"again"}) \subseteq Gone({"again"})'
    BY <1>2, EmptyList, GoneGrows DEF SpillOf, QueueOf, WorkOf, InWork
  <2>2. AnswerOf(j)' = AnswerOf(j) BY <1>2, AnswersSame
  <2>3. OrderOf(j)' BY <1>1, <1>2, <2>1, OrderKept DEF OrderInv
  <2>4. ASSUME inboxPc = "clear", key = j, NEW y \in SpillOf(j) PROVE y.id \in Gone({"again"})'
    <3>1. /\ combined = pending[FileOf[key]] \o normals /\ pending[FileOf[key]] \in Seq(Mail)
          /\ normals \in Seq(Mail) BY <1>1, <2>4, KeyFacts DEF BatchHeld, BoxTyped
    <3>2. y \in ToSet(combined) BY <2>4, <3>1, JoinedLists DEF SpillOf
    <3>3. <<y.id, "again">> \in gone' BY <1>2, <2>4, <3>2
    <3>4. <<y.id, "again">>[1] = y.id /\ <<y.id, "again">>[2] = "again" /\ "again" \in {"again"} OBVIOUS
    <3> QED BY <3>3, <3>4, Zenon DEF Gone
  <2>5. RepeatsOf(j)' BY <2>1, <2>2, <2>4 DEF OrderInv, RepeatsOf
  <2> QED BY <2>1, <2>3, <2>5 DEF OrderInv
<1>4. ListsRise' BY <1>2, EmptyList DEF OrderInv, ListsRise
<1> QED BY <1>3, <1>4 DEF OrderInv

LEMMA OrderStays ==
    ASSUME FilesDiffer, BoxInv, OrderInv, [InboxNext]_inboxVars
    PROVE  OrderInv'
<1>1. ASSUME NEW k \in Keys, NEW from \in Senders, NEW kind \in Kinds, Trigger(k, from, kind)
      PROVE  OrderInv' BY <1>1, SomeSpeaker, OrderTrigger
<1>2. CASE Trigger(NoKey, CHOOSE x \in Senders : TRUE, "text") BY <1>2, SomeSpeaker, OrderTrigger DEF Kinds
<1>3. CASE Receive \/ NextGroup \/ BatchDone \/ SendAnswered
  BY <1>3, OrderReceive, OrderNextGroup, OrderBatchDone, OrderSend
<1>4. CASE LoadPending \/ RefreshSoul \/ SendFails \/ Retry BY <1>4, OrderServe
<1>5. ASSUME NEW ok \in BOOLEAN, OpenSession(ok) \/ ClearPending(ok) \/ Spill(ok) PROVE OrderInv'
  BY <1>5, OrderServe, OrderClear, OrderSpill
<1>6. CASE Crash BY <1>6, OrderCrash
<1>7. CASE UNCHANGED inboxVars
  <2>1. UNCHANGED <<channel, inboxPc, groups, key, normals, pending, serial, asked, gone>>
    BY <1>7 DEF inboxVars, work
  <2>2. \A k \in Keys : /\ SpillOf(k)' = SpillOf(k) /\ WorkOf(k)' = WorkOf(k) /\ QueueOf(k)' = QueueOf(k)
                        /\ AnswerOf(k)' = AnswerOf(k)
    BY <2>1 DEF SpillOf, WorkOf, QueueOf, AnswerOf, AskedFrom, InWork
  <2>3. \A k \in Keys : OrderOf(k)' /\ RepeatsOf(k)' BY <2>1, <2>2 DEF OrderInv, OrderOf, RepeatsOf, Gone
  <2> QED BY <2>1, <2>2, <2>3 DEF OrderInv, ListsRise
<1>8. CASE Serve BY <1>3, <1>4, <1>5, <1>8 DEF Serve
<1> QED BY <1>1, <1>2, <1>6, <1>7, <1>8, Zenon DEF InboxNext

-----------------------------------------------------------------------------
\* The messages of a list come in order, those in N apart.
InOrder(a, N) == \A i, j \in DOMAIN a : i < j /\ a[j].id \notin N => a[i].id < a[j].id

LEMMA InOrderJoined ==
    ASSUME NEW N, NEW ms \in Seq(Mail), NEW ns \in Seq(Mail), InOrder(ms, N), Rising(ns),
           \A x \in ToSet(ms), y \in ToSet(ns) : x.id < y.id \/ y.id \in N
    PROVE  InOrder(ms \o ns, N)
<1> DEFINE t == ms \o ns
           m == Len(ms)
           n == Len(ns)
<1>1. /\ t \in Seq(Mail) /\ Len(t) = m + n
      /\ \A i \in 1..m + n : t[i] = IF i <= m THEN ms[i] ELSE ns[i - m] BY ConcatProperties
<1>2. /\ m \in Nat /\ n \in Nat /\ DOMAIN ms = 1..m /\ DOMAIN ns = 1..n
      /\ \A i \in 1..m : ms[i] \in ToSet(ms)
      /\ \A i \in 1..n : ns[i] \in ToSet(ns) BY ListDomain
<1>3. DOMAIN t = 1..m + n BY <1>1, ListDomain
<1> HIDE DEF t, m, n
<1>6. \A i \in 1..m + n : IF i <= m THEN i \in 1..m ELSE i - m \in 1..n BY <1>2
<1>7. \A i, j \in 1..m + n : i < j /\ ~ (i <= m) => ~ (j <= m) /\ i - m < j - m BY <1>2
<1>8. ASSUME NEW i \in 1..m + n, NEW j \in 1..m + n, i < j, t[j].id \notin N PROVE t[i].id < t[j].id
  <2>1. CASE ~ (i <= m) BY <1>1, <1>2, <1>6, <1>7, <1>8, <2>1 DEF Rising
  <2>2. CASE i <= m /\ j <= m BY <1>1, <1>2, <1>6, <1>8, <2>2 DEF InOrder
  <2>3. CASE i <= m /\ ~ (j <= m) BY <1>1, <1>6, <2>3, <1>2, <1>8
  <2> QED BY <2>1, <2>2, <2>3
<1> QED BY <1>3, <1>8 DEF InOrder, t

LEMMA AnswersOrdered == AnsweredOnceInOrder <=> \A k \in Keys : InOrder(AskedFrom(k), Gone({"again"}))
BY Zenon DEF AnsweredOnceInOrder, InOrder

LEMMA GoneStays ==
    ASSUME [InboxNext]_inboxVars
    PROVE  gone \subseteq gone'
<1>1. CASE UNCHANGED inboxVars BY <1>1 DEF inboxVars
<1>2. ASSUME NEW k, NEW from, NEW kind, Trigger(k, from, kind) PROVE gone \subseteq gone'
  BY <1>2 DEF Trigger, Lose
<1>3. CASE Receive \/ BatchDone \/ LoadPending \/ RefreshSoul \/ SendAnswered \/ SendFails \/ Retry
  BY <1>3 DEF Receive, BatchDone, LoadPending, RefreshSoul, SendAnswered, SendFails, Retry, Lose
<1>4. CASE NextGroup BY <1>4 DEF NextGroup, Lose
<1>5. ASSUME NEW ok \in BOOLEAN, OpenSession(ok) \/ ClearPending(ok) \/ Spill(ok) PROVE gone \subseteq gone'
  BY <1>5 DEF OpenSession, ClearPending, Spill, Lose
<1>6. CASE Crash BY <1>6 DEF Crash
<1>7. CASE Serve BY <1>3, <1>4, <1>5, <1>7 DEF Serve
<1> QED BY <1>1, <1>2, <1>6, <1>7, Zenon DEF InboxNext

LEMMA AskedStays ==
    ASSUME [InboxNext]_inboxVars, ~ SendAnswered
    PROVE  asked' = asked
<1>1. CASE UNCHANGED inboxVars BY <1>1 DEF inboxVars
<1>2. ASSUME NEW k, NEW from, NEW kind, Trigger(k, from, kind) PROVE asked' = asked BY <1>2 DEF Trigger
<1>3. CASE Receive \/ BatchDone \/ LoadPending \/ RefreshSoul \/ SendFails \/ Retry
  BY <1>3 DEF Receive, BatchDone, LoadPending, RefreshSoul, SendFails, Retry
<1>4. CASE NextGroup BY <1>4 DEF NextGroup
<1>5. ASSUME NEW ok \in BOOLEAN, OpenSession(ok) \/ ClearPending(ok) \/ Spill(ok) PROVE asked' = asked
  BY <1>5 DEF OpenSession, ClearPending, Spill
<1>6. CASE Crash BY <1>6 DEF Crash
<1>7. CASE Serve BY <1>3, <1>4, <1>5, <1>7 DEF Serve
<1> QED BY <1>1, <1>2, <1>6, <1>7, Zenon DEF InboxNext

LEMMA OrderedAnswers ==
    ASSUME BoxInv, OrderInv, AnsweredOnceInOrder, [InboxNext]_inboxVars
    PROVE  AnsweredOnceInOrder'
<1> DEFINE N == Gone({"again"})
<1>0. BoxTyped /\ N \subseteq N' BY GoneStays, GoneGrows DEF BoxInv
<1>1. \A k \in Keys : InOrder(AskedFrom(k), N) BY AnswersOrdered
<1>2. ASSUME NEW k \in Keys PROVE InOrder(AskedFrom(k)', N)
  <2>1. CASE asked' = asked BY <1>1, <2>1, AnsweredSame
  <2>2. CASE SendAnswered
    <3>1. /\ AskedFrom(key)' = AskedFrom(key) \o combined /\ key' = key /\ inboxPc = "send"
          /\ \A j \in Keys : j # key => AskedFrom(j)' = AskedFrom(j) BY <2>2, AnswerAdds DEF SendAnswered
    <3>2. CASE k # key BY <1>1, <3>1, <3>2
    <3>3. CASE k = key
      <4>1. /\ combined \in Seq(Mail) /\ Rising(combined)
            /\ \A x : x \in ToSet(combined) <=> x \in SpillOf(k) \/ x \in WorkOf(k)
        BY <3>1, <3>3, CombinedRises
      <4>2. RepeatsOf(k) /\ Lower(AnswerOf(k), WorkOf(k)) BY DEF OrderInv, OrderOf, KeyOrder
      <4>3. \A x \in ToSet(AskedFrom(k)), y \in ToSet(combined) : x.id < y.id \/ y.id \in N
        BY <3>1, <4>1, <4>2 DEF RepeatsOf, Lower, AnswerOf
      <4>4. AskedFrom(k) \in Seq(Mail) BY <1>0, AskedMail
      <4>5. InOrder(AskedFrom(k) \o combined, N)
        <5> HIDE DEF N
        <5> QED BY <1>1, <4>1, <4>3, <4>4, InOrderJoined
      <4>6. AskedFrom(k)' = AskedFrom(k) \o combined BY <3>1, <3>3 DEF AskedFrom
      <4> QED BY <4>5, <4>6
    <3> QED BY <3>2, <3>3
  <2> QED BY <2>1, <2>2, AskedStays
<1>3. \A k \in Keys : InOrder(AskedFrom(k)', N')
  <2> HIDE DEF N
  <2> QED BY <1>0, <1>2 DEF InOrder
<1> QED BY <1>3, Zenon DEF AnsweredOnceInOrder, InOrder

LEMMA OwnAnswers ==
    ASSUME BoxInv, OrderInv, OwnTurns, [InboxNext]_inboxVars
    PROVE  OwnTurns'
<1>1. CASE asked' = asked BY <1>1 DEF OwnTurns
<1>2. CASE SendAnswered
  <2> DEFINE entry == <<combined, soul[sessions[key]]>>
  <2>1. BoxTyped /\ CacheHeld /\ BatchHeld BY DEF BoxInv
  <2>2. /\ asked' = [asked EXCEPT ![key] = Append(asked[key], entry)]
        /\ inboxPc = "send" /\ sessions[key] \in live BY <1>2 DEF SendAnswered
  <2>3. /\ key \in Keys /\ combined \in Seq(Mail) /\ Last(combined) = Last(normals)
        /\ \A x \in ToSet(combined) : x.key = key BY <2>2, CombinedRises
  <2>4. soul[sessions[key]] = Last(combined).sender /\ soul[sessions[key]] \in Speaker
    BY <2>1, <2>2, <2>3 DEF CacheHeld
  <2>5. entry[1] = combined /\ entry[2] = soul[sessions[key]] /\ entry \in Seq(Mail) \X Speaker BY <2>3, <2>4
  <2> HIDE DEF entry
  <2>6. asked \in [Keys -> Seq(Seq(Mail) \X Speaker)] /\ asked[key] \in Seq(Seq(Mail) \X Speaker)
    BY <2>1, <2>3 DEF BoxTyped
  <2>7. asked'[key] = Append(asked[key], entry) /\ \A k \in Keys : k # key => asked'[k] = asked[k]
    BY <2>2, <2>3, <2>6
  <2>8. ASSUME NEW k \in Keys, NEW i \in DOMAIN asked'[k]
        PROVE  asked'[k][i][2] = Last(asked'[k][i][1]).sender /\ \A m \in ToSet(asked'[k][i][1]) : m.key = k
    <3>1. CASE k # key BY <2>7, <2>8, <3>1 DEF OwnTurns
    <3>2. CASE k = key
      <4> DEFINE n == Len(asked[key])
      <4>1. /\ Append(asked[key], entry) \in Seq(Seq(Mail) \X Speaker)
            /\ Len(Append(asked[key], entry)) = n + 1 /\ n \in Nat /\ DOMAIN asked[key] = 1..n
            /\ (\A j \in 1..n : Append(asked[key], entry)[j] = asked[key][j])
            /\ Append(asked[key], entry)[n + 1] = entry BY <2>5, <2>6, AppendProperties
      <4>2. DOMAIN asked'[k] = 1..n + 1 BY <2>7, <3>2, <4>1, LenProperties
      <4>3. CASE i = n + 1 BY <2>7, <3>2, <4>1, <4>3, <2>3, <2>4, <2>5
      <4>4. CASE i # n + 1
        <5>1. i \in 1..n
          <6> HIDE DEF n
          <6> QED BY <2>8, <4>1, <4>2, <4>4
        <5>2. asked'[k][i] = asked[key][i] BY <2>7, <3>2, <4>1, <5>1
        <5> QED BY <2>3, <3>2, <4>1, <5>1, <5>2 DEF OwnTurns
      <4> QED BY <4>3, <4>4
    <3> QED BY <3>1, <3>2
  <2> QED BY <2>8 DEF OwnTurns
<1> QED BY <1>1, <1>2, AskedStays

LEMMA AnswersStart == InboxInit => AnsweredOnceInOrder /\ OwnTurns
<1> SUFFICES ASSUME InboxInit PROVE AnsweredOnceInOrder /\ OwnTurns OBVIOUS
<1>1. \A k \in Keys : asked[k] = <<>> /\ DOMAIN asked[k] = {} BY DEF InboxInit
<1>2. \A k \in Keys : AskedFrom(k) = <<>>
  <2> SUFFICES ASSUME NEW k \in Keys PROVE AskedFrom(k) = <<>> OBVIOUS
  <2>1. [i \in DOMAIN asked[k] |-> asked[k][i][1]] = <<>> BY <1>1
  <2> QED BY <2>1, FlattenEmpty DEF AskedFrom
<1>3. DOMAIN <<>> = {} OBVIOUS
<1>4. AnsweredOnceInOrder BY <1>2, <1>3 DEF AnsweredOnceInOrder
<1> QED BY <1>1, <1>4 DEF OwnTurns

\* The inbox of `serve`, when every key has a file of its own, for any keys, senders,
\* capacity and size of the cache: no message that was taken up vanishes; the messages
\* of a key are answered once and in the order they were sent, but for what a crash
\* repeats; a turn holds messages of its key alone and speaks with the soul of the last
\* speaker; the cache and the host agree.
THEOREM InboxIsSound == FilesDiffer => (InboxSpec => InboxSound)
<1> SUFFICES ASSUME FilesDiffer PROVE InboxSpec => InboxSound OBVIOUS
<1> DEFINE Inv == BoxInv /\ OrderInv /\ AnsweredOnceInOrder /\ OwnTurns
<1>1. InboxInit => Inv BY BoxStarts, OrderStarts, AnswersStart
<1>2. Inv /\ [InboxNext]_inboxVars => Inv' BY BoxKept, OrderStays, OrderedAnswers, OwnAnswers
<1>3. InboxSpec => []AnsweredOnceInOrder /\ []OwnTurns BY <1>1, <1>2, PTL DEF InboxSpec
<1> QED BY <1>3, InboxKeepsMessages, PTL DEF InboxSound

===============================================================================
