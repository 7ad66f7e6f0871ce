---------------------------- MODULE AgentSessions ----------------------------
(***************************************************************************)
(* The agent sessions of RuntimeHost (cordis-runtime, host.rs).            *)
(*                                                                         *)
(* agent_send takes the session out of the map for the length of a turn    *)
(* and marks it as in flight; the end of the turn saves it to disk and     *)
(* puts it back, unless drop_session has marked it meanwhile.  On top of   *)
(* it, agent_send_with_fallback switches the session between two model     *)
(* profiles.  A crash loses everything but the snapshots on disk, from     *)
(* which boot rebuilds the sessions.                                       *)
(*                                                                         *)
(* One action per lock section.  `lock` is the owner of the inflight lock, *)
(* the only one that is held across several steps (the end of a turn).     *)
(***************************************************************************)
EXTENDS Naturals, FiniteSets

CONSTANTS Threads,
          Sessions,     \* session ids; normalize_request_id never repeats one
          Shell,        \* those of kind RuntimeShell, which are saved
          Ops,          \* the operations each thread calls
          HasFallback,  \* the desired profile declares a fallback
          MaxTurns, MaxCrashes,
          None

OpNames == {"start", "send", "send_with_fallback", "drop", "notify"}

\* A session: completed turns, the profile its config comes from, and whether
\* its history holds the notice of the reload.
Session == [turns : Nat, profile : {"desired", "fallback"}, told : BOOLEAN]

ASSUME SessionsAssumption == /\ Shell \subseteq Sessions
                             /\ Ops \in [Threads -> SUBSET OpNames]
                             /\ HasFallback \in BOOLEAN
                             /\ MaxTurns \in Nat /\ MaxCrashes \in Nat
                             /\ None \notin Sessions \cup Threads \cup Session

VARIABLES map,       \* agent_sessions
          inflight,  \* inflight_sessions
          dropped,   \* dropped_during_turn
          pending,   \* the sessions with a pending action
          fallback,  \* profile_fallback: whether the session is degraded
          disk,      \* data/sessions/<id>.json
          lock,      \* who holds the inflight lock across steps
          th,        \* the thread's call
          started, acked, crashes,  \* history
          events     \* what has happened to a session: Events

vars == <<map, inflight, dropped, pending, fallback, disk, lock, th,
          started, events, acked, crashes>>

\* A drop that met the session or missed it; a fallback send that found the
\* session taken by another turn after it had switched its profile.
Events == {"dropped", "missed", "outraced"}

Entry == {"none", "normal", "degraded"}
Points == {"idle", "probe", "take", "respond", "apply", "finish", "save", "insert",
           "result", "swap", "degrade", "restore", "undegrade", "drop_map",
           "drop_pending", "drop_fallback", "drop_disk", "inject"}

AnswerKinds == {"none", "ok", "busy", "not_found", "error"}
Calls == [pc : Points, s : Sessions \cup {None}, sess : Session \cup {None},
          entry : Entry, try : {"plain", "first", "second"}, ok : BOOLEAN,
          gone : BOOLEAN, saved : BOOLEAN, todo : SUBSET Sessions,
          answer : AnswerKinds, primary : AnswerKinds]

Idle(answer) == [pc |-> "idle", s |-> None, sess |-> None, entry |-> "none",
                 try |-> "plain", ok |-> FALSE, gone |-> FALSE, saved |-> FALSE,
                 todo |-> {}, answer |-> answer, primary |-> "none"]

Init == /\ map = [s \in Sessions |-> None]
        /\ inflight = {} /\ dropped = {} /\ pending = {}
        /\ fallback = [s \in Sessions |-> "none"]
        /\ disk = [s \in Sessions |-> None]
        /\ lock = None
        /\ th = [t \in Threads |-> Idle("none")]
        /\ started = {} /\ events = {}
        /\ acked = [s \in Sessions |-> 0]
        /\ crashes = 0

At(t, p) == th[t].pc = p
Goes(t, p) == th' = [th EXCEPT ![t].pc = p]
Calling(t, op) == At(t, "idle") /\ op \in Ops[t]
Answers(t, a) == th' = [th EXCEPT ![t] = Idle(a)]

-----------------------------------------------------------------------------
\* agent_start_with and start_plugin_iteration_agent_session: nobody else
\* knows the id before the call returns.
AgentStart(t) ==
    /\ Calling(t, "start")
    /\ \E s \in Sessions \ started :
         /\ started' = started \cup {s}
         /\ map' = [map EXCEPT ![s] = [turns |-> 0, profile |-> "desired",
                                       told |-> FALSE]]
         /\ fallback' = [fallback EXCEPT ![s] = IF s \in Shell THEN "normal" ELSE "none"]
    /\ UNCHANGED <<inflight, dropped, pending, disk, lock, th, events, acked, crashes>>

\* agent_send, or agent_send_with_fallback up to its first send.
SendBegin(t) ==
    /\ \E s \in started, op \in {"send", "send_with_fallback"} :
         /\ Calling(t, op)
         /\ LET e == IF op = "send" THEN "none" ELSE fallback[s]
            IN th' = [th EXCEPT ![t] =
                        [Idle("none") EXCEPT
                           !.pc = IF e = "degraded" THEN "probe" ELSE "take",
                           !.s = s, !.entry = e,
                           !.try = IF e = "none" THEN "plain" ELSE "first"]]
    /\ UNCHANGED <<map, inflight, dropped, pending, fallback, disk, lock, started,
                   events, acked, crashes>>

\* swap_session_profile, when the session rests in the map.
Swapped(s, profile) == [map EXCEPT ![s] = [@ EXCEPT !.profile = profile]]

\* A fallback send does not find the session.
Missing(s) == IF map[s] = None THEN events \cup {<<s, "outraced">>} ELSE events

\* A degraded session probes the desired profile first.
Probe(t) ==
    /\ At(t, "probe")
    /\ IF map[th[t].s] = None
       THEN Answers(t, "not_found") /\ UNCHANGED map
       ELSE map' = Swapped(th[t].s, "desired") /\ Goes(t, "take")
    /\ UNCHANGED <<inflight, dropped, pending, fallback, disk, lock, started,
                   events, acked, crashes>>

\* Mutant: the session stays in the map during the turn.
TakeCopy(t) ==
    /\ At(t, "take") /\ lock = None
    /\ LET s == th[t].s
       IN IF map[s] = None
          THEN /\ th' = [th EXCEPT ![t].pc = "result", ![t].ok = FALSE,
                           ![t].answer = IF s \in inflight THEN "busy" ELSE "not_found"]
               /\ UNCHANGED inflight
          ELSE /\ th' = [th EXCEPT ![t].pc = "respond", ![t].sess = map[s]]
               /\ inflight' = inflight \cup {s}
    /\ UNCHANGED <<map, dropped, pending, fallback, disk, lock, started, events,
                   acked, crashes>>

\* The first part of agent_send: out of the map and in flight, under the
\* inflight lock.
Take(t) ==
    /\ At(t, "take") /\ lock = None
    /\ LET s == th[t].s
       IN IF map[s] = None
          THEN /\ th' = [th EXCEPT ![t].pc = "result", ![t].ok = FALSE,
                           ![t].answer = IF s \in inflight THEN "busy" ELSE "not_found"]
               /\ events' = IF th[t].try = "plain" THEN events ELSE Missing(s)
               /\ UNCHANGED <<map, inflight>>
          ELSE /\ th' = [th EXCEPT ![t].pc = "respond", ![t].sess = map[s]]
               /\ map' = [map EXCEPT ![s] = None]
               /\ inflight' = inflight \cup {s}
               /\ UNCHANGED events
    /\ UNCHANGED <<dropped, pending, fallback, disk, lock, started, acked, crashes>>

\* respond, with or without a panic; a tool may queue an action for its own
\* session.
Respond(t) ==
    /\ At(t, "respond")
    /\ \E ok \in {b \in BOOLEAN : b => th[t].sess.turns < MaxTurns} :
         th' = [th EXCEPT ![t].pc = "apply", ![t].ok = ok,
                          ![t].answer = IF ok THEN "ok" ELSE "error",
                          ![t].sess.turns = IF ok THEN @ + 1 ELSE @]
    /\ pending' \in {pending, pending \cup {th[t].s}}
    /\ UNCHANGED <<map, inflight, dropped, fallback, disk, lock, started, events,
                   acked, crashes>>

\* The pending actions are drained and applied.
Apply(t) ==
    /\ At(t, "apply")
    /\ pending' = pending \ {th[t].s}
    /\ Goes(t, "finish")
    /\ UNCHANGED <<map, inflight, dropped, fallback, disk, lock, started, events,
                   acked, crashes>>

\* The end of the turn takes the inflight lock and consumes the mark.
Finish(t) ==
    /\ At(t, "finish") /\ lock = None
    /\ lock' = t
    /\ dropped' = dropped \ {th[t].s}
    /\ th' = [th EXCEPT ![t].gone = th[t].s \in dropped,
                        ![t].pc = IF th[t].s \in dropped THEN "insert" ELSE "save"]
    /\ UNCHANGED <<map, inflight, pending, fallback, disk, started, events, acked,
                   crashes>>

\* auto_save_session, best effort: a failed write leaves the old snapshot.
Save(t) ==
    /\ At(t, "save")
    /\ LET s == th[t].s
       IN \E written \in IF th[t].ok /\ s \in Shell THEN BOOLEAN ELSE {FALSE} :
            /\ disk' = IF written THEN [disk EXCEPT ![s] = th[t].sess] ELSE disk
            /\ th' = [th EXCEPT ![t].pc = "insert", ![t].saved = written]
    /\ UNCHANGED <<map, inflight, dropped, pending, fallback, lock, started, events,
                   acked, crashes>>

\* The session goes back unless it was dropped; the lock is released.
Insert(t) ==
    /\ At(t, "insert")
    /\ LET s == th[t].s
       IN /\ map' = IF th[t].gone THEN map ELSE [map EXCEPT ![s] = th[t].sess]
          /\ inflight' = inflight \ {s}
          /\ acked' = IF th[t].saved THEN [acked EXCEPT ![s] = th[t].sess.turns] ELSE acked
    /\ lock' = None
    /\ th' = [th EXCEPT ![t].pc = "result", ![t].sess = None]
    /\ UNCHANGED <<dropped, pending, fallback, disk, started, events, crashes>>

\* What follows agent_send: nothing for a plain call, otherwise the fallback
\* policy.
Result(t) ==
    /\ At(t, "result")
    /\ LET c == th[t]
       IN CASE c.try = "plain" -> Answers(t, c.answer)
            [] c.try = "first" /\ c.ok ->
                 IF c.entry = "degraded" THEN Goes(t, "undegrade") ELSE Answers(t, "ok")
            [] c.try = "first" /\ ~c.ok ->
                 IF HasFallback THEN Goes(t, "swap") ELSE Answers(t, c.answer)
            [] c.try = "second" -> Goes(t, IF c.ok THEN "degrade" ELSE "restore")
    /\ UNCHANGED <<map, inflight, dropped, pending, fallback, disk, lock, started,
                   events, acked, crashes>>

\* The first send failed: switch to the fallback profile and send again.
Swap(t) ==
    /\ At(t, "swap")
    /\ IF map[th[t].s] = None
       THEN Answers(t, "not_found") /\ UNCHANGED map
       ELSE /\ map' = Swapped(th[t].s, "fallback")
            /\ th' = [th EXCEPT ![t].pc = "take", ![t].try = "second",
                                ![t].primary = th[t].answer]
    /\ events' = Missing(th[t].s)
    /\ UNCHANGED <<inflight, dropped, pending, fallback, disk, lock, started, acked,
                   crashes>>

\* Both profiles failed: back to the desired one, if the session is there;
\* the caller gets the error of the first send.
Restore(t) ==
    /\ At(t, "restore")
    /\ map' = IF map[th[t].s] = None THEN map ELSE Swapped(th[t].s, "desired")
    /\ events' = Missing(th[t].s)
    /\ th' = [th EXCEPT ![t].pc = "undegrade", ![t].answer = th[t].primary]
    /\ UNCHANGED <<inflight, dropped, pending, fallback, disk, lock, started, acked,
                   crashes>>

\* set_degraded changes an entry that exists.
SetDegraded(t) ==
    /\ th[t].pc \in {"degrade", "undegrade"}
    /\ fallback' = [fallback EXCEPT ![th[t].s] =
                      IF @ = "none" THEN @
                      ELSE IF At(t, "degrade") THEN "degraded" ELSE "normal"]
    /\ Answers(t, th[t].answer)
    /\ UNCHANGED <<map, inflight, dropped, pending, disk, lock, started, events,
                   acked, crashes>>

-----------------------------------------------------------------------------
(* drop_session.  `gone` remembers that the call met the session: in flight *)
(* or in the map.                                                           *)

DropMark(t) ==
    /\ Calling(t, "drop") /\ lock = None
    /\ \E s \in started :
         /\ dropped' = IF s \in inflight THEN dropped \cup {s} ELSE dropped
         /\ th' = [th EXCEPT ![t] = [Idle("none") EXCEPT !.pc = "drop_map", !.s = s,
                                                         !.gone = s \in inflight]]
    /\ UNCHANGED <<map, inflight, pending, fallback, disk, lock, started, events, acked,
                   crashes>>

DropMap(t) ==
    /\ At(t, "drop_map")
    /\ map' = [map EXCEPT ![th[t].s] = None]
    /\ th' = [th EXCEPT ![t].pc = "drop_pending",
                        ![t].gone = @ \/ map[th[t].s] # None]
    /\ UNCHANGED <<inflight, dropped, pending, fallback, disk, lock, started, events,
                   acked, crashes>>

DropPending(t) ==
    /\ At(t, "drop_pending")
    /\ pending' = pending \ {th[t].s}
    /\ Goes(t, "drop_fallback")
    /\ UNCHANGED <<map, inflight, dropped, fallback, disk, lock, started, events, acked,
                   crashes>>

DropFallback(t) ==
    /\ At(t, "drop_fallback")
    /\ fallback' = [fallback EXCEPT ![th[t].s] = "none"]
    /\ Goes(t, "drop_disk")
    /\ UNCHANGED <<map, inflight, dropped, pending, disk, lock, started, events, acked,
                   crashes>>

\* delete_session_snapshot, best effort.
DropDisk(t) ==
    /\ At(t, "drop_disk")
    /\ \E deleted \in BOOLEAN :
         /\ disk' = IF deleted THEN [disk EXCEPT ![th[t].s] = None] ELSE disk
         /\ events' = IF deleted
                      THEN events \cup {<<th[t].s, IF th[t].gone THEN "dropped" ELSE "missed">>}
                      ELSE events
    /\ Answers(t, "ok")
    /\ UNCHANGED <<map, inflight, dropped, pending, fallback, lock, started, acked,
                   crashes>>

-----------------------------------------------------------------------------
(* notify_sessions_of_reload and agent_inject.                             *)

NotifyList(t) ==
    /\ Calling(t, "notify")
    /\ th' = [th EXCEPT ![t] = [Idle("none") EXCEPT !.pc = "inject",
                                  !.todo = {s \in Sessions : map[s] # None}]]
    /\ UNCHANGED <<map, inflight, dropped, pending, fallback, disk, lock, started,
                   events, acked, crashes>>

\* Mutant: a session that is not in the map is waited for.
NotifyInjectWaits(t) ==
    /\ At(t, "inject") /\ th[t].todo # {}
    /\ \E s \in th[t].todo :
         /\ map' = IF map[s] = None THEN map ELSE [map EXCEPT ![s].told = TRUE]
         /\ th' = [th EXCEPT ![t].todo = IF map[s] = None THEN @ ELSE @ \ {s}]
    /\ UNCHANGED <<inflight, dropped, pending, fallback, disk, lock, started, events,
                   acked, crashes>>

\* agent_inject into one of the sessions; one that is not in the map is
\* skipped with a log line.
NotifyInject(t) ==
    /\ At(t, "inject") /\ th[t].todo # {}
    /\ \E s \in th[t].todo :
         /\ map' = IF map[s] = None THEN map ELSE [map EXCEPT ![s].told = TRUE]
         /\ th' = [th EXCEPT ![t].todo = @ \ {s}]
    /\ UNCHANGED <<inflight, dropped, pending, fallback, disk, lock, started, events,
                   acked, crashes>>

NotifyEnd(t) ==
    /\ At(t, "inject") /\ th[t].todo = {}
    /\ Answers(t, "ok")
    /\ UNCHANGED <<map, inflight, dropped, pending, fallback, disk, lock, started,
                   events, acked, crashes>>

-----------------------------------------------------------------------------
\* The process dies; boot runs detect_crash_and_recover.  A recovered session
\* has the config of its snapshot and no fallback entry.
Crash ==
    /\ crashes < MaxCrashes
    /\ crashes' = crashes + 1
    /\ map' = disk
    /\ inflight' = {} /\ dropped' = {} /\ pending' = {} /\ lock' = None
    /\ fallback' = [s \in Sessions |-> "none"]
    /\ th' = [t \in Threads |-> Idle("none")]
    /\ UNCHANGED <<disk, started, events, acked>>

Send(t) == \/ SendBegin(t) \/ Take(t) \/ Respond(t) \/ Apply(t) \/ Finish(t)
           \/ Save(t) \/ Insert(t) \/ Result(t)

WithFallback(t) == Probe(t) \/ Swap(t) \/ Restore(t) \/ SetDegraded(t)

Drop(t) == \/ DropMark(t) \/ DropMap(t) \/ DropPending(t) \/ DropFallback(t)
           \/ DropDisk(t)

Notify(t) == NotifyList(t) \/ NotifyInject(t) \/ NotifyEnd(t)

\* Every call that is under way goes on.
Continue(t) == ~At(t, "idle") /\ (Send(t) \/ WithFallback(t) \/ Drop(t) \/ Notify(t))

Next == \/ \E t \in Threads : \/ AgentStart(t) \/ Send(t) \/ WithFallback(t)
                              \/ Drop(t) \/ Notify(t)
        \/ Crash

Spec == Init /\ [][Next]_vars /\ \A t \in Threads : WF_vars(Continue(t))

-----------------------------------------------------------------------------
(* Properties.                                                             *)

\* The host's session state and the state of every call keep their types.
TypeOK ==
    /\ map \in [Sessions -> Session \cup {None}]
    /\ disk \in [Sessions -> Session \cup {None}]
    /\ fallback \in [Sessions -> Entry]
    /\ inflight \subseteq Sessions /\ dropped \subseteq Sessions
    /\ pending \subseteq Sessions /\ started \subseteq Sessions
    /\ lock \in Threads \cup {None}
    /\ th \in [Threads -> Calls]
    /\ events \subseteq Sessions \X Events
    /\ acked \in [Sessions -> Nat] /\ crashes \in Nat

Turn(t) == th[t].pc \in {"respond", "apply", "finish", "save", "insert"}

\* A session has one owner: the map or one turn, and it is marked as in flight
\* exactly while a turn has it.  Two turns that both had it would each put
\* their own history back.  A mark of dropped_during_turn never outlives the
\* turn it is meant for: it would throw a later turn away.
SingleOwner ==
    /\ \A t, u \in Threads : Turn(t) /\ Turn(u) /\ th[t].s = th[u].s => t = u
    /\ \A t \in Threads : Turn(t) => map[th[t].s] = None
    /\ inflight = {th[t].s : t \in {u \in Threads : Turn(u)}}
    /\ dropped \subseteq inflight

\* What is left of a session: map entry, snapshot, fallback entry, or pending
\* actions that no turn will drain.
Left(s) == \/ map[s] # None \/ disk[s] # None \/ fallback[s] # "none"
           \/ s \in pending \ inflight

\* A session that drop_session has met, in the map or in flight, leaves nothing
\* behind once the call has returned, however the drop raced with a turn, and
\* a restart does not bring it back.
MetDropIsFinal == \A s \in Sessions : <<s, "dropped">> \in events => ~Left(s)

\* The comment of drop_session: no drop that has returned is undone by the end
\* of a turn.
DropIsFinal == \A s \in Sessions, e \in {"dropped", "missed"} : <<s, e>> \in events => ~Left(s)

Dropping(s) == \E t \in Threads : th[t].s = s /\ th[t].pc \in
                 {"drop_map", "drop_pending", "drop_fallback", "drop_disk"}

\* A turn whose snapshot was written survives a crash: until the session is
\* dropped the snapshot on disk is never older.
AckedIsDurable ==
    \A s \in Sessions :
        acked[s] > 0 /\ ~Dropping(s) /\ {<<s, "dropped">>, <<s, "missed">>} \cap events = {} =>
            disk[s] # None /\ disk[s].turns >= acked[s]

Sending(s) == \E t \in Threads : th[t].s = s

\* At rest, a session with a fallback entry runs on the fallback profile exactly
\* if the entry says that it is degraded: only then will the next send probe the
\* desired one.  Recovery and a drop that missed the session leave no entry, and
\* a turn that slips in between a switch and its send leaves the wrong profile.
ProfileTracked ==
    \A s \in Sessions :
        map[s] # None /\ fallback[s] # "none" /\ ~Sending(s) /\ <<s, "outraced">> \notin events =>
        (map[s].profile = "fallback" <=> fallback[s] = "degraded")

\* A session has one owner, stays dropped, stays on disk and knows its profile.
SessionsSound == TypeOK /\ SingleOwner /\ MetDropIsFinal /\ AckedIsDurable /\ ProfileTracked

\* Every call returns, unless it waits for the inflight lock for ever while other
\* turns keep taking and releasing it (std's Mutex promises no more): a busy
\* session, a dropped session and a finished turn block nobody.
CallsReturn ==
    \A t \in Threads :
        \/ []<>At(t, "idle")
        \/ []<>(lock = None) /\ []<>(lock \notin {None, t})
=============================================================================
