-------------------------- MODULE AgentSessionsProofs --------------------------
(***************************************************************************)
(* Proofs about AgentSessions for any number of threads, sessions, turns   *)
(* and crashes: a session has one owner, stays dropped and stays on disk,  *)
(* and, when one thread sends with fallback, knows its profile.            *)
(***************************************************************************)
EXTENDS AgentSessions, TLAPS

-----------------------------------------------------------------------------
(* The inductive invariant *)

\* The call of frame f has the session; it is a drop_session.
InTurn(f) == f.pc \in {"respond", "apply", "finish", "save", "insert"}
InDrop(f) == f.pc \in {"drop_map", "drop_pending", "drop_fallback", "drop_disk"}

\* What a call has at each of its points.
FrameInForm(f) ==
    /\ f.pc \notin {"idle", "inject"} => f.s \in started
    /\ f.s # None => f.s \in started
    /\ InTurn(f) => f.sess \in Session
    /\ f.saved => f.ok /\ f.pc \in {"insert", "result", "degrade", "undegrade"}
    /\ f.pc = "drop_disk" => fallback[f.s] = "none"
FramesInForm == \A t \in Threads : FrameInForm(th[t])

\* The end of a turn holds the lock, and its mark is consumed.
EndHoldsLock ==
    \A t \in Threads : th[t].pc \in {"save", "insert"} => lock = t /\ th[t].s \notin dropped

\* SingleOwner, session by session.
Owned ==
    /\ \A t, u \in Threads : InTurn(th[t]) /\ InTurn(th[u]) /\ th[t].s = th[u].s => t = u
    /\ \A t \in Threads : InTurn(th[t]) => map[th[t].s] = None
    /\ \A s \in Sessions : s \in inflight <=> \E t \in Threads : InTurn(th[t]) /\ th[t].s = s
    /\ dropped \subseteq inflight

\* A pending action has a turn that will drain it.
PendingOwned == \A s \in pending : \E t \in Threads : th[t].pc = "apply" /\ th[t].s = s

\* A drop has met the session.
Condemned(s) == \/ <<s, "dropped">> \in events
                \/ \E t \in Threads : InDrop(th[t]) /\ th[t].gone /\ th[t].s = s

\* A turn that will throw its session away.
Ending(f) == /\ f.pc # "save" /\ (f.pc = "insert" => f.gone)
             /\ f.pc \in {"respond", "apply", "finish"} => f.s \in dropped

\* A condemned session rests nowhere, and a turn that has it will not put it back.
CondemnedEnds ==
    \A s \in Sessions : Condemned(s) =>
        /\ map[s] = None
        /\ \A u \in Threads : InTurn(th[u]) /\ th[u].s = s => Ending(th[u])

\* What drop_session has left when it returned.
DroppedLeaves ==
    \A s \in Sessions : <<s, "dropped">> \in events =>
        s \in started /\ disk[s] = None /\ fallback[s] = "none"

\* A snapshot is not ahead of its session.
DiskBehind ==
    \A s \in Sessions : disk[s] # None =>
        /\ s \in started
        /\ map[s] # None => map[s].turns >= disk[s].turns
        /\ \A u \in Threads : InTurn(th[u]) /\ th[u].s = s => th[u].sess.turns >= disk[s].turns

\* No drop has removed the snapshot of session s.
Kept(s) == <<s, "dropped">> \notin events /\ <<s, "missed">> \notin events

\* What a turn has written, and what was acknowledged, is on disk.
AckedKept ==
    \A s \in Sessions : Kept(s) =>
        /\ acked[s] > 0 => disk[s] # None /\ disk[s].turns >= acked[s]
        /\ \A u \in Threads : th[u].pc = "insert" /\ th[u].saved /\ th[u].s = s =>
                                  disk[s] = th[u].sess

SessionsInv == /\ TypeOK /\ FramesInForm /\ EndHoldsLock /\ Owned /\ PendingOwned
               /\ CondemnedEnds /\ DroppedLeaves /\ DiskBehind /\ AckedKept

-----------------------------------------------------------------------------
(* One thread that sends with fallback *)

\* Only one thread calls agent_send_with_fallback.
OneFallback ==
    \A t, u \in Threads : "send_with_fallback" \in Ops[t] /\ "send_with_fallback" \in Ops[u] => t = u

\* The session runs on profile p, wherever it is.
RunsOn(s, p) ==
    /\ map[s] # None => map[s].profile = p
    /\ \A u \in Threads : InTurn(th[u]) /\ th[u].s = s => th[u].sess.profile = p

\* The profile that the entry of the session stands for.
EntryProfile(s) == IF fallback[s] = "degraded" THEN "fallback" ELSE "desired"

\* The profile that a call with fallback has switched the session to.
Switched(f) ==
    IF f.pc = "probe" THEN EntryProfile(f.s)
    ELSE IF f.pc = "undegrade" THEN "desired"
    ELSE IF f.try = "second" \/ f.pc = "degrade" THEN "fallback" ELSE "desired"

\* How far a call with fallback is.
PolicyInForm(t, f) ==
    /\ f.try # "plain" => /\ "send_with_fallback" \in Ops[t]
                          /\ f.pc \in {"probe", "take", "respond", "apply", "finish", "save",
                                       "insert", "result", "swap", "restore", "degrade", "undegrade"}
    /\ f.pc \in {"probe", "swap", "restore", "degrade", "undegrade"} => f.try # "plain"
    /\ f.pc \in {"probe", "swap"} => f.try = "first"
    /\ f.pc \in {"restore", "degrade"} => f.try = "second"
    /\ f.try = "second" \/ f.pc = "swap" => HasFallback
    /\ f.try = "first" /\ fallback[f.s] # "none" => fallback[f.s] = f.entry

\* Session s runs on the profile its entry stands for, but while a call with
\* fallback is between the switch and the entry.
Tracked(s) ==
    fallback[s] # "none" /\ <<s, "outraced">> \notin events =>
        /\ \A t \in Threads : th[t].s = s /\ th[t].try # "plain" => RunsOn(s, Switched(th[t]))
        /\ (\A t \in Threads : th[t].s = s => th[t].try = "plain") => RunsOn(s, EntryProfile(s))

ProfileInv ==
    /\ \A t \in Threads : PolicyInForm(t, th[t])
    /\ \A s \in Sessions : fallback[s] = "degraded" => HasFallback
    /\ \A s \in Sessions : Tracked(s)

-----------------------------------------------------------------------------
(* What each step makes of the frame of its call *)

\* Only the call of thread t moves.
Alone(t) == /\ th' \in [Threads -> Calls]
            /\ \A u \in Threads : u # t => th'[u] = th[u]

\* Its frame becomes this.
Moved(t, pc, s, sess, entry, try, ok, gone, saved) ==
    /\ Alone(t)
    /\ th'[t].pc = pc /\ th'[t].s = s /\ th'[t].sess = sess /\ th'[t].entry = entry
    /\ th'[t].try = try /\ th'[t].ok = ok /\ th'[t].gone = gone /\ th'[t].saved = saved

\* The fields of a frame.
LEMMA CallFields ==
    ASSUME TypeOK, NEW t \in Threads
    PROVE  /\ th \in [Threads -> Calls] /\ th[t] \in Calls
           /\ DOMAIN th[t] = {"pc", "s", "sess", "entry", "try", "ok", "gone", "saved", "todo",
                              "answer", "primary"}
           /\ th[t].pc \in Points /\ th[t].s \in Sessions \cup {None}
           /\ th[t].sess \in Session \cup {None} /\ th[t].entry \in Entry
           /\ th[t].try \in {"plain", "first", "second"} /\ th[t].ok \in BOOLEAN
           /\ th[t].gone \in BOOLEAN /\ th[t].saved \in BOOLEAN
           /\ th[t].todo \in SUBSET Sessions
           /\ th[t].answer \in AnswerKinds /\ th[t].primary \in AnswerKinds
<1>1. th[t] \in Calls BY DEF TypeOK
<1> QED BY <1>1 DEF Calls, TypeOK

\* A frame at rest.
LEMMA IdleInForm ==
    ASSUME NEW a \in AnswerKinds
    PROVE  /\ Idle(a) \in Calls
           /\ Idle(a).pc = "idle" /\ Idle(a).s = None /\ Idle(a).sess = None
           /\ Idle(a).entry = "none" /\ Idle(a).try = "plain" /\ Idle(a).ok = FALSE
           /\ Idle(a).gone = FALSE /\ Idle(a).saved = FALSE
           /\ DOMAIN Idle(a) = {"pc", "s", "sess", "entry", "try", "ok", "gone", "saved", "todo",
                              "answer", "primary"}
<1>1. "idle" \in Points /\ "none" \in Entry /\ "none" \in AnswerKinds BY DEF Points, Entry, AnswerKinds
<1>2. Idle(a) \in Calls BY <1>1 DEF Idle, Calls
<1> QED BY <1>2 DEF Idle

\* A call that returns has nothing any more.
LEMMA Returning ==
    ASSUME TypeOK, NEW t \in Threads, NEW a \in AnswerKinds, Answers(t, a)
    PROVE  Moved(t, "idle", None, None, "none", "plain", FALSE, FALSE, FALSE)
BY IdleInForm, CallFields DEF Answers, Moved, Alone

\* A call that goes to its next point keeps what it has.
LEMMA Going ==
    ASSUME TypeOK, NEW t \in Threads, NEW p \in Points, Goes(t, p)
    PROVE  Moved(t, p, th[t].s, th[t].sess, th[t].entry, th[t].try, th[t].ok, th[t].gone, th[t].saved)
<1>1. [th[t] EXCEPT !.pc = p] \in Calls BY CallFields DEF Calls
<1> QED BY <1>1, CallFields DEF Goes, Moved, Alone

\* A send begins without a session.
LEMMA SendBegins ==
    ASSUME TypeOK, NEW t \in Threads, SendBegin(t)
    PROVE  /\ th[t].pc = "idle"
           /\ \E s \in started, op \in {"send", "send_with_fallback"} \cap Ops[t] :
                LET e == IF op = "send" THEN "none" ELSE fallback[s]
                IN  Moved(t, IF e = "degraded" THEN "probe" ELSE "take", s, None, e,
                          IF e = "none" THEN "plain" ELSE "first", FALSE, FALSE, FALSE)
<1>1. PICK s \in started, op \in {"send", "send_with_fallback"} :
         /\ Calling(t, op)
         /\ LET e == IF op = "send" THEN "none" ELSE fallback[s]
            IN th' = [th EXCEPT ![t] =
                        [Idle("none") EXCEPT
                           !.pc = IF e = "degraded" THEN "probe" ELSE "take",
                           !.s = s, !.entry = e,
                           !.try = IF e = "none" THEN "plain" ELSE "first"]] BY DEF SendBegin
<1> DEFINE e == IF op = "send" THEN "none" ELSE fallback[s]
           pc == IF e = "degraded" THEN "probe" ELSE "take"
           try == IF e = "none" THEN "plain" ELSE "first"
           f == [Idle("none") EXCEPT !.pc = pc, !.s = s, !.entry = e, !.try = try]
<1>2. th' = [th EXCEPT ![t] = f] BY <1>1
<1>3. e \in Entry /\ s \in Sessions BY DEF TypeOK, Entry
<1>4. pc \in Points /\ try \in {"plain", "first", "second"} BY DEF Points
<1>5. "none" \in AnswerKinds BY DEF AnswerKinds
<1> HIDE DEF e, pc, try
<1>6. /\ f \in Calls /\ f.pc = pc /\ f.s = s /\ f.sess = None /\ f.entry = e /\ f.try = try
      /\ f.ok = FALSE /\ f.gone = FALSE /\ f.saved = FALSE BY <1>3, <1>4, <1>5, IdleInForm DEF Calls
<1> HIDE DEF f
<1>7. Moved(t, pc, s, None, e, try, FALSE, FALSE, FALSE) BY <1>2, <1>6, CallFields DEF Moved, Alone
<1> QED BY <1>1, <1>7 DEF e, pc, try, Calling, At

\* A send that does not find its session.
LEMMA TakeMisses ==
    ASSUME TypeOK, NEW t \in Threads, Take(t), map[th[t].s] = None
    PROVE  /\ Moved(t, "result", th[t].s, th[t].sess, th[t].entry, th[t].try, FALSE, th[t].gone,
                    th[t].saved)
           /\ UNCHANGED <<map, inflight>>
<1> DEFINE a == IF th[t].s \in inflight THEN "busy" ELSE "not_found"
<1>1. /\ th' = [th EXCEPT ![t].pc = "result", ![t].ok = FALSE, ![t].answer = a]
      /\ UNCHANGED <<map, inflight>> BY DEF Take
<1>2. a \in AnswerKinds /\ "result" \in Points BY DEF AnswerKinds, Points
<1> HIDE DEF a
<1>3. [th[t] EXCEPT !.pc = "result", !.ok = FALSE, !.answer = a] \in Calls BY <1>2, CallFields, ZenonT(60) DEF Calls
<1> QED BY <1>1, <1>3, CallFields DEF Moved, Alone

\* A send that takes its session.
LEMMA TakeTakes ==
    ASSUME TypeOK, NEW t \in Threads, Take(t), map[th[t].s] # None, th[t].s \in Sessions
    PROVE  /\ Moved(t, "respond", th[t].s, map[th[t].s], th[t].entry, th[t].try, th[t].ok, th[t].gone,
                    th[t].saved)
           /\ map' = [map EXCEPT ![th[t].s] = None] /\ inflight' = inflight \cup {th[t].s}
           /\ UNCHANGED events /\ map[th[t].s] \in Session
<1> DEFINE m == map[th[t].s]
<1>1. /\ th' = [th EXCEPT ![t].pc = "respond", ![t].sess = m]
      /\ map' = [map EXCEPT ![th[t].s] = None] /\ inflight' = inflight \cup {th[t].s}
      /\ UNCHANGED events BY DEF Take
<1>2. m \in Session BY DEF TypeOK
<1> HIDE DEF m
<1>3. [th[t] EXCEPT !.pc = "respond", !.sess = m] \in Calls BY <1>2, CallFields, ZenonT(60) DEF Calls, Points
<1>4. Moved(t, "respond", th[t].s, m, th[t].entry, th[t].try, th[t].ok, th[t].gone, th[t].saved)
  BY <1>1, <1>3, CallFields DEF Moved, Alone
<1> QED BY <1>1, <1>2, <1>4 DEF m

\* A turn adds at most one to the turns of its session.
LEMMA Responds ==
    ASSUME TypeOK, NEW t \in Threads, Respond(t), th[t].sess \in Session
    PROVE  \E ok \in BOOLEAN, sess \in Session :
              /\ Moved(t, "apply", th[t].s, sess, th[t].entry, th[t].try, ok, th[t].gone, th[t].saved)
              /\ sess.turns >= th[t].sess.turns /\ sess.profile = th[t].sess.profile
<1>1. PICK ok \in BOOLEAN :
         th' = [th EXCEPT ![t].pc = "apply", ![t].ok = ok,
                          ![t].answer = IF ok THEN "ok" ELSE "error",
                          ![t].sess.turns = IF ok THEN @ + 1 ELSE @] BY DEF Respond
<1> DEFINE a == IF ok THEN "ok" ELSE "error"
           n == IF ok THEN th[t].sess.turns + 1 ELSE th[t].sess.turns
           sess == [th[t].sess EXCEPT !.turns = n]
<1>2. a \in AnswerKinds BY DEF AnswerKinds
<1>3. sess \in Session /\ sess.turns >= th[t].sess.turns /\ sess.profile = th[t].sess.profile BY DEF Session
<1>4. th' = [th EXCEPT ![t].pc = "apply", ![t].ok = ok, ![t].answer = a, ![t].sess = sess] BY <1>1, CallFields, ZenonT(60)
<1> HIDE DEF a, sess
<1>5. [th[t] EXCEPT !.pc = "apply", !.ok = ok, !.answer = a, !.sess = sess] \in Calls
  BY <1>2, <1>3, CallFields, ZenonT(60) DEF Calls, Points
<1>6. Moved(t, "apply", th[t].s, sess, th[t].entry, th[t].try, ok, th[t].gone, th[t].saved)
  BY <1>4, <1>5, CallFields, ZenonT(60) DEF Moved, Alone
<1> QED BY <1>3, <1>6

\* The end of a turn learns whether the session was dropped.
LEMMA Finishes ==
    ASSUME TypeOK, NEW t \in Threads, Finish(t)
    PROVE  Moved(t, IF th[t].s \in dropped THEN "insert" ELSE "save", th[t].s, th[t].sess,
                 th[t].entry, th[t].try, th[t].ok, th[t].s \in dropped, th[t].saved)
<1> DEFINE gone == th[t].s \in dropped
           pc == IF th[t].s \in dropped THEN "insert" ELSE "save"
<1>1. th' = [th EXCEPT ![t].gone = gone, ![t].pc = pc] BY DEF Finish
<1>2. gone \in BOOLEAN /\ pc \in Points BY DEF Points
<1> HIDE DEF gone, pc
<1>3. [th[t] EXCEPT !.gone = gone, !.pc = pc] \in Calls BY <1>2, CallFields DEF Calls
<1>4. Moved(t, pc, th[t].s, th[t].sess, th[t].entry, th[t].try, th[t].ok, gone, th[t].saved)
  BY <1>1, <1>3, CallFields DEF Moved, Alone
<1> QED BY <1>4 DEF gone, pc

\* It knows whether the snapshot was written.
LEMMA Saves ==
    ASSUME TypeOK, NEW t \in Threads, Save(t)
    PROVE  \E written \in BOOLEAN :
              /\ Moved(t, "insert", th[t].s, th[t].sess, th[t].entry, th[t].try, th[t].ok, th[t].gone,
                       written)
              /\ written => th[t].ok
              /\ disk' = IF written THEN [disk EXCEPT ![th[t].s] = th[t].sess] ELSE disk
<1>1. PICK written \in BOOLEAN :
              /\ written => th[t].ok
              /\ disk' = IF written THEN [disk EXCEPT ![th[t].s] = th[t].sess] ELSE disk
              /\ th' = [th EXCEPT ![t].pc = "insert", ![t].saved = written] BY DEF Save
<1>2. [th[t] EXCEPT !.pc = "insert", !.saved = written] \in Calls BY CallFields, ZenonT(60) DEF Calls, Points
<1>3. Moved(t, "insert", th[t].s, th[t].sess, th[t].entry, th[t].try, th[t].ok, th[t].gone, written)
  BY <1>1, <1>2, CallFields DEF Moved, Alone
<1> QED BY <1>1, <1>3

\* The session leaves the hands of the call.
LEMMA Inserts ==
    ASSUME TypeOK, NEW t \in Threads, Insert(t)
    PROVE  Moved(t, "result", th[t].s, None, th[t].entry, th[t].try, th[t].ok, th[t].gone, th[t].saved)
<1>1. [th[t] EXCEPT !.pc = "result", !.sess = None] \in Calls BY CallFields, ZenonT(60) DEF Calls, Points
<1> QED BY <1>1, CallFields DEF Moved, Alone, Insert

\* The second send of a call with fallback.
LEMMA Swaps ==
    ASSUME TypeOK, NEW t \in Threads, Swap(t), map[th[t].s] # None
    PROVE  Moved(t, "take", th[t].s, th[t].sess, th[t].entry, "second", th[t].ok, th[t].gone, th[t].saved)
<1> DEFINE a == th[t].answer
<1>1. th' = [th EXCEPT ![t].pc = "take", ![t].try = "second", ![t].primary = a] BY DEF Swap
<1>2. a \in AnswerKinds /\ "take" \in Points BY CallFields DEF Points
<1> HIDE DEF a
<1>3. [th[t] EXCEPT !.pc = "take", !.try = "second", !.primary = a] \in Calls BY <1>2, CallFields DEF Calls
<1> QED BY <1>1, <1>3, CallFields DEF Moved, Alone

\* The end of a call with fallback that failed twice.
LEMMA Restores ==
    ASSUME TypeOK, NEW t \in Threads, Restore(t)
    PROVE  Moved(t, "undegrade", th[t].s, th[t].sess, th[t].entry, th[t].try, th[t].ok, th[t].gone,
                 th[t].saved)
<1>1. [th[t] EXCEPT !.pc = "undegrade", !.answer = th[t].primary] \in Calls BY CallFields, ZenonT(60) DEF Calls, Points
<1> QED BY <1>1, CallFields DEF Moved, Alone, Restore

\* A drop begins with a mark, if the session is in flight.
LEMMA DropBegins ==
    ASSUME TypeOK, NEW t \in Threads, DropMark(t)
    PROVE  /\ th[t].pc = "idle" /\ lock = None
           /\ \E s \in started :
                /\ Moved(t, "drop_map", s, None, "none", "plain", FALSE, s \in inflight, FALSE)
                /\ dropped' = IF s \in inflight THEN dropped \cup {s} ELSE dropped
<1>1. PICK s \in started :
         /\ dropped' = IF s \in inflight THEN dropped \cup {s} ELSE dropped
         /\ th' = [th EXCEPT ![t] = [Idle("none") EXCEPT !.pc = "drop_map", !.s = s,
                                                         !.gone = s \in inflight]] BY DEF DropMark
<1> DEFINE gone == s \in inflight
           f == [Idle("none") EXCEPT !.pc = "drop_map", !.s = s, !.gone = gone]
<1>2. th' = [th EXCEPT ![t] = f] /\ gone \in BOOLEAN /\ s \in Sessions /\ "none" \in AnswerKinds
  BY <1>1 DEF TypeOK, AnswerKinds
<1> HIDE DEF gone
<1>3. /\ f \in Calls /\ f.pc = "drop_map" /\ f.s = s /\ f.sess = None /\ f.entry = "none"
      /\ f.try = "plain" /\ f.ok = FALSE /\ f.gone = gone /\ f.saved = FALSE
  BY <1>2, IdleInForm, ZenonT(60) DEF Calls, Points
<1> HIDE DEF f
<1>4. Moved(t, "drop_map", s, None, "none", "plain", FALSE, gone, FALSE)
  BY <1>2, <1>3, CallFields DEF Moved, Alone
<1> QED BY <1>1, <1>4 DEF DropMark, Calling, At, gone

\* It meets the session in the map.
LEMMA DropsMap ==
    ASSUME TypeOK, NEW t \in Threads, DropMap(t)
    PROVE  Moved(t, "drop_pending", th[t].s, th[t].sess, th[t].entry, th[t].try, th[t].ok,
                 th[t].gone \/ map[th[t].s] # None, th[t].saved)
<1> DEFINE gone == th[t].gone \/ map[th[t].s] # None
<1>1. th' = [th EXCEPT ![t].pc = "drop_pending", ![t].gone = gone] BY CallFields DEF DropMap
<1>2. gone \in BOOLEAN BY CallFields
<1> HIDE DEF gone
<1>3. [th[t] EXCEPT !.pc = "drop_pending", !.gone = gone] \in Calls BY <1>2, CallFields, ZenonT(60) DEF Calls, Points
<1>4. Moved(t, "drop_pending", th[t].s, th[t].sess, th[t].entry, th[t].try, th[t].ok, gone, th[t].saved)
  BY <1>1, <1>3, CallFields DEF Moved, Alone
<1> QED BY <1>4 DEF gone

\* A notice begins without a session, and goes on so.
LEMMA NotifyBegins ==
    ASSUME TypeOK, NEW t \in Threads, NotifyList(t)
    PROVE  /\ th[t].pc = "idle"
           /\ Moved(t, "inject", None, None, "none", "plain", FALSE, FALSE, FALSE)
<1> DEFINE all == {s \in Sessions : map[s] # None}
           f == [Idle("none") EXCEPT !.pc = "inject", !.todo = all]
<1>1. th' = [th EXCEPT ![t] = f] /\ all \in SUBSET Sessions /\ "none" \in AnswerKinds
  BY DEF NotifyList, AnswerKinds
<1> HIDE DEF all
<1>2. /\ f \in Calls /\ f.pc = "inject" /\ f.s = None /\ f.sess = None /\ f.entry = "none"
      /\ f.try = "plain" /\ f.ok = FALSE /\ f.gone = FALSE /\ f.saved = FALSE
  BY <1>1, IdleInForm, ZenonT(60) DEF Calls, Points
<1> HIDE DEF f
<1> QED BY <1>1, <1>2, CallFields DEF Moved, Alone, NotifyList, Calling, At

\* The notice reaches a session.
LEMMA Injects ==
    ASSUME TypeOK, NEW t \in Threads, NotifyInject(t)
    PROVE  Moved(t, th[t].pc, th[t].s, th[t].sess, th[t].entry, th[t].try, th[t].ok, th[t].gone,
                 th[t].saved)
<1>1. PICK s \in th[t].todo : th' = [th EXCEPT ![t].todo = @ \ {s}] BY DEF NotifyInject
<1>2. [th[t] EXCEPT !.todo = @ \ {s}] \in Calls BY CallFields DEF Calls
<1> QED BY <1>1, <1>2, CallFields DEF Moved, Alone

-----------------------------------------------------------------------------
(* Steps aside: they neither begin, run nor end a turn *)

\* A step of a call that has no session.  It may take a session out of the
\* map, mark sessions that are in flight, and forget pending actions and
\* fallback entries.
Aside(t) ==
    /\ Alone(t) /\ ~ InTurn(th[t]) /\ ~ InTurn(th'[t])
    /\ UNCHANGED <<inflight, started, lock, acked, disk>>
    /\ pending' \subseteq pending
    /\ dropped \subseteq dropped' /\ dropped' \subseteq inflight
    /\ dropped' # dropped => lock = None
    /\ \A s \in Sessions : fallback[s] = "none" => fallback'[s] = "none"
    /\ \A s \in Sessions : map'[s] # None => map[s] # None /\ map'[s].turns = map[s].turns
    /\ \A s \in Sessions, e \in {"dropped", "missed"} : <<s, e>> \in events' <=> <<s, e>> \in events

\* A drop that goes on after it met the session: it had met it before, it has
\* taken it out of the map, or it has marked it.
Meets(t) ==
    InDrop(th'[t]) /\ th'[t].gone =>
        LET s == th'[t].s
        IN  \/ InDrop(th[t]) /\ th[t].gone /\ th[t].s = s
            \/ map[s] # None /\ map'[s] = None
            \/ s \in inflight /\ s \in dropped' /\ lock = None

\* A session that is in flight is not in the map.
LEMMA InflightNotInMap ==
    ASSUME TypeOK, Owned, NEW s \in inflight
    PROVE  map[s] = None
BY DEF TypeOK, Owned

\* A thread is not None.
LEMMA ThreadIsSome == \A t \in Threads : t # None
BY SessionsAssumption

\* A step aside keeps the owners of the sessions.
LEMMA AsideOwned ==
    ASSUME SessionsInv, NEW t \in Threads, Aside(t), TypeOK'
    PROVE  Owned'
<1>1. \A u \in Threads : InTurn(th'[u]) => u # t /\ th'[u] = th[u] BY DEF Aside, Alone
<1>2. \A u \in Threads : InTurn(th[u]) => th'[u] = th[u] BY DEF Aside, Alone
<1>3. \A u \in Threads : InTurn(th[u]) => th[u].s \in Sessions
  BY DEF SessionsInv, FramesInForm, FrameInForm, TypeOK, InTurn
<1>4. (\A u, v \in Threads : InTurn(th[u]) /\ InTurn(th[v]) /\ th[u].s = th[v].s => u = v)'
  BY <1>1 DEF SessionsInv, Owned
<1>5. (\A u \in Threads : InTurn(th[u]) => map[th[u].s] = None)' BY <1>1, <1>3 DEF SessionsInv, Owned, Aside
<1>6. (\A s \in Sessions : s \in inflight <=> \E u \in Threads : InTurn(th[u]) /\ th[u].s = s)'
  BY <1>1, <1>2 DEF SessionsInv, Owned, Aside
<1>7. (dropped \subseteq inflight)' BY DEF Aside
<1> QED BY <1>4, <1>5, <1>6, <1>7 DEF Owned

\* A step aside keeps the frames, the lock and the pending actions.
LEMMA AsideFrames ==
    ASSUME SessionsInv, NEW t \in Threads, Aside(t), TypeOK', FrameInForm(th[t])'
    PROVE  FramesInForm' /\ EndHoldsLock' /\ PendingOwned'
<1>1. FramesInForm'
  <2> SUFFICES ASSUME NEW u \in Threads, u # t PROVE FrameInForm(th[u])' BY DEF FramesInForm
  <2>1. th'[u] = th[u] /\ FrameInForm(th[u]) BY DEF Aside, Alone, SessionsInv, FramesInForm
  <2>2. started' = started /\ started \subseteq Sessions BY DEF Aside, SessionsInv, TypeOK
  <2>3. th[u].pc = "drop_disk" => th[u].s \in Sessions BY <2>1, <2>2 DEF FrameInForm
  <2>4. th[u].pc = "drop_disk" => fallback'[th[u].s] = "none" BY <2>1, <2>3 DEF FrameInForm, Aside
  <2> QED BY <2>1, <2>2, <2>4 DEF FrameInForm
<1>2. EndHoldsLock'
  <2> SUFFICES ASSUME NEW u \in Threads, th'[u].pc \in {"save", "insert"}
               PROVE  lock' = u /\ th'[u].s \notin dropped' BY DEF EndHoldsLock
  <2>1. th'[u] = th[u] BY DEF Aside, Alone, InTurn
  <2>2. lock = u /\ th[u].s \notin dropped BY <2>1 DEF SessionsInv, EndHoldsLock
  <2>3. dropped' = dropped /\ lock' = lock BY <2>2, ThreadIsSome DEF Aside
  <2> QED BY <2>1, <2>2, <2>3
<1>3. PendingOwned'
  <2> SUFFICES ASSUME NEW s \in pending'
               PROVE  \E u \in Threads : th'[u].pc = "apply" /\ th'[u].s = s BY DEF PendingOwned
  <2>1. PICK u \in Threads : th[u].pc = "apply" /\ th[u].s = s BY DEF Aside, SessionsInv, PendingOwned
  <2>2. th'[u] = th[u] BY <2>1 DEF Aside, Alone, InTurn
  <2> QED BY <2>1, <2>2
<1> QED BY <1>1, <1>2, <1>3

\* A step aside brings no dropped session back.
LEMMA AsideCondemned ==
    ASSUME SessionsInv, NEW t \in Threads, Aside(t), Meets(t), TypeOK'
    PROVE  CondemnedEnds'
<1> SUFFICES ASSUME NEW s \in Sessions, Condemned(s)'
             PROVE  /\ map'[s] = None
                    /\ \A u \in Threads : InTurn(th'[u]) /\ th'[u].s = s => Ending(th[u])'
  BY DEF CondemnedEnds
<1>1. \A u \in Threads : InTurn(th'[u]) => th'[u] = th[u] BY DEF Aside, Alone
<1>2. ASSUME Condemned(s)
      PROVE  /\ map'[s] = None
             /\ \A u \in Threads : InTurn(th'[u]) /\ th'[u].s = s => Ending(th[u])'
  BY <1>2, <1>1 DEF SessionsInv, CondemnedEnds, Aside, Ending
<1>3. ASSUME map[s] # None, map'[s] = None
      PROVE  \A u \in Threads : InTurn(th'[u]) => th'[u].s # s BY <1>1, <1>3 DEF SessionsInv, Owned
<1>4. ASSUME s \in inflight, s \in dropped', lock = None
      PROVE  /\ map'[s] = None
             /\ \A u \in Threads : InTurn(th'[u]) /\ th'[u].s = s => Ending(th[u])'
  <2>1. map'[s] = None BY <1>4, InflightNotInMap DEF Aside, SessionsInv
  <2>2. ASSUME NEW u \in Threads, InTurn(th'[u]), th'[u].s = s PROVE Ending(th[u])'
    BY <1>4, ThreadIsSome, <1>1, <2>2 DEF SessionsInv, EndHoldsLock, Ending
  <2> QED BY <2>1, <2>2
<1>5. \/ Condemned(s)
      \/ map[s] # None /\ map'[s] = None
      \/ s \in inflight /\ s \in dropped' /\ lock = None
  <2>1. CASE <<s, "dropped">> \in events' BY <2>1 DEF Condemned, Aside
  <2>2. ASSUME NEW u \in Threads, InDrop(th'[u]), th'[u].gone, th'[u].s = s, u # t
        PROVE  Condemned(s) BY <2>2 DEF Aside, Alone, Condemned
  <2>3. CASE InDrop(th'[t]) /\ th'[t].gone /\ th'[t].s = s BY <2>3 DEF Meets, Condemned
  <2> QED BY <2>1, <2>2, <2>3 DEF Condemned
<1> QED BY <1>2, <1>3, <1>4, <1>5

\* A step aside keeps what is on disk.
LEMMA AsideDisk ==
    ASSUME SessionsInv, NEW t \in Threads, Aside(t), TypeOK'
    PROVE  DroppedLeaves' /\ DiskBehind' /\ AckedKept'
<1>1. \A u \in Threads : InTurn(th'[u]) => th'[u] = th[u] BY DEF Aside, Alone
<1>2. DroppedLeaves' BY DEF SessionsInv, DroppedLeaves, Aside
<1>3. DiskBehind' BY <1>1 DEF SessionsInv, DiskBehind, Aside
<1>4. \A s \in Sessions : Kept(s)' <=> Kept(s) BY DEF Kept, Aside
<1>5. \A u \in Threads : th'[u].pc = "insert" => th'[u] = th[u] BY <1>1 DEF InTurn
<1>6. AckedKept' BY <1>4, <1>5 DEF SessionsInv, AckedKept, Aside
<1> QED BY <1>2, <1>3, <1>6

\* A step aside keeps the invariant.
LEMMA AsideStep ==
    ASSUME SessionsInv, NEW t \in Threads, Aside(t), Meets(t), TypeOK', FrameInForm(th[t])'
    PROVE  SessionsInv'
BY AsideOwned, AsideFrames, AsideCondemned, AsideDisk DEF SessionsInv

-----------------------------------------------------------------------------
(* The steps aside, one by one *)

\* A switch of the profile leaves the session where it is.
LEMMA SwappedMap ==
    ASSUME TypeOK, NEW s \in Sessions, map[s] # None, NEW p \in {"desired", "fallback"}
    PROVE  /\ Swapped(s, p) \in [Sessions -> Session \cup {None}]
           /\ Swapped(s, p)[s] # None /\ Swapped(s, p)[s].profile = p
           /\ Swapped(s, p)[s].turns = map[s].turns
           /\ \A x \in Sessions \ {s} : Swapped(s, p)[x] = map[x]
<1>1. map[s] \in Session BY DEF TypeOK
<1>2. [map[s] EXCEPT !.profile = p] \in Session BY <1>1 DEF Session
<1>3. /\ [map[s] EXCEPT !.profile = p] # None
      /\ [map[s] EXCEPT !.profile = p].profile = p
      /\ [map[s] EXCEPT !.profile = p].turns = map[s].turns BY <1>1, <1>2, SessionsAssumption DEF Session
<1> QED BY <1>1, <1>2, <1>3 DEF TypeOK, Swapped

\* A call has its session from its first point to its last.
LEMMA HasSession ==
    ASSUME SessionsInv, NEW t \in Threads, th[t].pc \notin {"idle", "inject"}
    PROVE  th[t].s \in Sessions /\ th[t].s \in started /\ FrameInForm(th[t])
BY DEF SessionsInv, FramesInForm, FrameInForm, TypeOK

\* Only the call changes, and it neither meets nor has a session.
Quiet(t) == /\ Alone(t) /\ ~ InTurn(th[t]) /\ ~ InTurn(th'[t]) /\ ~ InDrop(th'[t])
            /\ UNCHANGED <<map, inflight, dropped, pending, fallback, disk, lock, started, events,
                           acked, crashes>>

\* A quiet step keeps the invariant.
LEMMA QuietStep ==
    ASSUME SessionsInv, NEW t \in Threads, Quiet(t), FrameInForm(th[t])'
    PROVE  SessionsInv'
<1>1. TypeOK' BY DEF SessionsInv, TypeOK, Quiet, Alone
<1>2. dropped \subseteq inflight BY DEF SessionsInv, Owned
<1>3. Aside(t) /\ Meets(t) BY <1>2 DEF Quiet, Aside, Meets
<1> QED BY <1>1, <1>3, AsideStep

\* A call that returns has nothing to keep in form.
LEMMA ReturnedInForm ==
    ASSUME NEW t \in Threads, Moved(t, "idle", None, None, "none", "plain", FALSE, FALSE, FALSE)
    PROVE  FrameInForm(th[t])' /\ ~ InTurn(th'[t]) /\ ~ InDrop(th'[t])
BY DEF Moved, FrameInForm, InTurn, InDrop

\* A send begins.
LEMMA SendBeginStep ==
    ASSUME SessionsInv, NEW t \in Threads, SendBegin(t)
    PROVE  SessionsInv'
<1>1. TypeOK BY DEF SessionsInv
<1>2. PICK s \in started, e \in Entry, pc \in {"probe", "take"}, try \in {"plain", "first"} :
         Moved(t, pc, s, None, e, try, FALSE, FALSE, FALSE)
  <2>1. PICK s \in started, op \in {"send", "send_with_fallback"} \cap Ops[t] :
          LET e == IF op = "send" THEN "none" ELSE fallback[s]
          IN  Moved(t, IF e = "degraded" THEN "probe" ELSE "take", s, None, e,
                    IF e = "none" THEN "plain" ELSE "first", FALSE, FALSE, FALSE) BY <1>1, SendBegins
  <2> DEFINE e == IF op = "send" THEN "none" ELSE fallback[s]
             pc == IF e = "degraded" THEN "probe" ELSE "take"
             try == IF e = "none" THEN "plain" ELSE "first"
  <2>2. Moved(t, pc, s, None, e, try, FALSE, FALSE, FALSE) BY <2>1
  <2>3. e \in Entry /\ pc \in {"probe", "take"} /\ try \in {"plain", "first"} BY <1>1 DEF TypeOK, Entry
  <2> HIDE DEF e, pc, try
  <2> QED BY <2>2, <2>3
<1>3. th[t].pc = "idle" BY <1>1, SendBegins
<1>4. ~ InTurn(th[t]) /\ ~ InTurn(th'[t]) /\ ~ InDrop(th'[t]) BY <1>2, <1>3 DEF Moved, InTurn, InDrop
<1>5. Quiet(t) BY <1>2, <1>4 DEF Quiet, Moved, SendBegin
<1>6. FrameInForm(th[t])' BY <1>2, <1>4, <1>5 DEF FrameInForm, Moved, Quiet
<1> QED BY <1>5, <1>6, QuietStep

\* A degraded session is switched to the desired profile before the send.
LEMMA ProbeStep ==
    ASSUME SessionsInv, NEW t \in Threads, Probe(t)
    PROVE  SessionsInv'
<1>1. TypeOK /\ th[t].pc = "probe" /\ ~ InTurn(th[t]) BY DEF SessionsInv, Probe, At, InTurn
<1>2. th[t].s \in Sessions /\ th[t].s \in started /\ FrameInForm(th[t]) BY <1>1, HasSession
<1>3. CASE map[th[t].s] = None
  BY <1>3, <1>1, Returning, ReturnedInForm, QuietStep DEF Probe, AnswerKinds, Quiet, Moved
<1>4. CASE map[th[t].s] # None
  <2>1. Goes(t, "take") /\ map' = Swapped(th[t].s, "desired") /\ "take" \in Points BY <1>4 DEF Probe, Points
  <2>2. Moved(t, "take", th[t].s, th[t].sess, th[t].entry, th[t].try, th[t].ok, th[t].gone, th[t].saved)
    BY <1>1, <2>1, Going
  <2>3. TypeOK' BY <1>1, <1>2, <1>4, <2>1, <2>2, SwappedMap DEF TypeOK, Probe, Moved, Alone
  <2>4. ~ InTurn(th'[t]) /\ ~ InDrop(th'[t]) BY <2>2 DEF Moved, InTurn, InDrop
  <2>5. \A s \in Sessions : map'[s] # None => map[s] # None /\ map'[s].turns = map[s].turns
    BY <1>1, <1>2, <1>4, <2>1, SwappedMap
  <2>6. Aside(t) /\ Meets(t) BY <1>1, <2>2, <2>4, <2>5 DEF Aside, Meets, Moved, Probe, SessionsInv, Owned
  <2>7. FrameInForm(th[t])' BY <1>1, <1>2, <2>2, <2>4 DEF FrameInForm, Moved, Probe
  <2> QED BY <2>3, <2>6, <2>7, AsideStep
<1> QED BY <1>3, <1>4

\* A send that does not find its session.
LEMMA TakeMissStep ==
    ASSUME SessionsInv, NEW t \in Threads, Take(t), map[th[t].s] = None
    PROVE  SessionsInv'
<1>1. TypeOK /\ th[t].pc = "take" /\ ~ InTurn(th[t]) BY DEF SessionsInv, Take, At, InTurn
<1>2. th[t].s \in Sessions /\ th[t].s \in started /\ FrameInForm(th[t]) BY <1>1, HasSession
<1>3. /\ Moved(t, "result", th[t].s, th[t].sess, th[t].entry, th[t].try, FALSE, th[t].gone, th[t].saved)
      /\ UNCHANGED <<map, inflight>> BY <1>1, TakeMisses
<1>4. events' \in {events, events \cup {<<th[t].s, "outraced">>}} BY DEF Take, Missing
<1>5. TypeOK' BY <1>1, <1>2, <1>4, <1>3 DEF TypeOK, Events, Take, Moved, Alone
<1>6. ~ InTurn(th'[t]) /\ ~ InDrop(th'[t]) BY <1>3 DEF Moved, InTurn, InDrop
<1>7. \A s \in Sessions, e \in {"dropped", "missed"} : <<s, e>> \in events' <=> <<s, e>> \in events BY <1>4
<1>8. Aside(t) /\ Meets(t) BY <1>1, <1>3, <1>6, <1>7 DEF Aside, Meets, Moved, Take, SessionsInv, Owned
<1>9. FrameInForm(th[t])' BY <1>1, <1>2, <1>3, <1>6 DEF FrameInForm, Moved, Take
<1> QED BY <1>5, <1>8, <1>9, AsideStep

\* A call that goes on quietly, without a snapshot of its own.
LEMMA GoesQuietly ==
    ASSUME SessionsInv, NEW t \in Threads, th[t].pc = "result",
           NEW p \in {"undegrade", "degrade", "swap", "restore"}, Goes(t, p),
           p \in {"swap", "restore"} => ~ th[t].ok,
           UNCHANGED <<map, inflight, dropped, pending, fallback, disk, lock, started, events, acked,
                       crashes>>
    PROVE  SessionsInv'
<1>1. TypeOK /\ p \in Points BY DEF SessionsInv, Points
<1>2. th[t].s \in started /\ FrameInForm(th[t]) BY HasSession
<1>3. Moved(t, p, th[t].s, th[t].sess, th[t].entry, th[t].try, th[t].ok, th[t].gone, th[t].saved)
  BY <1>1, Going
<1>4. ~ InTurn(th[t]) /\ ~ InTurn(th'[t]) /\ ~ InDrop(th'[t]) BY <1>3 DEF Moved, InTurn, InDrop
<1>5. Quiet(t) BY <1>3, <1>4 DEF Quiet, Moved
<1>6. FrameInForm(th[t])' BY <1>2, <1>3, <1>4 DEF FrameInForm, Moved
<1> QED BY <1>5, <1>6, QuietStep

\* A call that returns quietly.
LEMMA ReturnsQuietly ==
    ASSUME SessionsInv, NEW t \in Threads, ~ InTurn(th[t]), NEW a \in AnswerKinds, Answers(t, a),
           UNCHANGED <<map, inflight, dropped, pending, fallback, disk, lock, started, events, acked,
                       crashes>>
    PROVE  SessionsInv'
<1>1. Moved(t, "idle", None, None, "none", "plain", FALSE, FALSE, FALSE) BY Returning DEF SessionsInv
<1>2. Quiet(t) BY <1>1, ReturnedInForm DEF Quiet, Moved
<1> QED BY <1>1, <1>2, ReturnedInForm, QuietStep

\* A send has ended: the call returns or goes on with the fallback policy.
LEMMA ResultStep ==
    ASSUME SessionsInv, NEW t \in Threads, Result(t)
    PROVE  SessionsInv'
<1>1. /\ th[t].pc = "result" /\ ~ InTurn(th[t])
      /\ UNCHANGED <<map, inflight, dropped, pending, fallback, disk, lock, started, events, acked,
                     crashes>> BY DEF Result, At, InTurn
<1>2. /\ th[t].answer \in AnswerKinds /\ "ok" \in AnswerKinds
      /\ th[t].try \in {"plain", "first", "second"} /\ th[t].ok \in BOOLEAN
  BY CallFields DEF SessionsInv, AnswerKinds
<1>3. \/ \E a \in AnswerKinds : Answers(t, a)
      \/ \E p \in {"undegrade", "degrade", "swap", "restore"} :
            Goes(t, p) /\ (p \in {"swap", "restore"} => ~ th[t].ok) BY <1>2 DEF Result
<1> QED BY <1>1, <1>3, GoesQuietly, ReturnsQuietly

\* A call with fallback finds its session and switches it, or marks it as
\* missing: the drops of the session are what they were.
LEMMA MissingEvents ==
    ASSUME TypeOK, NEW s \in Sessions, events' = Missing(s)
    PROVE  /\ events' \subseteq Sessions \X Events
           /\ \A x \in Sessions, e \in {"dropped", "missed"} :
                 <<x, e>> \in events' <=> <<x, e>> \in events
BY DEF Missing, TypeOK, Events

\* The first send failed.
LEMMA SwapStep ==
    ASSUME SessionsInv, NEW t \in Threads, Swap(t)
    PROVE  SessionsInv'
<1>1. TypeOK /\ th[t].pc = "swap" /\ ~ InTurn(th[t]) BY DEF SessionsInv, Swap, At, InTurn
<1>2. th[t].s \in Sessions /\ th[t].s \in started /\ FrameInForm(th[t]) BY <1>1, HasSession
<1>3. /\ events' \subseteq Sessions \X Events
      /\ \A x \in Sessions, e \in {"dropped", "missed"} : <<x, e>> \in events' <=> <<x, e>> \in events
  BY <1>1, <1>2, MissingEvents DEF Swap
<1>4. /\ map' \in [Sessions -> Session \cup {None}]
      /\ \A s \in Sessions : map'[s] # None => map[s] # None /\ map'[s].turns = map[s].turns
  BY <1>1, <1>2, SwappedMap DEF Swap, TypeOK
<1>5. Alone(t) /\ FrameInForm(th[t])' /\ ~ InTurn(th'[t]) /\ ~ InDrop(th'[t])
  <2>1. CASE map[th[t].s] = None BY <1>1, <2>1, Returning, ReturnedInForm DEF Swap, AnswerKinds, Moved
  <2>2. CASE map[th[t].s] # None BY <1>1, <2>2, Swaps, <1>2 DEF Moved, InTurn, InDrop, FrameInForm, Swap
  <2> QED BY <2>1, <2>2
<1>6. TypeOK' BY <1>1, <1>3, <1>4, <1>5 DEF TypeOK, Swap, Alone
<1>7. Aside(t) /\ Meets(t) BY <1>1, <1>3, <1>4, <1>5 DEF Aside, Meets, Swap, SessionsInv, Owned
<1> QED BY <1>5, <1>6, <1>7, AsideStep

\* Both sends failed.
LEMMA RestoreStep ==
    ASSUME SessionsInv, NEW t \in Threads, Restore(t)
    PROVE  SessionsInv'
<1>1. TypeOK /\ th[t].pc = "restore" /\ ~ InTurn(th[t]) BY DEF SessionsInv, Restore, At, InTurn
<1>2. th[t].s \in Sessions /\ th[t].s \in started /\ FrameInForm(th[t]) BY <1>1, HasSession
<1>3. /\ events' \subseteq Sessions \X Events
      /\ \A x \in Sessions, e \in {"dropped", "missed"} : <<x, e>> \in events' <=> <<x, e>> \in events
  BY <1>1, <1>2, MissingEvents DEF Restore
<1>4. /\ map' \in [Sessions -> Session \cup {None}]
      /\ \A s \in Sessions : map'[s] # None => map[s] # None /\ map'[s].turns = map[s].turns
  BY <1>1, <1>2, SwappedMap DEF Restore, TypeOK
<1>5. Moved(t, "undegrade", th[t].s, th[t].sess, th[t].entry, th[t].try, th[t].ok, th[t].gone,
            th[t].saved) BY <1>1, Restores
<1>6. ~ InTurn(th'[t]) /\ ~ InDrop(th'[t]) BY <1>5 DEF Moved, InTurn, InDrop
<1>7. FrameInForm(th[t])' BY <1>1, <1>2, <1>5, <1>6 DEF FrameInForm, Moved, Restore
<1>8. TypeOK' BY <1>1, <1>3, <1>4, <1>5 DEF TypeOK, Restore, Alone, Moved
<1>9. Aside(t) /\ Meets(t)
  BY <1>1, <1>3, <1>4, <1>5, <1>6 DEF Aside, Meets, Restore, SessionsInv, Owned, Moved
<1> QED BY <1>7, <1>8, <1>9, AsideStep

\* The entry of the session is set, if there is one.
LEMMA SetDegradedStep ==
    ASSUME SessionsInv, NEW t \in Threads, SetDegraded(t)
    PROVE  SessionsInv'
<1>1. TypeOK /\ th[t].pc \in {"degrade", "undegrade"} /\ ~ InTurn(th[t])
  BY DEF SessionsInv, SetDegraded, InTurn
<1>2. th[t].s \in Sessions /\ th[t].answer \in AnswerKinds BY <1>1, HasSession, CallFields
<1>3. Moved(t, "idle", None, None, "none", "plain", FALSE, FALSE, FALSE)
  BY <1>1, <1>2, Returning DEF SetDegraded
<1>4. /\ fallback' \in [Sessions -> Entry]
      /\ \A s \in Sessions : fallback[s] = "none" => fallback'[s] = "none"
  BY <1>1, <1>2 DEF SetDegraded, TypeOK, Entry
<1>5. TypeOK' BY <1>1, <1>3, <1>4 DEF TypeOK, SetDegraded, Alone, Moved
<1>6. Aside(t) /\ Meets(t)
  BY <1>1, <1>3, <1>4, ReturnedInForm DEF Aside, Meets, SetDegraded, SessionsInv, Owned, Moved
<1> QED BY <1>3, <1>5, <1>6, ReturnedInForm, AsideStep

\* drop_session marks a session that is in flight.
LEMMA DropMarkStep ==
    ASSUME SessionsInv, NEW t \in Threads, DropMark(t)
    PROVE  SessionsInv'
<1>1. TypeOK /\ th[t].pc = "idle" /\ lock = None /\ ~ InTurn(th[t]) BY DropBegins DEF SessionsInv, InTurn
<1>2. PICK s \in started :
         /\ Moved(t, "drop_map", s, None, "none", "plain", FALSE, s \in inflight, FALSE)
         /\ dropped' = IF s \in inflight THEN dropped \cup {s} ELSE dropped BY <1>1, DropBegins
<1>3. s \in Sessions /\ dropped \subseteq inflight BY <1>1 DEF TypeOK, SessionsInv, Owned
<1>4. ~ InTurn(th'[t]) BY <1>2 DEF Moved, InTurn
<1>5. FrameInForm(th[t])' BY <1>2, <1>4 DEF FrameInForm, Moved, DropMark
<1>6. TypeOK' BY <1>1, <1>2, <1>3 DEF TypeOK, DropMark, Alone, Moved
<1>7. Aside(t) BY <1>1, <1>2, <1>3, <1>4 DEF Aside, DropMark, Moved
<1>8. Meets(t) BY <1>1, <1>2 DEF Meets, Moved
<1> QED BY <1>5, <1>6, <1>7, <1>8, AsideStep

\* drop_session takes the session out of the map.
LEMMA DropMapStep ==
    ASSUME SessionsInv, NEW t \in Threads, DropMap(t)
    PROVE  SessionsInv'
<1>1. TypeOK /\ th[t].pc = "drop_map" /\ ~ InTurn(th[t]) /\ InDrop(th[t])
  BY DEF SessionsInv, DropMap, At, InTurn, InDrop
<1>2. th[t].s \in Sessions /\ th[t].s \in started /\ FrameInForm(th[t]) BY <1>1, HasSession
<1>3. Moved(t, "drop_pending", th[t].s, th[t].sess, th[t].entry, th[t].try, th[t].ok,
            th[t].gone \/ map[th[t].s] # None, th[t].saved) BY <1>1, DropsMap
<1>4. /\ map' \in [Sessions -> Session \cup {None}] /\ map'[th[t].s] = None
      /\ \A s \in Sessions : map'[s] # None => map'[s] = map[s] BY <1>1, <1>2 DEF DropMap, TypeOK
<1>5. ~ InTurn(th'[t]) BY <1>3 DEF Moved, InTurn
<1>6. FrameInForm(th[t])' BY <1>1, <1>2, <1>3, <1>5 DEF FrameInForm, Moved, DropMap
<1>7. TypeOK' BY <1>1, <1>3, <1>4 DEF TypeOK, DropMap, Alone, Moved
<1>8. Aside(t) BY <1>1, <1>3, <1>4, <1>5 DEF Aside, DropMap, Moved, SessionsInv, Owned
<1>9. Meets(t) BY <1>1, <1>3, <1>4 DEF Meets, Moved
<1> QED BY <1>6, <1>7, <1>8, <1>9, AsideStep

\* drop_session forgets the pending actions.
LEMMA DropPendingStep ==
    ASSUME SessionsInv, NEW t \in Threads, DropPending(t)
    PROVE  SessionsInv'
<1>1. /\ TypeOK /\ th[t].pc = "drop_pending" /\ ~ InTurn(th[t]) /\ InDrop(th[t])
      /\ "drop_fallback" \in Points BY DEF SessionsInv, DropPending, At, InTurn, InDrop, Points
<1>2. th[t].s \in Sessions /\ th[t].s \in started /\ FrameInForm(th[t]) BY <1>1, HasSession
<1>3. Moved(t, "drop_fallback", th[t].s, th[t].sess, th[t].entry, th[t].try, th[t].ok, th[t].gone,
            th[t].saved) BY <1>1, Going DEF DropPending
<1>4. ~ InTurn(th'[t]) BY <1>3 DEF Moved, InTurn
<1>5. FrameInForm(th[t])' BY <1>1, <1>2, <1>3, <1>4 DEF FrameInForm, Moved, DropPending
<1>6. TypeOK' BY <1>1, <1>3 DEF TypeOK, DropPending, Alone, Moved
<1>7. Aside(t) BY <1>1, <1>3, <1>4 DEF Aside, DropPending, Moved, SessionsInv, Owned
<1>8. Meets(t) BY <1>1, <1>3 DEF Meets, Moved
<1> QED BY <1>5, <1>6, <1>7, <1>8, AsideStep

\* drop_session forgets the fallback entry.
LEMMA DropFallbackStep ==
    ASSUME SessionsInv, NEW t \in Threads, DropFallback(t)
    PROVE  SessionsInv'
<1>1. /\ TypeOK /\ th[t].pc = "drop_fallback" /\ ~ InTurn(th[t]) /\ InDrop(th[t])
      /\ "drop_disk" \in Points BY DEF SessionsInv, DropFallback, At, InTurn, InDrop, Points
<1>2. th[t].s \in Sessions /\ th[t].s \in started /\ FrameInForm(th[t]) BY <1>1, HasSession
<1>3. Moved(t, "drop_disk", th[t].s, th[t].sess, th[t].entry, th[t].try, th[t].ok, th[t].gone,
            th[t].saved) BY <1>1, Going DEF DropFallback
<1>4. /\ fallback' \in [Sessions -> Entry] /\ fallback'[th[t].s] = "none"
      /\ \A s \in Sessions : fallback[s] = "none" => fallback'[s] = "none"
  BY <1>1, <1>2 DEF DropFallback, TypeOK, Entry
<1>5. ~ InTurn(th'[t]) BY <1>3 DEF Moved, InTurn
<1>6. FrameInForm(th[t])' BY <1>1, <1>2, <1>3, <1>4, <1>5 DEF FrameInForm, Moved, DropFallback
<1>7. TypeOK' BY <1>1, <1>3, <1>4 DEF TypeOK, DropFallback, Alone, Moved
<1>8. Aside(t) BY <1>1, <1>3, <1>4, <1>5 DEF Aside, DropFallback, Moved, SessionsInv, Owned
<1>9. Meets(t) BY <1>1, <1>3 DEF Meets, Moved
<1> QED BY <1>6, <1>7, <1>8, <1>9, AsideStep

\* The notice of a reload is under way.
LEMMA NotifyStep ==
    ASSUME SessionsInv, NEW t \in Threads, Notify(t)
    PROVE  SessionsInv'
<1>1. TypeOK BY DEF SessionsInv
<1>2. CASE NotifyList(t)
  <2>1. /\ th[t].pc = "idle"
        /\ Moved(t, "inject", None, None, "none", "plain", FALSE, FALSE, FALSE) BY <1>1, <1>2, NotifyBegins
  <2>2. Quiet(t) BY <1>2, <2>1 DEF Quiet, Moved, InTurn, InDrop, NotifyList
  <2>3. FrameInForm(th[t])' BY <2>1 DEF Moved, FrameInForm, InTurn
  <2> QED BY <2>2, <2>3, QuietStep
<1>3. CASE NotifyEnd(t) BY <1>3, ReturnsQuietly DEF NotifyEnd, AnswerKinds, At, InTurn
<1>4. CASE NotifyInject(t)
  <2>1. Moved(t, th[t].pc, th[t].s, th[t].sess, th[t].entry, th[t].try, th[t].ok, th[t].gone, th[t].saved)
    BY <1>1, <1>4, Injects
  <2>2. th[t].pc = "inject" /\ th[t].todo \subseteq Sessions /\ FrameInForm(th[t])
    BY <1>1, <1>4, CallFields DEF NotifyInject, At, SessionsInv, FramesInForm
  <2>3. PICK s \in th[t].todo : map' = IF map[s] = None THEN map ELSE [map EXCEPT ![s].told = TRUE]
    BY <1>4 DEF NotifyInject
  <2>4. s \in Sessions BY <2>2
  <2>5. map[s] # None => map[s] \in Session BY <1>1, <2>4 DEF TypeOK
  <2>6. map[s] # None => [map[s] EXCEPT !.told = TRUE] \in Session /\ [map[s] EXCEPT !.told = TRUE].turns = map[s].turns
    BY <2>5 DEF Session
  <2>7. /\ map' \in [Sessions -> Session \cup {None}]
        /\ \A x \in Sessions : map'[x] # None => map[x] # None /\ map'[x].turns = map[x].turns
    BY <1>1, <2>3, <2>4, <2>6 DEF TypeOK
  <2>8. ~ InTurn(th[t]) /\ ~ InTurn(th'[t]) /\ ~ InDrop(th'[t]) BY <2>1, <2>2 DEF Moved, InTurn, InDrop
  <2>9. FrameInForm(th[t])' BY <1>4, <2>1, <2>2, <2>8 DEF FrameInForm, Moved, NotifyInject
  <2>10. TypeOK' BY <1>1, <1>4, <2>1, <2>7 DEF TypeOK, NotifyInject, Alone, Moved
  <2>11. Aside(t) /\ Meets(t)
    BY <1>4, <2>1, <2>7, <2>8 DEF Aside, Meets, NotifyInject, Moved, SessionsInv, Owned
  <2> QED BY <2>9, <2>10, <2>11, AsideStep
<1> QED BY <1>2, <1>3, <1>4 DEF Notify

-----------------------------------------------------------------------------
(* The steps of a turn *)

\* A turn goes on with its session, and takes at most its own mark.
TurnRuns(t) ==
    /\ Alone(t) /\ InTurn(th[t]) /\ InTurn(th'[t]) /\ th'[t].s = th[t].s
    /\ UNCHANGED <<map, inflight, started, fallback, events, acked>>
    /\ dropped' \subseteq dropped /\ dropped \ {th[t].s} \subseteq dropped'
    /\ Ending(th[t]) => Ending(th[t])'

\* A frame in a turn is in no drop.
LEMMA TurnIsNoDrop == \A f : InTurn(f) => ~ InDrop(f)
BY DEF InTurn, InDrop

\* A turn that goes on keeps the owners, the frames and the dropped sessions.
LEMMA TurnKeepsOwners ==
    ASSUME SessionsInv, NEW t \in Threads, TurnRuns(t), FrameInForm(th[t])'
    PROVE  Owned' /\ FramesInForm' /\ CondemnedEnds'
<1>1. \A u \in Threads : u # t => th'[u] = th[u] BY DEF TurnRuns, Alone
<1>2. \A u \in Threads : (InTurn(th'[u]) <=> InTurn(th[u])) /\ th'[u].s = th[u].s BY <1>1 DEF TurnRuns
<1>3. Owned' BY <1>2 DEF SessionsInv, Owned, TurnRuns
<1>4. FramesInForm'
  <2> SUFFICES ASSUME NEW u \in Threads, u # t PROVE FrameInForm(th[u])' BY DEF FramesInForm
  <2> QED BY <1>1 DEF SessionsInv, FramesInForm, FrameInForm, TurnRuns
<1>5. CondemnedEnds'
  <2> SUFFICES ASSUME NEW s \in Sessions, Condemned(s)'
               PROVE  /\ map'[s] = None
                      /\ \A u \in Threads : InTurn(th'[u]) /\ th'[u].s = s => Ending(th[u])'
    BY DEF CondemnedEnds
  <2>1. Condemned(s) BY <1>1, TurnIsNoDrop DEF TurnRuns, Condemned
  <2>2. map[s] = None /\ \A u \in Threads : InTurn(th[u]) /\ th[u].s = s => Ending(th[u])
    BY <2>1 DEF SessionsInv, CondemnedEnds
  <2>3. ASSUME NEW u \in Threads, InTurn(th'[u]), th'[u].s = s, u # t PROVE Ending(th[u])'
    BY <1>1, <1>2, <2>3, <2>2 DEF SessionsInv, Owned, TurnRuns, Ending
  <2>4. InTurn(th'[t]) /\ th'[t].s = s => Ending(th[t])' BY <2>2 DEF TurnRuns
  <2> QED BY <2>2, <2>3, <2>4 DEF TurnRuns
<1> QED BY <1>3, <1>4, <1>5

\* A turn that has written nothing keeps what is on disk.
LEMMA TurnKeepsDisk ==
    ASSUME SessionsInv, NEW t \in Threads, TurnRuns(t), disk' = disk, ~ th'[t].saved,
           th[t].sess \in Session, th'[t].sess \in Session, th'[t].sess.turns >= th[t].sess.turns
    PROVE  DroppedLeaves' /\ DiskBehind' /\ AckedKept'
<1>1. \A u \in Threads : u # t => th'[u] = th[u] BY DEF TurnRuns, Alone
<1>2. DroppedLeaves' BY DEF SessionsInv, DroppedLeaves, TurnRuns
<1>3. DiskBehind'
  <2> SUFFICES ASSUME NEW s \in Sessions, disk[s] # None
               PROVE  /\ s \in started
                      /\ map[s] # None => map[s].turns >= disk[s].turns
                      /\ \A u \in Threads : InTurn(th'[u]) /\ th'[u].s = s =>
                                               th'[u].sess.turns >= disk[s].turns BY DEF DiskBehind, TurnRuns
  <2>1. disk[s].turns \in Nat BY DEF SessionsInv, TypeOK, Session
  <2>2. th[t].sess.turns \in Nat /\ th'[t].sess.turns \in Nat BY DEF Session
  <2>3. /\ s \in started /\ (map[s] # None => map[s].turns >= disk[s].turns)
        /\ \A u \in Threads : InTurn(th[u]) /\ th[u].s = s => th[u].sess.turns >= disk[s].turns
    BY DEF SessionsInv, DiskBehind
  <2>4. th'[t].s = s => th'[t].sess.turns >= disk[s].turns
    <3> HAVE th'[t].s = s
    <3>1. th[t].sess.turns >= disk[s].turns BY <2>3 DEF TurnRuns
    <3> QED BY <2>1, <2>2, <3>1
  <2> QED BY <1>1, <2>3, <2>4
<1>4. AckedKept' BY <1>1 DEF Kept, TurnRuns, SessionsInv, AckedKept
<1> QED BY <1>2, <1>3, <1>4

\* The model answers.
LEMMA RespondStep ==
    ASSUME SessionsInv, NEW t \in Threads, Respond(t)
    PROVE  SessionsInv'
<1>1. TypeOK /\ th[t].pc = "respond" /\ InTurn(th[t]) BY DEF SessionsInv, Respond, At, InTurn
<1>2. th[t].s \in Sessions /\ th[t].s \in started /\ FrameInForm(th[t]) BY <1>1, HasSession
<1>3. th[t].sess \in Session /\ ~ th[t].saved BY <1>1, <1>2 DEF FrameInForm
<1>4. PICK ok \in BOOLEAN, sess \in Session :
         /\ Moved(t, "apply", th[t].s, sess, th[t].entry, th[t].try, ok, th[t].gone, th[t].saved)
         /\ sess.turns >= th[t].sess.turns /\ sess.profile = th[t].sess.profile BY <1>1, <1>3, Responds
<1>5. InTurn(th'[t]) BY <1>4 DEF Moved, InTurn
<1>6. FrameInForm(th[t])' BY <1>2, <1>3, <1>4, <1>5 DEF FrameInForm, Moved, Respond
<1>7. TurnRuns(t) BY <1>1, <1>4, <1>5 DEF TurnRuns, Moved, Respond, Ending
<1>8. TypeOK' BY <1>1, <1>2, <1>4 DEF TypeOK, Respond, Moved, Alone
<1>9. EndHoldsLock' BY <1>1, <1>4 DEF EndHoldsLock, SessionsInv, Moved, Alone, Respond
<1>10. PendingOwned'
  <2> SUFFICES ASSUME NEW s \in pending'
               PROVE  \E u \in Threads : th'[u].pc = "apply" /\ th'[u].s = s BY DEF PendingOwned
  <2>1. CASE s = th[t].s BY <1>4, <2>1 DEF Moved
  <2>2. CASE s # th[t].s
    <3>1. PICK u \in Threads : th[u].pc = "apply" /\ th[u].s = s
      BY <2>2 DEF Respond, SessionsInv, PendingOwned
    <3> QED BY <1>1, <1>4, <3>1 DEF Moved, Alone
  <2> QED BY <2>1, <2>2
<1>11. DroppedLeaves' /\ DiskBehind' /\ AckedKept' BY <1>3, <1>4, <1>7, TurnKeepsDisk DEF Moved, Respond
<1> QED BY <1>6, <1>7, <1>8, <1>9, <1>10, <1>11, TurnKeepsOwners DEF SessionsInv

\* The pending actions are drained.
LEMMA ApplyStep ==
    ASSUME SessionsInv, NEW t \in Threads, Apply(t)
    PROVE  SessionsInv'
<1>1. TypeOK /\ th[t].pc = "apply" /\ InTurn(th[t]) /\ "finish" \in Points
  BY DEF SessionsInv, Apply, At, InTurn, Points
<1>2. th[t].s \in Sessions /\ th[t].s \in started /\ FrameInForm(th[t]) BY <1>1, HasSession
<1>3. th[t].sess \in Session /\ ~ th[t].saved BY <1>1, <1>2 DEF FrameInForm
<1>4. Moved(t, "finish", th[t].s, th[t].sess, th[t].entry, th[t].try, th[t].ok, th[t].gone, th[t].saved)
  BY <1>1, Going DEF Apply
<1>5. InTurn(th'[t]) BY <1>4 DEF Moved, InTurn
<1>6. FrameInForm(th[t])' BY <1>2, <1>3, <1>4, <1>5 DEF FrameInForm, Moved, Apply
<1>7. TurnRuns(t) BY <1>1, <1>4, <1>5 DEF TurnRuns, Moved, Apply, Ending
<1>8. TypeOK' BY <1>1, <1>4 DEF TypeOK, Apply, Moved, Alone
<1>9. EndHoldsLock' BY <1>1, <1>4 DEF EndHoldsLock, SessionsInv, Moved, Alone, Apply
<1>10. PendingOwned'
  <2> SUFFICES ASSUME NEW s \in pending, s # th[t].s
               PROVE  \E u \in Threads : th'[u].pc = "apply" /\ th'[u].s = s BY DEF PendingOwned, Apply
  <2>1. PICK u \in Threads : th[u].pc = "apply" /\ th[u].s = s BY DEF SessionsInv, PendingOwned
  <2> QED BY <1>4, <2>1 DEF Moved, Alone
<1>11. DroppedLeaves' /\ DiskBehind' /\ AckedKept'
  BY <1>3, <1>4, <1>7, TurnKeepsDisk DEF Moved, Session, Apply
<1> QED BY <1>6, <1>7, <1>8, <1>9, <1>10, <1>11, TurnKeepsOwners DEF SessionsInv

\* A step of a turn that is not draining keeps the pending actions owned.
LEMMA PendingKept ==
    ASSUME SessionsInv, NEW t \in Threads, Alone(t), th[t].pc # "apply", pending' = pending
    PROVE  PendingOwned'
BY DEF SessionsInv, PendingOwned, Alone

\* The end of a turn begins.
LEMMA FinishStep ==
    ASSUME SessionsInv, NEW t \in Threads, Finish(t)
    PROVE  SessionsInv'
<1>1. TypeOK /\ th[t].pc = "finish" /\ InTurn(th[t]) /\ lock = None BY DEF SessionsInv, Finish, At, InTurn
<1>2. th[t].s \in Sessions /\ th[t].s \in started /\ FrameInForm(th[t]) BY <1>1, HasSession
<1>3. th[t].sess \in Session /\ ~ th[t].saved BY <1>1, <1>2 DEF FrameInForm
<1>4. Moved(t, IF th[t].s \in dropped THEN "insert" ELSE "save", th[t].s, th[t].sess, th[t].entry,
            th[t].try, th[t].ok, th[t].s \in dropped, th[t].saved) BY <1>1, Finishes
<1>5. InTurn(th'[t]) BY <1>4 DEF Moved, InTurn
<1>6. FrameInForm(th[t])' BY <1>2, <1>3, <1>4, <1>5 DEF FrameInForm, Moved, Finish
<1>7. Ending(th[t]) => Ending(th[t])' BY <1>1, <1>4 DEF Moved, Ending
<1>8. TurnRuns(t) BY <1>1, <1>4, <1>5, <1>7 DEF TurnRuns, Moved, Finish
<1>9. TypeOK' BY <1>1, <1>4 DEF TypeOK, Finish, Moved, Alone
<1>10. EndHoldsLock' BY <1>1, ThreadIsSome, <1>4 DEF SessionsInv, EndHoldsLock, Moved, Alone, Finish
<1>11. PendingOwned' BY <1>1, <1>4, PendingKept DEF Moved, Finish
<1>12. DroppedLeaves' /\ DiskBehind' /\ AckedKept'
  <2>1. th'[t].sess = th[t].sess /\ th[t].sess.turns >= th[t].sess.turns BY <1>3, <1>4 DEF Moved, Session
  <2> QED BY <1>3, <1>4, <1>8, <2>1, TurnKeepsDisk DEF Moved, Finish
<1> QED BY <1>6, <1>8, <1>9, <1>10, <1>11, <1>12, TurnKeepsOwners DEF SessionsInv

\* The snapshot is written, or not.
LEMMA SaveStep ==
    ASSUME SessionsInv, NEW t \in Threads, Save(t)
    PROVE  SessionsInv'
<1>1. TypeOK /\ th[t].pc = "save" /\ InTurn(th[t]) BY DEF SessionsInv, Save, At, InTurn
<1>2. th[t].s \in Sessions /\ th[t].s \in started /\ FrameInForm(th[t]) BY <1>1, HasSession
<1>3. th[t].sess \in Session /\ ~ th[t].saved /\ lock = t /\ th[t].s \notin dropped
  BY <1>1, <1>2 DEF FrameInForm, SessionsInv, EndHoldsLock
<1>4. PICK written \in BOOLEAN :
         /\ Moved(t, "insert", th[t].s, th[t].sess, th[t].entry, th[t].try, th[t].ok, th[t].gone, written)
         /\ written => th[t].ok
         /\ disk' = IF written THEN [disk EXCEPT ![th[t].s] = th[t].sess] ELSE disk BY <1>1, Saves
<1>5. InTurn(th'[t]) BY <1>4 DEF Moved, InTurn
<1>6. FrameInForm(th[t])' BY <1>2, <1>3, <1>4, <1>5 DEF FrameInForm, Moved, Save
<1>7. ~ Ending(th[t]) BY <1>1 DEF Ending
<1>8. TurnRuns(t) BY <1>1, <1>4, <1>5, <1>7 DEF TurnRuns, Moved, Save
<1>9. TypeOK' BY <1>1, <1>2, <1>3, <1>4 DEF TypeOK, Save, Moved, Alone
<1>10. EndHoldsLock' BY <1>3, <1>4 DEF SessionsInv, EndHoldsLock, Moved, Alone, Save
<1>11. PendingOwned' BY <1>1, <1>4, PendingKept DEF Moved, Save
<1>12. DroppedLeaves' /\ DiskBehind' /\ AckedKept'
  <2>1. CASE ~ written BY <1>3, <1>4, <1>8, <2>1, TurnKeepsDisk DEF Moved, Session
  <2>2. CASE written
    <3> DEFINE x == th[t].s
               m == th[t].sess
    <3>1. disk'[x] = m /\ \A s \in Sessions : s # x => disk'[s] = disk[s] BY <1>1, <1>2, <1>4, <2>2 DEF TypeOK
    <3>2. m # None /\ m.turns \in Nat /\ m.turns >= m.turns BY <1>3, SessionsAssumption DEF Session
    <3>3. \A u \in Threads : u # t => th'[u] = th[u] BY <1>8 DEF TurnRuns, Alone
    <3>4. \A u \in Threads : InTurn(th[u]) /\ th[u].s = x => u = t BY <1>1 DEF SessionsInv, Owned
    <3>5. <<x, "dropped">> \notin events BY <1>1, <1>2, <1>7 DEF SessionsInv, CondemnedEnds, Condemned
    <3>6. DroppedLeaves' BY <3>1, <3>5, <1>8 DEF SessionsInv, DroppedLeaves, TurnRuns
    <3>7. th'[t].s = x /\ th'[t].sess = m /\ map[x] = None BY <1>1, <1>4 DEF Moved, SessionsInv, Owned
    <3>8. DiskBehind'
      <4> SUFFICES ASSUME NEW s \in Sessions, disk'[s] # None
                   PROVE  /\ s \in started
                          /\ map[s] # None => map[s].turns >= disk'[s].turns
                          /\ \A u \in Threads : InTurn(th'[u]) /\ th'[u].s = s =>
                                                   th'[u].sess.turns >= disk'[s].turns
        BY <1>8 DEF DiskBehind, TurnRuns
      <4>1. CASE s = x BY <1>2, <3>1, <3>2, <3>3, <3>4, <3>7, <4>1
      <4>2. CASE s # x BY <3>1, <3>3, <3>7, <4>2 DEF SessionsInv, DiskBehind
      <4> QED BY <4>1, <4>2
    <3>9. AckedKept'
      <4> SUFFICES ASSUME NEW s \in Sessions, Kept(s)
                   PROVE  /\ acked[s] > 0 => disk'[s] # None /\ disk'[s].turns >= acked[s]
                          /\ \A u \in Threads : th'[u].pc = "insert" /\ th'[u].saved /\ th'[u].s = s =>
                                                   disk'[s] = th'[u].sess
        BY <1>8 DEF AckedKept, TurnRuns, Kept
      <4>1. /\ acked[s] > 0 => disk[s] # None /\ disk[s].turns >= acked[s]
            /\ disk[s] # None => disk[s].turns \in Nat
            /\ acked[s] \in Nat BY <1>1 DEF SessionsInv, AckedKept, TypeOK, Session
      <4>2. \A u \in Threads : th'[u].pc = "insert" => u = t BY <1>3, <3>3 DEF SessionsInv, EndHoldsLock
      <4>3. CASE s = x BY <1>1, <4>3, <3>2, <4>1, <3>1, <3>7, <4>2 DEF SessionsInv, DiskBehind
      <4>4. CASE s # x BY <3>1, <3>7, <4>1, <4>2, <4>4
      <4> QED BY <4>3, <4>4
    <3> QED BY <3>6, <3>8, <3>9
  <2> QED BY <2>1, <2>2
<1> QED BY <1>6, <1>8, <1>9, <1>10, <1>11, <1>12, TurnKeepsOwners DEF SessionsInv

\* The session goes back into the map, or is gone.
LEMMA InsertStep ==
    ASSUME SessionsInv, NEW t \in Threads, Insert(t)
    PROVE  SessionsInv'
<1> DEFINE x == th[t].s
           m == th[t].sess
<1>1. TypeOK /\ th[t].pc = "insert" /\ InTurn(th[t]) BY DEF SessionsInv, Insert, At, InTurn
<1>2. x \in Sessions /\ x \in started /\ FrameInForm(th[t]) BY <1>1, HasSession
<1>3. m \in Session /\ m # None /\ m.turns \in Nat /\ lock = t /\ x \notin dropped /\ map[x] = None
  BY <1>1, <1>2, SessionsAssumption DEF FrameInForm, SessionsInv, EndHoldsLock, Owned, Session
<1>4. Moved(t, "result", x, None, th[t].entry, th[t].try, th[t].ok, th[t].gone, th[t].saved) BY <1>1, Inserts
<1>5. \A u \in Threads : u # t => th'[u] = th[u] BY <1>4 DEF Moved, Alone
<1>6. ~ InTurn(th'[t]) /\ ~ InDrop(th'[t]) /\ ~ InDrop(th[t]) /\ th'[t].s = x
  BY <1>1, <1>4, TurnIsNoDrop DEF Moved, InTurn, InDrop
<1>7. /\ map' = IF th[t].gone THEN map ELSE [map EXCEPT ![x] = m]
      /\ inflight' = inflight \ {x} /\ lock' = None
      /\ acked' = IF th[t].saved THEN [acked EXCEPT ![x] = m.turns] ELSE acked
      /\ UNCHANGED <<dropped, pending, fallback, disk, started, events, crashes>> BY DEF Insert
<1>8. /\ \A s \in Sessions : s # x => map'[s] = map[s] /\ acked'[s] = acked[s]
      /\ map'[x] = IF th[t].gone THEN None ELSE m
      /\ acked'[x] = IF th[t].saved THEN m.turns ELSE acked[x]
      /\ map' \in [Sessions -> Session \cup {None}] /\ acked' \in [Sessions -> Nat]
  BY <1>1, <1>2, <1>3, <1>7 DEF TypeOK
<1>9. \A u \in Threads : InTurn(th'[u]) => u # t /\ th'[u] = th[u] /\ InTurn(th[u]) /\ th[u].s # x
  BY <1>1, <1>5, <1>6 DEF SessionsInv, Owned
<1>10. TypeOK' BY <1>1, <1>4, <1>7, <1>8 DEF TypeOK, Moved, Alone
<1>11. FramesInForm'
  <2>1. FrameInForm(th[t])' BY <1>1, <1>2, <1>4, <1>6, <1>7 DEF FrameInForm, Moved
  <2>2. ASSUME NEW u \in Threads, u # t PROVE FrameInForm(th[u])'
    BY <1>5, <1>7, <2>2 DEF SessionsInv, FramesInForm, FrameInForm
  <2> QED BY <2>1, <2>2 DEF FramesInForm
<1>12. EndHoldsLock' BY <1>3, <1>4, <1>5 DEF SessionsInv, EndHoldsLock, Moved
<1>13. PendingOwned' BY <1>1, <1>4, <1>7, PendingKept DEF Moved
<1>14. Owned'
  <2>1. (\A u, v \in Threads : InTurn(th[u]) /\ InTurn(th[v]) /\ th[u].s = th[v].s => u = v)'
    BY <1>9 DEF SessionsInv, Owned
  <2>2. (\A u \in Threads : InTurn(th[u]) => map[th[u].s] = None)'
    <3> SUFFICES ASSUME NEW u \in Threads, InTurn(th'[u]) PROVE map'[th'[u].s] = None OBVIOUS
    <3>1. th[u].s \in Sessions /\ map[th[u].s] = None
      BY <1>9 DEF SessionsInv, Owned, FramesInForm, FrameInForm, TypeOK, InTurn
    <3> QED BY <1>8, <1>9, <3>1
  <2>3. (\A s \in Sessions : s \in inflight <=> \E u \in Threads : InTurn(th[u]) /\ th[u].s = s)'
    <3> SUFFICES ASSUME NEW s \in Sessions
                 PROVE  s \in inflight' <=> \E u \in Threads : InTurn(th'[u]) /\ th'[u].s = s OBVIOUS
    <3>1. s \in inflight <=> \E u \in Threads : InTurn(th[u]) /\ th[u].s = s BY DEF SessionsInv, Owned
    <3> QED BY <1>5, <1>7, <1>9, <3>1
  <2>4. (dropped \subseteq inflight)' BY <1>3, <1>7 DEF SessionsInv, Owned
  <2> QED BY <2>1, <2>2, <2>3, <2>4 DEF Owned
<1>15. CondemnedEnds'
  <2> SUFFICES ASSUME NEW s \in Sessions, Condemned(s)'
               PROVE  /\ map'[s] = None
                      /\ \A u \in Threads : InTurn(th'[u]) /\ th'[u].s = s => Ending(th[u])'
    BY DEF CondemnedEnds
  <2>1. Condemned(s) BY <1>5, <1>6, <1>7 DEF Condemned
  <2>2. map[s] = None /\ \A u \in Threads : InTurn(th[u]) /\ th[u].s = s => Ending(th[u])
    BY <2>1 DEF SessionsInv, CondemnedEnds
  <2>3. s = x => th[t].gone BY <1>1, <2>2 DEF Ending
  <2>4. map'[s] = None BY <1>8, <2>2, <2>3
  <2>5. ASSUME NEW u \in Threads, InTurn(th'[u]), th'[u].s = s PROVE Ending(th[u])'
    BY <1>7, <1>9, <2>2, <2>5 DEF Ending
  <2> QED BY <2>4, <2>5
<1>16. DroppedLeaves' BY <1>7 DEF SessionsInv, DroppedLeaves
<1>17. DiskBehind'
  <2> SUFFICES ASSUME NEW s \in Sessions, disk[s] # None
               PROVE  /\ s \in started
                      /\ map'[s] # None => map'[s].turns >= disk[s].turns
                      /\ \A u \in Threads : InTurn(th'[u]) /\ th'[u].s = s =>
                                               th'[u].sess.turns >= disk[s].turns BY <1>7 DEF DiskBehind
  <2>1. /\ s \in started /\ (map[s] # None => map[s].turns >= disk[s].turns)
        /\ \A u \in Threads : InTurn(th[u]) /\ th[u].s = s => th[u].sess.turns >= disk[s].turns
    BY DEF SessionsInv, DiskBehind
  <2> QED BY <1>1, <1>8, <1>9, <2>1
<1>18. AckedKept'
  <2> SUFFICES ASSUME NEW s \in Sessions, Kept(s)
               PROVE  /\ acked'[s] > 0 => disk[s] # None /\ disk[s].turns >= acked'[s]
                      /\ \A u \in Threads : th'[u].pc = "insert" /\ th'[u].saved /\ th'[u].s = s =>
                                               disk[s] = th'[u].sess BY <1>7 DEF AckedKept, Kept
  <2>1. /\ acked[s] > 0 => disk[s] # None /\ disk[s].turns >= acked[s]
        /\ \A u \in Threads : th[u].pc = "insert" /\ th[u].saved /\ th[u].s = s => disk[s] = th[u].sess
    BY DEF SessionsInv, AckedKept
  <2>2. \A u \in Threads : th'[u].pc # "insert" BY <1>3, <1>4, <1>5 DEF SessionsInv, EndHoldsLock, Moved
  <2>3. CASE s = x /\ th[t].saved BY <1>1, <1>8, <2>1, <2>3, <1>3, <2>2
  <2>4. CASE ~ (s = x /\ th[t].saved) BY <1>8, <2>1, <2>2, <2>4
  <2> QED BY <2>3, <2>4
<1> QED BY <1>10, <1>11, <1>12, <1>13, <1>14, <1>15, <1>16, <1>17, <1>18 DEF SessionsInv

\* A turn begins: the session leaves the map.
LEMMA TakeHitStep ==
    ASSUME SessionsInv, NEW t \in Threads, Take(t), map[th[t].s] # None
    PROVE  SessionsInv'
<1> DEFINE x == th[t].s
           m == map[x]
<1>1. TypeOK /\ th[t].pc = "take" /\ ~ InTurn(th[t]) /\ ~ InDrop(th[t])
  BY DEF SessionsInv, Take, At, InTurn, InDrop
<1>2. x \in Sessions /\ x \in started /\ FrameInForm(th[t]) BY <1>1, HasSession
<1>3. /\ Moved(t, "respond", x, m, th[t].entry, th[t].try, th[t].ok, th[t].gone, th[t].saved)
      /\ map' = [map EXCEPT ![x] = None] /\ inflight' = inflight \cup {x}
      /\ UNCHANGED events /\ m \in Session BY <1>1, <1>2, TakeTakes
<1>4. UNCHANGED <<dropped, pending, fallback, disk, lock, started, acked, crashes>> BY DEF Take
<1>5. \A u \in Threads : u # t => th'[u] = th[u] BY <1>3 DEF Moved, Alone
<1>6. InTurn(th'[t]) /\ ~ InDrop(th'[t]) /\ th'[t].s = x /\ th'[t].sess = m /\ th'[t].pc = "respond"
  BY <1>3, TurnIsNoDrop DEF Moved, InTurn
<1>7. \A s \in Sessions : map'[s] = IF s = x THEN None ELSE map[s] BY <1>1, <1>3 DEF TypeOK
<1>8. \A u \in Threads : InTurn(th[u]) => th[u].s # x /\ u # t BY <1>1 DEF SessionsInv, Owned
<1>9. TypeOK' BY <1>1, <1>2, <1>3, <1>4 DEF TypeOK, Moved, Alone
<1>10. FramesInForm'
  <2>1. FrameInForm(th[t])' BY <1>1, <1>2, <1>3, <1>4, <1>6 DEF FrameInForm, Moved
  <2>2. ASSUME NEW u \in Threads, u # t PROVE FrameInForm(th[u])'
    BY <1>4, <1>5, <2>2 DEF SessionsInv, FramesInForm, FrameInForm
  <2> QED BY <2>1, <2>2 DEF FramesInForm
<1>11. EndHoldsLock' BY <1>4, <1>5, <1>6 DEF SessionsInv, EndHoldsLock
<1>12. PendingOwned' BY <1>1, <1>3, <1>4, PendingKept DEF Moved
<1>13. Owned'
  <2>1. (\A u, v \in Threads : InTurn(th[u]) /\ InTurn(th[v]) /\ th[u].s = th[v].s => u = v)'
    BY <1>5, <1>6, <1>8 DEF SessionsInv, Owned
  <2>2. (\A u \in Threads : InTurn(th[u]) => map[th[u].s] = None)'
    <3> SUFFICES ASSUME NEW u \in Threads, InTurn(th'[u]), u # t PROVE map'[th'[u].s] = None
      BY <1>2, <1>6, <1>7
    <3>1. th[u].s \in Sessions /\ map[th[u].s] = None
      BY <1>5 DEF SessionsInv, Owned, FramesInForm, FrameInForm, TypeOK, InTurn
    <3> QED BY <1>5, <1>7, <3>1
  <2>3. (\A s \in Sessions : s \in inflight <=> \E u \in Threads : InTurn(th[u]) /\ th[u].s = s)'
    <3> SUFFICES ASSUME NEW s \in Sessions
                 PROVE  s \in inflight' <=> \E u \in Threads : InTurn(th'[u]) /\ th'[u].s = s OBVIOUS
    <3>1. s \in inflight <=> \E u \in Threads : InTurn(th[u]) /\ th[u].s = s BY DEF SessionsInv, Owned
    <3> QED BY <1>3, <1>5, <1>6, <1>8, <3>1
  <2>4. (dropped \subseteq inflight)' BY <1>3, <1>4 DEF SessionsInv, Owned
  <2> QED BY <2>1, <2>2, <2>3, <2>4 DEF Owned
<1>14. CondemnedEnds'
  <2> SUFFICES ASSUME NEW s \in Sessions, Condemned(s)'
               PROVE  /\ map'[s] = None
                      /\ \A u \in Threads : InTurn(th'[u]) /\ th'[u].s = s => Ending(th[u])'
    BY DEF CondemnedEnds
  <2>1. Condemned(s) BY <1>3, <1>5, <1>6 DEF Condemned
  <2>2. map[s] = None /\ \A u \in Threads : InTurn(th[u]) /\ th[u].s = s => Ending(th[u])
    BY <2>1 DEF SessionsInv, CondemnedEnds
  <2>3. ASSUME NEW u \in Threads, InTurn(th'[u]), th'[u].s = s PROVE Ending(th[u])'
    BY <1>4, <1>5, <1>6, <2>2, <2>3 DEF Ending
  <2> QED BY <1>7, <2>2, <2>3
<1>15. DroppedLeaves' BY <1>3, <1>4 DEF SessionsInv, DroppedLeaves
<1>16. DiskBehind'
  <2> SUFFICES ASSUME NEW s \in Sessions, disk[s] # None
               PROVE  /\ s \in started
                      /\ map'[s] # None => map'[s].turns >= disk[s].turns
                      /\ \A u \in Threads : InTurn(th'[u]) /\ th'[u].s = s =>
                                               th'[u].sess.turns >= disk[s].turns BY <1>4 DEF DiskBehind
  <2>1. /\ s \in started /\ (map[s] # None => map[s].turns >= disk[s].turns)
        /\ \A u \in Threads : InTurn(th[u]) /\ th[u].s = s => th[u].sess.turns >= disk[s].turns
    BY DEF SessionsInv, DiskBehind
  <2> QED BY <1>5, <1>6, <1>7, <2>1
<1>17. AckedKept' BY <1>3, <1>4, <1>5, <1>6 DEF Kept, SessionsInv, AckedKept
<1> QED BY <1>9, <1>10, <1>11, <1>12, <1>13, <1>14, <1>15, <1>16, <1>17 DEF SessionsInv

-----------------------------------------------------------------------------
(* Start, the end of a drop, and a crash *)

\* A session starts that nobody knows.
LEMMA StartStep ==
    ASSUME SessionsInv, NEW t \in Threads, AgentStart(t)
    PROVE  SessionsInv'
<1> DEFINE m == [turns |-> 0, profile |-> "desired", told |-> FALSE]
<1>1. PICK x \in Sessions \ started :
         /\ started' = started \cup {x}
         /\ map' = [map EXCEPT ![x] = m]
         /\ fallback' = [fallback EXCEPT ![x] = IF x \in Shell THEN "normal" ELSE "none"] BY DEF AgentStart
<1>2. UNCHANGED <<inflight, dropped, pending, disk, lock, th, events, acked, crashes>> BY DEF AgentStart
<1>3. TypeOK BY DEF SessionsInv
<1>4. m \in Session BY DEF Session
<1> HIDE DEF m
<1>5. /\ \A s \in Sessions : s # x => map'[s] = map[s] /\ fallback'[s] = fallback[s]
      /\ map'[x] = m /\ map' \in [Sessions -> Session \cup {None}]
      /\ fallback' \in [Sessions -> Entry] BY <1>1, <1>3, <1>4 DEF TypeOK, Entry
<1>6. \A u \in Threads : th[u].s # x /\ (th[u].s # None => th[u].s \in Sessions)
  BY <1>1, <1>3, SessionsAssumption DEF SessionsInv, FramesInForm, FrameInForm, TypeOK
<1>7. \A u \in Threads : InTurn(th[u]) \/ InDrop(th[u]) => th[u].s \in Sessions
  BY <1>3, HasSession DEF InTurn, InDrop
<1>8. TypeOK' BY <1>1, <1>2, <1>3, <1>5 DEF TypeOK
<1>9. FramesInForm'
  <2> SUFFICES ASSUME NEW u \in Threads PROVE FrameInForm(th[u])' BY DEF FramesInForm
  <2>1. FrameInForm(th[u]) BY DEF SessionsInv, FramesInForm
  <2>2. th[u].pc = "drop_disk" => fallback'[th[u].s] = "none"
    BY <1>5, <1>6, <1>7, <2>1 DEF FrameInForm, InDrop
  <2> QED BY <1>1, <1>2, <2>1, <2>2 DEF FrameInForm
<1>10. EndHoldsLock' /\ PendingOwned' BY <1>2 DEF SessionsInv, EndHoldsLock, PendingOwned
<1>11. Owned' BY <1>5, <1>6, <1>7, <1>2 DEF SessionsInv, Owned
<1>12. <<x, "dropped">> \notin events /\ disk[x] = None BY <1>1 DEF SessionsInv, DroppedLeaves, DiskBehind
<1>13. CondemnedEnds'
  <2> SUFFICES ASSUME NEW s \in Sessions, Condemned(s)'
               PROVE  /\ map'[s] = None
                      /\ \A u \in Threads : InTurn(th'[u]) /\ th'[u].s = s => Ending(th[u])'
    BY DEF CondemnedEnds
  <2>1. Condemned(s) /\ s # x BY <1>2, <1>6, <1>12 DEF Condemned
  <2>2. map[s] = None /\ \A u \in Threads : InTurn(th[u]) /\ th[u].s = s => Ending(th[u])
    BY <2>1 DEF SessionsInv, CondemnedEnds
  <2> QED BY <1>2, <1>5, <2>1, <2>2 DEF Ending
<1>14. DroppedLeaves' BY <1>1, <1>2, <1>5, <1>12 DEF SessionsInv, DroppedLeaves
<1>15. DiskBehind' BY <1>1, <1>2, <1>5, <1>12 DEF SessionsInv, DiskBehind
<1>16. AckedKept' BY <1>2 DEF SessionsInv, AckedKept, Kept
<1> QED BY <1>8, <1>9, <1>10, <1>11, <1>13, <1>14, <1>15, <1>16 DEF SessionsInv

\* drop_session deletes the snapshot, or fails to, and returns.
LEMMA DropDiskStep ==
    ASSUME SessionsInv, NEW t \in Threads, DropDisk(t)
    PROVE  SessionsInv'
<1> DEFINE x == th[t].s
           e == IF th[t].gone THEN "dropped" ELSE "missed"
<1>1. TypeOK /\ th[t].pc = "drop_disk" /\ ~ InTurn(th[t]) /\ InDrop(th[t])
  BY DEF SessionsInv, DropDisk, At, InTurn, InDrop
<1>2. x \in Sessions /\ x \in started /\ FrameInForm(th[t]) BY <1>1, HasSession
<1>3. fallback[x] = "none" BY <1>1, <1>2 DEF FrameInForm
<1>4. PICK deleted \in BOOLEAN :
         /\ disk' = IF deleted THEN [disk EXCEPT ![x] = None] ELSE disk
         /\ events' = IF deleted THEN events \cup {<<x, e>>} ELSE events BY DEF DropDisk
<1>5. UNCHANGED <<map, inflight, dropped, pending, fallback, lock, started, acked, crashes>> BY DEF DropDisk
<1>6. Moved(t, "idle", None, None, "none", "plain", FALSE, FALSE, FALSE)
  BY <1>1, Returning DEF DropDisk, AnswerKinds
<1>7. \A u \in Threads : u # t => th'[u] = th[u] BY <1>6 DEF Moved, Alone
<1>8. FrameInForm(th[t])' /\ ~ InTurn(th'[t]) /\ ~ InDrop(th'[t]) /\ th'[t].pc = "idle"
  BY <1>6, ReturnedInForm DEF Moved
<1>9. \A s \in Sessions : disk'[s] = IF deleted /\ s = x THEN None ELSE disk[s] BY <1>1, <1>4 DEF TypeOK
<1>10. e \in {"dropped", "missed"} /\ (e = "dropped" <=> th[t].gone) OBVIOUS
<1> HIDE DEF e
<1>11. \A s \in Sessions, k \in {"dropped", "missed"} :
          <<s, k>> \in events' <=> <<s, k>> \in events \/ (deleted /\ s = x /\ k = e) BY <1>4
<1>12. TypeOK'
  <2>1. events' \subseteq Sessions \X Events BY <1>1, <1>2, <1>4, <1>10 DEF TypeOK, Events
  <2>2. disk' \in [Sessions -> Session \cup {None}] BY <1>1, <1>4 DEF TypeOK
  <2> QED BY <1>1, <1>5, <1>6, <2>1, <2>2 DEF TypeOK, Moved, Alone
<1>13. FramesInForm'
  <2> SUFFICES ASSUME NEW u \in Threads, u # t PROVE FrameInForm(th[u])' BY <1>8 DEF FramesInForm
  <2> QED BY <1>5, <1>7 DEF SessionsInv, FramesInForm, FrameInForm
<1>14. EndHoldsLock' BY <1>5, <1>7, <1>8 DEF SessionsInv, EndHoldsLock
<1>15. PendingOwned' BY <1>1, <1>5, <1>6, PendingKept DEF Moved
<1>16. Owned' BY <1>1, <1>5, <1>7, <1>8 DEF SessionsInv, Owned
<1>17. CondemnedEnds'
  <2> SUFFICES ASSUME NEW s \in Sessions, Condemned(s)'
               PROVE  /\ map'[s] = None
                      /\ \A u \in Threads : InTurn(th'[u]) /\ th'[u].s = s => Ending(th[u])'
    BY DEF CondemnedEnds
  <2>1. Condemned(s)
    <3>1. CASE <<s, "dropped">> \in events' BY <1>1, <1>10, <1>11, <3>1 DEF Condemned
    <3>2. CASE <<s, "dropped">> \notin events' BY <1>7, <1>8, <3>2 DEF Condemned
    <3> QED BY <3>1, <3>2
  <2>2. map[s] = None /\ \A u \in Threads : InTurn(th[u]) /\ th[u].s = s => Ending(th[u])
    BY <2>1 DEF SessionsInv, CondemnedEnds
  <2> QED BY <1>5, <1>7, <1>8, <2>2 DEF Ending
<1>18. DroppedLeaves' BY <1>2, <1>3, <1>5, <1>9, <1>11 DEF SessionsInv, DroppedLeaves
<1>19. DiskBehind' BY <1>5, <1>7, <1>8, <1>9 DEF SessionsInv, DiskBehind
<1>20. AckedKept'
  <2> SUFFICES ASSUME NEW s \in Sessions, Kept(s)'
               PROVE  /\ acked[s] > 0 => disk'[s] # None /\ disk'[s].turns >= acked[s]
                      /\ \A u \in Threads : th'[u].pc = "insert" /\ th'[u].saved /\ th'[u].s = s =>
                                               disk'[s] = th'[u].sess BY <1>5 DEF AckedKept
  <2>1. Kept(s) /\ ~ (deleted /\ s = x) BY <1>10, <1>11 DEF Kept
  <2>2. disk'[s] = disk[s] BY <1>9, <2>1
  <2> QED BY <1>7, <1>8, <2>1, <2>2 DEF SessionsInv, AckedKept
<1> QED BY <1>12, <1>13, <1>14, <1>15, <1>16, <1>17, <1>18, <1>19, <1>20 DEF SessionsInv

\* What is on disk is what a boot finds.
LEMMA CrashStep ==
    ASSUME SessionsInv, Crash
    PROVE  SessionsInv'
<1>1. /\ map' = disk /\ inflight' = {} /\ dropped' = {} /\ pending' = {} /\ lock' = None
      /\ fallback' = [s \in Sessions |-> "none"] /\ th' = [t \in Threads |-> Idle("none")]
      /\ crashes' = crashes + 1 /\ UNCHANGED <<disk, started, events, acked>> BY DEF Crash
<1>2. /\ th' \in [Threads -> Calls]
      /\ \A u \in Threads : /\ th'[u].pc = "idle" /\ th'[u].s = None /\ ~ th'[u].saved
                            /\ ~ InTurn(th'[u]) /\ ~ InDrop(th'[u])
  BY <1>1, IdleInForm DEF AnswerKinds, InTurn, InDrop
<1>3. TypeOK' BY <1>1, <1>2 DEF Entry, SessionsInv, TypeOK
<1>4. FramesInForm' /\ EndHoldsLock' /\ PendingOwned' /\ Owned'
  BY <1>1, <1>2 DEF FramesInForm, FrameInForm, EndHoldsLock, PendingOwned, Owned
<1>5. DroppedLeaves' BY <1>1 DEF SessionsInv, DroppedLeaves
<1>6. CondemnedEnds' BY <1>1, <1>2 DEF SessionsInv, DroppedLeaves, CondemnedEnds, Condemned
<1>7. DiskBehind' BY <1>1, <1>2 DEF SessionsInv, TypeOK, Session, DiskBehind
<1>8. AckedKept' BY <1>1, <1>2 DEF SessionsInv, AckedKept, Kept
<1> QED BY <1>3, <1>4, <1>5, <1>6, <1>7, <1>8 DEF SessionsInv

\* A step that changes nothing.
LEMMA SessionsStutter ==
    ASSUME SessionsInv, UNCHANGED vars
    PROVE  SessionsInv'
BY DEF vars, SessionsInv, TypeOK, FramesInForm, FrameInForm, EndHoldsLock, Owned, PendingOwned,
       CondemnedEnds, Condemned, Ending, DroppedLeaves, DiskBehind, AckedKept, Kept

\* Every step keeps the invariant.
LEMMA SessionsStep ==
    ASSUME SessionsInv, [Next]_vars
    PROVE  SessionsInv'
<1>1. ASSUME NEW t \in Threads, Send(t) PROVE SessionsInv'
  BY <1>1, SendBeginStep, TakeMissStep, TakeHitStep, RespondStep, ApplyStep, FinishStep, SaveStep,
     InsertStep, ResultStep DEF Send
<1>2. ASSUME NEW t \in Threads, WithFallback(t) PROVE SessionsInv'
  BY <1>2, ProbeStep, SwapStep, RestoreStep, SetDegradedStep DEF WithFallback
<1>3. ASSUME NEW t \in Threads, Drop(t) PROVE SessionsInv'
  BY <1>3, DropMarkStep, DropMapStep, DropPendingStep, DropFallbackStep, DropDiskStep DEF Drop
<1> QED BY <1>1, <1>2, <1>3, StartStep, NotifyStep, CrashStep, SessionsStutter DEF Next

\* It holds before the first call.
LEMMA SessionsBegin ==
    ASSUME Init
    PROVE  SessionsInv
<1>1. "none" \in AnswerKinds /\ "none" \in Entry BY DEF AnswerKinds, Entry
<1>2. /\ th \in [Threads -> Calls]
      /\ \A u \in Threads : /\ th[u].pc = "idle" /\ th[u].s = None /\ ~ th[u].saved
                            /\ ~ InTurn(th[u]) /\ ~ InDrop(th[u]) BY <1>1, IdleInForm DEF Init, InTurn, InDrop
<1>3. TypeOK BY <1>1, <1>2 DEF Init, TypeOK
<1>4. FramesInForm /\ EndHoldsLock /\ PendingOwned /\ Owned
  BY <1>2 DEF Init, FramesInForm, FrameInForm, EndHoldsLock, PendingOwned, Owned
<1>5. CondemnedEnds /\ DroppedLeaves /\ DiskBehind
  BY <1>2 DEF Init, CondemnedEnds, Condemned, DroppedLeaves, DiskBehind
<1>6. AckedKept BY <1>2 DEF Init, AckedKept
<1> QED BY <1>3, <1>4, <1>5, <1>6 DEF SessionsInv

\* What the invariant says of the properties.
LEMMA SessionsInvSound ==
    ASSUME SessionsInv
    PROVE  TypeOK /\ SingleOwner /\ MetDropIsFinal /\ AckedIsDurable
<1>1. \A t \in Threads : Turn(t) <=> InTurn(th[t]) BY DEF Turn, InTurn
<1>2. SingleOwner
  <2>1. inflight = {th[t].s : t \in {u \in Threads : Turn(u)}}
    BY HasSession, <1>1 DEF InTurn, SessionsInv, Owned, TypeOK
  <2> QED BY <1>1, <2>1 DEF SingleOwner, SessionsInv, Owned
<1>3. MetDropIsFinal
  <2> SUFFICES ASSUME NEW s \in Sessions, <<s, "dropped">> \in events PROVE ~ Left(s) BY DEF MetDropIsFinal
  <2>1. map[s] = None /\ disk[s] = None /\ fallback[s] = "none"
    BY DEF SessionsInv, CondemnedEnds, Condemned, DroppedLeaves
  <2>2. s \in pending => s \in inflight BY DEF SessionsInv, PendingOwned, Owned, InTurn
  <2> QED BY <2>1, <2>2 DEF Left
<1>4. AckedIsDurable BY DEF SessionsInv, AckedKept, Kept, AckedIsDurable
<1> QED BY <1>2, <1>3, <1>4 DEF SessionsInv

\* However calls, turns, drops and crashes interleave, a session has one owner,
\* a session that a drop has met stays dropped, and a turn whose snapshot was
\* written survives a crash.
THEOREM SessionsSafe == Spec => [](TypeOK /\ SingleOwner /\ MetDropIsFinal /\ AckedIsDurable)
<1>1. Init => SessionsInv BY SessionsBegin
<1>2. SessionsInv /\ [Next]_vars => SessionsInv' BY SessionsStep
<1>3. SessionsInv => TypeOK /\ SingleOwner /\ MetDropIsFinal /\ AckedIsDurable BY SessionsInvSound
<1> QED BY <1>1, <1>2, <1>3, PTL DEF Spec

-----------------------------------------------------------------------------
(* The profile of a session, with one thread that sends with fallback *)

\* The session moves between the map and the call of t, or stays, and keeps
\* its profile.
Carries(t, s) ==
    /\ map'[s] # None => \/ map[s] # None /\ map'[s].profile = map[s].profile
                         \/ InTurn(th[t]) /\ th[t].s = s /\ map'[s] = th[t].sess
    /\ InTurn(th'[t]) /\ th'[t].s = s =>
          \/ InTurn(th[t]) /\ th[t].s = s /\ th'[t].sess.profile = th[t].sess.profile
          \/ map[s] # None /\ th'[t].sess = map[s]

\* A session that is carried along runs on the profile that it ran on.
LEMMA RunsOnCarried ==
    ASSUME NEW t \in Threads, NEW s \in Sessions, Alone(t), Carries(t, s), NEW p, RunsOn(s, p)
    PROVE  RunsOn(s, p)'
<1>1. map'[s] # None => map'[s].profile = p BY DEF Carries, RunsOn
<1>2. ASSUME NEW u \in Threads, InTurn(th'[u]), th'[u].s = s PROVE th'[u].sess.profile = p
  BY <1>2 DEF Carries, RunsOn, Alone
<1> QED BY <1>1, <1>2 DEF RunsOn

\* The one thread that sends with fallback.
LEMMA OneDriver ==
    ASSUME OneFallback, ProfileInv, NEW t \in Threads, NEW u \in Threads,
           "send_with_fallback" \in Ops[t], th[u].try # "plain"
    PROVE  u = t
BY DEF OneFallback, ProfileInv, PolicyInForm

\* A session that no call has steered meanwhile is tracked as it was.
LEMMA KeptTracked ==
    ASSUME NEW t \in Threads, NEW s \in Sessions, Alone(t), Carries(t, s), Tracked(s),
           fallback'[s] = fallback[s], events \subseteq events',
           th'[t].try # "plain" /\ th'[t].s = s => /\ th[t].try # "plain" /\ th[t].s = s
                                                   /\ Switched(th[t])' = Switched(th[t]),
           th[t].try # "plain" /\ th[t].s = s => th'[t].try # "plain" /\ th'[t].s = s
    PROVE  Tracked(s)'
<1> SUFFICES ASSUME fallback'[s] # "none", <<s, "outraced">> \notin events'
             PROVE  /\ \A u \in Threads : th'[u].s = s /\ th'[u].try # "plain" => RunsOn(s, Switched(th[u]))'
                    /\ (\A u \in Threads : th'[u].s = s => th'[u].try = "plain") =>
                          RunsOn(s, EntryProfile(s))' BY DEF Tracked
<1>1. /\ \A u \in Threads : th[u].s = s /\ th[u].try # "plain" => RunsOn(s, Switched(th[u]))
      /\ (\A u \in Threads : th[u].s = s => th[u].try = "plain") => RunsOn(s, EntryProfile(s)) BY DEF Tracked
<1>2. \A u \in Threads : u # t => th'[u] = th[u] BY DEF Alone
<1>3. ASSUME NEW u \in Threads, th'[u].s = s, th'[u].try # "plain"
      PROVE  RunsOn(s, Switched(th[u]))'
  <2>1. th[u].s = s /\ th[u].try # "plain" /\ Switched(th[u])' = Switched(th[u])
    <3>1. CASE u = t BY <1>3, <3>1
    <3>2. CASE u # t BY <1>2, <1>3, <3>2 DEF Switched, EntryProfile
    <3> QED BY <3>1, <3>2
  <2>2. RunsOn(s, Switched(th[u])) BY <1>1, <2>1
  <2> DEFINE p == Switched(th[u])
  <2>3. RunsOn(s, p) BY <2>2
  <2> HIDE DEF p
  <2>4. \A q : q = p => RunsOn(s, q)' BY <2>3, RunsOnCarried
  <2> QED BY <2>1, <2>4 DEF p, RunsOn
<1>4. ASSUME \A u \in Threads : th'[u].s = s => th'[u].try = "plain"
      PROVE  RunsOn(s, EntryProfile(s))'
  <2>1. \A u \in Threads : th[u].s = s => th[u].try = "plain" BY <1>2, <1>4
  <2>2. RunsOn(s, EntryProfile(s)) /\ EntryProfile(s)' = EntryProfile(s) BY <1>1, <2>1 DEF EntryProfile
  <2> DEFINE p == EntryProfile(s)
  <2>3. RunsOn(s, p) BY <2>2
  <2> HIDE DEF p
  <2>4. \A q : q = p => RunsOn(s, q)' BY <2>3, RunsOnCarried
  <2> QED BY <2>2, <2>4 DEF p, RunsOn
<1> QED BY <1>3, <1>4

\* The calls of the other threads stay in form when the entry that changes is
\* removed, or belongs to the one call with fallback.
LEMMA OthersInForm ==
    ASSUME OneFallback, SessionsInv, ProfileInv, NEW t \in Threads, Alone(t),
           \A s \in Sessions : \/ fallback'[s] \in {fallback[s], "none"}
                               \/ th[t].try # "plain"
                               \/ s \notin started,
           PolicyInForm(t, th[t])'
    PROVE  (\A u \in Threads : PolicyInForm(u, th[u]))'
<1> SUFFICES ASSUME NEW u \in Threads, u # t PROVE PolicyInForm(u, th[u])' OBVIOUS
<1>1. th'[u] = th[u] /\ PolicyInForm(u, th[u]) BY DEF Alone, ProfileInv
<1>2. th[u].try = "first" /\ fallback'[th[u].s] # "none" => fallback'[th[u].s] = th[u].entry
  <2> HAVE th[u].try = "first" /\ fallback'[th[u].s] # "none"
  <2>1. th[t].try = "plain" BY <1>1, OneDriver DEF PolicyInForm
  <2>2. th[u].pc \notin {"idle", "inject"} BY <1>1 DEF PolicyInForm
  <2>3. th[u].s \in Sessions /\ th[u].s \in started BY <2>2, HasSession
  <2>4. fallback'[th[u].s] = fallback[th[u].s] BY <2>1, <2>3
  <2> QED BY <1>1, <2>4 DEF PolicyInForm
<1> QED BY <1>1, <1>2 DEF PolicyInForm

\* A step that leaves the fallback policy where it is.
Smooth(t) ==
    /\ Alone(t) /\ \A s \in Sessions : Carries(t, s)
    /\ fallback' = fallback /\ events \subseteq events'
    /\ th'[t].try # "plain" <=> th[t].try # "plain"
    /\ th[t].try # "plain" => th'[t].s = th[t].s /\ Switched(th[t])' = Switched(th[t])

\* Such a step keeps every session on the profile that it should run on.
LEMMA SmoothStep ==
    ASSUME OneFallback, SessionsInv, ProfileInv, NEW t \in Threads, Smooth(t), PolicyInForm(t, th[t])'
    PROVE  ProfileInv'
<1>1. (\A u \in Threads : PolicyInForm(u, th[u]))' BY OthersInForm DEF Smooth
<1>2. (\A s \in Sessions : fallback[s] = "degraded" => HasFallback)' BY DEF Smooth, ProfileInv
<1>3. ASSUME NEW s \in Sessions PROVE Tracked(s)' BY <1>3, KeptTracked DEF Smooth, ProfileInv
<1> QED BY <1>1, <1>2, <1>3 DEF ProfileInv

\* A step of a call with fallback that steers session x.
Steers(t, x) ==
    /\ Alone(t) /\ events \subseteq events'
    /\ \A s \in Sessions \ {x} : Carries(t, s) /\ fallback'[s] = fallback[s]
    /\ th[t].try # "plain" => th[t].s = x
    /\ th'[t].try # "plain" => th'[t].s = x
    /\ fallback'[x] \in {fallback[x], "none"} \/ th[t].try # "plain"
    /\ fallback'[x] = "degraded" => HasFallback

\* Such a step is sound if it leaves x on the right profile.
LEMMA SteerStep ==
    ASSUME OneFallback, SessionsInv, ProfileInv, NEW t \in Threads, NEW x \in Sessions, Steers(t, x),
           PolicyInForm(t, th[t])', Tracked(x)'
    PROVE  ProfileInv'
<1>1. (\A u \in Threads : PolicyInForm(u, th[u]))' BY OthersInForm DEF Steers
<1>2. (\A s \in Sessions : fallback[s] = "degraded" => HasFallback)' BY DEF Steers, ProfileInv
<1>3. ASSUME NEW s \in Sessions, s # x PROVE Tracked(s)' BY <1>3, KeptTracked DEF Steers, ProfileInv
<1> QED BY <1>1, <1>2, <1>3 DEF ProfileInv

\* The session that the call of t steers.
LEMMA DrivenTracked ==
    ASSUME OneFallback, ProfileInv, NEW t \in Threads, NEW x \in Sessions, Alone(t),
           PolicyInForm(t, th[t])', th'[t].try # "plain", th'[t].s = x, RunsOn(x, Switched(th[t]))'
    PROVE  Tracked(x)'
<1>1. \A u \in Threads : th'[u].try # "plain" => u = t BY OneDriver DEF Alone, PolicyInForm
<1> QED BY <1>1 DEF Tracked

\* The session that the call of t has steered.
LEMMA LeftTracked ==
    ASSUME OneFallback, ProfileInv, NEW t \in Threads, NEW x \in Sessions, Alone(t),
           th[t].try # "plain", th'[t].try = "plain", RunsOn(x, EntryProfile(x))'
    PROVE  Tracked(x)'
<1>1. "send_with_fallback" \in Ops[t] BY DEF ProfileInv, PolicyInForm
<1>2. \A u \in Threads : th'[u].try = "plain" BY <1>1, OneDriver DEF Alone
<1> QED BY <1>2 DEF Tracked

\* A call without fallback leaves the policy alone.
LEMMA PlainStep ==
    ASSUME OneFallback, SessionsInv, ProfileInv, NEW t \in Threads, Alone(t),
           th[t].try = "plain", th'[t].try = "plain",
           th'[t].pc \notin {"probe", "swap", "restore", "degrade", "undegrade"},
           fallback' = fallback, events \subseteq events', \A s \in Sessions : Carries(t, s)
    PROVE  ProfileInv'
<1>1. Smooth(t) BY DEF Smooth
<1>2. PolicyInForm(t, th[t])' BY DEF PolicyInForm
<1> QED BY <1>1, <1>2, SmoothStep

\* A turn leaves the policy alone, from the take to the result.
LEMMA TurnSmooth ==
    ASSUME OneFallback, SessionsInv, ProfileInv, NEW t \in Threads, Alone(t),
           th[t].pc \in {"take", "respond", "apply", "finish", "save", "insert"},
           th'[t].pc \in {"respond", "apply", "finish", "save", "insert", "result"},
           th'[t].s = th[t].s, th'[t].entry = th[t].entry, th'[t].try = th[t].try,
           fallback' = fallback, events' = events, \A s \in Sessions : Carries(t, s)
    PROVE  ProfileInv'
<1>1. Switched(th[t])' = Switched(th[t]) BY DEF Switched
<1>2. Smooth(t) BY <1>1 DEF Smooth
<1>3. PolicyInForm(t, th[t]) BY DEF ProfileInv
<1>4. PolicyInForm(t, th[t])' BY <1>3 DEF PolicyInForm
<1> QED BY <1>2, <1>4, SmoothStep

\* A call that is at none of the points of the policy is plain.
LEMMA PlainPoints ==
    ASSUME ProfileInv, NEW t \in Threads,
           th[t].pc \in {"idle", "inject", "drop_map", "drop_pending", "drop_fallback", "drop_disk"}
    PROVE  th[t].try = "plain"
BY DEF ProfileInv, PolicyInForm

\* Where the map stays and no turn runs, every session is carried along.
LEMMA MapCarries ==
    ASSUME NEW t \in Threads, ~ InTurn(th'[t]),
           \A s \in Sessions : map'[s] # None => map[s] # None /\ map'[s].profile = map[s].profile
    PROVE  \A s \in Sessions : Carries(t, s)
BY DEF Carries

\* The steps of a turn.
LEMMA TurnProfile ==
    ASSUME OneFallback, SessionsInv, ProfileInv, NEW t \in Threads,
           \/ Take(t) /\ map[th[t].s] # None
           \/ Respond(t) \/ Apply(t) \/ Finish(t) \/ Save(t) \/ Insert(t)
    PROVE  ProfileInv'
<1>1. TypeOK BY DEF SessionsInv
<1>2. CASE Take(t) /\ map[th[t].s] # None
  <2>1. th[t].pc = "take" /\ th[t].s \in Sessions BY <1>2, HasSession DEF Take, At
  <2>2. /\ Moved(t, "respond", th[t].s, map[th[t].s], th[t].entry, th[t].try, th[t].ok, th[t].gone,
                 th[t].saved)
        /\ map' = [map EXCEPT ![th[t].s] = None] BY <1>1, <1>2, <2>1, TakeTakes
  <2>3. \A s \in Sessions : Carries(t, s) BY <1>1, <1>2, <2>1, <2>2 DEF Carries, TypeOK, Moved
  <2>4. fallback' = fallback /\ events' = events BY <1>2 DEF Take
  <2> QED BY <2>1, <2>2, <2>3, <2>4, TurnSmooth DEF Moved
<1>3. CASE Respond(t)
  <2>1. th[t].pc = "respond" /\ InTurn(th[t]) BY <1>3 DEF Respond, At, InTurn
  <2>2. th[t].sess \in Session BY <2>1 DEF SessionsInv, FramesInForm, FrameInForm
  <2>3. PICK ok \in BOOLEAN, sess \in Session :
           /\ Moved(t, "apply", th[t].s, sess, th[t].entry, th[t].try, ok, th[t].gone, th[t].saved)
           /\ sess.turns >= th[t].sess.turns /\ sess.profile = th[t].sess.profile
    BY <1>1, <1>3, <2>2, Responds
  <2>4. fallback' = fallback /\ events' = events /\ map' = map BY <1>3 DEF Respond
  <2>5. \A s \in Sessions : Carries(t, s) BY <2>1, <2>3, <2>4 DEF Carries, Moved
  <2> QED BY <2>1, <2>3, <2>4, <2>5, TurnSmooth DEF Moved
<1>4. CASE Apply(t)
  <2>1. th[t].pc = "apply" /\ InTurn(th[t]) /\ "finish" \in Points BY <1>4 DEF Apply, At, InTurn, Points
  <2>2. Moved(t, "finish", th[t].s, th[t].sess, th[t].entry, th[t].try, th[t].ok, th[t].gone, th[t].saved)
    BY <1>1, <1>4, <2>1, Going DEF Apply
  <2>3. fallback' = fallback /\ events' = events /\ map' = map BY <1>4 DEF Apply
  <2>4. \A s \in Sessions : Carries(t, s) BY <2>1, <2>2, <2>3 DEF Carries, Moved
  <2> QED BY <2>1, <2>2, <2>3, <2>4, TurnSmooth DEF Moved
<1>5. CASE Finish(t)
  <2>1. th[t].pc = "finish" /\ InTurn(th[t]) BY <1>5 DEF Finish, At, InTurn
  <2>2. PICK pc \in {"save", "insert"}, gone \in BOOLEAN :
          Moved(t, pc, th[t].s, th[t].sess, th[t].entry, th[t].try, th[t].ok, gone, th[t].saved)
    <3> DEFINE pc == IF th[t].s \in dropped THEN "insert" ELSE "save"
               gone == th[t].s \in dropped
    <3>1. Moved(t, pc, th[t].s, th[t].sess, th[t].entry, th[t].try, th[t].ok, gone, th[t].saved)
      BY <1>1, <1>5, Finishes
    <3>2. pc \in {"save", "insert"} /\ gone \in BOOLEAN OBVIOUS
    <3> HIDE DEF pc, gone
    <3> QED BY <3>1, <3>2
  <2>3. fallback' = fallback /\ events' = events /\ map' = map BY <1>5 DEF Finish
  <2>4. \A s \in Sessions : Carries(t, s) BY <2>1, <2>2, <2>3 DEF Carries, Moved
  <2> QED BY <2>1, <2>2, <2>3, <2>4, TurnSmooth DEF Moved
<1>6. CASE Save(t)
  <2>1. th[t].pc = "save" /\ InTurn(th[t]) BY <1>6 DEF Save, At, InTurn
  <2>2. PICK written \in BOOLEAN :
          Moved(t, "insert", th[t].s, th[t].sess, th[t].entry, th[t].try, th[t].ok, th[t].gone, written)
    BY <1>1, <1>6, Saves
  <2>3. fallback' = fallback /\ events' = events /\ map' = map BY <1>6 DEF Save
  <2>4. \A s \in Sessions : Carries(t, s) BY <2>1, <2>2, <2>3 DEF Carries, Moved
  <2> QED BY <2>1, <2>2, <2>3, <2>4, TurnSmooth DEF Moved
<1>7. CASE Insert(t)
  <2>1. th[t].pc = "insert" /\ InTurn(th[t]) BY <1>7 DEF Insert, At, InTurn
  <2>2. Moved(t, "result", th[t].s, None, th[t].entry, th[t].try, th[t].ok, th[t].gone, th[t].saved)
    BY <1>1, <1>7, Inserts
  <2>3. /\ fallback' = fallback /\ events' = events
        /\ map' = IF th[t].gone THEN map ELSE [map EXCEPT ![th[t].s] = th[t].sess] BY <1>7 DEF Insert
  <2>4. ~ InTurn(th'[t]) BY <2>2 DEF Moved, InTurn
  <2>5. \A s \in Sessions : Carries(t, s) BY <1>1, <2>1, <2>3, <2>4 DEF Carries, TypeOK
  <2> QED BY <2>1, <2>2, <2>3, <2>5, TurnSmooth DEF Moved
<1> QED BY <1>2, <1>3, <1>4, <1>5, <1>6, <1>7

\* The steps of a drop.
LEMMA DropProfile ==
    ASSUME OneFallback, SessionsInv, ProfileInv, NEW t \in Threads, Drop(t)
    PROVE  ProfileInv'
<1>1. TypeOK BY DEF SessionsInv
<1>2. CASE DropMark(t)
  <2>1. PICK s \in started : Moved(t, "drop_map", s, None, "none", "plain", FALSE, s \in inflight, FALSE)
    BY <1>1, <1>2, DropBegins
  <2>2. th[t].try = "plain" BY <1>1, <1>2, DropBegins, PlainPoints
  <2>3. ~ InTurn(th'[t]) BY <2>1 DEF Moved, InTurn
  <2>4. map' = map /\ fallback' = fallback /\ events' = events BY <1>2 DEF DropMark
  <2>5. \A x \in Sessions : Carries(t, x) BY <2>3, <2>4, MapCarries
  <2> QED BY <2>1, <2>2, <2>4, <2>5, PlainStep DEF Moved
<1>3. CASE DropMap(t)
  <2>1. th[t].pc = "drop_map" /\ th[t].s \in Sessions BY <1>3, HasSession DEF DropMap, At
  <2>2. PICK gone \in BOOLEAN : Moved(t, "drop_pending", th[t].s, th[t].sess, th[t].entry, th[t].try,
                                      th[t].ok, gone, th[t].saved) BY <1>1, CallFields, <1>3, DropsMap
  <2>3. th[t].try = "plain" BY <2>1, PlainPoints
  <2>4. ~ InTurn(th'[t]) BY <2>2 DEF Moved, InTurn
  <2>5. fallback' = fallback /\ events' = events /\ map' = [map EXCEPT ![th[t].s] = None] BY <1>3 DEF DropMap
  <2>6. \A s \in Sessions : Carries(t, s) BY <1>1, <2>1, <2>4, <2>5, MapCarries DEF TypeOK
  <2> QED BY <2>2, <2>3, <2>5, <2>6, PlainStep DEF Moved
<1>4. CASE DropPending(t)
  <2>1. th[t].pc = "drop_pending" /\ "drop_fallback" \in Points BY <1>4 DEF DropPending, At, Points
  <2>2. Moved(t, "drop_fallback", th[t].s, th[t].sess, th[t].entry, th[t].try, th[t].ok, th[t].gone,
              th[t].saved) BY <1>1, <1>4, <2>1, Going DEF DropPending
  <2>3. th[t].try = "plain" BY <2>1, PlainPoints
  <2>4. ~ InTurn(th'[t]) BY <2>2 DEF Moved, InTurn
  <2>5. fallback' = fallback /\ events' = events /\ map' = map BY <1>4 DEF DropPending
  <2>6. \A s \in Sessions : Carries(t, s) BY <2>4, <2>5, MapCarries
  <2> QED BY <2>2, <2>3, <2>5, <2>6, PlainStep DEF Moved
<1>5. CASE DropFallback(t)
  <2>1. th[t].pc = "drop_fallback" /\ "drop_disk" \in Points /\ th[t].s \in Sessions
    BY <1>5, HasSession DEF DropFallback, At, Points
  <2>2. Moved(t, "drop_disk", th[t].s, th[t].sess, th[t].entry, th[t].try, th[t].ok, th[t].gone,
              th[t].saved) BY <1>1, <1>5, <2>1, Going DEF DropFallback
  <2>3. th[t].try = "plain" BY <2>1, PlainPoints
  <2>4. ~ InTurn(th'[t]) BY <2>2 DEF Moved, InTurn
  <2>5. events' = events /\ map' = map /\ fallback' = [fallback EXCEPT ![th[t].s] = "none"]
    BY <1>5 DEF DropFallback
  <2>6. \A s \in Sessions : Carries(t, s) BY <2>4, <2>5, MapCarries
  <2>7. fallback'[th[t].s] = "none" /\ \A s \in Sessions \ {th[t].s} : fallback'[s] = fallback[s]
    BY <1>1, <2>1, <2>5 DEF TypeOK
  <2>8. Steers(t, th[t].s) BY <2>2, <2>3, <2>5, <2>6, <2>7 DEF Steers, Moved
  <2>9. PolicyInForm(t, th[t])' BY <2>2, <2>3 DEF PolicyInForm, Moved
  <2> DEFINE x == th[t].s
  <2>10. x \in Sessions /\ Steers(t, x) /\ fallback'[x] = "none" BY <2>1, <2>7, <2>8
  <2> HIDE DEF x
  <2>11. \A y \in Sessions : y = x => Tracked(y)' BY <2>10 DEF Tracked
  <2> QED BY <2>9, <2>10, <2>11, SteerStep
<1>6. CASE DropDisk(t)
  <2>1. th[t].pc = "drop_disk" /\ Answers(t, "ok") /\ "ok" \in AnswerKinds
    BY <1>6 DEF DropDisk, At, AnswerKinds
  <2>2. Moved(t, "idle", None, None, "none", "plain", FALSE, FALSE, FALSE) BY <1>1, <2>1, Returning
  <2>3. th[t].try = "plain" BY <2>1, PlainPoints
  <2>4. ~ InTurn(th'[t]) BY <2>2 DEF Moved, InTurn
  <2>5. fallback' = fallback /\ events \subseteq events' /\ map' = map BY <1>6 DEF DropDisk
  <2>6. \A s \in Sessions : Carries(t, s) BY <2>4, <2>5, MapCarries
  <2> QED BY <2>2, <2>3, <2>5, <2>6, PlainStep DEF Moved
<1> QED BY <1>2, <1>3, <1>4, <1>5, <1>6 DEF Drop

\* The steps of a notice.
LEMMA NotifyProfile ==
    ASSUME OneFallback, SessionsInv, ProfileInv, NEW t \in Threads, Notify(t)
    PROVE  ProfileInv'
<1>1. TypeOK BY DEF SessionsInv
<1>2. CASE NotifyList(t)
  BY <1>1, <1>2, NotifyBegins, PlainPoints, MapCarries, PlainStep DEF Moved, InTurn, NotifyList
<1>3. CASE NotifyEnd(t)
  <2>1. th[t].pc = "inject" /\ Answers(t, "ok") /\ "ok" \in AnswerKinds BY <1>3 DEF NotifyEnd, At, AnswerKinds
  <2>2. Moved(t, "idle", None, None, "none", "plain", FALSE, FALSE, FALSE) BY <1>1, <2>1, Returning
  <2>3. th[t].try = "plain" /\ ~ InTurn(th'[t]) BY <2>1, <2>2, PlainPoints DEF Moved, InTurn
  <2>4. fallback' = fallback /\ events' = events /\ map' = map BY <1>3 DEF NotifyEnd
  <2>5. \A s \in Sessions : Carries(t, s) BY <2>3, <2>4, MapCarries
  <2> QED BY <2>2, <2>3, <2>4, <2>5, PlainStep DEF Moved
<1>4. CASE NotifyInject(t)
  <2>1. Moved(t, th[t].pc, th[t].s, th[t].sess, th[t].entry, th[t].try, th[t].ok, th[t].gone, th[t].saved)
    BY <1>1, <1>4, Injects
  <2>2. th[t].pc = "inject" /\ th[t].todo \subseteq Sessions BY <1>1, <1>4, CallFields DEF NotifyInject, At
  <2>3. PICK s \in th[t].todo : map' = IF map[s] = None THEN map ELSE [map EXCEPT ![s].told = TRUE]
    BY <1>4 DEF NotifyInject
  <2>4. s \in Sessions BY <2>2
  <2>5. map[s] # None => [map[s] EXCEPT !.told = TRUE].profile = map[s].profile
    BY <1>1, <2>4 DEF TypeOK, Session
  <2>6. \A x \in Sessions : map'[x] # None => map[x] # None /\ map'[x].profile = map[x].profile
    BY <1>1, <2>3, <2>4, <2>5 DEF TypeOK
  <2>7. th[t].try = "plain" /\ ~ InTurn(th'[t]) BY <2>1, <2>2, PlainPoints DEF Moved, InTurn
  <2>8. fallback' = fallback /\ events' = events BY <1>4 DEF NotifyInject
  <2>9. \A x \in Sessions : Carries(t, x) BY <2>6, <2>7, MapCarries
  <2> QED BY <2>1, <2>2, <2>7, <2>8, <2>9, PlainStep DEF Moved
<1> QED BY <1>2, <1>3, <1>4 DEF Notify

\* A session that is in the map is in no turn: after a switch it runs on the
\* profile that it was switched to.
LEMMA SwappedRuns ==
    ASSUME SessionsInv, NEW t \in Threads, NEW s \in Sessions, map[s] # None,
           NEW p \in {"desired", "fallback"}, map' = Swapped(s, p), Alone(t), ~ InTurn(th'[t])
    PROVE  /\ RunsOn(s, p)'
           /\ \A x \in Sessions \ {s} : Carries(t, x)
<1>1. /\ map'[s].profile = p
      /\ \A x \in Sessions \ {s} : map'[x] = map[x] BY SwappedMap DEF SessionsInv
<1>2. \A u \in Threads : InTurn(th'[u]) => th'[u].s # s BY DEF Alone, SessionsInv, Owned
<1> QED BY <1>1, <1>2 DEF RunsOn, Carries

\* A send begins, with the fallback policy if the session has an entry.
LEMMA SendBeginProfile ==
    ASSUME OneFallback, SessionsInv, ProfileInv, NEW t \in Threads, SendBegin(t)
    PROVE  ProfileInv'
<1>1. TypeOK BY DEF SessionsInv
<1>2. PICK s \in started, op \in {"send", "send_with_fallback"} \cap Ops[t] :
         LET e == IF op = "send" THEN "none" ELSE fallback[s]
         IN  Moved(t, IF e = "degraded" THEN "probe" ELSE "take", s, None, e,
                   IF e = "none" THEN "plain" ELSE "first", FALSE, FALSE, FALSE) BY <1>1, SendBegins
<1> DEFINE e == IF op = "send" THEN "none" ELSE fallback[s]
           pc == IF e = "degraded" THEN "probe" ELSE "take"
           try == IF e = "none" THEN "plain" ELSE "first"
<1>3. Moved(t, pc, s, None, e, try, FALSE, FALSE, FALSE) BY <1>2
<1>4. /\ e \in Entry /\ s \in Sessions
      /\ e # "none" => e = fallback[s] /\ "send_with_fallback" \in Ops[t]
      /\ pc \in {"probe", "take"} /\ (pc = "probe" <=> e = "degraded")
      /\ try \in {"plain", "first"} /\ (try = "plain" <=> e = "none") BY <1>1, <1>2 DEF TypeOK, Entry
<1> HIDE DEF e, pc, try
<1>5. th[t].try = "plain" BY <1>1, SendBegins, PlainPoints
<1>6. ~ InTurn(th'[t]) BY <1>3, <1>4 DEF Moved, InTurn
<1>7. map' = map /\ fallback' = fallback /\ events' = events BY DEF SendBegin
<1>8. \A x \in Sessions : Carries(t, x) BY <1>6, <1>7, MapCarries
<1>9. CASE e = "none" BY <1>3, <1>4, <1>5, <1>7, <1>8, <1>9, PlainStep DEF Moved
<1>10. CASE e # "none"
  <2>1. /\ th'[t].try = "first" /\ th'[t].s = s /\ th'[t].entry = fallback[s] /\ th'[t].pc = pc
        /\ Alone(t) BY <1>3, <1>4, <1>10 DEF Moved
  <2>2. PolicyInForm(t, th[t])' BY <1>4, <1>7, <1>10, <2>1 DEF PolicyInForm
  <2>3. Steers(t, s) BY <1>5, <1>7, <1>8, <2>1, <1>4 DEF Steers, ProfileInv
  <2>4. Switched(th[t])' = EntryProfile(s) BY <1>4, <1>7, <1>10, <2>1 DEF Switched, EntryProfile
  <2>5. Tracked(s)'
    <3>1. CASE fallback[s] # "none" /\ <<s, "outraced">> \notin events
      <4>1. \A u \in Threads : th[u].try = "plain" BY <1>4, <1>5, <1>10, OneDriver
      <4>2. RunsOn(s, EntryProfile(s)) BY <1>4, <3>1, <4>1 DEF ProfileInv, Tracked
      <4>3. RunsOn(s, EntryProfile(s)) => RunsOn(s, Switched(th[t]))'
        BY <1>6, <1>7, <2>1, <2>4 DEF RunsOn, Alone
      <4> QED BY <1>4, <2>1, <2>2, <4>2, <4>3, DrivenTracked
    <3>2. CASE ~ (fallback[s] # "none" /\ <<s, "outraced">> \notin events) BY <1>7, <3>2 DEF Tracked
    <3> QED BY <3>1, <3>2
  <2> QED BY <1>4, <2>2, <2>3, <2>5, SteerStep
<1> QED BY <1>9, <1>10

\* The profile that the session of a call with fallback runs on.
LEMMA SteeredRuns ==
    ASSUME ProfileInv, NEW t \in Threads, NEW x \in Sessions, th[t].s = x, th[t].try # "plain",
           fallback[x] # "none", <<x, "outraced">> \notin events
    PROVE  RunsOn(x, Switched(th[t]))
BY DEF ProfileInv, Tracked

\* A call with fallback returns, and leaves its session on the profile that
\* its entry stands for.
LEMMA ReturnProfile ==
    ASSUME OneFallback, SessionsInv, ProfileInv, NEW t \in Threads, NEW x \in Sessions,
           th[t].s = x, th[t].try # "plain",
           Moved(t, "idle", None, None, "none", "plain", FALSE, FALSE, FALSE),
           map' = map, fallback' = fallback, events \subseteq events', ~ InTurn(th[t]),
           \/ <<x, "outraced">> \in events'
           \/ fallback[x] # "none" => Switched(th[t]) = EntryProfile(x)
    PROVE  ProfileInv'
<1>1. ~ InTurn(th'[t]) /\ th'[t].try = "plain" /\ Alone(t) BY DEF Moved, InTurn
<1>2. \A s \in Sessions : Carries(t, s) BY <1>1, MapCarries
<1>3. Steers(t, x) BY <1>1, <1>2 DEF Steers, ProfileInv
<1>4. PolicyInForm(t, th[t])' BY DEF PolicyInForm, Moved
<1>5. Tracked(x)'
  <2>1. CASE fallback[x] # "none" /\ <<x, "outraced">> \notin events'
    BY <2>1, SteeredRuns, <1>1, LeftTracked DEF RunsOn, EntryProfile, Alone
  <2>2. CASE ~ (fallback[x] # "none" /\ <<x, "outraced">> \notin events') BY <2>2 DEF Tracked
  <2> QED BY <2>1, <2>2
<1> QED BY <1>3, <1>4, <1>5, SteerStep

\* A call with fallback goes on, with its session on the profile that the next
\* point stands for.
LEMMA SteerOn ==
    ASSUME OneFallback, SessionsInv, ProfileInv, NEW t \in Threads, NEW x \in Sessions,
           Alone(t), th[t].s = x, th[t].try # "plain", th'[t].s = x, th'[t].try # "plain",
           PolicyInForm(t, th[t])', fallback' = fallback, events \subseteq events',
           \A s \in Sessions \ {x} : Carries(t, s),
           <<x, "outraced">> \in events' \/ RunsOn(x, Switched(th[t]))'
    PROVE  ProfileInv'
<1>1. Steers(t, x) BY DEF Steers, ProfileInv
<1>2. Tracked(x)' BY DrivenTracked DEF Tracked
<1> QED BY <1>1, <1>2, SteerStep

\* A degraded session is switched to the desired profile before the send.
LEMMA ProbeProfile ==
    ASSUME OneFallback, SessionsInv, ProfileInv, NEW t \in Threads, Probe(t)
    PROVE  ProfileInv'
<1>1. TypeOK /\ th[t].pc = "probe" /\ ~ InTurn(th[t]) /\ PolicyInForm(t, th[t])
  BY DEF SessionsInv, Probe, At, InTurn, ProfileInv
<1>2. PICK x \in Sessions : th[t].s = x BY <1>1, HasSession
<1>3. th[t].try = "first" /\ fallback' = fallback /\ events' = events BY <1>1 DEF PolicyInForm, Probe
<1>4. CASE map[x] = None BY <1>2, <1>4, <1>1, <1>3, Returning, ReturnProfile DEF Probe, AnswerKinds, Switched
<1>5. CASE map[x] # None
  <2>1. Goes(t, "take") /\ map' = Swapped(x, "desired") /\ "take" \in Points BY <1>2, <1>5 DEF Probe, Points
  <2>2. Moved(t, "take", x, th[t].sess, th[t].entry, "first", th[t].ok, th[t].gone, th[t].saved)
    BY <1>1, <1>2, <1>3, <2>1, Going
  <2>3. ~ InTurn(th'[t]) /\ Alone(t) BY <2>2 DEF Moved, InTurn
  <2>4. RunsOn(x, "desired")' /\ \A s \in Sessions \ {x} : Carries(t, s) BY <1>5, <2>1, <2>3, SwappedRuns
  <2>5. Switched(th[t])' = "desired" BY <2>2 DEF Moved, Switched
  <2>6. RunsOn(x, Switched(th[t]))' BY <2>4, <2>5 DEF RunsOn
  <2>7. PolicyInForm(t, th[t])' BY <1>1, <1>2, <1>3, <2>2 DEF PolicyInForm, Moved
  <2> QED BY <1>2, <1>3, <2>2, <2>3, <2>4, <2>6, <2>7, SteerOn DEF Moved
<1> QED BY <1>4, <1>5

\* A send that does not find its session.
LEMMA TakeMissProfile ==
    ASSUME OneFallback, SessionsInv, ProfileInv, NEW t \in Threads, Take(t), map[th[t].s] = None
    PROVE  ProfileInv'
<1>1. TypeOK /\ th[t].pc = "take" /\ PolicyInForm(t, th[t]) BY DEF SessionsInv, Take, At, ProfileInv
<1>2. PICK x \in Sessions : th[t].s = x BY <1>1, HasSession
<1>3. /\ Moved(t, "result", th[t].s, th[t].sess, th[t].entry, th[t].try, FALSE, th[t].gone, th[t].saved)
      /\ UNCHANGED <<map, inflight>> BY <1>1, TakeMisses
<1>4. fallback' = fallback BY DEF Take
<1>5. ~ InTurn(th'[t]) /\ Alone(t) BY <1>3 DEF Moved, InTurn
<1>6. \A s \in Sessions : Carries(t, s) BY <1>3, <1>5, MapCarries
<1>7. CASE th[t].try = "plain" BY <1>7, <1>3, <1>4, <1>5, <1>6, PlainStep DEF Take, Moved
<1>8. CASE th[t].try # "plain"
  <2>1. events' = events \cup {<<x, "outraced">>} BY <1>2, <1>8 DEF Take, Missing
  <2>2. PolicyInForm(t, th[t])' BY <1>1, <1>3, <1>4 DEF PolicyInForm, Moved
  <2> QED BY <1>2, <1>3, <1>4, <1>5, <1>6, <1>8, <2>1, <2>2, SteerOn DEF Moved
<1> QED BY <1>7, <1>8

\* A send has ended: a call with fallback goes on or returns.
LEMMA ResultProfile ==
    ASSUME OneFallback, SessionsInv, ProfileInv, NEW t \in Threads, Result(t)
    PROVE  ProfileInv'
<1>1. TypeOK /\ th[t].pc = "result" /\ ~ InTurn(th[t]) /\ PolicyInForm(t, th[t])
  BY DEF SessionsInv, Result, At, InTurn, ProfileInv
<1>2. PICK x \in Sessions : th[t].s = x BY <1>1, HasSession
<1>3. map' = map /\ fallback' = fallback /\ events' = events BY DEF Result
<1>4. /\ th[t].answer \in AnswerKinds /\ "ok" \in AnswerKinds
      /\ th[t].try \in {"plain", "first", "second"} /\ th[t].ok \in BOOLEAN
  BY <1>1, CallFields DEF AnswerKinds
<1>5. ASSUME NEW a \in AnswerKinds, Answers(t, a)
      PROVE  Moved(t, "idle", None, None, "none", "plain", FALSE, FALSE, FALSE) BY <1>1, <1>5, Returning
<1>6. ASSUME NEW p \in {"undegrade", "degrade", "swap", "restore"}, Goes(t, p), th[t].try # "plain",
             p \in {"undegrade", "swap"} => th[t].try = "first",
             p \in {"degrade", "restore"} => th[t].try = "second",
             p = "swap" => HasFallback
      PROVE  ProfileInv'
  <2>1. p \in Points BY DEF Points
  <2>2. Moved(t, p, th[t].s, th[t].sess, th[t].entry, th[t].try, th[t].ok, th[t].gone, th[t].saved)
    BY <1>1, <1>6, <2>1, Going
  <2>3. Switched(th[t])' = Switched(th[t]) BY <1>1, <1>6, <2>2 DEF Moved, Switched
  <2>4. ~ InTurn(th'[t]) /\ Alone(t) BY <2>2 DEF Moved, InTurn
  <2>5. \A s \in Sessions : Carries(t, s) BY <1>3, <2>4, MapCarries
  <2>6. Smooth(t) BY <1>3, <2>2, <2>3, <2>5 DEF Smooth, Moved
  <2>7. PolicyInForm(t, th[t])' BY <1>1, <1>3, <1>6, <2>2 DEF PolicyInForm, Moved
  <2> QED BY <2>6, <2>7, SmoothStep
<1>7. CASE th[t].try = "plain" BY <1>4, <1>5, <1>7, <1>3, MapCarries, PlainStep DEF Result, Moved, InTurn
<1>8. CASE th[t].try = "first"
  <2>1. Switched(th[t]) = "desired" BY <1>1, <1>8 DEF Switched
  <2>2. CASE th[t].ok /\ th[t].entry = "degraded" BY <1>6, <1>8, <2>2 DEF Result
  <2>3. CASE th[t].ok /\ th[t].entry # "degraded"
    <3>1. Moved(t, "idle", None, None, "none", "plain", FALSE, FALSE, FALSE)
      BY <1>4, <1>5, <1>8, <2>3 DEF Result
    <3>2. fallback[x] # "none" => Switched(th[t]) = EntryProfile(x)
      BY <1>1, <1>2, <1>8, <2>1, <2>3 DEF PolicyInForm, EntryProfile
    <3> QED BY <1>1, <1>2, <1>3, <1>8, <3>1, <3>2, ReturnProfile
  <2>4. CASE ~ th[t].ok /\ HasFallback BY <1>6, <1>8, <2>4 DEF Result
  <2>5. CASE ~ th[t].ok /\ ~ HasFallback
    <3>1. Moved(t, "idle", None, None, "none", "plain", FALSE, FALSE, FALSE)
      BY <1>4, <1>5, <1>8, <2>5 DEF Result
    <3>2. fallback[x] # "none" => Switched(th[t]) = EntryProfile(x) BY <2>1, <2>5 DEF ProfileInv, EntryProfile
    <3> QED BY <1>1, <1>2, <1>3, <1>8, <3>1, <3>2, ReturnProfile
  <2> QED BY <1>4, <2>2, <2>3, <2>4, <2>5
<1>9. CASE th[t].try = "second"
  <2>1. Goes(t, IF th[t].ok THEN "degrade" ELSE "restore") BY <1>4, <1>9 DEF Result
  <2>2. CASE th[t].ok BY <1>6, <1>9, <2>1, <2>2
  <2>3. CASE ~ th[t].ok BY <1>6, <1>9, <2>1, <2>3
  <2> QED BY <2>2, <2>3
<1> QED BY <1>4, <1>7, <1>8, <1>9

\* The first send failed: the session is switched, or is not there.
LEMMA SwapProfile ==
    ASSUME OneFallback, SessionsInv, ProfileInv, NEW t \in Threads, Swap(t)
    PROVE  ProfileInv'
<1>1. TypeOK /\ th[t].pc = "swap" /\ ~ InTurn(th[t]) /\ PolicyInForm(t, th[t])
  BY DEF SessionsInv, Swap, At, InTurn, ProfileInv
<1>2. PICK x \in Sessions : th[t].s = x BY <1>1, HasSession
<1>3. th[t].try = "first" /\ HasFallback /\ fallback' = fallback /\ events' = Missing(x)
  BY <1>1, <1>2 DEF PolicyInForm, Swap
<1>4. CASE map[x] = None BY <1>2, <1>4, <1>3, <1>1, Returning, ReturnProfile DEF Swap, AnswerKinds, Missing
<1>5. CASE map[x] # None
  <2>1. map' = Swapped(x, "fallback") /\ events' = events BY <1>2, <1>3, <1>5 DEF Swap, Missing
  <2>2. Moved(t, "take", x, th[t].sess, th[t].entry, "second", th[t].ok, th[t].gone, th[t].saved)
    BY <1>1, <1>2, <1>5, Swaps
  <2>3. ~ InTurn(th'[t]) /\ Alone(t) BY <2>2 DEF Moved, InTurn
  <2>4. RunsOn(x, "fallback")' /\ \A s \in Sessions \ {x} : Carries(t, s) BY <1>5, <2>1, <2>3, SwappedRuns
  <2>5. Switched(th[t])' = "fallback" BY <2>2 DEF Moved, Switched
  <2>6. RunsOn(x, Switched(th[t]))' BY <2>4, <2>5 DEF RunsOn
  <2>7. PolicyInForm(t, th[t])' BY <1>1, <1>3, <2>2 DEF PolicyInForm, Moved
  <2> QED BY <1>2, <1>3, <2>1, <2>2, <2>3, <2>4, <2>6, <2>7, SteerOn DEF Moved
<1> QED BY <1>4, <1>5

\* Both sends failed: the session goes back to the desired profile, or is not
\* there.
LEMMA RestoreProfile ==
    ASSUME OneFallback, SessionsInv, ProfileInv, NEW t \in Threads, Restore(t)
    PROVE  ProfileInv'
<1>1. TypeOK /\ th[t].pc = "restore" /\ ~ InTurn(th[t]) /\ PolicyInForm(t, th[t])
  BY DEF SessionsInv, Restore, At, InTurn, ProfileInv
<1>2. PICK x \in Sessions : th[t].s = x BY <1>1, HasSession
<1>3. th[t].try = "second" /\ HasFallback /\ fallback' = fallback /\ events' = Missing(x)
  BY <1>1, <1>2 DEF PolicyInForm, Restore
<1>4. Moved(t, "undegrade", x, th[t].sess, th[t].entry, "second", th[t].ok, th[t].gone, th[t].saved)
  BY <1>1, <1>2, <1>3, Restores
<1>5. ~ InTurn(th'[t]) /\ Alone(t) BY <1>4 DEF Moved, InTurn
<1>6. PolicyInForm(t, th[t])' /\ Switched(th[t])' = "desired"
  BY <1>1, <1>3, <1>4 DEF PolicyInForm, Moved, Switched
<1>7. events \subseteq events' BY <1>3 DEF Missing
<1>8. CASE map[x] = None
  <2>1. map' = map /\ <<x, "outraced">> \in events' BY <1>2, <1>3, <1>8 DEF Restore, Missing
  <2>2. \A s \in Sessions : Carries(t, s) BY <1>5, <2>1, MapCarries
  <2> QED BY <1>2, <1>3, <1>4, <1>5, <1>6, <1>7, <2>1, <2>2, SteerOn DEF Moved
<1>9. CASE map[x] # None
  <2>1. map' = Swapped(x, "desired") BY <1>2, <1>9 DEF Restore
  <2>2. RunsOn(x, "desired")' /\ \A s \in Sessions \ {x} : Carries(t, s) BY <1>5, <1>9, <2>1, SwappedRuns
  <2>3. RunsOn(x, Switched(th[t]))' BY <1>6, <2>2 DEF RunsOn
  <2> QED BY <1>2, <1>3, <1>4, <1>5, <1>6, <1>7, <2>2, <2>3, SteerOn DEF Moved
<1> QED BY <1>8, <1>9

\* The entry follows the profile, and the call returns.
LEMMA SetDegradedProfile ==
    ASSUME OneFallback, SessionsInv, ProfileInv, NEW t \in Threads, SetDegraded(t)
    PROVE  ProfileInv'
<1>1. TypeOK /\ th[t].pc \in {"degrade", "undegrade"} /\ ~ InTurn(th[t]) /\ PolicyInForm(t, th[t])
  BY DEF SessionsInv, SetDegraded, InTurn, ProfileInv
<1>2. PICK x \in Sessions : th[t].s = x BY <1>1, HasSession
<1>3. /\ th[t].try # "plain" /\ map' = map /\ events' = events /\ th[t].answer \in AnswerKinds
      /\ th[t].pc = "degrade" => HasFallback BY <1>1, CallFields DEF PolicyInForm, SetDegraded
<1>4. Moved(t, "idle", None, None, "none", "plain", FALSE, FALSE, FALSE)
  BY <1>1, <1>3, Returning DEF SetDegraded
<1>5. ~ InTurn(th'[t]) /\ Alone(t) /\ th'[t].try = "plain" BY <1>4 DEF Moved, InTurn
<1>6. \A s \in Sessions : Carries(t, s) BY <1>3, <1>5, MapCarries
<1>7. /\ \A s \in Sessions \ {x} : fallback'[s] = fallback[s]
      /\ fallback[x] = "none" => fallback'[x] = "none"
      /\ fallback[x] # "none" => fallback'[x] = IF th[t].pc = "degrade" THEN "degraded" ELSE "normal"
  BY <1>1, <1>2 DEF SetDegraded, TypeOK, At
<1>8. Steers(t, x) BY <1>2, <1>3, <1>5, <1>6, <1>7 DEF Steers
<1>9. PolicyInForm(t, th[t])' BY <1>4 DEF PolicyInForm, Moved
<1>10. Tracked(x)'
  <2>1. CASE fallback'[x] # "none" /\ <<x, "outraced">> \notin events
    <3>1. RunsOn(x, Switched(th[t])) BY <1>2, <1>3, <1>7, <2>1, SteeredRuns
    <3>2. EntryProfile(x)' = Switched(th[t]) BY <1>1, <1>7, <2>1 DEF EntryProfile, Switched
    <3>3. RunsOn(x, EntryProfile(x))' BY <1>3, <1>5, <3>1, <3>2 DEF RunsOn, Alone
    <3> QED BY <1>3, <1>5, <3>3, LeftTracked
  <2>2. CASE ~ (fallback'[x] # "none" /\ <<x, "outraced">> \notin events) BY <1>3, <2>2 DEF Tracked
  <2> QED BY <2>1, <2>2
<1> QED BY <1>8, <1>9, <1>10, SteerStep

\* A session starts on the desired profile.
LEMMA StartProfile ==
    ASSUME OneFallback, SessionsInv, ProfileInv, NEW t \in Threads, AgentStart(t)
    PROVE  ProfileInv'
<1> DEFINE m == [turns |-> 0, profile |-> "desired", told |-> FALSE]
<1>1. PICK x \in Sessions \ started :
         /\ map' = [map EXCEPT ![x] = m]
         /\ fallback' = [fallback EXCEPT ![x] = IF x \in Shell THEN "normal" ELSE "none"] BY DEF AgentStart
<1>2. th' = th /\ events' = events BY DEF AgentStart
<1>3. TypeOK /\ m.profile = "desired" BY DEF SessionsInv
<1> HIDE DEF m
<1>4. /\ \A s \in Sessions : s # x => map'[s] = map[s] /\ fallback'[s] = fallback[s]
      /\ map'[x] = m /\ fallback'[x] \in {"normal", "none"} BY <1>1, <1>3 DEF TypeOK
<1>5. \A u \in Threads : th[u].s # x BY <1>1, SessionsAssumption DEF SessionsInv, FramesInForm, FrameInForm
<1>6. Alone(t) BY <1>2, <1>3 DEF Alone, TypeOK
<1>7. \A s \in Sessions \ {x} : Carries(t, s) BY <1>2, <1>4 DEF Carries
<1>8. (\A u \in Threads : PolicyInForm(u, th[u]))'
  <2> SUFFICES ASSUME NEW u \in Threads PROVE PolicyInForm(u, th[u])' OBVIOUS
  <2>1. PolicyInForm(u, th[u]) BY DEF ProfileInv
  <2>2. th[u].try = "first" => th[u].s \in Sessions BY <2>1, HasSession DEF PolicyInForm
  <2>3. th[u].try = "first" => fallback'[th[u].s] = fallback[th[u].s] BY <1>4, <1>5, <2>2
  <2> QED BY <1>2, <2>1, <2>3 DEF PolicyInForm
<1>9. (\A s \in Sessions : fallback[s] = "degraded" => HasFallback)' BY <1>4 DEF ProfileInv
<1>10. ASSUME NEW s \in Sessions PROVE Tracked(s)'
  <2>1. CASE s = x BY <1>2, <1>3, <1>4, <1>5, <2>1 DEF RunsOn, Tracked, EntryProfile
  <2>2. CASE s # x BY <1>2, <1>4, <1>7, <2>2, <1>6, KeptTracked DEF ProfileInv, Switched, EntryProfile
  <2> QED BY <2>1, <2>2
<1> QED BY <1>8, <1>9, <1>10 DEF ProfileInv

\* Recovery leaves no entry.
LEMMA CrashProfile ==
    ASSUME Crash
    PROVE  ProfileInv'
<1>1. \A u \in Threads : th'[u].pc = "idle" /\ th'[u].try = "plain" BY DEF Crash, Idle
<1>2. \A s \in Sessions : fallback'[s] = "none" BY DEF Crash
<1> QED BY <1>1, <1>2 DEF ProfileInv, PolicyInForm, Tracked

\* Every step keeps the sessions on their profiles.
LEMMA ProfileStep ==
    ASSUME OneFallback, SessionsInv, ProfileInv, [Next]_vars
    PROVE  ProfileInv'
<1>1. ASSUME NEW t \in Threads, Send(t) PROVE ProfileInv'
  BY <1>1, SendBeginProfile, TakeMissProfile, TurnProfile, ResultProfile DEF Send
<1>2. ASSUME NEW t \in Threads, WithFallback(t) PROVE ProfileInv'
  BY <1>2, ProbeProfile, SwapProfile, RestoreProfile, SetDegradedProfile DEF WithFallback
<1>3. CASE UNCHANGED vars BY <1>3 DEF vars, ProfileInv, PolicyInForm, Tracked, RunsOn, Switched, EntryProfile
<1> QED BY <1>1, <1>2, <1>3, StartProfile, DropProfile, NotifyProfile, CrashProfile DEF Next

\* With one thread that sends with fallback, and however many others send,
\* drop and notify, the sessions are sound: a session has one owner, stays
\* dropped, stays on disk and, at rest, runs on the profile its entry says.
THEOREM SessionsAreSound == OneFallback /\ Spec => []SessionsSound
<1> SUFFICES ASSUME OneFallback PROVE Spec => []SessionsSound OBVIOUS
<1>1. Init => SessionsInv /\ ProfileInv
  <2>1. ASSUME Init PROVE ProfileInv BY <2>1 DEF Init, Idle, ProfileInv, PolicyInForm, Tracked
  <2> QED BY <2>1, SessionsBegin
<1>2. SessionsInv /\ ProfileInv /\ [Next]_vars => (SessionsInv /\ ProfileInv)' BY SessionsStep, ProfileStep
<1>3. SessionsInv /\ ProfileInv => SessionsSound
  <2> SUFFICES ASSUME SessionsInv, ProfileInv PROVE ProfileTracked BY SessionsInvSound DEF SessionsSound
  <2> SUFFICES ASSUME NEW s \in Sessions, map[s] # None, fallback[s] # "none", ~ Sending(s),
                      <<s, "outraced">> \notin events
               PROVE  map[s].profile = "fallback" <=> fallback[s] = "degraded" BY DEF ProfileTracked
  <2>1. RunsOn(s, EntryProfile(s)) BY DEF Sending, ProfileInv, Tracked
  <2> QED BY <2>1 DEF RunsOn, EntryProfile
<1> QED BY <1>1, <1>2, <1>3, PTL DEF Spec
===============================================================================
