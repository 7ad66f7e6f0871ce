------------------------- MODULE ContextStoreProofs -------------------------
(***************************************************************************)
(* Proofs about ContextStore for every set of threads, keys, values and    *)
(* subgraphs: the types, the lockstep of `active` and `overlays`, the      *)
(* isolation of an open subgraph, the absence of circular waiting, and     *)
(* what readers see of lookups, removals and promotions.                   *)
(***************************************************************************)
EXTENDS ContextStore, TLAPS

\* The guards a call keeps, given the handler and the lock it takes next.
Guards(op, l) ==
    IF op \in {"put", "remove", "begin", "rollback"} THEN {"active"}
    ELSE IF op = "lookup" THEN
        IF l \in {"overlays", "request"} THEN {"active"}
        ELSE IF l = "session" THEN {"active", "request"}
        ELSE IF l = "global" THEN {"active", "request", "session"} ELSE {}
    ELSE IF op = "commit" THEN
        IF l = "overlays" THEN {"active"}
        ELSE IF l = "global" THEN {"session"} ELSE {}
    ELSE IF op = "commit_session" THEN
        IF l = "session" THEN {"request"}
        ELSE IF l = "clear" THEN {"session"} ELSE {}
    ELSE IF op = "clone" THEN
        IF l = "overlays" THEN {"active"}
        ELSE IF l = "session" THEN {"global"}
        ELSE IF l = "request" THEN {"global", "session"}
        ELSE IF l = "skipped" THEN {"global", "session", "request"} ELSE {}
    ELSE {}

\* The locks a handler may still have to take.
Points(op) ==
    IF op = "none" THEN {"idle"}
    ELSE IF op = "put" THEN {"overlays", "request"}
    ELSE IF op = "remove" THEN {"overlays", "request", "session", "global"}
    ELSE IF op \in {"lookup", "list"} THEN
        {"overlays", "request", "session", "global", "done"}
    ELSE IF op \in {"begin", "rollback"} THEN {"overlays"}
    ELSE IF op = "commit" THEN {"overlays", "request", "session", "global"}
    ELSE IF op = "commit_session" THEN {"request", "session", "clear"}
    ELSE IF op = "clone" THEN
        {"overlays", "global", "session", "request", "skipped", "done"}
    ELSE {}

StoreTypes ==
    /\ active \in Subgraphs \cup {None}
    /\ overlays \in [Subgraphs -> Delta \cup {None}]
    /\ request \in Layer /\ session \in Layer /\ global \in Layer
    /\ version \in 0 .. MaxVersion
    /\ skipped \subseteq Nodes

ControlTypes ==
    /\ held \in [Threads -> SUBSET Locks]
    /\ at \in [Threads -> Locks \cup {"idle", "clear", "done"}]
    /\ frame \in [Threads -> Frames]

\* A thread runs one of its operations; where it is decides its guards.
GuardsHeld == \A t \in Threads : /\ frame[t].op \in Ops[t] \cup {"none"}
                                 /\ at[t] \in Points(frame[t].op)
                                 /\ held[t] = Guards(frame[t].op, at[t])

\* A mutex has one owner.
Exclusion == \A t, u \in Threads : t # u => held[t] \cap held[u] = {}

\* What a call read from `active` still holds while it keeps the guard, and
\* its arguments are set.
CallFacts(t) ==
    /\ frame[t].op \in {"put", "remove", "lookup"} =>
          /\ frame[t].key \in Keys
          /\ at[t] = "overlays" => active # None
    /\ frame[t].op \in {"put", "remove"} =>
          (at[t] \in {"request", "session", "global"} => active = None)
    /\ frame[t].op = "put" => frame[t].val \in Values
    /\ frame[t].op \in {"begin", "commit", "rollback"} => frame[t].sub \in Subgraphs
    /\ frame[t].op = "begin" => active = None
    /\ frame[t].op = "rollback" => active = frame[t].sub
    /\ frame[t].op = "commit" /\ at[t] = "overlays" => active = frame[t].sub
    /\ frame[t].op = "list" /\ at[t] = "overlays" => frame[t].sub \in Subgraphs

Facts == \A t \in Threads : CallFacts(t)

IInv == /\ StoreTypes
        /\ ControlTypes
        /\ GuardsHeld
        /\ Exclusion
        /\ Facts
        /\ OverlayLockstep

\* The frame of t becomes fr; no other thread holds a lock of H; the other
\* threads stay where they are.
Stacks(t, fr) == frame' = [frame EXCEPT ![t] = fr]
Clear(t, H) == \A u \in Threads \ {t} : H \cap held[u] = {}
Apart(t) == \A u \in Threads \ {t} : frame'[u] = frame[u] /\ at'[u] = at[u]
Control == ControlTypes /\ GuardsHeld /\ Exclusion

-----------------------------------------------------------------------------
(* Facts about the building blocks.                                        *)

\* The constant frame and the constant layer have their types.
LEMMA Constants == /\ EmptyLayer \in Layer
                   /\ EmptyLayer \in Delta
                   /\ NoFrame \in Frames
                   /\ None \notin Delta
  <1>1. EmptyLayer \in Layer /\ EmptyLayer \in Delta BY DEF EmptyLayer, Layer, Delta
  <1>2. NoFrame \in Frames BY <1>1 DEF NoFrame, Frames
  <1>3. None \notin Delta BY MarkersAssumption DEF Delta
  <1> QED BY <1>1, <1>2, <1>3

\* Every guard and every point of a handler is what the types allow.
LEMMA PointTypes ==
  ASSUME NEW op, NEW l, l \in Points(op)
  PROVE  /\ l \in Locks \cup {"idle", "clear", "done"}
         /\ Guards(op, l) \subseteq Locks BY DEF Points, Guards, Locks

\* A step of t that moves t to a point of its handler, with the guards of
\* that point and none that another thread holds, keeps the control part.
LEMMA MoveStep ==
  ASSUME Control, NEW t \in Threads, NEW H, NEW l, NEW fr,
         Keeps(t, H), Goes(t, l), Stacks(t, fr),
         fr \in Frames, fr.op \in Ops[t] \cup {"none"},
         l \in Points(fr.op), H = Guards(fr.op, l), Clear(t, H)
  PROVE  Control' /\ Apart(t) /\ frame'[t] = fr /\ at'[t] = l
  <1> USE DEF Keeps, Goes, Stacks, Clear
  <1>1. l \in Locks \cup {"idle", "clear", "done"} /\ H \subseteq Locks BY PointTypes
  <1>2. ControlTypes' BY <1>1 DEF ControlTypes, Control
  <1>3. GuardsHeld' BY <1>1 DEF GuardsHeld, ControlTypes, Control
  <1>4. Exclusion' BY DEF Exclusion, ControlTypes, Control
  <1>5. Apart(t) /\ frame'[t] = fr /\ at'[t] = l BY DEF ControlTypes, Control, Apart
  <1> QED BY <1>2, <1>3, <1>4, <1>5 DEF Control

\* What the invariant says of one thread; leaving a variable alone is a
\* trivial update of it.
LEMMA ThreadFacts ==
  ASSUME IInv, NEW t \in Threads
  PROVE  /\ Control
         /\ frame[t] \in Frames /\ frame[t].op \in Ops[t] \cup {"none"}
         /\ at[t] \in Points(frame[t].op)
         /\ held[t] = Guards(frame[t].op, at[t])
         /\ CallFacts(t)
         /\ Clear(t, held[t]) /\ Clear(t, {})
         /\ UNCHANGED held => Keeps(t, held[t])
         /\ UNCHANGED frame => Stacks(t, frame[t])
  BY DEF IInv, Control, ControlTypes, GuardsHeld, Facts, Exclusion, Clear, Keeps, Stacks

\* What the calls of the other threads rest on survives a step of t: it
\* changes `active` only while it holds the guard.
LEMMA OthersFacts ==
  ASSUME IInv, NEW t \in Threads, Apart(t),
         active' = active \/ "active" \in held[t]
  PROVE  \A u \in Threads \ {t} : CallFacts(u)'
  <1> TAKE u \in Threads \ {t}
  <1>1. CallFacts(u) /\ frame'[u] = frame[u] /\ at'[u] = at[u] BY DEF IInv, Facts, Apart
  <1>2. CASE active' = active BY <1>1, <1>2 DEF CallFacts
  <1>3. CASE "active" \in held[t] BY <1>3, <1>1 DEF IInv, Exclusion, GuardsHeld, Guards, CallFacts
  <1> QED BY <1>2, <1>3

\* The parts of a step of t make up the invariant.
LEMMA Assemble ==
  ASSUME IInv, NEW t \in Threads, Apart(t),
         Control', StoreTypes', OverlayLockstep', CallFacts(t)',
         active' = active \/ "active" \in held[t]
  PROVE  IInv'
  <1>1. \A u \in Threads \ {t} : CallFacts(u)' BY OthersFacts
  <1>2. Facts' BY <1>1 DEF Facts
  <1> QED BY <1>2 DEF IInv, Control

\* A call that returns keeps the control part and its thread rests on nothing.
LEMMA ReturnStep ==
  ASSUME IInv, NEW t \in Threads, Returns(t)
  PROVE  Control' /\ CallFacts(t)' /\ Apart(t)
  <1>1. NoFrame \in Frames /\ NoFrame.op = "none" BY Constants DEF NoFrame
  <1>2. "idle" \in Points(NoFrame.op) /\ {} = Guards(NoFrame.op, "idle") BY <1>1 DEF Points, Guards
  <1>3. Keeps(t, {}) /\ Goes(t, "idle") /\ Stacks(t, NoFrame) BY DEF Returns, Stacks
  <1>4. Control' /\ Apart(t) /\ frame'[t] = NoFrame BY <1>1, <1>2, <1>3, MoveStep, ThreadFacts
  <1>5. CallFacts(t)' BY <1>1, <1>4 DEF CallFacts
  <1> QED BY <1>4, <1>5

\* A read that answers keeps the control part and holds nothing any more.
LEMMA AnswerStep ==
  ASSUME IInv, NEW t \in Threads, NEW fr \in Frames,
         fr.op = frame[t].op, fr.op \in {"lookup", "list", "clone"},
         fr.op = "lookup" => fr.key \in Keys,
         Answers(t, fr)
  PROVE  Control' /\ CallFacts(t)' /\ Apart(t)
  <1>1. "done" \in Points(fr.op) /\ {} = Guards(fr.op, "done") BY DEF Points, Guards
  <1>2. Keeps(t, {}) /\ Goes(t, "done") /\ Stacks(t, fr) BY DEF Answers, Stacks
  <1>3. Control' /\ Apart(t) /\ frame'[t] = fr /\ at'[t] = "done" BY <1>1, <1>2, MoveStep, ThreadFacts
  <1>4. CallFacts(t)' BY <1>3 DEF CallFacts
  <1> QED BY <1>3, <1>4

\* A step that changes no store variable keeps the store's part.
LEMMA StoreSame ==
  ASSUME IInv, UNCHANGED store
  PROVE  StoreTypes' /\ OverlayLockstep' /\ active' = active BY DEF IInv, StoreTypes, OverlayLockstep, store

\* The first section of a call: it may keep `active` and changes no store
\* variable.
LEMMA EnterStep ==
  ASSUME IInv, NEW t \in Threads, NEW op \in OpNames, NEW l, NEW fr \in Frames,
         Enters(t, op), fr.op = op, l \in Points(op),
         Guards(op, l) \subseteq {"active"},
         Keeps(t, Guards(op, l)), Goes(t, l), Stacks(t, fr)
  PROVE  Control' /\ Apart(t) /\ frame'[t] = fr /\ at'[t] = l
  <1>1. Clear(t, Guards(op, l)) /\ op \in Ops[t] BY DEF Enters, Free, Clear
  <1> QED BY <1>1, MoveStep, ThreadFacts

\* A section in the middle of a call.
LEMMA InnerStep ==
  ASSUME IInv, NEW t \in Threads, NEW H, NEW l, NEW fr \in Frames,
         fr.op = frame[t].op,
         l \in Points(fr.op), H = Guards(fr.op, l), H \subseteq held[t] \cup {at[t]},
         Free(at[t]), Keeps(t, H), Goes(t, l), Stacks(t, fr)
  PROVE  Control' /\ Apart(t) /\ frame'[t] = fr /\ at'[t] = l
  <1>1. Clear(t, H) BY ThreadFacts DEF Free, Clear
  <1> QED BY <1>1, MoveStep, ThreadFacts

-----------------------------------------------------------------------------
(* One lemma per operation of the store.                                   *)

LEMMA WriteStep ==
  ASSUME IInv, NEW t \in Threads, Write(t)
  PROVE  IInv'
  <1>1. CASE WriteBegin(t)
    <2>1. PICK op \in {"put", "remove"}, k \in Keys, v \in Values \cup {Absent} :
              /\ Enters(t, op)
              /\ (v = Absent) = (op = "remove")
              /\ Keeps(t, {"active"})
              /\ Goes(t, AfterActive)
              /\ frame' = [frame EXCEPT ![t] = [NoFrame EXCEPT !.op = op, !.key = k,
                                                               !.val = v]]
              /\ UNCHANGED store BY <1>1 DEF WriteBegin
    <2> DEFINE fr == [NoFrame EXCEPT !.op = op, !.key = k, !.val = v]
    <2>2. fr \in Frames /\ fr.op = op /\ fr.key = k /\ fr.val = v /\ op \in OpNames
      BY Constants DEF OpNames, NoFrame, Frames
    <2>3. AfterActive \in Points(op) /\ {"active"} = Guards(op, AfterActive)
      BY DEF AfterActive, Points, Guards
    <2>4. Stacks(t, fr) BY <2>1 DEF Stacks
    <2> HIDE DEF fr
    <2>5. Control' /\ Apart(t) /\ frame'[t] = fr /\ at'[t] = AfterActive BY <2>1, <2>2, <2>3, <2>4, EnterStep
    <2>6. StoreTypes' /\ OverlayLockstep' /\ active' = active BY <2>1, StoreSame
    <2>7. CallFacts(t)' BY <2>1, <2>2, <2>5, <2>6 DEF CallFacts, AfterActive
    <2> QED BY <2>5, <2>6, <2>7, Assemble
  <1>2. CASE OverlayWrite(t)
    <2>1. Returns(t) /\ at[t] = "overlays" /\ frame[t].op \in {"put", "remove"}
      BY <1>2 DEF OverlayWrite, Takes
    <2>2. active \in Subgraphs /\ frame[t].key \in Keys BY <2>1 DEF IInv, Facts, CallFacts, StoreTypes
    <2>3. overlays[active] \in Delta BY <2>2 DEF IInv, OverlayLockstep, StoreTypes
    <2> DEFINE d == [overlays[active] EXCEPT ![frame[t].key] =
                         IF frame[t].op = "put" THEN frame[t].val ELSE Tombstone]
    <2>4. d \in Delta BY <2>1, <2>2, <2>3 DEF Delta, IInv, Facts, CallFacts
    <2>5. overlays' = [overlays EXCEPT ![active] = d]
          /\ UNCHANGED <<active, request, session, global, version, skipped>> BY <1>2 DEF OverlayWrite
    <2> HIDE DEF d
    <2>6. StoreTypes' /\ OverlayLockstep' BY <2>2, <2>4, <2>5, Constants DEF IInv, StoreTypes, OverlayLockstep
    <2> QED BY <2>1, <2>5, <2>6, ReturnStep, Assemble
  <1>3. CASE PutRequest(t)
    <2>1. Returns(t) /\ frame[t].op = "put" BY <1>3 DEF PutRequest, Takes
    <2>2. frame[t].key \in Keys /\ frame[t].val \in Values BY <2>1 DEF IInv, Facts, CallFacts
    <2>3. /\ request' = [request EXCEPT ![frame[t].key] = frame[t].val]
          /\ UNCHANGED <<active, overlays, session, global, version, skipped>> BY <1>3 DEF PutRequest
    <2>4. StoreTypes' /\ OverlayLockstep' BY <2>2, <2>3 DEF IInv, StoreTypes, OverlayLockstep, Layer
    <2> QED BY <2>1, <2>3, <2>4, ReturnStep, Assemble
  <1>4. ASSUME NEW l, NEW next, Takes(t, "remove", l), Goes(t, next),
               <<l, next>> \in {<<"request", "session">>, <<"session", "global">>},
               UNCHANGED <<active, held, frame>>, StoreTypes', OverlayLockstep'
        PROVE  IInv' BY <1>4, ThreadFacts, InnerStep, Assemble DEF Takes, Points, Guards, CallFacts
  <1>5. CASE RemoveRequest(t) BY <1>5, <1>4 DEF RemoveRequest, IInv, StoreTypes, OverlayLockstep, Layer
  <1>6. CASE RemoveSession(t) BY <1>6, <1>4 DEF RemoveSession, IInv, StoreTypes, OverlayLockstep, Layer
  <1>7. CASE RemoveGlobal(t)
    BY <1>7, ReturnStep, Assemble DEF RemoveGlobal, IInv, StoreTypes, OverlayLockstep, Layer
  <1> QED BY <1>1, <1>2, <1>3, <1>5, <1>6, <1>7 DEF Write

\* A lookup that finds an entry.
LEMMA FoundStep ==
  ASSUME IInv, NEW t \in Threads, frame[t].op = "lookup",
         NEW e \in Values \cup {Absent, "Incompatible"}, Found(t, e), UNCHANGED store
  PROVE  IInv'
  <1> DEFINE fr == [frame[t] EXCEPT !.found = e]
  <1>1. frame[t] \in Frames /\ frame[t].key \in Keys BY ThreadFacts DEF CallFacts
  <1>2. fr \in Frames /\ fr.op = "lookup" /\ fr.key = frame[t].key BY <1>1 DEF Frames
  <1>3. Answers(t, fr) BY DEF Found
  <1> HIDE DEF fr
  <1> QED BY <1>1, <1>2, <1>3, AnswerStep, StoreSame, Assemble

\* A lookup that finds nothing where it looks goes on to the next layer.
LEMMA MissStep ==
  ASSUME IInv, NEW t \in Threads, NEW l, NEW H, NEW next,
         \/ l = "overlays" /\ H = {"active"} /\ next = "request"
         \/ l = "request" /\ H = {"active", "request"} /\ next = "session"
         \/ l = "session" /\ H = {"active", "request", "session"} /\ next = "global",
         Takes(t, "lookup", l),
         Keeps(t, H), Goes(t, next), UNCHANGED frame, UNCHANGED store
  PROVE  IInv'
  <1>1. /\ frame[t] \in Frames /\ frame[t].op = "lookup" /\ at[t] = l
        /\ held[t] = Guards("lookup", l)
        /\ frame[t].key \in Keys /\ Stacks(t, frame[t]) BY ThreadFacts DEF CallFacts, Takes
  <1>2. /\ next \in Points(frame[t].op) /\ H = Guards(frame[t].op, next)
        /\ H \subseteq held[t] \cup {at[t]} BY <1>1 DEF Points, Guards
  <1>3. Control' /\ Apart(t) /\ frame'[t] = frame[t] /\ at'[t] = next BY <1>1, <1>2, InnerStep DEF Takes
  <1>4. CallFacts(t)' BY <1>1, <1>3 DEF CallFacts
  <1> QED BY <1>3, <1>4, StoreSame, Assemble

LEMMA LookupStep ==
  ASSUME IInv, NEW t \in Threads, Lookup(t)
  PROVE  IInv'
  <1>1. CASE LookupBegin(t)
    <2>1. PICK k \in Keys :
              /\ Enters(t, "lookup")
              /\ Keeps(t, {"active"})
              /\ Goes(t, AfterActive)
              /\ frame' = [frame EXCEPT ![t] = [NoFrame EXCEPT !.op = "lookup", !.key = k]]
              /\ UNCHANGED store BY <1>1 DEF LookupBegin
    <2> DEFINE fr == [NoFrame EXCEPT !.op = "lookup", !.key = k]
    <2>2. fr \in Frames /\ fr.op = "lookup" /\ fr.key = k /\ "lookup" \in OpNames
      BY Constants DEF OpNames, NoFrame, Frames
    <2>3. AfterActive \in Points("lookup") /\ {"active"} = Guards("lookup", AfterActive)
      BY DEF AfterActive, Points, Guards
    <2>4. Stacks(t, fr) BY <2>1 DEF Stacks
    <2> HIDE DEF fr
    <2>5. Control' /\ Apart(t) /\ frame'[t] = fr /\ at'[t] = AfterActive BY <2>1, <2>2, <2>3, <2>4, EnterStep
    <2>6. StoreTypes' /\ OverlayLockstep' /\ active' = active BY <2>1, StoreSame
    <2>7. CallFacts(t)' BY <2>2, <2>5, <2>6 DEF CallFacts, AfterActive
    <2> QED BY <2>5, <2>6, <2>7, Assemble
  <1>2. CASE LookupOverlay(t)
    <2>1. Takes(t, "lookup", "overlays") /\ UNCHANGED store BY <1>2 DEF LookupOverlay
    <2>2. frame[t].key \in Keys /\ active \in Subgraphs /\ held[t] = {"active"}
      BY <2>1, ThreadFacts DEF Takes, CallFacts, IInv, StoreTypes, Guards
    <2>3. overlays[active] \in Delta BY <2>2 DEF IInv, OverlayLockstep, StoreTypes
    <2> DEFINE hit == overlays[active][frame[t].key]
    <2>4. hit \in Values \cup {Absent, Tombstone} BY <2>2, <2>3 DEF Delta
    <2>5. CASE Found(t, IF hit = Tombstone THEN Absent ELSE hit) BY <2>1, <2>4, <2>5, FoundStep DEF Takes
    <2>6. CASE Goes(t, "request") /\ UNCHANGED <<held, frame>> BY <2>2, <2>6, ThreadFacts, <2>1, MissStep
    <2> QED BY <1>2, <2>5, <2>6 DEF LookupOverlay
  <1>3. ASSUME NEW l, NEW layer, NEW next, layer \in Layer,
               \/ l = "request" /\ next = "session"
               \/ l = "session" /\ next = "global",
               LookupLayer(t, l, layer, next)
        PROVE  IInv'
    <2>1. Takes(t, "lookup", l) /\ UNCHANGED store BY <1>3 DEF LookupLayer
    <2>2. layer[frame[t].key] \in Values \cup {Absent} BY <1>3, <2>1, ThreadFacts DEF Layer, Takes, CallFacts
    <2>3. CASE Found(t, layer[frame[t].key]) BY <2>1, <2>2, <2>3, FoundStep DEF Takes
    <2>4. CASE Keeps(t, held[t] \cup {l}) /\ Goes(t, next) /\ UNCHANGED frame
      BY <2>1, ThreadFacts, <1>3, <2>4, MissStep DEF Takes, Guards
    <2> QED BY <1>3, <2>3, <2>4 DEF LookupLayer
  <1>4. CASE LookupRequest(t) BY <1>3, <1>4 DEF LookupRequest, IInv, StoreTypes
  <1>5. CASE LookupSession(t) BY <1>3, <1>5 DEF LookupSession, IInv, StoreTypes
  <1>6. CASE LookupGlobal(t)
    BY <1>6, ThreadFacts, FoundStep DEF LookupGlobal, Layer, Takes, CallFacts, IInv, StoreTypes
  <1> QED BY <1>1, <1>2, <1>4, <1>5, <1>6 DEF Lookup

LEMMA ListStep ==
  ASSUME IInv, NEW t \in Threads, List(t)
  PROVE  IInv'
  <1>1. CASE ListBegin(t)
    <2> DEFINE fr == [NoFrame EXCEPT !.op = "list", !.sub = active]
    <2>1. fr \in Frames /\ fr.op = "list" /\ fr.sub = active /\ "list" \in OpNames
      BY Constants DEF OpNames, NoFrame, Frames, IInv, StoreTypes
    <2>2. /\ Enters(t, "list") /\ Goes(t, AfterActive) /\ Stacks(t, fr)
          /\ UNCHANGED store /\ UNCHANGED held BY <1>1 DEF ListBegin, Stacks
    <2> HIDE DEF fr
    <2>3. frame[t].op = "none" /\ held[t] = {} BY <2>2, ThreadFacts DEF Enters, Points, Guards
    <2>4. AfterActive \in Points("list") /\ Guards("list", AfterActive) = {}
      BY DEF AfterActive, Points, Guards
    <2>5. Keeps(t, {}) BY <2>2, <2>3, ThreadFacts
    <2>6. Control' /\ Apart(t) /\ frame'[t] = fr /\ at'[t] = AfterActive BY <2>1, <2>2, <2>4, <2>5, EnterStep
    <2>7. StoreTypes' /\ OverlayLockstep' /\ active' = active BY <2>2, StoreSame
    <2>8. CallFacts(t)' BY <2>1, <2>6, <2>7 DEF CallFacts, AfterActive, IInv, StoreTypes
    <2> QED BY <2>6, <2>7, <2>8, Assemble
  <1>2. ASSUME NEW l, NEW next, NEW fr \in Frames,
               Takes(t, "list", l), Goes(t, next), Stacks(t, fr), fr.op = "list",
               next \in {"request", "session", "global"},
               UNCHANGED store, UNCHANGED held
        PROVE  IInv' BY <1>2, ThreadFacts, InnerStep, StoreSame, Assemble DEF Takes, Guards, Points, CallFacts
  <1>3. CASE ListOverlay(t)
    <2> DEFINE o == overlays[frame[t].sub]
               d == IF o = None THEN EmptyLayer ELSE o
               fr == [frame[t] EXCEPT !.delta = d]
    <2>1. Takes(t, "list", "overlays") /\ Goes(t, "request") /\ UNCHANGED store
          /\ UNCHANGED held /\ frame' = [frame EXCEPT ![t].delta = d] BY <1>3 DEF ListOverlay
    <2>2. frame[t] \in Frames /\ frame[t].op = "list" /\ frame[t].sub \in Subgraphs
      BY <2>1, ThreadFacts DEF Takes, CallFacts
    <2>3. d \in Delta BY <2>2, Constants DEF IInv, StoreTypes
    <2>4. Stacks(t, fr) BY <2>1 DEF Stacks
    <2> HIDE DEF d
    <2>5. fr \in Frames /\ fr.op = "list" BY <2>2, <2>3 DEF Frames
    <2> QED BY <1>2, <2>1, <2>4, <2>5
  <1>4. ASSUME NEW l, NEW layer, NEW next, next \in {"session", "global"},
               ListLayer(t, l, layer, next)
        PROVE  IInv'
    <2> DEFINE fr == [frame[t] EXCEPT !.listed = frame[t].listed \cup Present(layer)]
    <2>1. Takes(t, "list", l) /\ Goes(t, next) /\ UNCHANGED store /\ UNCHANGED held BY <1>4 DEF ListLayer
    <2>2. Stacks(t, fr) BY <1>4, ThreadFacts DEF Stacks, ListLayer
    <2>3. frame[t] \in Frames /\ frame[t].op = "list" BY <2>1, ThreadFacts DEF Takes
    <2>4. fr \in Frames /\ fr.op = "list" BY <2>3 DEF Frames, Present
    <2> HIDE DEF fr
    <2> QED BY <1>2, <1>4, <2>1, <2>2, <2>4
  <1>5. CASE ListRequest(t) BY <1>4, <1>5 DEF ListRequest
  <1>6. CASE ListSession(t) BY <1>4, <1>6 DEF ListSession
  <1>7. CASE ListGlobal(t)
    <2>1. Takes(t, "list", "global") /\ UNCHANGED store BY <1>7 DEF ListGlobal
    <2>2. frame[t] \in Frames /\ frame[t].op = "list" BY <2>1, ThreadFacts DEF Takes
    <2>3. PICK ks \in SUBSET Keys : Answers(t, [frame[t] EXCEPT !.listed = ks])
      <3> DEFINE ks == {k \in frame[t].listed \cup Present(global) :
                                 frame[t].delta[k] # Tombstone}
                          \cup {k \in Keys : frame[t].delta[k] \in Values}
      <3>1. ks \in SUBSET Keys BY <2>2 DEF Frames, Present
      <3>2. Answers(t, [frame[t] EXCEPT !.listed = ks]) BY <1>7 DEF ListGlobal
      <3> HIDE DEF ks
      <3> QED BY <3>1, <3>2
    <2> DEFINE fr == [frame[t] EXCEPT !.listed = ks]
    <2>4. fr \in Frames /\ fr.op = "list" BY <2>2 DEF Frames
    <2>5. Answers(t, fr) BY <2>3
    <2> HIDE DEF fr
    <2> QED BY <2>1, <2>2, <2>4, <2>5, AnswerStep, StoreSame, Assemble
  <1> QED BY <1>1, <1>3, <1>5, <1>6, <1>7 DEF List

LEMMA TxnStep ==
  ASSUME IInv, NEW t \in Threads, Txn(t)
  PROVE  IInv'
  <1>1. CASE TxnBegin(t)
    <2>1. PICK op \in {"begin", "commit", "rollback"}, s \in Subgraphs :
              /\ Enters(t, op)
              /\ active = IF op = "begin" THEN None ELSE s
              /\ Keeps(t, {"active"})
              /\ Goes(t, "overlays")
              /\ frame' = [frame EXCEPT ![t] = [NoFrame EXCEPT !.op = op, !.sub = s]]
              /\ UNCHANGED store BY <1>1 DEF TxnBegin
    <2> DEFINE fr == [NoFrame EXCEPT !.op = op, !.sub = s]
    <2>2. fr \in Frames /\ fr.op = op /\ fr.sub = s /\ op \in OpNames
      BY Constants DEF OpNames, NoFrame, Frames
    <2>3. "overlays" \in Points(op) /\ {"active"} = Guards(op, "overlays") BY DEF Points, Guards
    <2>4. Stacks(t, fr) BY <2>1 DEF Stacks
    <2> HIDE DEF fr
    <2>5. Control' /\ Apart(t) /\ frame'[t] = fr /\ at'[t] = "overlays" BY <2>1, <2>2, <2>3, <2>4, EnterStep
    <2>6. StoreTypes' /\ OverlayLockstep' /\ active' = active BY <2>1, StoreSame
    <2>7. CallFacts(t)' BY <2>1, <2>2, <2>5, <2>6 DEF CallFacts
    <2> QED BY <2>5, <2>6, <2>7, Assemble
  <1>2. CASE BeginSubgraph(t)
    <2>1. Returns(t) /\ frame[t].op = "begin" /\ at[t] = "overlays" BY <1>2 DEF BeginSubgraph, Takes
    <2>2. frame[t].sub \in Subgraphs /\ active = None /\ "active" \in held[t]
      BY <2>1, ThreadFacts DEF CallFacts, Guards
    <2>3. StoreTypes' /\ OverlayLockstep'
      BY <1>2, <2>2, Constants, MarkersAssumption
         DEF BeginSubgraph, IInv, StoreTypes, OverlayLockstep
    <2> QED BY <2>1, <2>2, <2>3, ReturnStep, Assemble
  <1>3. CASE RollbackOverlay(t)
    <2>1. Returns(t) /\ frame[t].op = "rollback" /\ at[t] = "overlays" BY <1>3 DEF RollbackOverlay, Takes
    <2>2. frame[t].sub \in Subgraphs /\ active = frame[t].sub /\ "active" \in held[t]
      BY <2>1, ThreadFacts DEF CallFacts, Guards
    <2>3. StoreTypes' /\ OverlayLockstep'
      BY <1>3, <2>2, MarkersAssumption
         DEF RollbackOverlay, IInv, StoreTypes, OverlayLockstep
    <2> QED BY <2>1, <2>2, <2>3, ReturnStep, Assemble
  <1>4. CASE CommitDetach(t)
    <2>1. /\ frame[t] \in Frames /\ frame[t].op = "commit" /\ at[t] = "overlays"
          /\ frame[t].sub \in Subgraphs /\ active = frame[t].sub /\ "active" \in held[t]
          /\ Free(at[t]) BY <1>4, ThreadFacts DEF CommitDetach, Takes, CallFacts, Guards
    <2>2. overlays[frame[t].sub] \in Delta BY <2>1 DEF IInv, OverlayLockstep, StoreTypes
    <2> DEFINE fr == [frame[t] EXCEPT !.delta = overlays[frame[t].sub]]
    <2>3. fr \in Frames /\ fr.op = "commit" /\ fr.sub = frame[t].sub BY <2>1, <2>2 DEF Frames
    <2>4. Stacks(t, fr) /\ Keeps(t, {}) /\ Goes(t, "request") BY <1>4 DEF CommitDetach, Stacks
    <2> HIDE DEF fr
    <2>5. "request" \in Points(fr.op) /\ {} = Guards(fr.op, "request") BY <2>3 DEF Points, Guards
    <2>6. Control' /\ Apart(t) /\ frame'[t] = fr /\ at'[t] = "request" BY <2>1, <2>3, <2>4, <2>5, InnerStep
    <2>7. StoreTypes' /\ OverlayLockstep'
      BY <1>4, <2>1, MarkersAssumption DEF CommitDetach, IInv, StoreTypes, OverlayLockstep
    <2>8. CallFacts(t)' BY <2>1, <2>3, <2>6 DEF CallFacts
    <2> QED BY <2>1, <2>6, <2>7, <2>8, Assemble
  <1>5. ASSUME NEW l, NEW H, Takes(t, "commit", at[t]),
               \/ at[t] = "request" /\ l = "session" /\ H = {}
               \/ at[t] = "session" /\ l = "global" /\ H = {"session"},
               Keeps(t, H), Goes(t, l), UNCHANGED frame
        PROVE  Control' /\ CallFacts(t)' /\ Apart(t)
    BY <1>5, ThreadFacts, InnerStep DEF Takes, CallFacts, Points, Guards
  <1>6. CASE CommitApply(t)
    <2>1. /\ Takes(t, "commit", "request") /\ request' = Applied(frame[t].delta, request)
          /\ UNCHANGED <<active, overlays, session, global, version, skipped>> BY <1>6 DEF CommitApply
    <2>2. frame[t].delta \in Delta /\ held[t] = {} BY <2>1, ThreadFacts DEF Frames, Takes, Guards
    <2>3. request' \in Layer BY <2>1, <2>2, MarkersAssumption DEF Applied, Layer, Delta, IInv, StoreTypes
    <2>4. StoreTypes' /\ OverlayLockstep' BY <2>1, <2>3 DEF IInv, StoreTypes, OverlayLockstep
    <2>5. CASE Returns(t) BY <2>1, <2>4, <2>5, ReturnStep, Assemble
    <2>6. CASE Goes(t, "session") /\ UNCHANGED <<held, frame>>
      BY <2>1, <2>2, <2>6, ThreadFacts, <1>5, <2>4, Assemble DEF Takes
    <2> QED BY <1>6, <2>5, <2>6 DEF CommitApply
  <1>7. CASE CommitTakeSession(t) BY <1>7, <1>5, StoreSame, Assemble DEF CommitTakeSession, Takes
  <1>8. CASE CommitTombstones(t)
    BY <1>8, ReturnStep, Assemble DEF CommitTombstones, Without, Layer, IInv, StoreTypes, OverlayLockstep
  <1> QED BY <1>1, <1>2, <1>3, <1>4, <1>6, <1>7, <1>8 DEF Txn

LEMMA CommitSessionStep ==
  ASSUME IInv, NEW t \in Threads, CommitSession(t)
  PROVE  IInv'
  <1>1. CASE CommitSessionCas(t)
    <2> DEFINE fr == [NoFrame EXCEPT !.op = "commit_session"]
    <2>1. fr \in Frames /\ fr.op = "commit_session" BY Constants DEF OpNames, NoFrame, Frames
    <2>2. /\ at[t] = "idle" /\ Goes(t, "request") /\ Stacks(t, fr)
          /\ "commit_session" \in Ops[t]
          /\ version < MaxVersion /\ version' = version + 1
          /\ UNCHANGED <<active, overlays, request, session, global, skipped, held>>
      BY <1>1 DEF CommitSessionCas, Stacks
    <2> HIDE DEF fr
    <2>3. held[t] = {} BY <2>2, ThreadFacts DEF Points, Guards
    <2>4. Keeps(t, {}) /\ Clear(t, {}) BY <2>2, <2>3, ThreadFacts
    <2>5. "request" \in Points(fr.op) /\ {} = Guards(fr.op, "request") BY <2>1 DEF Points, Guards
    <2>6. Control' /\ Apart(t) /\ frame'[t] = fr /\ at'[t] = "request"
      BY <2>1, <2>2, <2>4, <2>5, MoveStep, ThreadFacts
    <2>7. StoreTypes' /\ OverlayLockstep' BY <2>2, VersionAssumption DEF IInv, StoreTypes, OverlayLockstep
    <2>8. CallFacts(t)' BY <2>1, <2>6 DEF CallFacts
    <2> QED BY <2>2, <2>6, <2>7, <2>8, Assemble
  <1>2. ASSUME NEW l, NEW H, Takes(t, "commit_session", at[t]),
               \/ at[t] = "request" /\ l = "session" /\ H = {"request"}
               \/ at[t] = "session" /\ l = "clear" /\ H = {"session"},
               Keeps(t, H), Goes(t, l), UNCHANGED frame
        PROVE  Control' /\ CallFacts(t)' /\ Apart(t)
    BY <1>2, ThreadFacts, InnerStep DEF Takes, Points, Guards, CallFacts
  <1>3. CASE CommitSessionRequest(t) BY <1>3, <1>2, StoreSame, Assemble DEF CommitSessionRequest, Takes
  <1>4. CASE CommitSessionMerge(t)
    <2>1. /\ at[t] = "session" /\ Takes(t, "commit_session", at[t])
          /\ Keeps(t, {"session"}) /\ Goes(t, "clear") /\ UNCHANGED frame
          /\ session' = Applied(request, session)
          /\ UNCHANGED <<active, overlays, request, global, version, skipped>>
      BY <1>4 DEF CommitSessionMerge, Takes
    <2>2. session' \in Layer BY <2>1, MarkersAssumption DEF Applied, Layer, IInv, StoreTypes
    <2>3. StoreTypes' /\ OverlayLockstep' BY <2>1, <2>2 DEF IInv, StoreTypes, OverlayLockstep
    <2>4. Control' /\ CallFacts(t)' /\ Apart(t) BY <1>2, <2>1
    <2> QED BY <2>1, <2>3, <2>4, Assemble
  <1>5. CASE CommitSessionClear(t)
    BY <1>5, Constants, ReturnStep, Assemble DEF CommitSessionClear, IInv, StoreTypes, OverlayLockstep
  <1> QED BY <1>1, <1>3, <1>4, <1>5 DEF CommitSession

LEMMA CloneStep ==
  ASSUME IInv, NEW t \in Threads, Clone(t)
  PROVE  IInv'
  <1>1. CASE CloneBegin(t)
    <2> DEFINE fr == [NoFrame EXCEPT !.op = "clone", !.sub = active]
    <2>1. fr \in Frames /\ fr.op = "clone" /\ "clone" \in OpNames
      BY Constants DEF OpNames, NoFrame, Frames, IInv, StoreTypes
    <2>2. /\ Enters(t, "clone") /\ Keeps(t, {"active"}) /\ Goes(t, "overlays")
          /\ Stacks(t, fr) /\ UNCHANGED store BY <1>1 DEF CloneBegin, Stacks
    <2> HIDE DEF fr
    <2>3. "overlays" \in Points("clone") /\ {"active"} = Guards("clone", "overlays") BY DEF Points, Guards
    <2>4. Control' /\ Apart(t) /\ frame'[t] = fr BY <2>1, <2>2, <2>3, EnterStep
    <2>5. CallFacts(t)' BY <2>1, <2>4 DEF CallFacts
    <2> QED BY <2>2, <2>4, <2>5, StoreSame, Assemble
  <1>2. ASSUME NEW l, NEW H, NEW fr \in Frames, fr.op = "clone",
               Takes(t, "clone", at[t]),
               \/ at[t] = "overlays" /\ l = "global" /\ H = {}
               \/ at[t] = "global" /\ l = "session" /\ H = {"global"}
               \/ at[t] = "session" /\ l = "request" /\ H = {"global", "session"}
               \/ at[t] = "request" /\ l = "skipped" /\ H = {"global", "session", "request"},
               Keeps(t, H), Goes(t, l), Stacks(t, fr), UNCHANGED store
        PROVE  IInv' BY <1>2, ThreadFacts, InnerStep, StoreSame, Assemble DEF Takes, Points, Guards, CallFacts
  <1>3. CASE CloneOverlay(t)
    <2>1. /\ at[t] = "overlays" /\ Takes(t, "clone", at[t])
          /\ Keeps(t, {}) /\ Goes(t, "global") /\ UNCHANGED store BY <1>3 DEF CloneOverlay, Takes
    <2>2. frame[t] \in Frames /\ frame[t].op = "clone" BY <2>1, ThreadFacts DEF Takes
    <2> DEFINE missing == active = None \/ overlays[active] = None
               s == IF missing THEN None ELSE active
               d == IF missing THEN EmptyLayer ELSE overlays[active]
               fr == [frame[t] EXCEPT !.sub = s, !.delta = d]
    <2>3. s \in Subgraphs \cup {None} /\ d \in Delta BY Constants DEF IInv, StoreTypes
    <2>4. Stacks(t, fr) BY <1>3 DEF CloneOverlay, Stacks
    <2> HIDE DEF s, d
    <2>5. fr \in Frames /\ fr.op = "clone" BY <2>2, <2>3 DEF Frames
    <2> QED BY <1>2, <2>1, <2>4, <2>5
  <1>4. CASE CloneGlobal(t) BY <1>4, ThreadFacts, <1>2 DEF CloneGlobal, Takes
  <1>5. CASE CloneSession(t)
    <2> DEFINE fr == [frame[t] EXCEPT !.session = session]
    <2>1. /\ at[t] = "session" /\ Takes(t, "clone", at[t])
          /\ Keeps(t, {"global", "session"}) /\ Goes(t, "request") /\ UNCHANGED store
          /\ Stacks(t, fr) BY <1>5 DEF CloneSession, Takes, Stacks
    <2>2. frame[t] \in Frames /\ frame[t].op = "clone" BY <2>1, ThreadFacts DEF Takes
    <2>3. fr \in Frames /\ fr.op = "clone" BY <2>2 DEF Frames, IInv, StoreTypes
    <2> HIDE DEF fr
    <2> QED BY <1>2, <2>1, <2>3
  <1>6. CASE CloneRequest(t)
    <2> DEFINE fr == [frame[t] EXCEPT !.request = request]
    <2>1. /\ at[t] = "request" /\ Takes(t, "clone", at[t])
          /\ Keeps(t, {"global", "session", "request"}) /\ Goes(t, "skipped")
          /\ UNCHANGED store /\ Stacks(t, fr) BY <1>6 DEF CloneRequest, Takes, Stacks
    <2>2. frame[t] \in Frames /\ frame[t].op = "clone" BY <2>1, ThreadFacts DEF Takes
    <2>3. fr \in Frames /\ fr.op = "clone" BY <2>2 DEF Frames, IInv, StoreTypes
    <2> HIDE DEF fr
    <2> QED BY <1>2, <2>1, <2>3
  <1>7. CASE CloneSkipped(t) BY <1>7, ThreadFacts, AnswerStep, StoreSame, Assemble DEF CloneSkipped, Takes
  <1> QED BY <1>1, <1>3, <1>4, <1>5, <1>6, <1>7 DEF Clone

-----------------------------------------------------------------------------
(* The theorems.                                                           *)

\* The inductive invariant: the store and the frames have their types, where
\* a thread is decides its guards, a guard has one owner, and what a call has
\* read from `active` holds as long as it keeps the guard.
LEMMA StepIInv ==
  ASSUME IInv, NEW t \in Threads, Step(t)
  PROVE  IInv'
  <1>1. CASE MarkSkipped(t)
    BY <1>1 DEF MarkSkipped, IInv, StoreTypes, ControlTypes, GuardsHeld, Exclusion,
                Facts, CallFacts, OverlayLockstep
  <1>2. CASE Finish(t) BY <1>2, ReturnStep, StoreSame, Assemble DEF Finish
  <1> QED BY <1>1, <1>2, WriteStep, LookupStep, ListStep, TxnStep, CommitSessionStep,
             CloneStep DEF Step

\* IInv holds in every reachable state of RuntimeContext's slot store.
THEOREM Inductive == Spec => []IInv
  <1>1. Init => IInv
    <2> SUFFICES ASSUME Init PROVE IInv OBVIOUS
    <2>1. \A t \in Threads : frame[t].op = "none" BY DEF Init, NoFrame
    <2>2. StoreTypes /\ OverlayLockstep
      BY Constants, VersionAssumption, MarkersAssumption
         DEF Init, StoreTypes, OverlayLockstep
    <2>3. ControlTypes /\ GuardsHeld /\ Exclusion
      BY <2>1, Constants DEF Init, ControlTypes, GuardsHeld, Exclusion, Points, Guards
    <2>4. Facts BY <2>1 DEF Facts, CallFacts
    <2> QED BY <2>2, <2>3, <2>4 DEF IInv
  <1>2. IInv /\ [Next]_vars => IInv'
    <2> SUFFICES ASSUME IInv, [Next]_vars PROVE IInv' OBVIOUS
    <2>1. CASE Next BY <2>1, StepIInv DEF Next
    <2>2. CASE UNCHANGED vars
      BY <2>2 DEF vars, IInv, StoreTypes, ControlTypes, GuardsHeld, Exclusion,
                  Facts, CallFacts, OverlayLockstep
    <2> QED BY <2>1, <2>2
  <1> QED BY <1>1, <1>2, PTL DEF Spec

\* The active subgraph, and no other, has an overlay, whatever the threads do:
\* the expects of put, remove and commit_overlay never fire.
THEOREM Lockstep == Spec => []OverlayLockstep
  <1>1. IInv => OverlayLockstep BY DEF IInv
  <1> QED BY <1>1, Inductive, PTL

\* The history variables have their types: window collects what View returns.
GhostTypes ==
    /\ window \in [Threads -> [Keys -> SUBSET (Values \cup {Absent})]]
    /\ doomed \in [Threads -> SUBSET Keys]
    /\ gone \subseteq Keys

\* What a reader sees of a key is an entry or nothing, never a tombstone.
LEMMA ViewType == StoreTypes => \A k \in Keys : View(k) \in Values \cup {Absent}
  <1> SUFFICES ASSUME StoreTypes, NEW k \in Keys
               PROVE  View(k) \in Values \cup {Absent} OBVIOUS
  <1>1. Base(k) \in Values \cup {Absent} BY DEF Base, StoreTypes, Layer
  <1>2. CASE active = None \/ overlays[active] = None BY <1>1, <1>2 DEF View
  <1>3. CASE ~ (active = None \/ overlays[active] = None) BY <1>3, <1>1 DEF StoreTypes, Delta, View
  <1> QED BY <1>2, <1>3

\* Every variable of the store, of the calls and of the history keeps its
\* type in every reachable state.
THEOREM Types == Spec => []TypeOK
  <1>1. Init => GhostTypes BY DEF Init, GhostTypes
  <1>2. IInv /\ IInv' /\ GhostTypes /\ [Next]_vars => GhostTypes'
    <2> SUFFICES ASSUME IInv, IInv', GhostTypes, Next PROVE GhostTypes' BY DEF GhostTypes, vars
    <2>1. \A k \in Keys : View(k)' \in Values \cup {Absent}
      <3>1. (StoreTypes => \A k \in Keys : View(k) \in Values \cup {Absent})' BY ViewType, PTL
      <3> QED BY <3>1 DEF IInv
    <2>2. \A t \in Threads : Removing(t)' \subseteq Keys BY DEF IInv, Facts, CallFacts, Removing, Tombstones
    <2>3. window' \in [Threads -> [Keys -> SUBSET (Values \cup {Absent})]]
      BY <2>1 DEF Next, Observe, GhostTypes
    <2>4. doomed' \in [Threads -> SUBSET Keys] BY <2>2 DEF Next, Observe, GhostTypes
    <2>5. gone' \subseteq Keys BY DEF Next, Observe, GhostTypes
    <2> QED BY <2>3, <2>4, <2>5 DEF GhostTypes
  <1>3. IInv /\ GhostTypes => TypeOK BY DEF IInv, StoreTypes, ControlTypes, GhostTypes, TypeOK
  <1> QED BY <1>1, <1>2, <1>3, Inductive, PTL DEF Spec

\* No thread calls commit_session or clone: the operations whose guards are
\* taken in the canonical order.
CanonicalOps == \A t \in Threads : Ops[t] \cap {"commit_session", "clone"} = {}

\* Without commit_session and clone, no threads of any number ever wait in a
\* circle: the canonical lock order active, overlays, request, session,
\* global keeps put, remove, get, list_by_ns and the subgraph transaction
\* free of deadlock.
THEOREM DeadlockFree == CanonicalOps => (Spec => []NoCircularWait)
  <1> SUFFICES ASSUME CanonicalOps PROVE Spec => []NoCircularWait OBVIOUS
  <1>1. IInv => NoCircularWait
    <2> SUFFICES ASSUME IInv, NEW S \in (SUBSET Threads) \ {{}},
                        \A t \in S : \E u \in S : Wants(t) \cap held[u] # {}
                 PROVE  FALSE BY DEF NoCircularWait
    <2>1. \A t \in S : /\ frame[t].op \notin {"commit_session", "clone"}
                       /\ at[t] \in Points(frame[t].op)
                       /\ held[t] = Guards(frame[t].op, at[t]) BY DEF IInv, GuardsHeld, CanonicalOps
    <2>2. \A u \in S : "global" \notin held[u] /\ "overlays" \notin held[u] BY <2>1 DEF Guards
    <2>3. \A u \in S : "session" \in held[u] => at[u] = "global" BY <2>1 DEF Guards
    <2>4. \A u \in S : "request" \in held[u] => at[u] \in {"session", "global"} BY <2>1 DEF Guards
    <2>5. \A t \in S : at[t] \notin {"clear", "skipped", "active"} BY <2>1 DEF Points
    <2>6. \A t \in S : at[t] # "global" /\ at[t] # "overlays" BY <2>2, <2>5 DEF Wants
    <2>7. \A t \in S : at[t] # "session" BY <2>3, <2>5, <2>6 DEF Wants
    <2>8. \A t \in S : at[t] # "request" BY <2>4, <2>5, <2>6, <2>7 DEF Wants
    <2>9. \A t \in S : Wants(t) = {} BY <2>5, <2>6, <2>7, <2>8 DEF Wants, Locks
    <2>10. PICK t \in S : TRUE OBVIOUS
    <2> QED BY <2>9, <2>10
  <1> QED BY <1>1, Inductive, PTL

\* While a subgraph is active no put or remove, of any thread, reaches the
\* layers below its overlay.
THEOREM Isolation == Spec => OverlayIsolation
  <1>1. IInv /\ [Next]_vars =>
          [ active # None /\ (\A t \in Threads :
                                frame[t].op \notin {"commit", "commit_session"})
            => UNCHANGED <<request, session, global>> ]_vars
    <2> SUFFICES ASSUME IInv, Next, active # None,
                        \A t \in Threads : frame[t].op \notin {"commit", "commit_session"}
                 PROVE  UNCHANGED <<request, session, global>> OBVIOUS
    <2>1. PICK t \in Threads : Step(t) BY DEF Next
    <2>2. CASE Write(t)
      <3>1. frame[t].op \in {"put", "remove"} => at[t] \notin {"request", "session", "global"}
        BY ThreadFacts DEF CallFacts
      <3>2. WriteBegin(t) \/ OverlayWrite(t)
        BY <2>2, <3>1 DEF Write, PutRequest, RemoveRequest, RemoveSession, RemoveGlobal, Takes
      <3> QED BY <3>2 DEF WriteBegin, OverlayWrite, store
    <2>3. CASE Lookup(t)
      BY <2>3 DEF Lookup, LookupBegin, LookupOverlay, LookupRequest, LookupSession,
                  LookupLayer, LookupGlobal, store
    <2>4. CASE List(t)
      BY <2>4 DEF List, ListBegin, ListOverlay, ListRequest, ListSession, ListLayer,
                  ListGlobal, store
    <2>5. CASE Txn(t)
      <3>1. TxnBegin(t) \/ BeginSubgraph(t) \/ RollbackOverlay(t)
        BY <2>5 DEF Txn, CommitDetach, CommitApply, CommitTakeSession, CommitTombstones, Takes
      <3> QED BY <3>1 DEF TxnBegin, BeginSubgraph, RollbackOverlay, store
    <2>6. CASE CommitSession(t)
      BY <2>6 DEF CommitSession, CommitSessionCas, CommitSessionRequest,
                  CommitSessionMerge, CommitSessionClear, Takes
    <2>7. CASE Clone(t)
      BY <2>7 DEF Clone, CloneBegin, CloneOverlay, CloneGlobal, CloneSession,
                  CloneRequest, CloneSkipped, store
    <2>8. CASE MarkSkipped(t) \/ Finish(t) BY <2>8 DEF MarkSkipped, Finish, store
    <2> QED BY <2>1, <2>2, <2>3, <2>4, <2>5, <2>6, <2>7, <2>8 DEF Step
  <1> QED BY <1>1, Inductive, PTL DEF Spec, OverlayIsolation

-----------------------------------------------------------------------------
(* What the steps of one thread may do to the store and to the others.     *)

\* The actions that write a layer or an overlay.
LEMMA Writers ==
  ASSUME NEW t \in Threads, Step(t)
  PROVE  /\ UNCHANGED request \/ PutRequest(t) \/ RemoveRequest(t) \/ CommitApply(t)
                              \/ CommitSessionClear(t)
         /\ UNCHANGED session \/ RemoveSession(t) \/ CommitTombstones(t) \/ CommitSessionMerge(t)
         /\ UNCHANGED global \/ RemoveGlobal(t) \/ CommitTombstones(t)
         /\ UNCHANGED <<active, overlays>> \/ OverlayWrite(t) \/ BeginSubgraph(t)
                              \/ RollbackOverlay(t) \/ CommitDetach(t)
  <1>1. CASE Write(t)
    BY <1>1 DEF Write, WriteBegin, OverlayWrite, PutRequest, RemoveRequest, RemoveSession,
                RemoveGlobal, store
  <1>2. CASE Lookup(t)
    BY <1>2 DEF Lookup, LookupBegin, LookupOverlay, LookupRequest, LookupSession,
                LookupLayer, LookupGlobal, store
  <1>3. CASE List(t)
    BY <1>3 DEF List, ListBegin, ListOverlay, ListRequest, ListSession, ListLayer,
                ListGlobal, store
  <1>4. CASE Txn(t)
    BY <1>4 DEF Txn, TxnBegin, BeginSubgraph, RollbackOverlay, CommitDetach, CommitApply,
                CommitTakeSession, CommitTombstones, store
  <1>5. CASE CommitSession(t)
    BY <1>5 DEF CommitSession, CommitSessionCas, CommitSessionRequest,
                CommitSessionMerge, CommitSessionClear, store
  <1>6. CASE Clone(t)
    BY <1>6 DEF Clone, CloneBegin, CloneOverlay, CloneGlobal, CloneSession,
                CloneRequest, CloneSkipped, store
  <1>7. CASE MarkSkipped(t) \/ Finish(t) BY <1>7 DEF MarkSkipped, Finish, store
  <1> QED BY <1>1, <1>2, <1>3, <1>4, <1>5, <1>6, <1>7 DEF Step

\* The other threads stay where they are.
LEMMA StepApart ==
  ASSUME IInv, NEW t \in Threads, Step(t)
  PROVE  Apart(t)
  <1> SUFFICES ASSUME NEW u \in Threads \ {t} PROVE frame'[u] = frame[u] /\ at'[u] = at[u] BY DEF Apart
  <1>0. DOMAIN frame = Threads /\ DOMAIN at = Threads BY DEF IInv, ControlTypes
  <1>1. CASE Write(t)
    BY <1>0, <1>1 DEF Write, WriteBegin, OverlayWrite, PutRequest, RemoveRequest, RemoveSession,
                RemoveGlobal, Returns, Goes
  <1>2. CASE Lookup(t)
    BY <1>0, <1>2 DEF Lookup, LookupBegin, LookupOverlay, LookupRequest, LookupSession,
                LookupLayer, LookupGlobal, Found, Answers, Goes
  <1>3. CASE List(t)
    BY <1>0, <1>3 DEF List, ListBegin, ListOverlay, ListRequest, ListSession, ListLayer,
                ListGlobal, Answers, Goes
  <1>4. CASE Txn(t)
    BY <1>0, <1>4 DEF Txn, TxnBegin, BeginSubgraph, RollbackOverlay, CommitDetach, CommitApply,
                CommitTakeSession, CommitTombstones, Returns, Goes
  <1>5. CASE CommitSession(t)
    BY <1>0, <1>5 DEF CommitSession, CommitSessionCas, CommitSessionRequest,
                CommitSessionMerge, CommitSessionClear, Returns, Goes
  <1>6. CASE Clone(t)
    BY <1>0, <1>6 DEF Clone, CloneBegin, CloneOverlay, CloneGlobal, CloneSession,
                CloneRequest, CloneSkipped, Answers, Goes
  <1>7. CASE MarkSkipped(t) \/ Finish(t) BY <1>0, <1>7 DEF MarkSkipped, Finish, Returns, Goes
  <1> QED BY <1>1, <1>2, <1>3, <1>4, <1>5, <1>6, <1>7 DEF Step

\* What a thread has a guard of, no other thread changes.
LEMMA Guarded ==
  ASSUME IInv, NEW t \in Threads, Step(t), NEW u \in Threads \ {t}
  PROVE  /\ "active" \in held[u] => UNCHANGED <<active, overlays>>
         /\ "request" \in held[u] => UNCHANGED request
         /\ "session" \in held[u] => UNCHANGED session
  <1>1. held[t] \cap held[u] = {} /\ held[t] = Guards(frame[t].op, at[t]) BY DEF IInv, Exclusion, GuardsHeld
  <1>2. CASE OverlayWrite(t) \/ BeginSubgraph(t) \/ RollbackOverlay(t) \/ CommitDetach(t)
    BY <1>1, <1>2 DEF OverlayWrite, BeginSubgraph, RollbackOverlay, CommitDetach, Takes, Guards
  <1>3. PutRequest(t) \/ RemoveRequest(t) \/ CommitApply(t) \/ CommitSessionClear(t)
        => "request" \notin held[u]
    BY DEF PutRequest, RemoveRequest, CommitApply, CommitSessionClear, Takes, Free
  <1>4. RemoveSession(t) \/ CommitSessionMerge(t) => "session" \notin held[u]
    BY DEF RemoveSession, CommitSessionMerge, Takes, Free
  <1>5. CommitTombstones(t) => "session" \notin held[u] BY <1>1 DEF CommitTombstones, Takes, Guards
  <1> QED BY <1>2, <1>3, <1>4, <1>5, Writers

-----------------------------------------------------------------------------
(* Lookups.                                                                *)

\* A lookup that goes on has found nothing where it looked, and its guards keep
\* it so; one that is done has found what its key looked like.
LookupFacts(t) ==
    frame[t].op = "lookup" =>
        /\ at[t] \in {"request", "session", "global"} =>
               active = None \/ overlays[active][frame[t].key] = Absent
        /\ at[t] \in {"session", "global"} => request[frame[t].key] = Absent
        /\ at[t] = "global" => session[frame[t].key] = Absent

LookupResult(t) ==
    frame[t].op = "lookup" /\ at[t] = "done" =>
        IF frame[t].found = "Incompatible"
        THEN Absent \in window[t][frame[t].key]
        ELSE frame[t].found \in window[t][frame[t].key]

\* The steps of other threads.
LEMMA LookupUndisturbed ==
  ASSUME IInv, NEW t \in Threads, Step(t), Observe, NEW u \in Threads \ {t},
         LookupFacts(u), LookupResult(u)
  PROVE  LookupFacts(u)' /\ LookupResult(u)'
  <1>1. frame'[u] = frame[u] /\ at'[u] = at[u] BY StepApart DEF Apart
  <1>2. held[u] = Guards(frame[u].op, at[u]) /\ (frame[u].op = "lookup" => frame[u].key \in Keys)
    BY DEF IInv, GuardsHeld, Facts, CallFacts
  <1>3. ASSUME frame[u].op = "lookup", at[u] = "done"
        PROVE  window'[u][frame[u].key] = window[u][frame[u].key] BY <1>1, <1>2, <1>3 DEF Observe, Reading
  <1>4. LookupResult(u)' BY <1>1, <1>3 DEF LookupResult
  <1>5. ASSUME frame[u].op = "lookup" PROVE LookupFacts(u)'
    BY <1>2, <1>5, <1>1, Guarded DEF Guards, LookupFacts
  <1>6. frame[u].op # "lookup" => LookupFacts(u)' BY <1>1 DEF LookupFacts
  <1> QED BY <1>4, <1>5, <1>6

\* A lookup answers with what its key looks like now.
LEMMA FoundIsView ==
  ASSUME IInv, IInv', Observe, NEW t \in Threads, frame[t].op = "lookup", at[t] # "done",
         NEW e \in Values \cup {Absent, "Incompatible"}, Found(t, e), UNCHANGED store,
         View(frame[t].key) = IF e = "Incompatible" THEN Absent ELSE e
  PROVE  LookupFacts(t)' /\ LookupResult(t)'
  <1>0. frame[t] \in Frames /\ frame[t].key \in Keys /\ DOMAIN frame = Threads /\ DOMAIN at = Threads
    BY DEF IInv, ControlTypes, Facts, CallFacts
  <1>1. PICK k : k = frame[t].key OBVIOUS
  <1>2. /\ frame'[t].op = "lookup" /\ frame'[t].key = k /\ frame'[t].found = e /\ at'[t] = "done"
    BY <1>0, <1>1 DEF Found, Answers, Goes, Frames
  <1>3. View(k)' = View(k) BY DEF store, View, Base
  <1>4. window'[t][k] = window[t][k] \cup {View(k)'} BY <1>0, <1>1, <1>2 DEF Observe, Reading
  <1> QED BY <1>1, <1>2, <1>3, <1>4 DEF LookupFacts, LookupResult

\* A lookup that goes on.
LEMMA MissFacts ==
  ASSUME NEW t \in Threads, UNCHANGED <<store, frame>>, NEW l \in {"request", "session", "global"},
         DOMAIN at = Threads, Goes(t, l), active = None \/ overlays[active][frame[t].key] = Absent,
         l # "request" => request[frame[t].key] = Absent,
         l = "global" => session[frame[t].key] = Absent
  PROVE  LookupFacts(t)' /\ LookupResult(t)' BY DEF LookupFacts, LookupResult, Goes, store

\* The steps of the lookup itself.
LEMMA LookupGoesOn ==
  ASSUME IInv, IInv', NEW t \in Threads, Lookup(t), Observe, LookupFacts(t)
  PROVE  LookupFacts(t)' /\ LookupResult(t)'
  <1>0. /\ frame[t] \in Frames /\ DOMAIN frame = Threads /\ DOMAIN at = Threads
        /\ frame[t].op = "lookup" => frame[t].key \in Keys
        /\ StoreTypes /\ OverlayLockstep /\ CallFacts(t) BY DEF IInv, ControlTypes, Facts, CallFacts
  <1> DEFINE k == frame[t].key
  <1>1. CASE LookupBegin(t)
    <2>1. PICK j \in Keys : /\ Goes(t, AfterActive) /\ UNCHANGED store
                            /\ frame' = [frame EXCEPT ![t] = [NoFrame EXCEPT !.op = "lookup", !.key = j]]
      BY <1>1 DEF LookupBegin
    <2>2. at'[t] \in {"overlays", "request"} /\ (at'[t] = "request" => active' = None)
      BY <1>0, <2>1 DEF Goes, AfterActive, store
    <2> QED BY <2>2 DEF LookupFacts, LookupResult
  <1>2. CASE LookupOverlay(t)
    <2>1. /\ frame[t].op = "lookup" /\ at[t] = "overlays" /\ UNCHANGED store BY <1>2 DEF LookupOverlay, Takes
    <2>2. active \in Subgraphs /\ active # None /\ overlays[active] # None
      BY <1>0, <2>1 DEF CallFacts, StoreTypes, OverlayLockstep
    <2>3. overlays[active][k] \in Values \cup {Absent, Tombstone} BY <1>0, <2>1, <2>2 DEF StoreTypes, Delta
    <2>4. PICK hit : hit = overlays[active][k] OBVIOUS
    <2>5. CASE hit # Absent
      <3>1. PICK e : e = IF hit = Tombstone THEN Absent ELSE hit OBVIOUS
      <3>0. Found(t, e) BY <1>2, <2>4, <2>5, <3>1 DEF LookupOverlay
      <3>2. e \in Values \cup {Absent} /\ (e = "Incompatible" => e = Absent)
        BY <2>3, <2>4, <2>5, <3>1, MarkersAssumption
      <3>3. View(k) = e BY <2>2, <2>4, <2>5, <3>1 DEF View
      <3> QED BY <2>1, <3>0, <3>2, <3>3, FoundIsView
    <2>6. CASE hit = Absent BY <1>2, <2>4, <2>6, <1>0, <2>1, MissFacts DEF LookupOverlay
    <2> QED BY <2>5, <2>6
  <1>3. CASE LookupRequest(t)
    <2>1. frame[t].op = "lookup" /\ at[t] = "request" /\ UNCHANGED store
      BY <1>3 DEF LookupRequest, LookupLayer, Takes
    <2>2. active = None \/ overlays[active][k] = Absent BY <2>1 DEF LookupFacts
    <2>3. CASE request[k] # Absent
      <3>1. PICK e : e = request[k] OBVIOUS
      <3>2. Found(t, e) BY <1>3, <2>3, <3>1 DEF LookupRequest, LookupLayer
      <3>3. e \in Values \cup {Absent} /\ e # "Incompatible"
        BY <1>0, <2>1, <2>3, <3>1, MarkersAssumption DEF StoreTypes, Layer
      <3>4. View(k) = e BY <2>2, <2>3, <3>1, MarkersAssumption DEF View, Base
      <3> QED BY <2>1, <3>2, <3>3, <3>4, FoundIsView
    <2>4. CASE request[k] = Absent BY <1>3, <2>4, <1>0, <2>1, <2>2, MissFacts DEF LookupRequest, LookupLayer
    <2> QED BY <2>3, <2>4
  <1>4. CASE LookupSession(t)
    <2>1. frame[t].op = "lookup" /\ at[t] = "session" /\ UNCHANGED store
      BY <1>4 DEF LookupSession, LookupLayer, Takes
    <2>2. (active = None \/ overlays[active][k] = Absent) /\ request[k] = Absent BY <2>1 DEF LookupFacts
    <2>3. CASE session[k] # Absent
      <3>1. PICK e : e = session[k] OBVIOUS
      <3>2. Found(t, e) BY <1>4, <2>3, <3>1 DEF LookupSession, LookupLayer
      <3>3. e \in Values \cup {Absent} /\ e # "Incompatible"
        BY <1>0, <2>1, <2>3, <3>1, MarkersAssumption DEF StoreTypes, Layer
      <3>4. View(k) = e BY <2>2, <2>3, <3>1, MarkersAssumption DEF View, Base
      <3> QED BY <2>1, <3>2, <3>3, <3>4, FoundIsView
    <2>4. CASE session[k] = Absent BY <1>4, <2>4, <1>0, <2>1, <2>2, MissFacts DEF LookupSession, LookupLayer
    <2> QED BY <2>3, <2>4
  <1>5. CASE LookupGlobal(t)
    <2>1. frame[t].op = "lookup" /\ at[t] = "global" /\ UNCHANGED store BY <1>5 DEF LookupGlobal, Takes
    <2>2. (active = None \/ overlays[active][k] = Absent) /\ request[k] = Absent /\ session[k] = Absent
      BY <2>1 DEF LookupFacts
    <2>3. View(k) = global[k] /\ global[k] \in Values \cup {Absent}
      BY <1>0, <2>1, <2>2, MarkersAssumption DEF View, Base, StoreTypes, Layer
    <2>4. PICK e \in Values \cup {Absent, "Incompatible"} :
              /\ Found(t, e)
              /\ e = global[k] \/ (global[k] = Absent /\ e = "Incompatible") BY <1>5, <2>3 DEF LookupGlobal
    <2>5. View(k) = IF e = "Incompatible" THEN Absent ELSE e BY <2>3, <2>4, MarkersAssumption
    <2> QED BY <2>1, <2>4, <2>5, FoundIsView
  <1> QED BY <1>1, <1>2, <1>3, <1>4, <1>5 DEF Lookup

\* A step of another handler leaves its thread out of a lookup, but for the end
\* of one.
LEMMA NoLookup ==
  ASSUME IInv, NEW t \in Threads, Step(t), ~ Lookup(t)
  PROVE  frame'[t].op # "lookup"
  <1>0. DOMAIN frame = Threads /\ frame[t] \in Frames /\ at[t] \in Points(frame[t].op)
    BY DEF IInv, ControlTypes, GuardsHeld
  <1>1. frame[t].op = "lookup" => at[t] # "idle" BY <1>0 DEF Points
  <1>2. CASE Write(t)
    <2>1. CASE WriteBegin(t) BY <1>0, <2>1 DEF WriteBegin, NoFrame
    <2>2. CASE RemoveRequest(t) \/ RemoveSession(t) BY <2>2 DEF RemoveRequest, RemoveSession, Takes
    <2>3. CASE OverlayWrite(t) \/ PutRequest(t) \/ RemoveGlobal(t)
      BY <1>0, <2>3 DEF OverlayWrite, PutRequest, RemoveGlobal, Returns, NoFrame
    <2> QED BY <1>2, <2>1, <2>2, <2>3 DEF Write
  <1>3. CASE List(t)
    BY <1>0, <1>3 DEF List, ListBegin, ListOverlay, ListRequest, ListSession, ListLayer,
                ListGlobal, Answers, Takes, NoFrame, Frames
  <1>4. CASE Txn(t)
    <2>1. CASE TxnBegin(t) BY <1>0, <2>1 DEF TxnBegin, NoFrame
    <2>2. CASE BeginSubgraph(t) \/ RollbackOverlay(t) \/ CommitTombstones(t)
      BY <1>0, <2>2 DEF BeginSubgraph, RollbackOverlay, CommitTombstones, Returns, NoFrame
    <2>3. CASE CommitDetach(t) BY <1>0, <2>3 DEF CommitDetach, Takes, Frames
    <2>4. CASE CommitApply(t) \/ CommitTakeSession(t)
      BY <1>0, <2>4 DEF CommitApply, CommitTakeSession, Takes, Returns, NoFrame
    <2> QED BY <1>4, <2>1, <2>2, <2>3, <2>4 DEF Txn
  <1>5. CASE CommitSession(t)
    BY <1>0, <1>5 DEF CommitSession, CommitSessionCas, CommitSessionRequest,
                CommitSessionMerge, CommitSessionClear, Returns, Takes, NoFrame, Frames
  <1>6. CASE Clone(t)
    BY <1>0, <1>6 DEF Clone, CloneBegin, CloneOverlay, CloneGlobal, CloneSession,
                CloneRequest, CloneSkipped, Answers, Takes, NoFrame, Frames
  <1>7. CASE MarkSkipped(t) \/ Finish(t) BY <1>0, <1>1, <1>7 DEF MarkSkipped, Finish, Returns, NoFrame
  <1> QED BY <1>2, <1>3, <1>4, <1>5, <1>6, <1>7 DEF Step

\* A lookup returns what its key looked like at some moment of the call, with
\* any number of threads that write, promote, commit and remove: what
\* lookup_slot_entry keeps its guards for.
THEOREM LookupsCurrent == Spec => []LookupCurrent
  <1> DEFINE Inv == \A t \in Threads : LookupFacts(t) /\ LookupResult(t)
  <1>1. Init => Inv BY DEF Init, NoFrame, LookupFacts, LookupResult
  <1>2. IInv /\ IInv' /\ Inv /\ [Next]_vars => Inv'
    <2> SUFFICES ASSUME IInv, IInv', Inv, [Next]_vars PROVE Inv' OBVIOUS
    <2>1. CASE UNCHANGED vars BY <2>1 DEF vars, LookupFacts, LookupResult
    <2>2. CASE Next
      <3>1. PICK t \in Threads : Step(t) BY <2>2 DEF Next
      <3>2. Observe BY <2>2 DEF Next
      <3>3. ASSUME NEW u \in Threads \ {t} PROVE LookupFacts(u)' /\ LookupResult(u)'
        BY <3>1, <3>2, <3>3, LookupUndisturbed
      <3>4. LookupFacts(t)' /\ LookupResult(t)'
        <4>1. CASE Lookup(t) BY <3>2, <4>1, LookupGoesOn
        <4>2. CASE ~ Lookup(t) BY <3>1, <4>2, NoLookup DEF LookupFacts, LookupResult
        <4> QED BY <4>1, <4>2
      <3> QED BY <3>3, <3>4
    <2> QED BY <2>1, <2>2
  <1>3. Inv => LookupCurrent BY DEF LookupResult, LookupCurrent
  <1> QED BY <1>1, <1>2, <1>3, Inductive, PTL DEF Spec

-----------------------------------------------------------------------------
(* Removals.                                                               *)

\* A key that nobody is about to put comes into no layer.
LEMMA OnlyPutsAdd ==
  ASSUME IInv, NEW t \in Threads, Step(t), NEW k \in Keys, ~ PutPending(k)
  PROVE  /\ request[k] = Absent => request'[k] = Absent
         /\ request[k] = Absent /\ session[k] = Absent => session'[k] = Absent
         /\ global[k] = Absent => global'[k] = Absent
  <1>0. /\ StoreTypes /\ frame[t].delta \in Delta
        /\ frame[t].op \in {"put", "remove"} => frame[t].key \in Keys
    BY DEF IInv, ControlTypes, Facts, CallFacts, Frames
  <1>1. frame[t].op = "put" => frame[t].key # k BY DEF PutPending
  <1>2. frame[t].op = "commit" => frame[t].delta[k] \in {Absent, Tombstone} BY <1>0 DEF PutPending, Delta
  <1>3. ASSUME request[k] = Absent PROVE request'[k] = Absent
    <2>1. CASE PutRequest(t) BY <1>0, <1>1, <1>3, <2>1 DEF PutRequest, Takes, StoreTypes, Layer
    <2>2. CASE RemoveRequest(t) BY <1>0, <1>3, <2>2 DEF RemoveRequest, Takes, StoreTypes, Layer
    <2>3. CASE CommitApply(t) BY <1>2, <1>3, <2>3 DEF CommitApply, Takes, Applied
    <2>4. CASE CommitSessionClear(t) BY <2>4 DEF CommitSessionClear, EmptyLayer
    <2> QED BY <1>3, <2>1, <2>2, <2>3, <2>4, Writers
  <1>4. ASSUME request[k] = Absent, session[k] = Absent PROVE session'[k] = Absent
    <2>1. CASE RemoveSession(t) BY <1>0, <1>4, <2>1 DEF RemoveSession, Takes, StoreTypes, Layer
    <2>2. CASE CommitTombstones(t) BY <1>4, <2>2 DEF CommitTombstones, Without
    <2>3. CASE CommitSessionMerge(t) BY <1>4, <2>3 DEF CommitSessionMerge, Applied
    <2> QED BY <1>4, <2>1, <2>2, <2>3, Writers
  <1>5. ASSUME global[k] = Absent PROVE global'[k] = Absent
    <2>1. CASE RemoveGlobal(t) BY <1>0, <1>5, <2>1 DEF RemoveGlobal, Takes, StoreTypes, Layer
    <2>2. CASE CommitTombstones(t) BY <1>5, <2>2 DEF CommitTombstones, Without
    <2> QED BY <1>5, <2>1, <2>2, Writers
  <1> QED BY <1>3, <1>4, <1>5

\* The steps of a call that removes.
LEMMA RemovingSteps ==
  ASSUME IInv, NEW t \in Threads, Step(t), Removing(t) # {}
  PROVE  \/ frame[t].op = "remove" /\ (RemoveRequest(t) \/ RemoveSession(t) \/ RemoveGlobal(t))
         \/ frame[t].op = "commit" /\ (CommitDetach(t) \/ CommitApply(t) \/ CommitTakeSession(t)
                                       \/ CommitTombstones(t))
  <1>0. at[t] \in Points(frame[t].op) BY DEF IInv, GuardsHeld
  <1>1. \/ frame[t].op = "remove" /\ at[t] \in {"request", "session", "global"}
        \/ frame[t].op = "commit" /\ at[t] \in {"overlays", "request", "session", "global"}
    BY <1>0 DEF Removing, Points
  <1>2. CASE Write(t)
    BY <1>1, <1>2 DEF Write, WriteBegin, OverlayWrite, PutRequest, RemoveRequest, RemoveSession,
                RemoveGlobal, Enters, Takes
  <1>3. ~ Lookup(t)
    BY <1>1 DEF Lookup, LookupBegin, LookupOverlay, LookupRequest, LookupSession,
                LookupLayer, LookupGlobal, Enters, Takes
  <1>4. ~ List(t)
    BY <1>1 DEF List, ListBegin, ListOverlay, ListRequest, ListSession, ListLayer,
                ListGlobal, Enters, Takes
  <1>5. CASE Txn(t)
    BY <1>1, <1>5 DEF Txn, TxnBegin, BeginSubgraph, RollbackOverlay, CommitDetach, CommitApply,
                CommitTakeSession, CommitTombstones, Enters, Takes
  <1>6. ~ CommitSession(t)
    BY <1>1 DEF CommitSession, CommitSessionCas, CommitSessionRequest,
                CommitSessionMerge, CommitSessionClear, Takes
  <1>7. ~ Clone(t)
    BY <1>1 DEF Clone, CloneBegin, CloneOverlay, CloneGlobal, CloneSession,
                CloneRequest, CloneSkipped, Enters, Takes
  <1>8. ~ MarkSkipped(t) /\ ~ Finish(t) BY <1>1 DEF MarkSkipped, Finish
  <1> QED BY <1>2, <1>3, <1>4, <1>5, <1>6, <1>7, <1>8 DEF Step

\* A call that begins to remove has every layer before it.
LEMMA RemovingStarts ==
  ASSUME IInv, NEW t \in Threads, Step(t), Removing(t) = {}, Removing(t)' # {}
  PROVE  at'[t] = "request"
  <1>0. /\ DOMAIN frame = Threads /\ DOMAIN at = Threads /\ frame[t] \in Frames
        /\ Tombstones(EmptyLayer) = {} BY MarkersAssumption DEF IInv, ControlTypes, Tombstones, EmptyLayer
  <1>1. \/ frame'[t].op = "remove" /\ at'[t] # "overlays"
        \/ frame'[t].op = "commit" /\ Tombstones(frame'[t].delta) # {} BY DEF Removing, Tombstones
  <1>2. frame'[t] # NoFrame BY <1>1 DEF NoFrame
  <1>3. ~ Returns(t) BY <1>0, <1>2 DEF Returns
  <1>4. CASE Write(t)
    <2>1. CASE WriteBegin(t) BY <1>0, <1>1, <2>1 DEF WriteBegin, Goes, AfterActive, NoFrame
    <2>2. CASE RemoveRequest(t) \/ RemoveSession(t) BY <2>2 DEF RemoveRequest, RemoveSession, Takes, Removing
    <2> QED BY <1>3, <1>4, <2>1, <2>2 DEF Write, OverlayWrite, PutRequest, RemoveGlobal
  <1>5. CASE Lookup(t)
    <2>1. frame'[t].op = "lookup"
      BY <1>0, <1>5, ZenonT(60) DEF Lookup, LookupBegin, LookupOverlay, LookupRequest, LookupSession,
                LookupLayer, LookupGlobal, Found, Answers, Takes, NoFrame, Frames
    <2> QED BY <1>1, <2>1
  <1>6. CASE List(t)
    <2>1. frame'[t].op = "list"
      BY <1>0, <1>6, ZenonT(60) DEF List, ListBegin, ListOverlay, ListRequest, ListSession, ListLayer,
                ListGlobal, Answers, Takes, NoFrame, Frames
    <2> QED BY <1>1, <2>1
  <1>7. CASE Txn(t)
    <2>1. CASE TxnBegin(t) BY <1>0, <2>1, <1>1 DEF TxnBegin, NoFrame
    <2>2. CASE CommitDetach(t) BY <1>0, <2>2 DEF CommitDetach, Goes
    <2>3. CASE CommitApply(t) \/ CommitTakeSession(t)
      BY <1>3, <2>3, <1>1 DEF CommitApply, CommitTakeSession, Takes, Removing
    <2> QED BY <1>3, <1>7, <2>1, <2>2, <2>3 DEF Txn, BeginSubgraph, RollbackOverlay, CommitTombstones
  <1>8. CASE CommitSession(t)
    <2>1. frame'[t].op = "commit_session"
      BY <1>0, <1>3, <1>8 DEF CommitSession, CommitSessionCas, CommitSessionRequest,
                CommitSessionMerge, CommitSessionClear, Takes, NoFrame
    <2> QED BY <1>1, <2>1
  <1>9. CASE Clone(t)
    <2>1. frame'[t].op = "clone"
      BY <1>0, <1>9, ZenonT(60) DEF Clone, CloneBegin, CloneOverlay, CloneGlobal, CloneSession,
                CloneRequest, CloneSkipped, Answers, Takes, NoFrame, Frames
    <2> QED BY <1>1, <2>1
  <1>10. CASE MarkSkipped(t) BY <1>10 DEF MarkSkipped, Removing
  <1> QED BY <1>3, <1>4, <1>5, <1>6, <1>7, <1>8, <1>9, <1>10 DEF Step, Finish

\* A key that nobody has put since a call began to remove it is out of the
\* layers that the call has been to, and a key that is gone is out of all.
RemovalFacts(t) ==
    \A k \in doomed[t] :
        /\ k \in Removing(t) /\ ~ PutPending(k)
        /\ ~ (frame[t].op = "commit" /\ at[t] = "overlays")
        /\ at[t] \in {"session", "global"} => request[k] = Absent
        /\ frame[t].op = "remove" /\ at[t] = "global" => session[k] = Absent

GoneFacts ==
    \A k \in gone : /\ request[k] = Absent /\ session[k] = Absent /\ global[k] = Absent
                    /\ ~ PutPending(k)

\* The removal goes on.
LEMMA RemovalGoesOn ==
  ASSUME IInv, NEW t \in Threads, Step(t), RemovalFacts(t), NEW k \in Keys, k \in doomed[t],
         k \in Removing(t)'
  PROVE  /\ ~ (frame'[t].op = "commit" /\ at'[t] = "overlays")
         /\ at'[t] \in {"session", "global"} => request'[k] = Absent
         /\ frame'[t].op = "remove" /\ at'[t] = "global" => session'[k] = Absent
  <1>0. /\ DOMAIN frame = Threads /\ DOMAIN at = Threads /\ frame[t] \in Frames /\ StoreTypes
    BY DEF IInv, ControlTypes
  <1>1. k \in Removing(t) /\ Removing(t) # {} /\ ~ PutPending(k)
        /\ (at[t] \in {"session", "global"} => request[k] = Absent) BY DEF RemovalFacts
  <1>2. ~ Returns(t) BY <1>0 DEF Returns, Removing, NoFrame
  <1>3. CASE frame[t].op = "remove"
    <2>0. k = frame[t].key BY <1>1, <1>3 DEF Removing
    <2>1. CASE RemoveRequest(t) BY <1>0, <2>0, <2>1 DEF RemoveRequest, Goes, StoreTypes, Layer
    <2>2. CASE RemoveSession(t) BY <1>0, <1>1, <2>0, <2>2 DEF RemoveSession, Takes, Goes, StoreTypes, Layer
    <2> QED BY <1>1, <1>2, <1>3, <2>1, <2>2, RemovingSteps DEF RemoveGlobal
  <1>4. CASE frame[t].op = "commit"
    <2>0. frame[t].delta[k] = Tombstone BY <1>1, <1>4 DEF Removing, Tombstones
    <2>1. CASE CommitDetach(t) BY <1>0, <2>1 DEF CommitDetach, Goes
    <2>2. CASE CommitApply(t) BY <1>2, <2>0, <2>2, <1>0, <1>4 DEF CommitApply, Applied, Goes
    <2>3. CASE CommitTakeSession(t) BY <1>0, <1>1, <1>4, <2>3 DEF CommitTakeSession, Takes, Goes, store
    <2> QED BY <1>1, <1>2, <1>4, <2>1, <2>2, <2>3, RemovingSteps DEF CommitTombstones
  <1> QED BY <1>1, <1>3, <1>4, RemovingSteps

\* The removal ends with the key in no layer.
LEMMA RemovalEnds ==
  ASSUME IInv, NEW t \in Threads, Step(t), RemovalFacts(t), NEW k \in Keys, k \in doomed[t],
         Removing(t)' = {}
  PROVE  request'[k] = Absent /\ session'[k] = Absent /\ global'[k] = Absent
  <1>0. /\ DOMAIN frame = Threads /\ DOMAIN at = Threads /\ frame[t] \in Frames /\ StoreTypes
    BY DEF IInv, ControlTypes
  <1>1. k \in Removing(t) /\ Removing(t) # {}
        /\ (at[t] \in {"session", "global"} => request[k] = Absent)
        /\ (frame[t].op = "remove" /\ at[t] = "global" => session[k] = Absent) BY DEF RemovalFacts
  <1>2. CASE frame[t].op = "remove"
    <2>0. k = frame[t].key BY <1>1, <1>2 DEF Removing
    <2>1. ~ RemoveRequest(t) /\ ~ RemoveSession(t)
      BY <1>0, <1>2 DEF RemoveRequest, RemoveSession, Goes, Removing
    <2>2. RemoveGlobal(t) BY <1>1, <1>2, <2>1, RemovingSteps
    <2> QED BY <1>0, <1>1, <1>2, <2>0, <2>2 DEF RemoveGlobal, Takes, StoreTypes, Layer
  <1>3. CASE frame[t].op = "commit"
    <2>0. frame[t].delta[k] = Tombstone BY <1>1, <1>3 DEF Removing, Tombstones
    <2>1. Tombstones(frame[t].delta) # {} /\ k \in Tombstones(frame[t].delta) BY <2>0 DEF Tombstones
    <2>2. ASSUME frame'[t] = frame[t] PROVE FALSE BY <1>3, <2>1, <2>2 DEF Removing, Tombstones
    <2>3. ~ CommitApply(t) /\ ~ CommitTakeSession(t) BY <2>1, <2>2 DEF CommitApply, CommitTakeSession
    <2>4. CASE CommitTombstones(t) BY <1>1, <2>1, <2>4 DEF CommitTombstones, Takes, Without
    <2>5. CASE CommitDetach(t) BY <2>5, <1>3 DEF CommitDetach, Takes, RemovalFacts
    <2> QED BY <1>1, <1>3, <2>3, <2>4, <2>5, RemovingSteps
  <1> QED BY <1>1, <1>2, <1>3, RemovingSteps

\* A step of Next keeps what is known of removals: the other threads' calls stay
\* where they are and the layers only lose keys that nobody puts.
LEMMA RemovalsStep ==
  ASSUME IInv, IInv', GoneFacts, \A u \in Threads : RemovalFacts(u), GhostTypes, Next
  PROVE  GoneFacts' /\ \A u \in Threads : RemovalFacts(u)'
  <1>0. PICK t \in Threads : Step(t) BY DEF Next
  <1>1. Observe BY DEF Next
  <1>2. ASSUME NEW k \in Keys, ~ PutPending(k)
        PROVE  /\ request[k] = Absent => request'[k] = Absent
               /\ request[k] = Absent /\ session[k] = Absent => session'[k] = Absent
               /\ global[k] = Absent => global'[k] = Absent BY <1>0, <1>2, OnlyPutsAdd
  <1>3. ASSUME NEW u \in Threads \ {t}
        PROVE  /\ frame'[u] = frame[u] /\ at'[u] = at[u]
               /\ Removing(u)' = Removing(u) BY <1>0, StepApart DEF Apart, Removing, Tombstones
  <1>4. ASSUME NEW u \in Threads PROVE RemovalFacts(u)'
    <2> SUFFICES ASSUME NEW k \in doomed'[u]
                 PROVE  /\ k \in Removing(u)' /\ ~ PutPending(k)'
                        /\ ~ (frame'[u].op = "commit" /\ at'[u] = "overlays")
                        /\ at'[u] \in {"session", "global"} => request'[k] = Absent
                        /\ frame'[u].op = "remove" /\ at'[u] = "global" => session'[k] = Absent
      BY DEF RemovalFacts
    <2>1. /\ k \in Removing(u)' /\ ~ PutPending(k)'
          /\ Removing(u) = {} \/ k \in doomed[u] BY <1>1 DEF Observe
    <2>2. CASE k \in doomed[u]
      <3>0. k \in Keys /\ RemovalFacts(u) BY <2>2 DEF GhostTypes
      <3>1. CASE u = t BY <1>0, <2>1, <2>2, <3>0, <3>1, RemovalGoesOn
      <3>2. CASE u # t BY <2>2, <3>0, <1>3, <3>2, <1>2, <2>1 DEF RemovalFacts
      <3> QED BY <3>1, <3>2
    <2>3. CASE k \notin doomed[u] BY <1>3, <2>1, <2>3, <1>0, RemovingStarts
    <2> QED BY <2>2, <2>3
  <1>5. GoneFacts'
    <2> SUFFICES ASSUME NEW k \in gone'
                 PROVE  /\ request'[k] = Absent /\ session'[k] = Absent /\ global'[k] = Absent
                        /\ ~ PutPending(k)' BY DEF GoneFacts
    <2>1. /\ ~ PutPending(k)'
          /\ \/ k \in gone
             \/ \E u \in Threads : Removing(u) # {} /\ Removing(u)' = {} /\ k \in doomed[u]
      BY <1>1 DEF Observe
    <2>2. CASE k \in gone BY <2>2, <1>2, <2>1 DEF GhostTypes, GoneFacts
    <2>3. ASSUME NEW u \in Threads, Removing(u) # {}, Removing(u)' = {}, k \in doomed[u]
          PROVE  request'[k] = Absent /\ session'[k] = Absent /\ global'[k] = Absent
      BY <1>3, <2>3, <1>0, RemovalEnds DEF GhostTypes
    <2> QED BY <2>1, <2>2, <2>3
  <1> QED BY <1>4, <1>5

\* A key whose removal has finished, by remove or by a committed tombstone, is in
\* no layer until it is put again, whatever promotions run beside it.
THEOREM RemovedStays == Spec => []NoResurrection
  <1> DEFINE Removals == GoneFacts /\ \A t \in Threads : RemovalFacts(t)
  <1>1. Init => Removals BY DEF Init, GoneFacts, RemovalFacts
  <1>2. IInv /\ IInv' /\ GhostTypes /\ Removals /\ [Next]_vars => Removals'
    <2>1. ASSUME IInv, IInv', GhostTypes, Removals, Next PROVE Removals' BY <2>1, RemovalsStep
    <2>2. ASSUME Removals, UNCHANGED vars PROVE Removals'
      BY <2>2 DEF vars, GoneFacts, RemovalFacts, PutPending, Removing, Tombstones
    <2> QED BY <2>1, <2>2
  <1>3. Removals => NoResurrection BY DEF GoneFacts, NoResurrection
  <1>4. TypeOK => GhostTypes BY DEF TypeOK, GhostTypes
  <1> QED BY <1>1, <1>2, <1>3, <1>4, Inductive, Types, PTL DEF Spec

-----------------------------------------------------------------------------
(* The promotion of the request layer.                                     *)

\* Beside a thread that promotes, nobody writes entries into the request layer.
\* (What another thread puts between the two request sections of commit_session
\* is cleared without having been promoted.)
PromotersAlone ==
    \A t, u \in Threads :
        t # u /\ "commit_session" \in Ops[t] => Ops[u] \cap {"put", "commit"} = {}

\* Before it clears the request layer, a promotion has every entry of it in the
\* session layer.
Promoted(t) ==
    frame[t].op = "commit_session" /\ at[t] = "clear" =>
        \A k \in Keys : request[k] # Absent => session[k] = request[k]

\* It has them there until the layer is cleared: the session guard is kept, and
\* the others only remove from the request layer.
LEMMA PromotedGoesOn ==
  ASSUME PromotersAlone, IInv, NEW t \in Threads, Step(t), NEW u \in Threads, Promoted(u)
  PROVE  Promoted(u)'
  <1> SUFFICES ASSUME frame'[u].op = "commit_session", at'[u] = "clear",
                      NEW k \in Keys, request'[k] # Absent
               PROVE  session'[k] = request'[k] BY DEF Promoted
  <1>0. /\ DOMAIN frame = Threads /\ DOMAIN at = Threads /\ frame[t] \in Frames /\ StoreTypes
        /\ at[t] \in Points(frame[t].op) BY DEF IInv, ControlTypes, GuardsHeld
  <1>1. CASE t = u
    <2>1. CASE CommitSessionMerge(t)
      BY <2>1, <1>0, MarkersAssumption DEF CommitSessionMerge, StoreTypes, Layer, Applied
    <2>2. ~ Returns(t) BY <1>0, <1>1 DEF Returns, Goes
    <2>3. ~ Write(t)
      BY <1>0, <1>1, <2>2 DEF Write, WriteBegin, OverlayWrite, PutRequest, RemoveRequest,
                RemoveSession, RemoveGlobal, Goes, AfterActive
    <2>4. ~ Lookup(t)
      BY <1>0, <1>1 DEF Lookup, LookupBegin, LookupOverlay, LookupRequest, LookupSession,
                LookupLayer, LookupGlobal, Found, Answers, Goes, AfterActive
    <2>5. ~ List(t)
      BY <1>0, <1>1 DEF List, ListBegin, ListOverlay, ListRequest, ListSession, ListLayer,
                ListGlobal, Answers, Goes, AfterActive
    <2>6. ~ Txn(t)
      BY <1>0, <1>1, <2>2 DEF Txn, TxnBegin, BeginSubgraph, RollbackOverlay, CommitDetach,
                CommitApply, CommitTakeSession, CommitTombstones, Goes
    <2>7. ~ Clone(t)
      BY <1>0, <1>1 DEF Clone, CloneBegin, CloneOverlay, CloneGlobal, CloneSession,
                CloneRequest, CloneSkipped, Answers, Goes
    <2>8. CommitSession(t) => CommitSessionMerge(t)
      BY <1>0, <1>1, <2>2 DEF CommitSession, CommitSessionCas, CommitSessionRequest,
                CommitSessionClear, Goes
    <2>9. ~ MarkSkipped(t) BY <1>0, <1>1 DEF MarkSkipped, Points
    <2> QED BY <2>1, <2>2, <2>3, <2>4, <2>5, <2>6, <2>7, <2>8, <2>9 DEF Step, Finish
  <1>2. CASE t # u
    <2>1. frame[u].op = "commit_session" /\ at[u] = "clear" BY <1>2, StepApart DEF Apart
    <2>2. "commit_session" \in Ops[u] /\ held[u] = {"session"} BY <2>1 DEF IInv, GuardsHeld, Guards
    <2>3. frame[t].op \notin {"put", "commit"} BY <1>2, <2>2 DEF PromotersAlone, IInv, GuardsHeld
    <2>4. UNCHANGED session BY <1>2, <2>2, Guarded
    <2>5. ~ PutRequest(t) /\ ~ CommitApply(t) BY <2>3 DEF PutRequest, CommitApply, Takes
    <2>6. held[t] \cap held[u] = {} /\ held[t] = Guards(frame[t].op, at[t])
      BY <1>2 DEF IInv, Exclusion, GuardsHeld
    <2>7. ~ CommitSessionClear(t) BY <2>2, <2>6 DEF CommitSessionClear, Guards
    <2>8. CASE RemoveRequest(t) BY <2>8, <1>0, <2>1, <2>4 DEF RemoveRequest, StoreTypes, Layer, Promoted
    <2>9. CASE UNCHANGED request BY <2>1, <2>4, <2>9 DEF Promoted
    <2> QED BY <2>5, <2>7, <2>8, <2>9, Writers
  <1> QED BY <1>1, <1>2

\* No step of commit_session changes what a reader sees of any key, in a program
\* where nobody puts or commits beside the thread that promotes.
THEOREM PromotionKeepsView == PromotersAlone => (Spec => PromotionPreservesView)
  <1> SUFFICES ASSUME PromotersAlone PROVE Spec => PromotionPreservesView OBVIOUS
  <1> DEFINE Promotions == \A u \in Threads : Promoted(u)
  <1>1. Init => Promotions BY DEF Init, Promoted
  <1>2. IInv /\ Promotions /\ [Next]_vars => Promotions'
    <2>1. ASSUME IInv, Promotions, Next PROVE Promotions' BY <2>1, PromotedGoesOn DEF Next
    <2>2. ASSUME Promotions, UNCHANGED vars PROVE Promotions' BY <2>2 DEF vars, Promoted
    <2> QED BY <2>1, <2>2
  <1>3. IInv /\ Promotions /\ [Next]_vars =>
          [ (\E t \in Threads : frame[t].op = "commit_session" /\ at'[t] # at[t])
            => \A k \in Keys : View(k)' = View(k) ]_vars
    <2> SUFFICES ASSUME IInv, Promotions, Next,
                        NEW t \in Threads, frame[t].op = "commit_session", at'[t] # at[t],
                        NEW k \in Keys
                 PROVE  View(k)' = View(k) OBVIOUS
    <2>0. StoreTypes /\ at[t] \in Points(frame[t].op) BY DEF IInv, GuardsHeld
    <2>1. Step(t)
      <3>1. PICK u \in Threads : Step(u) BY DEF Next
      <3>2. u = t BY <3>1, StepApart DEF Apart
      <3> QED BY <3>1, <3>2
    <2>2. Base(k)' = Base(k) => View(k)' = View(k) \/ ~ UNCHANGED <<active, overlays>> BY DEF View
    <2>3. UNCHANGED <<active, overlays, global>>
      BY <2>1, Writers DEF OverlayWrite, BeginSubgraph, RollbackOverlay, CommitDetach,
                RemoveGlobal, CommitTombstones, Takes
    <2>4. request[k] # Tombstone BY <2>0, MarkersAssumption DEF StoreTypes, Layer
    <2>5. CASE CommitSessionMerge(t) BY <2>5, <2>3, <2>4, <2>2 DEF CommitSessionMerge, Base, Applied
    <2>6. CASE CommitSessionClear(t) BY <2>6, <2>3, <2>2 DEF CommitSessionClear, Promoted, Base, EmptyLayer
    <2>7. CASE UNCHANGED <<request, session>> BY <2>3, <2>7, <2>2 DEF Base
    <2>8. ~ PutRequest(t) /\ ~ RemoveRequest(t) /\ ~ CommitApply(t) /\ ~ RemoveSession(t)
          /\ ~ CommitTombstones(t)
      BY DEF PutRequest, RemoveRequest, CommitApply, RemoveSession, CommitTombstones, Takes
    <2> QED BY <2>1, <2>5, <2>6, <2>7, <2>8, Writers
  <1> QED BY <1>1, <1>2, <1>3, Inductive, PTL DEF Spec, PromotionPreservesView
=============================================================================
