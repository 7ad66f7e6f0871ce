---------------------------- MODULE ContextStore ----------------------------
(***************************************************************************)
(* The slot store of RuntimeContext (cordis-runtime, context/mod.rs): the  *)
(* request, session and global layers, the overlay of the active subgraph  *)
(* and the session version, every one behind a mutex of its own, and the   *)
(* operations of ContextRead, ContextWrite and ContextTxn that threads     *)
(* call on it through a shared reference.                                  *)
(*                                                                         *)
(* A step is one critical section.  A handler that takes a second lock     *)
(* while it keeps the first one has a step for each acquisition: at[t] is  *)
(* the lock that thread t takes next and held[t] the guards it keeps       *)
(* meanwhile.  The first acquisition of a call is merged with the call.    *)
(***************************************************************************)
EXTENDS Naturals, FiniteSets

CONSTANTS Threads, Keys, Values, Subgraphs, Nodes,
          Ops,          \* Ops[t]: the operations thread t may call
          Clash,        \* <<k, e>>: same slot, different major version
          MaxVersion,   \* bound on session_version
          None, Absent, Tombstone

OpNames == {"put", "remove", "lookup", "list", "begin", "commit", "rollback",
            "commit_session", "clone", "mark_skipped"}

ASSUME OpsAssumption == Ops \in [Threads -> SUBSET OpNames]
ASSUME ClashAssumption == Clash \subseteq Keys \X Keys
ASSUME VersionAssumption == MaxVersion \in Nat
ASSUME MarkersAssumption ==
    /\ None \notin Subgraphs
    /\ {Absent, Tombstone, "Incompatible"} \cap Values = {}
    /\ Absent # Tombstone
    /\ None \notin [Keys -> Values \cup {Absent, Tombstone}]

VARIABLES active, overlays, request, session, global, version, skipped,
          held, at, frame,
          window, doomed, gone

store == <<active, overlays, request, session, global, version, skipped>>
ghosts == <<window, doomed, gone>>
vars == <<active, overlays, request, session, global, version, skipped,
          held, at, frame, window, doomed, gone>>

Locks == {"active", "overlays", "request", "session", "global", "skipped"}

\* A layer maps a key to its entry; an overlay also records deletions.
Layer == [Keys -> Values \cup {Absent}]
Delta == [Keys -> Values \cup {Absent, Tombstone}]

EmptyLayer == [k \in Keys |-> Absent]

\* What a call keeps on its stack: its arguments, the overlay it has copied
\* or detached, the keys or the entry it has found, and a clone's layers.
Frames == [op : OpNames \cup {"none"}, key : Keys \cup {None},
           val : Values \cup {Absent}, sub : Subgraphs \cup {None},
           delta : Delta, listed : SUBSET Keys,
           found : Values \cup {Absent, "Incompatible"},
           session : Layer, request : Layer]

NoFrame == [op |-> "none", key |-> None, val |-> Absent, sub |-> None,
            delta |-> EmptyLayer, listed |-> {}, found |-> Absent,
            session |-> EmptyLayer, request |-> EmptyLayer]

Init == /\ active = None
        /\ overlays = [s \in Subgraphs |-> None]
        /\ request = EmptyLayer
        /\ session = EmptyLayer
        /\ global = EmptyLayer
        /\ version = 0
        /\ skipped = {}
        /\ held = [t \in Threads |-> {}]
        /\ at = [t \in Threads |-> "idle"]
        /\ frame = [t \in Threads |-> NoFrame]
        /\ window = [t \in Threads |-> [k \in Keys |-> {}]]
        /\ doomed = [t \in Threads |-> {}]
        /\ gone = {}

-----------------------------------------------------------------------------
(* Locks and control.                                                      *)

Free(l) == \A u \in Threads : l \notin held[u]

\* t runs handler op and takes lock l next.
Takes(t, op, l) == frame[t].op = op /\ at[t] = l /\ Free(l)

\* A call of op whose first critical section is under `active`.
Enters(t, op) == /\ at[t] = "idle"
                 /\ op \in Ops[t]
                 /\ Free("active")

Keeps(t, locks) == held' = [held EXCEPT ![t] = locks]
Goes(t, l) == at' = [at EXCEPT ![t] = l]

\* The call ends: every guard is dropped and the stack frame is gone.
Returns(t) == /\ Keeps(t, {})
              /\ Goes(t, "idle")
              /\ frame' = [frame EXCEPT ![t] = NoFrame]

\* A read ends with a result, which its caller takes in Finish.
Answers(t, fr) == /\ Keeps(t, {})
                  /\ Goes(t, "done")
                  /\ frame' = [frame EXCEPT ![t] = fr]

Finish(t) == /\ at[t] = "done"
             /\ Returns(t)
             /\ UNCHANGED store

\* While a subgraph is active its overlay comes first, then the layers.
AfterActive == IF active = None THEN "request" ELSE "overlays"

-----------------------------------------------------------------------------
(* put and remove: `active` is held until the write is done.               *)

\* Mutant: `active` is dropped before the write.
WriteBeginUnlocked(t) ==
    \E op \in {"put", "remove"}, k \in Keys, v \in Values \cup {Absent} :
        /\ Enters(t, op)
        /\ (v = Absent) = (op = "remove")
        /\ Goes(t, AfterActive)
        /\ frame' = [frame EXCEPT ![t] = [NoFrame EXCEPT !.op = op, !.key = k,
                                                         !.val = v]]
        /\ UNCHANGED <<store, held>>

WriteBegin(t) ==
    \E op \in {"put", "remove"}, k \in Keys, v \in Values \cup {Absent} :
        /\ Enters(t, op)
        /\ (v = Absent) = (op = "remove")
        /\ Keeps(t, {"active"})
        /\ Goes(t, AfterActive)
        /\ frame' = [frame EXCEPT ![t] = [NoFrame EXCEPT !.op = op, !.key = k,
                                                         !.val = v]]
        /\ UNCHANGED store

\* A removal inside a subgraph leaves a tombstone in its overlay.
OverlayWrite(t) ==
    /\ \/ Takes(t, "put", "overlays")
       \/ Takes(t, "remove", "overlays")
    /\ overlays' = [overlays EXCEPT ![active] =
                      [@ EXCEPT ![frame[t].key] =
                         IF frame[t].op = "put" THEN frame[t].val ELSE Tombstone]]
    /\ Returns(t)
    /\ UNCHANGED <<active, request, session, global, version, skipped>>

PutRequest(t) ==
    /\ Takes(t, "put", "request")
    /\ request' = [request EXCEPT ![frame[t].key] = frame[t].val]
    /\ Returns(t)
    /\ UNCHANGED <<active, overlays, session, global, version, skipped>>

\* remove_slot_across_layers: one critical section per layer.
RemoveRequest(t) ==
    /\ Takes(t, "remove", "request")
    /\ request' = [request EXCEPT ![frame[t].key] = Absent]
    /\ Goes(t, "session")
    /\ UNCHANGED <<active, overlays, session, global, version, skipped, held, frame>>

RemoveSession(t) ==
    /\ Takes(t, "remove", "session")
    /\ session' = [session EXCEPT ![frame[t].key] = Absent]
    /\ Goes(t, "global")
    /\ UNCHANGED <<active, overlays, request, global, version, skipped, held, frame>>

RemoveGlobal(t) ==
    /\ Takes(t, "remove", "global")
    /\ global' = [global EXCEPT ![frame[t].key] = Absent]
    /\ Returns(t)
    /\ UNCHANGED <<active, overlays, request, session, version, skipped>>

-----------------------------------------------------------------------------
(* lookup_slot_entry, under get, contains and meta: `active`, `request`    *)
(* and `session` are kept to the end of the call.                          *)

LookupBegin(t) ==
    \E k \in Keys :
        /\ Enters(t, "lookup")
        /\ Keeps(t, {"active"})
        /\ Goes(t, AfterActive)
        /\ frame' = [frame EXCEPT ![t] = [NoFrame EXCEPT !.op = "lookup", !.key = k]]
        /\ UNCHANGED store

Found(t, e) == Answers(t, [frame[t] EXCEPT !.found = e])

\* Mutant: a tombstone counts as a miss.
LookupOverlayNoTombstone(t) ==
    /\ Takes(t, "lookup", "overlays")
    /\ LET hit == overlays[active][frame[t].key]
       IN \/ /\ hit \in Values
             /\ Found(t, hit)
          \/ /\ hit \notin Values
             /\ Goes(t, "request")
             /\ UNCHANGED <<held, frame>>
    /\ UNCHANGED store

LookupOverlay(t) ==
    /\ Takes(t, "lookup", "overlays")
    /\ LET hit == overlays[active][frame[t].key]
       IN \/ /\ hit # Absent
             /\ Found(t, IF hit = Tombstone THEN Absent ELSE hit)
          \/ /\ hit = Absent
             /\ Goes(t, "request")
             /\ UNCHANGED <<held, frame>>
    /\ UNCHANGED store

\* The layer that `l` guards is searched; on a miss its guard is kept.
LookupLayer(t, l, layer, next) ==
    /\ Takes(t, "lookup", l)
    /\ \/ /\ layer[frame[t].key] # Absent
          /\ Found(t, layer[frame[t].key])
       \/ /\ layer[frame[t].key] = Absent
          /\ Keeps(t, held[t] \cup {l})
          /\ Goes(t, next)
          /\ UNCHANGED frame
    /\ UNCHANGED store

LookupRequest(t) == LookupLayer(t, "request", request, "session")
LookupSession(t) == LookupLayer(t, "session", session, "global")

\* A miss in every layer is an error when the slot exists with another major.
LookupGlobal(t) ==
    /\ Takes(t, "lookup", "global")
    /\ LET k == frame[t].key
           clash == \E e \in Keys : /\ <<k, e>> \in Clash
                                    /\ \/ request[e] # Absent
                                       \/ session[e] # Absent
                                       \/ global[e] # Absent
       IN Found(t, IF global[k] # Absent THEN global[k]
                   ELSE IF clash THEN "Incompatible" ELSE Absent)
    /\ UNCHANGED store

-----------------------------------------------------------------------------
(* list_by_ns: no lock is kept from one critical section to the next.      *)

ListBegin(t) ==
    /\ Enters(t, "list")
    /\ Goes(t, AfterActive)
    /\ frame' = [frame EXCEPT ![t] = [NoFrame EXCEPT !.op = "list", !.sub = active]]
    /\ UNCHANGED <<store, held>>

\* The overlay may be gone, or be another one of the same subgraph, by now.
ListOverlay(t) ==
    /\ Takes(t, "list", "overlays")
    /\ LET o == overlays[frame[t].sub]
       IN frame' = [frame EXCEPT ![t].delta = IF o = None THEN EmptyLayer ELSE o]
    /\ Goes(t, "request")
    /\ UNCHANGED <<store, held>>

Present(layer) == {k \in Keys : layer[k] # Absent}

ListLayer(t, l, layer, next) ==
    /\ Takes(t, "list", l)
    /\ frame' = [frame EXCEPT ![t].listed = @ \cup Present(layer)]
    /\ Goes(t, next)
    /\ UNCHANGED <<store, held>>

ListRequest(t) == ListLayer(t, "request", request, "session")
ListSession(t) == ListLayer(t, "session", session, "global")

\* Mutant: the guard on `global` is kept while the overlay is read again.
ListGlobalFirst(t) ==
    /\ Takes(t, "list", "global")
    /\ Keeps(t, {"global"})
    /\ Goes(t, AfterActive)
    /\ frame' = [frame EXCEPT ![t].sub = active]
    /\ UNCHANGED store

\* The last layer, then the overlay copied at the start is applied on top.
ListGlobal(t) ==
    /\ Takes(t, "list", "global")
    /\ LET d == frame[t].delta
           all == frame[t].listed \cup Present(global)
       IN Answers(t, [frame[t] EXCEPT !.listed =
                        {k \in all : d[k] # Tombstone}
                          \cup {k \in Keys : d[k] \in Values}])
    /\ UNCHANGED store

-----------------------------------------------------------------------------
(* The subgraph transaction.                                               *)

\* The first section of begin, commit and rollback.  A call that does not
\* match the active subgraph is refused and changes nothing (it stutters).
TxnBegin(t) ==
    \E op \in {"begin", "commit", "rollback"}, s \in Subgraphs :
        /\ Enters(t, op)
        /\ active = IF op = "begin" THEN None ELSE s
        /\ Keeps(t, {"active"})
        /\ Goes(t, "overlays")
        /\ frame' = [frame EXCEPT ![t] = [NoFrame EXCEPT !.op = op, !.sub = s]]
        /\ UNCHANGED store

BeginSubgraph(t) ==
    /\ Takes(t, "begin", "overlays")
    /\ overlays' = [overlays EXCEPT ![frame[t].sub] = EmptyLayer]
    /\ active' = frame[t].sub
    /\ Returns(t)
    /\ UNCHANGED <<request, session, global, version, skipped>>

RollbackOverlay(t) ==
    /\ Takes(t, "rollback", "overlays")
    /\ overlays' = [overlays EXCEPT ![frame[t].sub] = None]
    /\ active' = None
    /\ Returns(t)
    /\ UNCHANGED <<request, session, global, version, skipped>>

\* Mutant: the overlay is detached but its subgraph stays active.
CommitDetachKeepsActive(t) ==
    /\ Takes(t, "commit", "overlays")
    /\ frame' = [frame EXCEPT ![t].delta = overlays[frame[t].sub]]
    /\ overlays' = [overlays EXCEPT ![frame[t].sub] = None]
    /\ Keeps(t, {})
    /\ Goes(t, "request")
    /\ UNCHANGED <<active, request, session, global, version, skipped>>

\* commit_overlay detaches the overlay, drops both guards ...
CommitDetach(t) ==
    /\ Takes(t, "commit", "overlays")
    /\ frame' = [frame EXCEPT ![t].delta = overlays[frame[t].sub]]
    /\ overlays' = [overlays EXCEPT ![frame[t].sub] = None]
    /\ active' = None
    /\ Keeps(t, {})
    /\ Goes(t, "request")
    /\ UNCHANGED <<request, session, global, version, skipped>>

Tombstones(d) == {k \in Keys : d[k] = Tombstone}

\* Mutant: tombstones are written into the layer.
AppliedVerbatim(d, layer) == [k \in Keys |-> IF d[k] = Absent THEN layer[k] ELSE d[k]]

Applied(d, layer) == [k \in Keys |-> IF d[k] = Tombstone THEN Absent
                                     ELSE IF d[k] = Absent THEN layer[k]
                                     ELSE d[k]]

\* ... writes it into the request layer ...
CommitApply(t) ==
    /\ Takes(t, "commit", "request")
    /\ request' = Applied(frame[t].delta, request)
    /\ \/ /\ Tombstones(frame[t].delta) = {}
          /\ Returns(t)
       \/ /\ Tombstones(frame[t].delta) # {}
          /\ Goes(t, "session")
          /\ UNCHANGED <<held, frame>>
    /\ UNCHANGED <<active, overlays, session, global, version, skipped>>

\* ... and deletes the tombstoned keys below it, under both guards.
CommitTakeSession(t) ==
    /\ Takes(t, "commit", "session")
    /\ Keeps(t, {"session"})
    /\ Goes(t, "global")
    /\ UNCHANGED <<store, frame>>

Without(layer, keys) == [k \in Keys |-> IF k \in keys THEN Absent ELSE layer[k]]

CommitTombstones(t) ==
    /\ Takes(t, "commit", "global")
    /\ session' = Without(session, Tombstones(frame[t].delta))
    /\ global' = Without(global, Tombstones(frame[t].delta))
    /\ Returns(t)
    /\ UNCHANGED <<active, overlays, request, version, skipped>>

-----------------------------------------------------------------------------
(* commit_session: a compare-and-swap, then the promotion of the request   *)
(* layer; the request guard is dropped and taken again to clear the layer. *)

\* The expected version is the current one; a call with a stale one returns
\* CommitConflict and changes nothing (a stuttering step).
CommitSessionCas(t) ==
    /\ at[t] = "idle"
    /\ "commit_session" \in Ops[t]
    /\ version < MaxVersion
    /\ version' = version + 1
    /\ Goes(t, "request")
    /\ frame' = [frame EXCEPT ![t] = [NoFrame EXCEPT !.op = "commit_session"]]
    /\ UNCHANGED <<active, overlays, request, session, global, skipped, held>>

CommitSessionRequest(t) ==
    /\ Takes(t, "commit_session", "request")
    /\ Keeps(t, {"request"})
    /\ Goes(t, "session")
    /\ UNCHANGED <<store, frame>>

\* Mutant: only entries that the session already has are replaced.
CommitSessionMergeUpdates(t) ==
    /\ Takes(t, "commit_session", "session")
    /\ session' = [k \in Keys |-> IF session[k] = Absent THEN Absent
                                  ELSE Applied(request, session)[k]]
    /\ Keeps(t, {"session"})
    /\ Goes(t, "clear")
    /\ UNCHANGED <<active, overlays, request, global, version, skipped, frame>>

CommitSessionMerge(t) ==
    /\ Takes(t, "commit_session", "session")
    /\ session' = Applied(request, session)
    /\ Keeps(t, {"session"})
    /\ Goes(t, "clear")
    /\ UNCHANGED <<active, overlays, request, global, version, skipped, frame>>

CommitSessionClear(t) ==
    /\ frame[t].op = "commit_session"
    /\ at[t] = "clear"
    /\ Free("request")
    /\ request' = EmptyLayer
    /\ Returns(t)
    /\ UNCHANGED <<active, overlays, session, global, version, skipped>>

-----------------------------------------------------------------------------
(* clone: the overlay under `active` and `overlays`, then the layers and   *)
(* the skipped nodes, whose guards are temporaries of the tail expression  *)
(* and live until the function returns.                                    *)

CloneBegin(t) ==
    /\ Enters(t, "clone")
    /\ Keeps(t, {"active"})
    /\ Goes(t, "overlays")
    /\ frame' = [frame EXCEPT ![t] = [NoFrame EXCEPT !.op = "clone", !.sub = active]]
    /\ UNCHANGED store

\* repaired_subgraph_state: an active id without an overlay is dropped.
CloneOverlay(t) ==
    /\ Takes(t, "clone", "overlays")
    /\ LET missing == active = None \/ overlays[active] = None
       IN frame' = [frame EXCEPT ![t] =
                      [@ EXCEPT !.sub = IF missing THEN None ELSE active,
                                !.delta = IF missing THEN EmptyLayer
                                          ELSE overlays[active]]]
    /\ Keeps(t, {})
    /\ Goes(t, "global")
    /\ UNCHANGED store

CloneGlobal(t) ==
    /\ Takes(t, "clone", "global")
    /\ Keeps(t, {"global"})
    /\ Goes(t, "session")
    /\ UNCHANGED <<store, frame>>

CloneSession(t) ==
    /\ Takes(t, "clone", "session")
    /\ Keeps(t, {"global", "session"})
    /\ frame' = [frame EXCEPT ![t].session = session]
    /\ Goes(t, "request")
    /\ UNCHANGED store

CloneRequest(t) ==
    /\ Takes(t, "clone", "request")
    /\ Keeps(t, {"global", "session", "request"})
    /\ frame' = [frame EXCEPT ![t].request = request]
    /\ Goes(t, "skipped")
    /\ UNCHANGED store

CloneSkipped(t) ==
    /\ Takes(t, "clone", "skipped")
    /\ Answers(t, frame[t])
    /\ UNCHANGED store

MarkSkipped(t) ==
    \E n \in Nodes :
        /\ at[t] = "idle"
        /\ "mark_skipped" \in Ops[t]
        /\ Free("skipped")
        /\ skipped' = skipped \cup {n}
        /\ UNCHANGED <<active, overlays, request, session, global, version,
                       held, at, frame>>

-----------------------------------------------------------------------------
(* What a reader of the store sees, and the history the properties need.   *)

Base(k) == IF request[k] # Absent THEN request[k]
           ELSE IF session[k] # Absent THEN session[k] ELSE global[k]

View(k) == IF active = None \/ overlays[active] = None THEN Base(k)
           ELSE IF overlays[active][k] = Tombstone THEN Absent
           ELSE IF overlays[active][k] # Absent THEN overlays[active][k]
           ELSE Base(k)

\* t is inside a read: lookup, list or clone.
Reading(t) == frame[t].op \in {"lookup", "list", "clone"}

\* Some call in flight will still write an entry for k into the layers.
PutPending(k) ==
    \E t \in Threads :
        \/ frame[t].op = "put" /\ frame[t].key = k
        \/ frame[t].op = "commit" /\ frame[t].delta[k] \in Values

\* The keys that t's call in flight deletes from every layer.
Removing(t) == IF frame[t].op = "remove" /\ at[t] # "overlays" THEN {frame[t].key}
               ELSE IF frame[t].op = "commit" THEN Tombstones(frame[t].delta)
               ELSE {}

\* window[t][k]: what k looked like while t was reading; doomed[t]: the keys
\* t has been removing with no put in between; gone: the keys whose removal
\* has finished and that nobody has put since.
Observe ==
    /\ window' = [t \in Threads |-> [k \in Keys |->
                    IF ~Reading(t)' THEN {}
                    ELSE IF at[t] = "done" THEN window[t][k]
                    ELSE window[t][k] \cup {View(k)'}]]
    /\ doomed' = [t \in Threads |->
                    {k \in Removing(t)' : /\ Removing(t) = {} \/ k \in doomed[t]
                                          /\ ~PutPending(k)'}]
    /\ gone' = {k \in gone \cup UNION {doomed[t] : t \in {u \in Threads :
                                            Removing(u) # {} /\ Removing(u)' = {}}} :
                   ~PutPending(k)'}

Write(t) == \/ WriteBegin(t) \/ OverlayWrite(t) \/ PutRequest(t)
            \/ RemoveRequest(t) \/ RemoveSession(t) \/ RemoveGlobal(t)

Lookup(t) == \/ LookupBegin(t) \/ LookupOverlay(t) \/ LookupRequest(t)
             \/ LookupSession(t) \/ LookupGlobal(t)

List(t) == \/ ListBegin(t) \/ ListOverlay(t) \/ ListRequest(t)
           \/ ListSession(t) \/ ListGlobal(t)

Txn(t) == \/ TxnBegin(t) \/ BeginSubgraph(t) \/ RollbackOverlay(t)
          \/ CommitDetach(t) \/ CommitApply(t) \/ CommitTakeSession(t)
          \/ CommitTombstones(t)

CommitSession(t) == \/ CommitSessionCas(t) \/ CommitSessionRequest(t)
                    \/ CommitSessionMerge(t) \/ CommitSessionClear(t)

Clone(t) == \/ CloneBegin(t) \/ CloneOverlay(t) \/ CloneGlobal(t)
            \/ CloneSession(t) \/ CloneRequest(t) \/ CloneSkipped(t)

Step(t) == \/ Write(t) \/ Lookup(t) \/ List(t) \/ Txn(t) \/ CommitSession(t)
           \/ Clone(t) \/ MarkSkipped(t) \/ Finish(t)

Next == (\E t \in Threads : Step(t)) /\ Observe

Spec == Init /\ [][Next]_vars

-----------------------------------------------------------------------------
(* Properties.                                                             *)

\* Every variable keeps its type: a layer never holds a tombstone, a thread
\* waits for a lock, is idle or has an answer (field types, mod.rs:178-195).
TypeOK ==
    /\ active \in Subgraphs \cup {None}
    /\ overlays \in [Subgraphs -> Delta \cup {None}]
    /\ request \in Layer /\ session \in Layer /\ global \in Layer
    /\ version \in 0 .. MaxVersion
    /\ skipped \subseteq Nodes
    /\ held \in [Threads -> SUBSET Locks]
    /\ at \in [Threads -> Locks \cup {"idle", "clear", "done"}]
    /\ frame \in [Threads -> Frames]
    /\ window \in [Threads -> [Keys -> SUBSET (Values \cup {Absent})]]
    /\ doomed \in [Threads -> SUBSET Keys]
    /\ gone \subseteq Keys

\* The active subgraph, and no other, has an overlay: what the asserts and
\* expects of put, remove, begin, commit and rollback call structurally
\* guaranteed.  `active` and `overlays` are two mutexes, so it rests on every
\* writer keeping `active` while it changes `overlays`.
OverlayLockstep ==
    \A s \in Subgraphs : overlays[s] # None <=> active = s

\* The lock a thread is about to take.
Wants(t) == IF at[t] = "clear" THEN {"request"} ELSE {at[t]} \cap Locks

\* No set of threads waits in a circle for locks its members hold: what the
\* canonical lock order (comment P1-2 in list_by_ns) is there to guarantee.
NoCircularWait ==
    ~ \E S \in (SUBSET Threads) \ {{}} :
        \A t \in S : \E u \in S : Wants(t) \cap held[u] # {}

\* A lookup returns what its key looked like at some moment of the call; in
\* particular it never misses a key that commit_session is moving from the
\* request to the session layer.
LookupCurrent ==
    \A t \in Threads :
        frame[t].op = "lookup" /\ at[t] = "done" =>
            IF frame[t].found = "Incompatible"
            THEN Absent \in window[t][frame[t].key]
            ELSE frame[t].found \in window[t][frame[t].key]

\* A key that is visible all through a list_by_ns call is listed, although
\* the call reads the overlay and the layers in separate critical sections.
ListComplete ==
    \A t \in Threads :
        frame[t].op = "list" /\ at[t] = "done" =>
            \A k \in Keys : Absent \notin window[t][k] => k \in frame[t].listed

\* Every key of a clone has a value it had in the original at some moment of
\* the clone call, although the overlay and the layers are copied apart.
CloneCurrent ==
    \A t \in Threads :
        frame[t].op = "clone" /\ at[t] = "done" =>
            \A k \in Keys :
                LET d == frame[t].delta[k]
                    r == frame[t].request[k]
                IN (IF d = Tombstone THEN Absent
                    ELSE IF d # Absent THEN d
                    ELSE IF r # Absent THEN r
                    ELSE frame[t].session[k]) \in window[t][k]

\* A key whose removal has finished, directly or by a committed tombstone, is
\* in no layer until it is put again: a concurrent promotion by
\* commit_session does not revive it (comments at mod.rs:359 and :875).
NoResurrection ==
    \A k \in gone : request[k] = Absent /\ session[k] = Absent /\ global[k] = Absent

\* Readers see no state that never was, and no key that is gone.
ViewsCurrent == LookupCurrent /\ ListComplete /\ CloneCurrent /\ NoResurrection

\* While a subgraph is active, put and remove reach its overlay only: the
\* layers below change through a commit already under way or not at all, so
\* a rollback has nothing to undo there.
OverlayIsolation ==
    [][ active # None /\ (\A t \in Threads :
                             frame[t].op \notin {"commit", "commit_session"})
        => UNCHANGED <<request, session, global>> ]_vars

\* No step of commit_session changes what a reader sees: the promotion moves
\* entries from the request to the session layer and loses none.
PromotionPreservesView ==
    [][ (\E t \in Threads : frame[t].op = "commit_session" /\ at'[t] # at[t])
        => \A k \in Keys : View(k)' = View(k) ]_vars
=============================================================================
