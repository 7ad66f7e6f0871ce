--------------------------- MODULE ServiceRegistry ---------------------------
(***************************************************************************)
(* ServiceRegistry (cordis-runtime, context/mod.rs): the background        *)
(* services of the plugins' Task nodes.                                    *)
(*                                                                         *)
(* start_service starts an instance between two checks of the registry;    *)
(* the stop operations take the entries out under the lock and call stop   *)
(* outside it, stop_plugin_services_timed with a deadline after which the  *)
(* stop thread becomes a zombie.  What a service does in start and stop is *)
(* the plugin's: start may fail, stop may never return.                    *)
(*                                                                         *)
(* `lock` is the owner of the entries lock when it is held across steps,   *)
(* which only start_service does: it stops a duplicate under the lock.     *)
(***************************************************************************)
EXTENDS Naturals, FiniteSets

CONSTANTS SvcThreads,
          SvcKeys,       \* "plugin_path::node_id"
          Plugins,
          Owns,          \* service_key_belongs_to: the keys of a plugin's subtree
          SvcOps,           \* the operations each thread calls
          MaxInstances,  \* services constructed by the callers
          SvcNone

SvcOpNames == {"start", "stop", "stop_timed", "stop_all", "kill"}

ASSUME RegistryAssumption == /\ Owns \in [Plugins -> SUBSET SvcKeys]
                             /\ SvcOps \in [SvcThreads -> SUBSET SvcOpNames]
                             /\ MaxInstances \in Nat
                             /\ SvcNone \notin Nat /\ SvcNone \notin SvcKeys \cup SvcThreads

VARIABLES entries,  \* entries: the instance registered under a key
          svcZombies,  \* zombies: the instances whose stop has timed out
          state,    \* what the instance is doing
          stops,    \* how often stop was called on it
          svcLock,     \* who holds the entries lock across steps
          svcTh        \* the thread's call

svcVars == <<entries, svcZombies, state, stops, svcLock, svcTh>>

Instances == 1 .. MaxInstances
States == {"new", "starting", "running", "failed", "stopping", "stopped"}
SvcPoints == {"idle", "start", "insert", "stop_duplicate", "detach", "next", "wait"}

\* inst is the instance the call starts or stops, keys those a stop is about,
\* todo what it has taken out and not stopped yet, timed whether it has a
\* deadline.
SvcFrames == [keys : SUBSET SvcKeys, pc : SvcPoints, key : SvcKeys \cup {SvcNone}, inst : Instances \cup {SvcNone},
           todo : SUBSET (SvcKeys \X Instances), timed : BOOLEAN]

SvcIdle == [keys |-> {}, pc |-> "idle", key |-> SvcNone, inst |-> SvcNone, todo |-> {}, timed |-> FALSE]

SvcInit == /\ entries = [k \in SvcKeys |-> SvcNone] /\ svcZombies = {}
        /\ state = [i \in Instances |-> "new"]
        /\ stops = [i \in Instances |-> 0]
        /\ svcLock = SvcNone
        /\ svcTh = [t \in SvcThreads |-> SvcIdle]

SvcAt(t, p) == svcTh[t].pc = p
SvcCalling(t, op) == SvcAt(t, "idle") /\ op \in SvcOps[t]
SvcReturns(t) == svcTh' = [svcTh EXCEPT ![t] = SvcIdle]

\* A service's stop begins.
Stopping(i) == /\ state' = [state EXCEPT ![i] = "stopping"]
               /\ stops' = [stops EXCEPT ![i] = @ + 1]

-----------------------------------------------------------------------------
\* start_service, the first check: a key that is taken is refused before the
\* service is started.
StartCheck(t) ==
    /\ SvcCalling(t, "start") /\ svcLock = SvcNone
    /\ \E k \in SvcKeys, i \in Instances :
         /\ entries[k] = SvcNone /\ state[i] = "new"
         /\ \A j \in Instances : state[j] = "new" => i <= j
         /\ svcTh' = [svcTh EXCEPT ![t] = [SvcIdle EXCEPT !.pc = "start", !.key = k, !.inst = i]]
         /\ state' = [state EXCEPT ![i] = "starting"]
    /\ UNCHANGED <<entries, svcZombies, stops, svcLock>>

\* The service starts or fails to.
Start(t) ==
    /\ SvcAt(t, "start")
    /\ \/ /\ state' = [state EXCEPT ![svcTh[t].inst] = "running"]
          /\ svcTh' = [svcTh EXCEPT ![t].pc = "insert"]
       \/ /\ state' = [state EXCEPT ![svcTh[t].inst] = "failed"]
          /\ SvcReturns(t)
    /\ UNCHANGED <<entries, svcZombies, stops, svcLock>>

\* Mutant: no second check.
InsertUnchecked(t) ==
    /\ SvcAt(t, "insert") /\ svcLock = SvcNone
    /\ entries' = [entries EXCEPT ![svcTh[t].key] = svcTh[t].inst]
    /\ SvcReturns(t)
    /\ UNCHANGED <<svcZombies, state, stops, svcLock>>

\* The second check: another thread may have registered the key meanwhile.
Insert(t) ==
    /\ SvcAt(t, "insert") /\ svcLock = SvcNone
    /\ entries[svcTh[t].key] = SvcNone
    /\ entries' = [entries EXCEPT ![svcTh[t].key] = svcTh[t].inst]
    /\ SvcReturns(t)
    /\ UNCHANGED <<svcZombies, state, stops, svcLock>>

\* If so the new instance is stopped, with the lock held.
StopDuplicate(t) ==
    /\ SvcAt(t, "insert") /\ svcLock = SvcNone
    /\ entries[svcTh[t].key] # SvcNone
    /\ svcLock' = t
    /\ Stopping(svcTh[t].inst)
    /\ svcTh' = [svcTh EXCEPT ![t].pc = "stop_duplicate"]
    /\ UNCHANGED <<entries, svcZombies>>

DuplicateStopped(t) ==
    /\ SvcAt(t, "stop_duplicate") /\ state[svcTh[t].inst] = "stopped"
    /\ svcLock' = SvcNone
    /\ SvcReturns(t)
    /\ UNCHANGED <<entries, svcZombies, state, stops>>

-----------------------------------------------------------------------------
\* stop_plugin_services, stop_plugin_services_timed and stop_all are called.
StopBegin(t) ==
    /\ \E op \in {"stop", "stop_timed", "stop_all"}, p \in Plugins :
         /\ SvcCalling(t, op)
         /\ svcTh' = [svcTh EXCEPT ![t] =
                     [SvcIdle EXCEPT !.pc = "detach", !.timed = (op = "stop_timed"),
                                  !.keys = IF op = "stop_all" THEN SvcKeys ELSE Owns[p]]]
    /\ UNCHANGED <<entries, svcZombies, state, stops, svcLock>>

\* What the stop takes out of the registry.
Taken(t) == {<<k, entries[k]>> : k \in {j \in svcTh[t].keys : entries[j] # SvcNone}}

\* The entries are taken out in one lock section.
Detach(t) ==
    /\ SvcAt(t, "detach") /\ svcLock = SvcNone
    /\ entries' = [k \in SvcKeys |-> IF k \in svcTh[t].keys THEN SvcNone ELSE entries[k]]
    /\ svcTh' = [svcTh EXCEPT ![t].pc = "next", ![t].keys = {}, ![t].todo = Taken(t)]
    /\ UNCHANGED <<svcZombies, state, stops, svcLock>>

\* The next service is stopped, on the thread or on one of its own.
StopNext(t) ==
    /\ SvcAt(t, "next")
    /\ \E e \in svcTh[t].todo :
         /\ Stopping(e[2])
         /\ svcTh' = [svcTh EXCEPT ![t].pc = "wait", ![t].key = e[1], ![t].inst = e[2],
                             ![t].todo = @ \ {e}]
    /\ UNCHANGED <<entries, svcZombies, svcLock>>

StopEnd(t) ==
    /\ SvcAt(t, "next") /\ svcTh[t].todo = {}
    /\ SvcReturns(t)
    /\ UNCHANGED <<entries, svcZombies, state, stops, svcLock>>

\* The stop has returned, with or without an error.
StopReturned(t) ==
    /\ SvcAt(t, "wait") /\ state[svcTh[t].inst] = "stopped"
    /\ svcTh' = [svcTh EXCEPT ![t].pc = "next", ![t].key = SvcNone, ![t].inst = SvcNone]
    /\ UNCHANGED <<entries, svcZombies, state, stops, svcLock>>

\* Mutant: a stop that has timed out is forgotten.
StopTimesOutForgets(t) ==
    /\ SvcAt(t, "wait") /\ svcTh[t].timed /\ state[svcTh[t].inst] = "stopping"
    /\ svcTh' = [svcTh EXCEPT ![t].pc = "next", ![t].key = SvcNone, ![t].inst = SvcNone]
    /\ UNCHANGED <<entries, svcZombies, state, stops, svcLock>>

\* The deadline of stop_plugin_services_timed has passed.
StopTimesOut(t) ==
    /\ SvcAt(t, "wait") /\ svcTh[t].timed /\ state[svcTh[t].inst] = "stopping"
    /\ svcZombies' = svcZombies \cup {<<svcTh[t].key, svcTh[t].inst>>}
    /\ svcTh' = [svcTh EXCEPT ![t].pc = "next", ![t].key = SvcNone, ![t].inst = SvcNone]
    /\ UNCHANGED <<entries, state, stops, svcLock>>

\* kill_zombie_services joins the zombies that have ended and abandons the
\* others.
KillZombies(t) ==
    /\ SvcCalling(t, "kill")
    /\ \E p \in Plugins : svcZombies' = {z \in svcZombies : z[1] \notin Owns[p]}
    /\ UNCHANGED <<entries, state, stops, svcLock, svcTh>>

\* External: the stop of a service returns, if ever.
ServiceStops(i) ==
    /\ state[i] = "stopping"
    /\ state' = [state EXCEPT ![i] = "stopped"]
    /\ UNCHANGED <<entries, svcZombies, stops, svcLock, svcTh>>

Step(t) == \/ Start(t) \/ Insert(t) \/ StopDuplicate(t) \/ DuplicateStopped(t)
           \/ Detach(t) \/ StopNext(t) \/ StopEnd(t) \/ StopReturned(t) \/ StopTimesOut(t)

SvcNext == \/ \E t \in SvcThreads : StartCheck(t) \/ StopBegin(t) \/ KillZombies(t) \/ Step(t)
        \/ \E i \in Instances : ServiceStops(i)

\* A call that has begun goes on; nothing is assumed of the services.
SvcFairness == \A t \in SvcThreads : WF_svcVars(Step(t))

SvcSpec == SvcInit /\ [][SvcNext]_svcVars /\ SvcFairness

-----------------------------------------------------------------------------
(* Properties.                                                             *)

\* Registry, instances and calls keep their types.
SvcTypeOK == /\ entries \in [SvcKeys -> Instances \cup {SvcNone}]
          /\ svcZombies \subseteq SvcKeys \X Instances
          /\ state \in [Instances -> States] /\ stops \in [Instances -> Nat]
          /\ svcLock \in SvcThreads \cup {SvcNone}
          /\ svcTh \in [SvcThreads -> SvcFrames]

Registered(i) == \E k \in SvcKeys : entries[k] = i
InCall(i) == \E t \in SvcThreads : svcTh[t].inst = i \/ \E e \in svcTh[t].todo : e[2] = i

\* No orphans: a service that runs is registered, or in the hands of a call
\* that will register or stop it.  A worker nobody knows cannot be stopped.
NoOrphanService ==
    \A i \in Instances : state[i] = "running" => Registered(i) \/ InCall(i)

\* What is registered has been started and not been stopped, and is registered
\* once; stop is called once on a service, however many threads stop plugins.
RegisteredRuns ==
    /\ \A k \in SvcKeys : entries[k] # SvcNone => /\ state[entries[k]] = "running"
                                           /\ stops[entries[k]] = 0
    /\ \A j, k \in SvcKeys : entries[j] = entries[k] /\ entries[j] # SvcNone => j = k
    /\ \A i \in Instances : stops[i] <= 1

\* The books of the registry agree with what runs: start_service, the stops and
\* kill_zombie_services together neither lose a worker nor stop one twice.
ServicesAccounted == SvcTypeOK /\ NoOrphanService /\ RegisteredRuns

Known(i) == InCall(i) \/ \E z \in svcZombies : z[2] = i

\* A stop that hangs is waited for or is on the zombie list, until
\* kill_zombie_services (the only step that shortens the list and leaves the
\* calls alone) abandons it: no deadline, and no race of two stops, loses it.
HangIsKnown ==
    [][ \A i \in Instances :
          state'[i] = "stopping" /\ ~Known(i)' =>
              ~Known(i) \/ (svcZombies' \subseteq svcZombies /\ svcTh' = svcTh) ]_svcVars

\* The comment of reload_internal on the timed variant: a timed stop returns even
\* if a service's stop never does, so that a plugin that hangs does not hold up a
\* reload; except that start_service stops a duplicate under the registry lock,
\* which holds up everyone if that stop never returns.
TimedStopReturns ==
    \A t \in SvcThreads : []<>~svcTh[t].timed \/ <>[](\E u \in SvcThreads : SvcAt(u, "stop_duplicate"))
=============================================================================
