------------------------------ MODULE MCEngine ------------------------------
(***************************************************************************)
(* Small instances of what runs in a host: the execution of nets, and the  *)
(* background services.  A behaviour drives one of them; the other rests.  *)
(***************************************************************************)
EXTENDS ExecutionEngine, ServiceRegistry, TLC

CONSTANTS s1, s2, s3, root1, child1, k1, k2

VARIABLE driven   \* the component this behaviour drives

engineVars == <<vars, svcVars, driven>>

MCTransitions == 1 .. 4
MCPlaces == 1 .. 4
MCKeys == 1 .. 2

\* Defaults: AllOf tasks without inputs, outputs or retries, rooted at key 1.
BlankNet == [in |-> [t \in Transitions |-> {}],
          required |-> [t \in Transitions |-> {}],
          out |-> [t \in Transitions |-> <<>>],
          join |-> [t \in Transitions |-> "AllOf"], k |-> [t \in Transitions |-> 1],
          kind |-> [t \in Transitions |-> "Task"],
          retries |-> [t \in Transitions |-> 0],
          root |-> [t \in Transitions |-> 1], rank |-> [t \in Transitions |-> t]]

\* 1 forks to 2 and 3, which meet in 4 under the policy j; 2 may be retried.
Diamond(j, kd, req, rt) ==
    [BlankNet EXCEPT
       !.in = 1 :> {} @@ 2 :> {1} @@ 3 :> {2} @@ 4 :> {3, 4},
       !.out = 1 :> <<1, 2>> @@ 2 :> <<3>> @@ 3 :> <<4>> @@ 4 :> <<>>,
       !.join[4] = j, !.k[4] = 2, !.kind[4] = kd, !.required[4] = req,
       !.retries = 1 :> 0 @@ 2 :> rt @@ 3 :> 0 @@ 4 :> rt]

\* The roots 1 and 2 have a key each and both feed 3, which feeds 4; 4 feeds
\* back into the place of 3.
Cycle(j, kd) ==
    [BlankNet EXCEPT
       !.in = 1 :> {} @@ 2 :> {} @@ 3 :> {1} @@ 4 :> {2},
       !.out = 1 :> <<1>> @@ 2 :> <<1>> @@ 3 :> <<2>> @@ 4 :> <<1>>,
       !.join[3] = j, !.kind[2] = kd, !.kind[4] = kd, !.root[2] = 2,
       !.retries[3] = 1, !.rank = 1 :> 2 @@ 2 :> 1 @@ 3 :> 2 @@ 4 :> 3]

\* Three roots of one key race into an AnyOf that may be retried: tokens
\* arrive while it waits for its second attempt.
Race(j) ==
    [BlankNet EXCEPT
       !.in = 1 :> {} @@ 2 :> {} @@ 3 :> {} @@ 4 :> {1, 2, 3},
       !.out = 1 :> <<1>> @@ 2 :> <<2>> @@ 3 :> <<3>> @@ 4 :> <<>>,
       !.join[4] = j, !.k[4] = 2, !.retries[4] = 1, !.rank[4] = 0]

\* A place with two consumers: rejected by build_petri_net.
Shared == [BlankNet EXCEPT !.in = 1 :> {} @@ 2 :> {1} @@ 3 :> {1} @@ 4 :> {2}]

SmallNets == {Diamond(j, kd, req, rt) : j \in Policies, kd \in {"Task", "Terminal"},
                                        req \in {{}, {3}}, rt \in {0}}
             \cup {Diamond(j, "Gate", {}, 1) : j \in {"AllOf", "FirstSuccess"}}
             \cup {Cycle(j, kd) : j \in {"AllOf", "AnyOf"}, kd \in {"Router", "Terminal"}}
             \cup {[Cycle("AnyOf", "Task") EXCEPT !.retries[3] = 0]}
             \cup {Race(j) : j \in {"AnyOf", "Quorum", "FirstSuccess", "KeyedPair"}}
             \cup {Shared}

\* Independent pairs only: one transition per key is ready at a time.
ParallelNets == {[Cycle(j, "Router") EXCEPT !.retries[1] = 1] : j \in {"AllOf", "AnyOf"}}
                \cup {Cycle("AllOf", "Terminal")}

Fifo == [parallelism |-> 2, concurrency |-> 1, deterministic |-> FALSE]
SortedByOne == [parallelism |-> 0, concurrency |-> 1, deterministic |-> TRUE]
Parallel == [parallelism |-> 1, concurrency |-> 2, deterministic |-> FALSE]

AllPaths == [net : SmallNets, config : {Fifo, SortedByOne}]
            \cup [net : ParallelNets, config : {Parallel}]

\* One root forks into two transitions of the same key.
Fork == [net : {Diamond("AllOf", "Task", {}, 0)}, config : {Parallel}]

\* The plugin root1 owns the services of its child too.
OwnsPair == root1 :> {k1, k2} @@ child1 :> {k2}
OpsAll == s1 :> {"start", "stop"} @@ s2 :> {"start", "stop_timed"}
            @@ s3 :> {"stop_all", "kill"}

EngineInit ==
    /\ driven \in {"engine", "services"}
    /\ Init /\ (driven = "engine" \/ (net = Shared /\ config = Fifo))
    /\ SvcInit

EngineNext ==
    /\ UNCHANGED driven
    /\ \/ driven = "engine" /\ (Next \/ Done) /\ UNCHANGED svcVars
       \/ driven = "services" /\ SvcNext /\ UNCHANGED vars

\* The fairness of the components; no step that SvcFairness speaks of is
\* enabled while the services rest.
EngineSpec ==
    /\ EngineInit /\ [][EngineNext]_engineVars
    /\ WF_vars(driven = "engine" /\ Next) /\ SvcFairness

\* Every execution that is begun ends, also in a net with a cycle: the loop of
\* the engine over its ready queue, with bounded retries.
ExecutionsEnd == driven = "engine" => Termination

\* Every execution ends, and so does every timed stop of a plugin's services,
\* however long a service takes to stop.
EngineReturns == ExecutionsEnd /\ TimedStopReturns
=============================================================================
