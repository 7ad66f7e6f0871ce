-------------------------- MODULE ExecutionEngine --------------------------
(***************************************************************************)
(* execute_net (cordis-runtime, execution/engine.rs): the coloured Petri   *)
(* net engine.  A transition fires once per correlation key, when the join *)
(* policy of its input places is satisfied; its outcome goes as a token to *)
(* its output places and may enable their consumers.  Failures are retried *)
(* on the inputs of the first attempt, tokens for a key whose consumer is  *)
(* done are dropped, and a Terminal transition ends the run.               *)
(*                                                                         *)
(* One thread owns the engine state.  Its loop over a batch and its loop   *)
(* over the output arcs have one action per iteration; what a runner       *)
(* returns is any outcome (a timeout turns it into Timeout).               *)
(***************************************************************************)
EXTENDS Naturals, Sequences, FiniteSets, Functions

CONSTANTS Executions,      \* what is executed: a net and an ExecutionConfig
          Transitions, Places, Keys

Outcomes == {"Success", "Failure", "Timeout", "Cancelled", "Skipped"}
Kinds == {"Task", "Router", "Gate", "Terminal"}
Policies == {"AllOf", "AnyOf", "Quorum", "FirstSuccess", "FirstCompleted",
             "KeyedPair", "KeyedGroup"}

\* A net: input places, those of them whose arc is required, output places in
\* arc order, join policy (with the k of Quorum), kind, retry budget, the
\* correlation key a root starts with and the rank (topo level, priority).
NetType == [in : [Transitions -> SUBSET Places],
            required : [Transitions -> SUBSET Places],
            out : [Transitions -> Seq(Places)],
            join : [Transitions -> Policies], k : [Transitions -> Nat],
            kind : [Transitions -> Kinds], retries : [Transitions -> Nat],
            root : [Transitions -> Keys], rank : [Transitions -> Nat]]

\* parallelism: batch size of the single-threaded path; concurrency: above 1 the
\* parallel, key-sharded path; deterministic: SchedulerMode::Deterministic.
ConfigType == [parallelism : Nat, concurrency : Nat, deterministic : BOOLEAN]

\* required is a flag of an input arc, so the required places are input places.
ASSUME ExecutionsAssumption ==
    \A e \in Executions :
        /\ e = [net |-> e.net, config |-> e.config]
        /\ e.net \in NetType /\ e.config \in ConfigType
        /\ \A t \in Transitions : e.net.required[t] \subseteq e.net.in[t]
ASSUME OrderAssumption == Transitions \subseteq Nat /\ Keys \subseteq Nat
\* A net is two finite maps.
ASSUME FiniteAssumption == IsFiniteSet(Transitions) /\ IsFiniteSet(Places)

VARIABLES net, config, pc, ready, readySet, batch, tokens, cache, attempts,
          completed, keyed, outcomes, emit, zombies, runs

vars == <<net, config, pc, ready, readySet, batch, tokens, cache, attempts,
          completed, keyed, outcomes, emit, zombies, runs>>

Pairs == Transitions \X Keys
Item == [t : Transitions, k : Keys, retry : BOOLEAN]
Token == [src : Transitions, out : Outcomes]
NoEmit == [t |-> 0, k |-> 0, out |-> "none", rest |-> <<>>]

Init == /\ \E e \in Executions : net = e.net /\ config = e.config
        /\ pc = "build"
        /\ ready = <<>> /\ readySet = {} /\ batch = <<>>
        /\ tokens = [p \in Places |-> [k \in Keys |-> {}]]
        /\ cache = {}
        /\ attempts = [x \in Pairs |-> 0]
        /\ completed = {}
        /\ keyed = [x \in Pairs |-> "none"]
        /\ outcomes = [t \in Transitions |-> "none"]
        /\ emit = NoEmit
        /\ zombies = 0
        /\ runs = [x \in Pairs |-> 0]

-----------------------------------------------------------------------------
(* Ready items and their order.                                            *)

\* cmp_ready: topo level and priority, then the ids.
Before(a, b) == \/ net.rank[a.t] < net.rank[b.t]
                \/ net.rank[a.t] = net.rank[b.t] /\ a.t < b.t
                \/ a.t = b.t /\ a.k < b.k

\* The items of a set in an order given as a set of pairs.
Arranged(items, order) ==
    {s \in [1 .. Cardinality(items) -> items] :
        /\ Range(s) = items
        /\ \A i, j \in DOMAIN s : i < j => <<s[i], s[j]>> \in order}

Sorted(items) == Arranged(items, {ab \in items \X items : Before(ab[1], ab[2])})

Roots == {t \in Transitions : net.in[t] = {}}

RootItems == {[t |-> t, k |-> net.root[t], retry |-> FALSE] : t \in Roots}

\* push_ready: a pair is queued once and never again when it is done.
PushReady(t, k, retry) ==
    IF <<t, k>> \in readySet \cup completed THEN UNCHANGED <<ready, readySet>>
    ELSE /\ ready' = Append(ready, [t |-> t, k |-> k, retry |-> retry])
         /\ readySet' = readySet \cup {<<t, k>>}

\* build_petri_net and the arity check: a place has one consumer, a KeyedPair
\* has two inputs.
Valid == /\ \A t, u \in Transitions : t # u => net.in[t] \cap net.in[u] = {}
         /\ \A t \in Transitions :
              net.join[t] = "KeyedPair" => Cardinality(net.in[t]) = 2

Build ==
    /\ pc = "build"
    /\ \/ /\ ~Valid
          /\ pc' = "rejected"
          /\ UNCHANGED <<ready, readySet>>
       \/ /\ Valid
          /\ pc' = "loop"
          /\ ready' \in Arranged(RootItems, {ab \in RootItems \X RootItems : ab[1].t < ab[2].t})
          /\ readySet' = {<<i.t, i.k>> : i \in RootItems}
    /\ UNCHANGED <<net, config, batch, tokens, cache, attempts, completed, keyed,
                   outcomes, emit, zombies, runs>>

-----------------------------------------------------------------------------
(* Enabling.                                                               *)

\* evaluate_join_policy on the tokens toks[p] of the input places.
Joined(t, toks) ==
    LET in == net.in[t]
        all == in # {} /\ \A p \in in : toks[p] # {}
        any == \E p \in in : toks[p] # {}
        count == Cardinality({px \in in \X Token : px[2] \in toks[px[1]]})
    IN CASE net.join[t] \in {"AllOf", "KeyedGroup"} -> all
         [] net.join[t] \in {"AnyOf", "FirstCompleted"} -> any
         [] net.join[t] = "Quorum" -> count >= net.k[t]
         [] net.join[t] = "FirstSuccess" ->
              all \/ \E p \in in : \E x \in toks[p] : x.out = "Success"
         [] net.join[t] = "KeyedPair" -> all /\ Cardinality(in) = 2

\* is_transition_ready over a marking tk.
IsReady(t, k, tk) ==
    /\ <<t, k>> \notin completed
    /\ \/ net.in[t] = {}
       \/ /\ \A p \in net.required[t] : tk[p][k] # {}
          /\ Joined(t, [p \in Places |-> tk[p][k]])

\* consume_inputs_for_key for the pairs of X; a place has one consumer.
Consumed(X) == [p \in Places |-> [k \in Keys |->
                  IF \E x \in X : x[2] = k /\ p \in net.in[x[1]] THEN {}
                  ELSE tokens[p][k]]]

\* The inputs of a run: the cached ones of the first attempt, or what lies in
\* the input places now.
Cached(x) == \E c \in cache : c.x = x
CachedInputs(x) == (CHOOSE c \in cache : c.x = x).inputs
TriggerInputs(x) == IF Cached(x) THEN CachedInputs(x)
                    ELSE UNION {tokens[p][x[2]] : p \in net.in[x[1]]}

\* ensure_trigger_inputs for every pair of X.
EnsureInputs(X) ==
    LET fresh == {x \in X : ~Cached(x)}
    IN /\ tokens' = Consumed(fresh)
       /\ cache' = cache \cup {[x |-> x, inputs |-> TriggerInputs(x)] : x \in fresh}

\* "transition became not-ready before run".
Stale(X) == \E x \in X : ~Cached(x) /\ ~IsReady(x[1], x[2], tokens)

-----------------------------------------------------------------------------
(* Batches.                                                                *)

Min2(a, b) == IF a < b THEN a ELSE b

\* Mutant: max_parallelism 0 is not treated as 1.
NextBatchOfZero ==
    /\ pc = "loop" /\ batch = <<>> /\ ready # <<>> /\ emit = NoEmit
    /\ config.concurrency <= 1
    /\ \E queue \in IF config.deterministic THEN Sorted(Range(ready)) ELSE {ready} :
         LET size == Min2(config.parallelism, Len(queue))
         IN /\ batch' = SubSeq(queue, 1, size)
            /\ ready' = SubSeq(queue, size + 1, Len(queue))
    /\ UNCHANGED <<net, config, pc, readySet, tokens, cache, attempts, completed, keyed,
                   outcomes, emit, zombies, runs>>

\* Mutant: what does not fit into the batch is dropped.
NextBatchDropsRest ==
    /\ pc = "loop" /\ batch = <<>> /\ ready # <<>> /\ emit = NoEmit
    /\ config.concurrency <= 1
    /\ batch' = SubSeq(ready, 1, Min2(config.parallelism, Len(ready)))
    /\ ready' = <<>>
    /\ readySet' = {<<i.t, i.k>> : i \in Range(batch')}
    /\ UNCHANGED <<net, config, pc, tokens, cache, attempts, completed, keyed,
                   outcomes, emit, zombies, runs>>

\* next_batch: FIFO, or the whole queue sorted.  The pairs of the batch stay
\* in ready_set until they are processed.
NextBatch ==
    /\ pc = "loop" /\ batch = <<>> /\ ready # <<>> /\ emit = NoEmit
    /\ config.concurrency <= 1
    /\ \E queue \in IF config.deterministic THEN Sorted(Range(ready)) ELSE {ready} :
         LET size == Min2(IF config.parallelism = 0 THEN 1 ELSE config.parallelism, Len(queue))
         IN /\ batch' = SubSeq(queue, 1, size)
            /\ ready' = SubSeq(queue, size + 1, Len(queue))
    /\ UNCHANGED <<net, config, pc, readySet, tokens, cache, attempts, completed, keyed,
                   outcomes, emit, zombies, runs>>

\* The first item of each key in queue order.
FirstPerKey == {ready[i] : i \in {j \in DOMAIN ready :
                   \A h \in 1 .. j - 1 : ready[h].k # ready[j].k}}

\* The parallel path drains the queue, keeps one item per key, sorts, takes
\* max_concurrency of them and computes the inputs of all its jobs.
ParallelBatch ==
    /\ pc = "loop" /\ batch = <<>> /\ ready # <<>> /\ emit = NoEmit
    /\ config.concurrency > 1
    /\ \E chosen \in Sorted(FirstPerKey) :
         LET items == {chosen[i] : i \in 1 .. Min2(config.concurrency, Len(chosen))}
             live == {i \in items : <<i.t, i.k>> \notin completed}
             X == {<<i.t, i.k>> : i \in live}
         IN /\ ready' = <<>> /\ readySet' = {}
            /\ pc' = IF Stale(X) THEN "error" ELSE "run"
            /\ batch' \in Sorted(live)
            /\ EnsureInputs(X)
            /\ runs' = [x \in Pairs |-> runs[x] + (IF x \in X THEN 1 ELSE 0)]
    /\ UNCHANGED <<net, config, attempts, completed, keyed, outcomes, emit, zombies>>

-----------------------------------------------------------------------------
(* Running and concluding one item.                                        *)

\* Mutant: AllOf runs on failed inputs.
RunOutcomesUnskipped(t, inputs) ==
    IF net.kind[t] = "Gate" THEN {"Success"} ELSE Outcomes

\* AllOf with an input that is no success is skipped; a Gate succeeds; what
\* a runner returns is open.
RunOutcomes(t, inputs) ==
    IF net.join[t] = "AllOf" /\ \E i \in inputs : i.out # "Success" THEN {"Skipped"}
    ELSE IF net.kind[t] = "Gate" THEN {"Success"} ELSE Outcomes

MayRetry(x, out) == /\ out \in {"Failure", "Timeout"}
                    /\ attempts[x] + 1 <= net.retries[x[1]]

\* A retry goes back into the queue; its inputs stay cached.
Retry(x) ==
    /\ attempts' = [attempts EXCEPT ![x] = @ + 1]
    /\ UNCHANGED <<completed, keyed, outcomes, emit>>

\* mark_completed; the tokens go out one arc at a time (Emit).
Complete(x, out) ==
    /\ completed' = completed \cup {x}
    /\ keyed' = [keyed EXCEPT ![x] = out]
    /\ outcomes' = [outcomes EXCEPT ![x[1]] = out]
    /\ emit' = [t |-> x[1], k |-> x[2], out |-> out, rest |-> net.out[x[1]]]
    /\ UNCHANGED attempts

\* The runner threads of a parallel batch are joined: if one of them has
\* panicked the whole execution fails before anything is merged.
Threaded(i) == /\ net.kind[i.t] \in {"Task", "Terminal"}
               /\ RunOutcomes(i.t, CachedInputs(<<i.t, i.k>>)) # {"Skipped"}

Join ==
    /\ pc = "run"
    /\ \/ pc' = "merge"
       \/ (\E i \in Range(batch) : Threaded(i)) /\ pc' = "panicked"
    /\ UNCHANGED <<net, config, ready, readySet, batch, tokens, cache, attempts, completed,
                   keyed, outcomes, emit, zombies, runs>>

\* process_one_item on an item it refuses: already completed, or no longer
\* enabled, which ends the run with an engine invariant error.
Refuse(x) ==
    /\ pc' = IF x \in completed THEN pc ELSE "error"
    /\ readySet' = readySet \ {x}
    /\ UNCHANGED <<ready, tokens, cache, attempts, completed, keyed, outcomes, emit,
                   runs>>

\* process_one_item on an item it runs.
RunItem(x) ==
    /\ runs' = [runs EXCEPT ![x] = @ + 1]
    /\ \E out \in RunOutcomes(x[1], TriggerInputs(x)) :
         \/ /\ MayRetry(x, out)
            /\ EnsureInputs({x})
            /\ Retry(x)
            /\ ready' = Append(ready, [t |-> x[1], k |-> x[2], retry |-> TRUE])
            /\ readySet' = readySet \cup {x}
         \/ /\ ~MayRetry(x, out)
            /\ tokens' = Consumed(IF Cached(x) THEN {} ELSE {x})
            /\ cache' = {c \in cache : c.x # x}
            /\ Complete(x, out)
            /\ readySet' = readySet \ {x}
            /\ UNCHANGED ready
    /\ UNCHANGED pc

Process ==
    /\ pc = "loop" /\ batch # <<>> /\ emit = NoEmit
    /\ LET x == <<Head(batch).t, Head(batch).k>>
       IN IF x \in completed \/ Stale({x}) THEN Refuse(x) ELSE RunItem(x)
    /\ batch' = Tail(batch)
    /\ UNCHANGED <<net, config, zombies>>

\* The merge loop of the parallel path, in job order.
Merge ==
    /\ pc = "merge" /\ batch # <<>> /\ emit = NoEmit
    /\ LET x == <<Head(batch).t, Head(batch).k>>
       IN \E out \in RunOutcomes(x[1], CachedInputs(x)) :
            \/ /\ MayRetry(x, out)
               /\ Retry(x)
               /\ PushReady(x[1], x[2], TRUE)
               /\ UNCHANGED cache
            \/ /\ ~MayRetry(x, out)
               /\ cache' = {c \in cache : c.x # x}
               /\ Complete(x, out)
               /\ UNCHANGED <<ready, readySet>>
    /\ batch' = Tail(batch)
    /\ UNCHANGED <<net, config, pc, tokens, zombies, runs>>

MergeEnd ==
    /\ pc = "merge" /\ batch = <<>> /\ emit = NoEmit
    /\ pc' = "loop"
    /\ UNCHANGED <<net, config, ready, readySet, batch, tokens, cache, attempts, completed,
                   keyed, outcomes, emit, zombies, runs>>

Consumers(p) == {t \in Transitions : p \in net.in[t]}

\* insert_token: a token for a key that its consumer has completed is dropped;
\* otherwise it may enable the consumer.
Emit ==
    /\ emit # NoEmit /\ emit.rest # <<>>
    /\ LET p == Head(emit.rest)
           k == emit.k
           late == \E c \in Consumers(p) : <<c, k>> \in completed
           tk == [tokens EXCEPT ![p][k] = @ \cup {[src |-> emit.t, out |-> emit.out]}]
       IN \/ /\ late
             /\ zombies' = zombies + 1
             /\ UNCHANGED <<tokens, ready, readySet>>
          \/ /\ ~late
             /\ tokens' = tk
             /\ \/ \E c \in Consumers(p) : IsReady(c, k, tk) /\ PushReady(c, k, FALSE)
                \/ /\ \A c \in Consumers(p) : ~IsReady(c, k, tk)
                   /\ UNCHANGED <<ready, readySet>>
             /\ UNCHANGED zombies
    /\ emit' = [emit EXCEPT !.rest = Tail(@)]
    /\ UNCHANGED <<net, config, pc, batch, cache, attempts, completed, keyed, outcomes, runs>>

\* After the last token; a Terminal clears the queue, drops the rest of the
\* batch and marks what has no outcome as cancelled.
Settle ==
    /\ emit # NoEmit /\ emit.rest = <<>>
    /\ emit' = NoEmit
    /\ \/ /\ net.kind[emit.t] # "Terminal"
          /\ UNCHANGED <<pc, ready, readySet, batch, outcomes>>
       \/ /\ net.kind[emit.t] = "Terminal"
          /\ ready' = <<>> /\ readySet' = {} /\ batch' = <<>>
          /\ outcomes' = [t \in Transitions |->
                            IF outcomes[t] = "none" THEN "Cancelled" ELSE outcomes[t]]
          /\ pc' = "terminated"
    /\ UNCHANGED <<net, config, tokens, cache, attempts, completed, keyed, zombies, runs>>

Drain ==
    /\ pc = "loop" /\ batch = <<>> /\ ready = <<>> /\ emit = NoEmit
    /\ pc' = "drained"
    /\ UNCHANGED <<net, config, ready, readySet, batch, tokens, cache, attempts, completed,
                   keyed, outcomes, emit, zombies, runs>>

Ended == pc \in {"rejected", "terminated", "drained", "error", "panicked"}

Done == Ended /\ UNCHANGED vars

Next == \/ Build \/ NextBatch \/ ParallelBatch \/ Join \/ Process \/ Merge \/ MergeEnd
        \/ Emit \/ Settle \/ Drain

Spec == Init /\ [][Next \/ Done]_vars /\ WF_vars(Next)

-----------------------------------------------------------------------------
(* Properties.                                                             *)

\* The engine state keeps its types; in particular a token lies only in a
\* place of the net and an item is queued for a pair of the net.
TypeOK ==
    /\ [net |-> net, config |-> config] \in Executions
    /\ pc \in {"build", "loop", "run", "merge", "rejected", "terminated", "drained",
               "error", "panicked"}
    /\ ready \in Seq(Item) /\ batch \in Seq(Item)
    /\ readySet \subseteq Pairs /\ completed \subseteq Pairs
    /\ tokens \in [Places -> [Keys -> SUBSET Token]]
    /\ cache \subseteq [x : Pairs, inputs : SUBSET Token]
    /\ attempts \in [Pairs -> Nat] /\ runs \in [Pairs -> Nat]
    /\ keyed \in [Pairs -> Outcomes \cup {"none"}]
    /\ outcomes \in [Transitions -> Outcomes \cup {"none"}]
    /\ emit \in [t : Transitions, k : Keys, out : Outcomes, rest : Seq(Places)] \cup {NoEmit}
    /\ zombies \in Nat

PairsOf(items) == {<<i.t, i.k>> : i \in Range(items)}

\* ready_set holds exactly the pairs that are queued (single-threaded: or in
\* the rest of the batch), and none is there twice: a pair that stayed in
\* ready_set after it was run could never be queued again.
ReadySetExact ==
    LET held == IF config.concurrency > 1 THEN ready ELSE ready \o batch
    IN readySet = PairsOf(held) /\ Cardinality(readySet) = Len(held)

\* A pair the engine still owes a run: a root, a pair whose inputs are taken
\* (it waits for a retry) or one whose inputs satisfy its join.
Owed(x) ==
    /\ x \notin completed
    /\ \/ x[1] \in Roots /\ x[2] = net.root[x[1]]
       \/ Cached(x)
       \/ /\ \E p \in net.in[x[1]] : tokens[p][x[2]] # {}
          /\ IsReady(x[1], x[2], tokens)

\* Every pair that is owed a run is queued or in the batch, until a Terminal
\* ends the run: no enabled transition and no retry is forgotten.
NoLostWork ==
    pc \in {"loop", "run", "merge", "drained"} =>
        \A x \in Pairs : Owed(x) => x \in PairsOf(ready) \cup PairsOf(batch)

\* A queued transition is still enabled when it runs: the engine_invariant
\* "transition became not-ready before run" is not reachable through a net.
NoStaleRun == pc # "error"

\* An AllOf transition gets an outcome other than Skipped only if each of its
\* input places got a token from a transition that succeeded for that key.
AllOfNeedsSuccess ==
    \A t \in Transitions, k \in Keys :
        net.join[t] = "AllOf" /\ keyed[<<t, k>>] \notin {"none", "Skipped"} =>
            \A p \in net.in[t] : \E src \in Transitions :
                p \in Range(net.out[src]) /\ keyed[<<src, k>>] = "Success"

\* The gates are honoured: the ready queue and its set agree, and no AllOf
\* transition runs past an input without a success.
GatesHonoured == TypeOK /\ ReadySetExact /\ AllOfNeedsSuccess

\* When the run has drained, a transition that has not completed for a key is
\* one whose join the tokens left in its places do not satisfy, and no token
\* is left for a transition that completed without retries.
DrainedIsFinal ==
    pc = "drained" =>
        \A t \in Transitions, k \in Keys :
            IF <<t, k>> \in completed
            THEN net.retries[t] = 0 => \A p \in net.in[t] : tokens[p][k] = {}
            ELSE net.in[t] # {} =>
                   \/ \A p \in net.in[t] : tokens[p][k] = {}
                   \/ ~IsReady(t, k, tokens)

\* What a pair completed with is final: it is never run again and its outcome
\* never changes, even when more tokens arrive for it.
CompletedOnce ==
    [][ \A x \in completed :
          x \in completed' /\ keyed'[x] = keyed[x] /\ runs'[x] = runs[x] ]_vars

\* No work is lost, done on stale grounds or done twice.
WorkKept == [](NoLostWork /\ NoStaleRun /\ DrainedIsFinal) /\ CompletedOnce

\* Every execution ends: retries are bounded and a pair completes once, also
\* in a net with a cycle.
Termination == <>Ended
=============================================================================
