---------------------------- MODULE NetAlgorithms ----------------------------
(***************************************************************************)
(* From registered nodes to a net that runs, as pure operators: the data   *)
(* edges and levels of service/graph_registry.rs, the subnet that          *)
(* execute_registered_target of host.rs selects and turns into transitions,*)
(* places and arcs, the gates of execution/gate.rs and the router of       *)
(* execution/router.rs.                                                    *)
(*                                                                         *)
(* Nodes are numbers, in the order of their names; a documented node has   *)
(* the fields it consumes and the fields it produces.                      *)
(***************************************************************************)
EXTENDS Sample, Integers, FiniteSets, Sequences, SequencesExt

Unreached == 99         \* usize::MAX, the level of a node on a cycle

LeastOf(S) == CHOOSE x \in S : \A y \in S : x <= y
GreatestOf(S) == CHOOSE x \in S : \A y \in S : y <= x

------------------------------------------------------------------------------
(* service/graph_registry.rs *)

\* infer_outputs: the properties of the output schema without "error".
Outputs(doc) == doc.produces \ {"error"}

\* build_registered_net: one data edge per consumed field that another node
\* produces, from the first producer by name.
Producers(docs, n, field) == {m \in DOMAIN docs \ {n} : field \in Outputs(docs[m])}
DataEdges(docs) ==
    {[from |-> LeastOf(Producers(docs, n, f)), to |-> n, label |-> f] :
        <<n, f>> \in {<<n, f>> \in (DOMAIN docs) \X UNION {docs[m].consumes : m \in DOMAIN docs} :
                        f \in docs[n].consumes /\ Producers(docs, n, f) # {}}}

\* topo_levels, one node of the queue at a time: an edge counts once per
\* label, so the indegree of a node is the number of its incoming edges.
Out(edges, n) == SetToSeq({e \in edges : e.from = n})
Indegree(edges, n) == Cardinality({e \in edges : e.to = n})

\* Mutant: the level of a node is that of the last edge that reached it.
RelaxLast(st, to, level) ==
    LET d == st.indegree[to] - 1
    IN  [indegree |-> [st.indegree EXCEPT ![to] = d],
         levels   |-> [st.levels EXCEPT ![to] = IF d = 0 THEN 1 ELSE level + 1],
         queue    |-> IF d = 0 THEN Append(st.queue, to) ELSE st.queue]

\* One edge: the level grows to one more than the source's, the indegree
\* shrinks, and at zero the node is queued.
Relax(st, to, level) ==
    LET d == st.indegree[to] - 1
    IN  [indegree |-> [st.indegree EXCEPT ![to] = d],
         levels   |-> [st.levels EXCEPT ![to] = IF @ < level + 1 THEN level + 1 ELSE @],
         queue    |-> IF d = 0 THEN Append(st.queue, to) ELSE st.queue]

\* levels is -1 for a node without an entry.
StartState(nodes, edges) ==
    [indegree |-> [n \in nodes |-> Indegree(edges, n)],
     levels   |-> [n \in nodes |-> -1],
     queue    |-> SetToSortSeq({n \in nodes : Indegree(edges, n) = 0}, LAMBDA a, b : a < b)]

VisitNode(st, edges) ==
    IF st.queue = <<>> THEN st
    ELSE LET n == Head(st.queue)
             level == IF st.levels[n] = -1 THEN 0 ELSE st.levels[n]
         IN  FoldLeft(LAMBDA acc, e : Relax(acc, e.to, level),
                      [st EXCEPT !.queue = Tail(@)], Out(edges, n))

Visited(nodes, edges) ==
    LET after[k \in 0..Cardinality(nodes)] ==
            IF k = 0 THEN StartState(nodes, edges) ELSE VisitNode(after[k - 1], edges)
    IN  after[Cardinality(nodes)]

Unresolved(nodes, edges) ==
    {n \in nodes : Visited(nodes, edges).indegree[n] > 0}

\* The sentinel is an or_insert: a node that already has an entry keeps it.
TopoLevels(nodes, edges) ==
    LET st == Visited(nodes, edges)
    IN  [n \in nodes |-> IF st.levels[n] # -1 THEN st.levels[n]
                         ELSE IF st.indegree[n] > 0 THEN Unreached ELSE 0]

------------------------------------------------------------------------------
(* host.rs: the net of one target *)

\* select_registered_net_subgraph: backwards from the target.
SelectSubgraph(nodes, edges, target) ==
    LET closed[k \in 0..Cardinality(nodes)] ==
            IF k = 0 THEN {target}
            ELSE closed[k - 1] \cup {e.from : e \in {e \in edges : e.to \in closed[k - 1]}}
    IN  closed[Cardinality(nodes)]

\* build_execution_net and edges_to_net_specs: a transition per selected
\* node, ordered by level and name, joining all its inputs; a place and two
\* arcs per edge with both ends selected, the inbound one required.
BuildNet(nodes, edges, target) ==
    LET sel   == SelectSubgraph(nodes, edges, target)
        level == TopoLevels(nodes, edges)
        inner == {e \in edges : e.from \in sel /\ e.to \in sel}
    IN  [transitions |-> SetToSortSeq(sel, LAMBDA a, b : level[a] < level[b] \/ (level[a] = level[b] /\ a < b)),
         join   |-> [n \in sel |-> IF \E e \in inner : e.to = n THEN "AllOf" ELSE "AnyOf"],
         places |-> inner,
         inArcs  |-> {[place |-> e, transition |-> e.to, required |-> TRUE] : e \in inner},
         outArcs |-> {[place |-> e, transition |-> e.from] : e \in inner}]

\* infer_outcome_from_payload: anything that is no object is a success; ok
\* false or a non-blank error text is a failure.
InferOutcome(answer) ==
    IF answer.object /\ (answer.ok = "false" \/ answer.error = "text") THEN "Failure" ELSE "Success"

\* What the engine runs of such a net: a transition whose required places
\* each have a token, and whose producers all succeeded.
Fired(net, answers) ==
    LET all == Range(net.transitions)
        Ready(done, n) == \A a \in net.inArcs : a.transition = n =>
                            \E o \in net.outArcs : /\ o.place = a.place /\ o.transition \in done
                                                  /\ InferOutcome(answers[o.transition]) = "Success"
        step[k \in 0..Cardinality(all)] ==
            IF k = 0 THEN {} ELSE step[k - 1] \cup {n \in all : Ready(step[k - 1], n)}
    IN  step[Cardinality(all)]

------------------------------------------------------------------------------
(* execution/gate.rs *)

Bad == {"Failure", "Timeout"}
Terminal == {"Success", "Failure", "Timeout", "Cancelled", "Skipped"}

Wait == [done |-> FALSE, success |-> FALSE, cancel |-> {}]
Decided(ok) == [done |-> TRUE, success |-> ok, cancel |-> {}]
Of(out, n) == IF n \in DOMAIN out THEN out[n] ELSE "none"
Pending(up, out) == {n \in up : Of(out, n) = "none"}

\* A skipped or cancelled upstream neither fails an AllOf gate nor lets it
\* succeed: it waits.
EvalAllOf(up, out) ==
    IF \E n \in up : Of(out, n) \in Bad THEN Decided(FALSE)
    ELSE IF \A n \in up : Of(out, n) = "Success" THEN Decided(TRUE) ELSE Wait

EvalAnyOf(up, out) ==
    IF \E n \in up : Of(out, n) = "Success" THEN Decided(TRUE)
    ELSE IF Pending(up, out) = {} THEN Decided(FALSE) ELSE Wait

\* The completion order decides which success wins; the order may lag
\* behind the outcomes.
EvalFirstSuccess(up, out, order) ==
    LET winners == {i \in DOMAIN order : order[i] \in up /\ Of(out, order[i]) = "Success"}
    IN  IF winners # {}
        THEN [done |-> TRUE, success |-> TRUE, cancel |-> Pending(up, out) \ {order[LeastOf(winners)]}]
        ELSE IF up # {} /\ Pending(up, out) = {} THEN Decided(FALSE) ELSE Wait

EvalFirstCompleted(up, out, order) ==
    LET known == {i \in DOMAIN order : order[i] \in up /\ order[i] \in DOMAIN out}
    IN  IF known = {} THEN Wait
        ELSE LET first == order[LeastOf(known)]
             IN  [done |-> TRUE, success |-> out[first] = "Success",
                  cancel |-> Pending(up, out) \ {first}]

EvalAtLeast(k, up, out) ==
    LET ok == Cardinality({n \in up : Of(out, n) = "Success"})
    IN  IF k = 0 \/ ok >= k THEN Decided(TRUE)
        ELSE IF ok + Cardinality(Pending(up, out)) < k THEN Decided(FALSE) ELSE Wait

EvaluateGate(policy, up, out, order) ==
    CASE policy = "AllOf"          -> EvalAllOf(up, out)
      [] policy = "AnyOf"          -> EvalAnyOf(up, out)
      [] policy = "FirstSuccess"   -> EvalFirstSuccess(up, out, order)
      [] policy = "FirstCompleted" -> EvalFirstCompleted(up, out, order)
      [] OTHER                     -> EvalAtLeast(2, up, out)

------------------------------------------------------------------------------
(* execution/router.rs *)

\* execute_router: a late run that did not succeed timed out; a success is
\* kept however late.
RouterOutcome(run) == IF run.late /\ run.raw # "Success" THEN "Timeout" ELSE run.raw

\* Success commits the overlay of the subgraph, anything else rolls it back;
\* a panic of the runner leaves it open, and a subgraph that is open refuses
\* to begin again, before anything is counted as an outcome.
RouterStep(ctx, run) ==
    IF ctx.open THEN [ctx EXCEPT !.executed = @ + 1]
    ELSE IF run.raw = "panic" THEN [ctx EXCEPT !.executed = @ + 1, !.open = TRUE]
    ELSE IF RouterOutcome(run) = "Success"
         THEN [ctx EXCEPT !.executed = @ + 1, !.base = Append(@, run.writes), !.commits = @ + 1]
         ELSE [ctx EXCEPT !.executed = @ + 1, !.rollbacks = @ + 1]

\* run_transition_router on one context, one attempt after the other.
RouterRuns(runs) ==
    FoldLeft(RouterStep, [open |-> FALSE, base |-> <<>>, executed |-> 0, commits |-> 0, rollbacks |-> 0], runs)

------------------------------------------------------------------------------
(* Properties *)

\* For every target: the nodes that run are exactly the selected ones that
\* are on no cycle, behind none, and behind no node whose answer counts as a
\* failure; they are started in an order that respects every edge between
\* them; and the level of each is one more than the highest of its producers.
TargetNetRuns ==
    sample.of = "net" =>
        LET docs  == sample.docs
            nodes == DOMAIN docs
            edges == DataEdges(docs)
            level == TopoLevels(nodes, edges)
            stuck == Unresolved(nodes, edges)
            failed == {n \in nodes : InferOutcome(sample.answers[n]) = "Failure"}
            behind == UNION {{n \in nodes \ {m} : m \in SelectSubgraph(nodes, edges, n)} : m \in failed}
        IN  /\ \A target \in nodes :
                 LET net == BuildNet(nodes, edges, target)
                     At(n) == CHOOSE i \in DOMAIN net.transitions : net.transitions[i] = n
                 IN  /\ Fired(net, sample.answers) = (Range(net.transitions) \ stuck) \ behind
                     /\ \A p \in net.places : p.to \notin stuck => At(p.from) < At(p.to)
            /\ \A n \in nodes \ stuck :
                 LET into == {e \in edges : e.to = n}
                 IN  level[n] = IF into = {} THEN 0 ELSE 1 + GreatestOf({level[e.from] : e \in into})

\* The comment at the end of topo_levels: nodes on a cycle get "a distinct
\* sentinel" as their level, so that no consumer takes them for real ones.
CyclesMarked ==
    sample.of = "net" =>
        LET nodes == DOMAIN sample.docs
            edges == DataEdges(sample.docs)
        IN  \A n \in Unresolved(nodes, edges) : TopoLevels(nodes, edges)[n] = Unreached

\* A gate that has decided stays with its decision, whatever completes
\* afterwards, and cancels no node that has completed.
GateDecisionStable ==
    sample.of = "gate" =>
        LET before == EvaluateGate(sample.policy, sample.up, sample.out, sample.order)
            OneMore(n, o) == EvaluateGate(sample.policy, sample.up,
                               [m \in DOMAIN sample.out \cup {n} |-> IF m = n THEN o ELSE sample.out[m]],
                               Append(sample.order, n))
        IN  before.done =>
              /\ before.cancel \cap DOMAIN sample.out = {}
              /\ \A n \in sample.up \ DOMAIN sample.out, o \in Terminal :
                    OneMore(n, o).done /\ OneMore(n, o).success = before.success

\* Of a sequence of router runs on one context exactly the successful ones
\* before the first panic are in the context, in their order, late or not,
\* and each of the others was rolled back or refused.
RouterSettles ==
    sample.of = "router" =>
        LET end   == RouterRuns(sample.runs)
            calm  == {i \in DOMAIN sample.runs : \A j \in 1..i : sample.runs[j].raw # "panic"}
            prefix == SubSeq(sample.runs, 1, Cardinality(calm))
            good  == SelectSeq(prefix, LAMBDA r : r.raw = "Success")
        IN  /\ end.base = [i \in DOMAIN good |-> good[i].writes]
            /\ end.commits + end.rollbacks = Len(prefix)
            /\ end.executed = Len(sample.runs)

\* Nets are planned, gates decided and subgraphs settled as they should.
NetsSound == TargetNetRuns /\ GateDecisionStable /\ RouterSettles
=============================================================================
