--------------------------- MODULE IterationProofs ---------------------------
(***************************************************************************)
(* Proofs about the self-iteration, for any number of threads, iterations, *)
(* files and tool calls: the books of the kernel tell the truth            *)
(* (KernelState, StatusTruthful), a session of the iteration's agent can   *)
(* be undone and earns its summary (IterationAgent, SessionSound), and the *)
(* pipeline can take back what it has edited, leaves artifacts that belong *)
(* to the sources and promotes what it has verified (PluginIteration).     *)
(*                                                                         *)
(* record_plugin_iteration_outcome writes four books in four lock          *)
(* sections.  What makes the answers right in between is ownership: from   *)
(* the moment an iteration begins, or is taken out of the blocked ones, to *)
(* the moment its result is put there (or not), exactly one thread has its *)
(* id, and the entry that thread has already written is the only one that  *)
(* may be ahead of the others.                                             *)
(***************************************************************************)
EXTENDS KernelState, IterationAgent, PluginIteration, FiniteSetTheorems, WellFoundedInduction, TLAPS

Points == {"idle", "body", "approve", "metrics", "history", "last", "blocked", "issue"}
Owning == {"body", "approve", "metrics", "history", "last", "blocked"}
Waiting == {"Blocked", "InfrastructureFailure"}
SomeIssue == {NoIssue} \cup IssueId
WorkerState == [at : Points, id : Nat, issue : SomeIssue, verdict : Verdicts \cup {"none"}]
Outcome == [id : IterationId, issue : SomeIssue, verdict : Verdicts]
IssueEntry == [status : {"Open", "Running", "Blocked", "Resolved"}, first : Nat]
Counters == [total : Nat, promoted : Nat, rolledBack : Nat, infra : Nat]
Views == [step : 0..3, history : Nat, last : BOOLEAN, total : Nat, promoted : Nat]

\* The shape of the books and of the threads.
ThreadShape ==
    /\ worker \in [Worker -> WorkerState]
    /\ issued \in 0..MaxIteration /\ active \in 0..MaxIteration
    /\ \A w \in Worker :
        /\ worker[w].at # "idle" => worker[w].id \in 1..issued
        /\ worker[w].at \notin {"idle", "body"} => worker[w].verdict \in Verdicts

IssueShape ==
    /\ observed \in Nat /\ DOMAIN issues \subseteq IssueId
    /\ \A id \in DOMAIN issues : issues[id] \in IssueEntry

BookShape ==
    /\ historyBook \in Seq(Outcome) /\ Len(historyBook) <= HistoryCap
    /\ last = <<>> \/ \E r \in Outcome : last = <<r>>
    /\ DOMAIN blockedBook \subseteq IterationId
    /\ \A id \in DOMAIN blockedBook : blockedBook[id] \in Outcome
    /\ DOMAIN latest \subseteq 1..issued
    /\ metrics \in Counters /\ view \in Views

Shape == ThreadShape /\ IssueShape /\ BookShape

\* Thread w is responsible for iteration id.
Owns(w, id) == worker[w].id = id /\ worker[w].at \in Owning

\* One thread at a time is responsible for an iteration, and none is for one
\* that waits for its approval.
OneOwner ==
    /\ \A w, u \in Worker : \A id \in IterationId : Owns(w, id) /\ Owns(u, id) => w = u
    /\ \A w \in Worker : \A id \in DOMAIN blockedBook : ~ Owns(w, id)

\* A thread that has written last, or has taken the result back out of the
\* blocked ones, holds the verdict recorded last.
HeldIsLatest ==
    \A w \in Worker :
        /\ worker[w].at \in {"approve", "blocked"} =>
            worker[w].id \in DOMAIN latest /\ worker[w].verdict = latest[worker[w].id]
        /\ worker[w].at = "approve" => worker[w].verdict \in Waiting

LastIsLatest ==
    last # <<>> => last[1].id \in DOMAIN latest /\ last[1].verdict = latest[last[1].id]

BlockedIsLatest ==
    \A id \in DOMAIN blockedBook :
        /\ id \in DOMAIN latest /\ blockedBook[id].verdict = latest[id]
        /\ blockedBook[id].verdict \in Waiting

\* Thread w has written the history for id, and not yet last.
Ahead(w, id) == worker[w].id = id /\ worker[w].at = "last"

\* An entry of the history is the verdict recorded last, or the one of the
\* thread that is about to write last.
HistoryIsLatest ==
    \A i \in DOMAIN historyBook :
        \/ \E w \in Worker : Ahead(w, historyBook[i].id)
                             /\ historyBook[i].verdict = worker[w].verdict
        \/ /\ \A w \in Worker : ~ Ahead(w, historyBook[i].id)
           /\ historyBook[i].id \in DOMAIN latest
           /\ historyBook[i].verdict = latest[historyBook[i].id]

InHistory(id) == \E i \in DOMAIN historyBook : historyBook[i].id = id

\* Nothing that was recorded is missing while there is room.
HistoryComplete ==
    Len(historyBook) < HistoryCap =>
        \A id \in IterationId :
            id \in DOMAIN latest \/ (\E w \in Worker : Ahead(w, id)) => InHistory(id)

RecordInv == OneOwner /\ HeldIsLatest /\ LastIsLatest /\ BlockedIsLatest
             /\ HistoryIsLatest /\ HistoryComplete

\* Threads that have counted their iteration and not yet entered it.
Counted == {w \in Worker : worker[w].at = "history"}

\* The counters run ahead of the history, and of last.
CountInv ==
    /\ IsFiniteSet(Counted)
    /\ Len(historyBook) + Cardinality(Counted) <= metrics.total
    /\ metrics.promoted <= metrics.total
    /\ last # <<>> => metrics.total > 0
    /\ \A w \in Worker : worker[w].at \in {"history", "last"} => metrics.total > 0

\* What a caller of status() has read so far is still covered by the counters.
ViewInv ==
    /\ view.step >= 1 => view.history <= metrics.total
    /\ view.step >= 2 /\ view.last => metrics.total > 0
    /\ view.step = 3 => /\ view.history <= view.total
                        /\ view.last => view.total > 0
                        /\ view.promoted <= view.total

KernelInv == Shape /\ RecordInv /\ CountInv /\ ViewInv

-----------------------------------------------------------------------------
(* Operators.                                                              *)

\* A push at the front of a capped sequence puts x first and keeps the rest,
\* less the last entry when the cap is reached.
LEMMA PushFrontCappedFacts ==
    ASSUME NEW S, NEW s \in Seq(S), NEW x \in S, NEW cap \in Nat \ {0}, Len(s) <= cap
    PROVE  LET t == PushFrontCapped(s, x, cap)
           IN  /\ t \in Seq(S) /\ Len(t) = IF Len(s) < cap THEN Len(s) + 1 ELSE cap
               /\ t[1] = x
               /\ \A i \in 2..Len(t) : t[i] = s[i - 1]
<1> DEFINE n == IF Len(s) < cap THEN Len(s) + 1 ELSE cap
           u == <<x>> \o s
<1>1. n \in 1..Len(s) + 1  OBVIOUS
<1>2. u \in Seq(S) /\ Len(u) = Len(s) + 1 /\ u[1] = x  OBVIOUS
<1>3. \A i \in 2..Len(u) : u[i] = s[i - 1]  OBVIOUS
<1>4. PushFrontCapped(s, x, cap) = SubSeq(u, 1, n)  BY DEF PushFrontCapped
<1> HIDE DEF n, u
<1>5. SubSeq(u, 1, n) \in Seq(S) /\ Len(SubSeq(u, 1, n)) = n  BY <1>1, <1>2
<1>6. \A i \in 1..n : SubSeq(u, 1, n)[i] = u[i]  BY <1>1, <1>2
<1> QED  BY <1>1, <1>2, <1>3, <1>4, <1>5, <1>6 DEF n

\* The entry of r.id is r, if there is one, and the others are as they were.
LEMMA BlockedWithFacts ==
    ASSUME NEW r
    PROVE  \A id \in DOMAIN BlockedWith(r) :
               \/ id = r.id /\ BlockedWith(r)[id] = r /\ r.verdict \in Waiting
               \/ id # r.id /\ id \in DOMAIN blockedBook /\ BlockedWith(r)[id] = blockedBook[id]
<1> DEFINE all == With(blockedBook, r.id, r)
<1>1. \A id \in DOMAIN all : \/ id = r.id /\ all[id] = r
                             \/ id # r.id /\ id \in DOMAIN blockedBook /\ all[id] = blockedBook[id]
  BY DEF With
<1>2. CASE r.verdict \in Waiting
  <2>1. BlockedWith(r) \in {all, WithoutId(all, Least(DOMAIN all))} BY <1>2 DEF BlockedWith, Waiting
  <2> HIDE DEF all
  <2>2. \A id \in DOMAIN BlockedWith(r) : id \in DOMAIN all /\ BlockedWith(r)[id] = all[id]
    BY <2>1 DEF WithoutId
  <2> QED  BY <1>1, <1>2, <2>2
<1>3. CASE r.verdict \notin Waiting BY <1>3 DEF BlockedWith, Waiting, WithoutId
<1> QED  BY <1>2, <1>3

\* The history after a record: r is in it, every entry is r or an entry for
\* another iteration, and while there is room nothing is dropped.
LEMMA HistoryWithFacts ==
    ASSUME KernelAssumption, NEW r \in Outcome,
           historyBook \in Seq(Outcome), Len(historyBook) <= HistoryCap
    PROVE  /\ HistoryWith(r) \in Seq(Outcome)
           /\ Len(HistoryWith(r)) \in Len(historyBook)..Len(historyBook) + 1
           /\ Len(HistoryWith(r)) <= HistoryCap
           /\ \A i \in DOMAIN HistoryWith(r) :
                 \/ HistoryWith(r)[i] = r
                 \/ HistoryWith(r)[i].id # r.id
                    /\ \E j \in DOMAIN historyBook : HistoryWith(r)[i] = historyBook[j]
           /\ \E i \in DOMAIN HistoryWith(r) : HistoryWith(r)[i] = r
           /\ Len(HistoryWith(r)) < HistoryCap =>
                 /\ Len(historyBook) < HistoryCap
                 /\ \A j \in DOMAIN historyBook :
                      \E i \in DOMAIN HistoryWith(r) : HistoryWith(r)[i].id = historyBook[j].id
           /\ Len(historyBook) = HistoryCap => Len(HistoryWith(r)) = HistoryCap
<1> DEFINE h == HistoryWith(r)
<1>0. HistoryCap \in Nat \ {0} /\ Len(historyBook) \in Nat  BY DEF KernelAssumption
<1>d. DOMAIN historyBook = 1..Len(historyBook)
      /\ \A j \in DOMAIN historyBook : historyBook[j] \in Outcome  OBVIOUS
<1>1. CASE InHistory(r.id)
  <2>1. h = [i \in DOMAIN historyBook |-> IF historyBook[i].id = r.id THEN r ELSE historyBook[i]]
    BY <1>1 DEF HistoryWith, InHistory
  <2> HIDE DEF h
  <2>2. h \in [1..Len(historyBook) -> Outcome]  BY <2>1, <1>d
  <2>3. h \in Seq(Outcome) /\ Len(h) = Len(historyBook) /\ DOMAIN h = DOMAIN historyBook BY <2>2, <1>0, <1>d
  <2>4. \A i \in DOMAIN h : h[i] = r \/ (h[i].id # r.id /\ h[i] = historyBook[i])  BY <2>1, <2>3
  <2>5. \A i \in DOMAIN h : h[i].id = historyBook[i].id  BY <2>1, <2>3
  <2>6. \E i \in DOMAIN h : h[i] = r  BY <1>1, <2>1, <2>3 DEF InHistory
  <2>7. Len(h) \in Len(historyBook)..Len(historyBook) + 1 /\ Len(h) <= HistoryCap BY <1>0, <2>3
  <2>8. \A i \in DOMAIN h : h[i] = r
            \/ (h[i].id # r.id /\ \E j \in DOMAIN historyBook : h[i] = historyBook[j]) BY <2>3, <2>4
  <2>9. \A j \in DOMAIN historyBook : \E i \in DOMAIN h : h[i].id = historyBook[j].id  BY <2>3, <2>5
  <2>10. Len(h) < HistoryCap => Len(historyBook) < HistoryCap  BY <2>3
  <2> QED  BY <2>3, <2>6, <2>7, <2>8, <2>9, <2>10 DEF h
<1>2. CASE ~ InHistory(r.id)
  <2>1. h = PushFrontCapped(historyBook, r, HistoryCap)  BY <1>2 DEF HistoryWith, InHistory
  <2> HIDE DEF h
  <2>2. /\ h \in Seq(Outcome)
        /\ Len(h) = IF Len(historyBook) < HistoryCap THEN Len(historyBook) + 1 ELSE HistoryCap
        /\ h[1] = r /\ \A i \in 2..Len(h) : h[i] = historyBook[i - 1]
    <3> DEFINE t == PushFrontCapped(historyBook, r, HistoryCap)
    <3>1. /\ t \in Seq(Outcome)
          /\ Len(t) = IF Len(historyBook) < HistoryCap THEN Len(historyBook) + 1 ELSE HistoryCap
          /\ t[1] = r /\ \A i \in 2..Len(t) : t[i] = historyBook[i - 1] BY <1>0, PushFrontCappedFacts
    <3> HIDE DEF t
    <3> QED  BY <2>1, <3>1 DEF t
  <2>3. DOMAIN h = 1..Len(h) /\ 1 \in DOMAIN h  BY <2>2, <1>0
  <2>4. \A i \in DOMAIN h : h[i] = r
            \/ (h[i].id # r.id /\ \E j \in DOMAIN historyBook : h[i] = historyBook[j])
    <3> TAKE i \in DOMAIN h
    <3>1. CASE i = 1  BY <3>1, <2>2
    <3>2. CASE i # 1
      <4>1. i \in 2..Len(h) /\ i - 1 \in DOMAIN historyBook  BY <3>2, <2>2, <2>3, <1>0, <1>d
      <4>2. h[i] = historyBook[i - 1]  BY <4>1, <2>2
      <4> QED  BY <4>1, <4>2, <1>2 DEF InHistory
    <3> QED  BY <3>1, <3>2
  <2>5. ASSUME Len(h) < HistoryCap
        PROVE  /\ Len(historyBook) < HistoryCap
               /\ \A j \in DOMAIN historyBook : \E i \in DOMAIN h : h[i].id = historyBook[j].id
    <3>1. Len(historyBook) < HistoryCap /\ Len(h) = Len(historyBook) + 1  BY <2>5, <2>2, <1>0
    <3> SUFFICES ASSUME NEW j \in DOMAIN historyBook
                 PROVE  \E i \in DOMAIN h : h[i].id = historyBook[j].id BY <3>1
    <3>2. j + 1 \in 2..Len(h) /\ (j + 1) - 1 = j  BY <3>1, <1>d, <1>0
    <3>3. h[j + 1] = historyBook[j]  BY <3>2, <2>2
    <3>4. j + 1 \in DOMAIN h  BY <3>2, <2>2, <2>3, <1>0
    <3> QED  BY <3>3, <3>4
  <2> QED  BY <1>0, <2>2, <2>3, <2>4, <2>5 DEF h
<1> QED  BY <1>1, <1>2

-----------------------------------------------------------------------------
(* The shape of the state.                                                 *)

\* The step makes v the state of thread w.
Moved(w, v) == worker' = [worker EXCEPT ![w] = v]

\* A step of thread w leaves the other threads alone.
LEMMA WorkerMoves ==
    ASSUME NEW w \in Worker, NEW v, worker \in [Worker -> WorkerState], Moved(w, v)
    PROVE  worker'[w] = v /\ \A u \in Worker \ {w} : worker'[u] = worker[u]
BY DEF Moved

\* What a step of w does to the shape of the threads is what it does to w.
LEMMA ThreadStep ==
    ASSUME ThreadShape, NEW w \in Worker, NEW v \in WorkerState, Moved(w, v),
           issued' \in 0..MaxIteration, issued' \in Nat, issued \in Nat, issued <= issued',
           active' \in 0..MaxIteration,
           v.at # "idle" => v.id \in 1..issued',
           v.at \notin {"idle", "body"} => v.verdict \in Verdicts
    PROVE  ThreadShape'
<1>1. worker' \in [Worker -> WorkerState]  BY DEF ThreadShape, Moved
<1>2. worker'[w] = v /\ \A u \in Worker \ {w} : worker'[u] = worker[u] BY WorkerMoves DEF ThreadShape
<1>3. ASSUME NEW u \in Worker
      PROVE  /\ worker'[u].at # "idle" => worker'[u].id \in 1..issued'
             /\ worker'[u].at \notin {"idle", "body"} => worker'[u].verdict \in Verdicts
  <2>1. CASE u = w  BY <1>2, <2>1
  <2>2. CASE u # w BY <1>2, <2>2 DEF ThreadShape
  <2> QED  BY <2>1, <2>2
<1> QED  BY <1>1, <1>3 DEF ThreadShape

\* An idle thread, and the fields of a thread.
LEMMA WorkerFields ==
    ASSUME ThreadShape, NEW w \in Worker
    PROVE  /\ IdleWorker \in WorkerState /\ IdleWorker.at = "idle" /\ IdleWorker.id = 0
           /\ worker[w] \in WorkerState
           /\ worker[w].at \in Points /\ worker[w].id \in Nat /\ worker[w].issue \in SomeIssue
           /\ worker[w].verdict \in Verdicts \cup {"none"}
           /\ worker[w] = [at |-> worker[w].at, id |-> worker[w].id,
                           issue |-> worker[w].issue, verdict |-> worker[w].verdict]
<1>1. IdleWorker \in WorkerState BY DEF IdleWorker, WorkerState, Points, SomeIssue, NoIssue
<1>2. worker[w] \in WorkerState  BY DEF ThreadShape
<1> QED  BY <1>1, <1>2 DEF WorkerState, IdleWorker

\* Moving on to the next lock section keeps the rest of the thread's state.
LEMMA WorkerAt ==
    ASSUME ThreadShape, NEW w \in Worker, NEW p \in Points,
           worker' = [worker EXCEPT ![w].at = p]
    PROVE  \E v \in WorkerState :
               /\ v.at = p /\ v.id = worker[w].id /\ v.issue = worker[w].issue
               /\ v.verdict = worker[w].verdict
               /\ Moved(w, v)
<1> DEFINE v == [worker[w] EXCEPT !.at = p]
<1>1. worker[w] \in WorkerState  BY DEF ThreadShape
<1>2. Moved(w, v)  BY DEF Moved
<1>3. v \in WorkerState /\ v.at = p /\ v.id = worker[w].id /\ v.issue = worker[w].issue
      /\ v.verdict = worker[w].verdict BY <1>1 DEF WorkerState
<1> HIDE DEF v
<1> QED  BY <1>2, <1>3

\* ... and so does taking a verdict on with it.
Decides(w, p, x) == worker' = [worker EXCEPT ![w].at = p, ![w].verdict = x]

\* A thread that has its verdict moves on with it.
LEMMA WorkerVerdict ==
    ASSUME ThreadShape, NEW w \in Worker, NEW p \in Points, NEW x \in Verdicts, Decides(w, p, x)
    PROVE  \E v \in WorkerState :
               /\ v.at = p /\ v.id = worker[w].id /\ v.issue = worker[w].issue /\ v.verdict = x
               /\ Moved(w, v)
<1> DEFINE v == [[worker[w] EXCEPT !.at = p] EXCEPT !.verdict = x]
<1>1. worker[w] \in WorkerState  BY DEF ThreadShape
<1>2. Moved(w, v)  BY DEF ThreadShape, Moved, Decides
<1>3. v \in WorkerState /\ v.at = p /\ v.id = worker[w].id /\ v.issue = worker[w].issue
      /\ v.verdict = x BY <1>1 DEF WorkerState
<1> HIDE DEF v
<1> QED  BY <1>2, <1>3

\* The result a thread records.
LEMMA ResultShape ==
    ASSUME KernelAssumption, ThreadShape, NEW w \in Worker, worker[w].at \notin {"idle", "body"}
    PROVE  /\ ResultOf(w) \in Outcome /\ ResultOf(w).id = worker[w].id
           /\ ResultOf(w).verdict = worker[w].verdict /\ ResultOf(w).issue = worker[w].issue
<1>1. worker[w].issue \in SomeIssue  BY WorkerFields
<1>2. worker[w].id \in 1..issued /\ worker[w].verdict \in Verdicts  BY DEF ThreadShape
<1>3. issued \in 0..MaxIteration /\ MaxIteration \in Nat  BY DEF ThreadShape, KernelAssumption
<1>4. worker[w].id \in IterationId  BY <1>2, <1>3 DEF IterationId
<1> QED  BY <1>1, <1>2, <1>4 DEF ResultOf, Outcome

\* An issue seen again or for the first time.
LEMMA IssueSeenShape ==
    ASSUME IssueShape, NEW id \in IssueId, NEW now \in Nat
    PROVE  /\ DOMAIN WithIssueSeen(issues, id, now) \subseteq IssueId
           /\ \A x \in DOMAIN WithIssueSeen(issues, id, now) :
                WithIssueSeen(issues, id, now)[x] \in IssueEntry
<1>1. CASE id \in DOMAIN issues
  <2> DEFINE st == IF issues[id].status = "Running" THEN issues[id].status ELSE "Open"
             f == [issues EXCEPT ![id].status = st]
  <2>1. WithIssueSeen(issues, id, now) = f  BY <1>1 DEF WithIssueSeen
  <2>2. issues[id] \in IssueEntry  BY <1>1 DEF IssueShape
  <2>3. st \in {"Running", "Open"}  OBVIOUS
  <2> HIDE DEF st
  <2>4. [issues[id] EXCEPT !.status = st] \in IssueEntry  BY <2>2, <2>3 DEF IssueEntry
  <2>5. DOMAIN f = DOMAIN issues /\ f[id] = [issues[id] EXCEPT !.status = st]
        /\ \A x \in DOMAIN issues : x # id => f[x] = issues[x]  BY <1>1
  <2> HIDE DEF f
  <2> QED  BY <2>1, <2>4, <2>5 DEF IssueShape
<1>2. CASE id \notin DOMAIN issues BY <1>2 DEF WithIssueSeen, IssueEntry, IssueShape, With
<1> QED  BY <1>1, <1>2

\* An issue whose status an iteration sets.
LEMMA IssueStatusShape ==
    ASSUME IssueShape, NEW id \in DOMAIN issues,
           NEW st \in {"Open", "Running", "Blocked", "Resolved"},
           issues' = [issues EXCEPT ![id].status = st], observed' = observed
    PROVE  IssueShape'
<1>1. issues[id] \in IssueEntry  BY DEF IssueShape
<1>2. [issues[id] EXCEPT !.status = st] \in IssueEntry  BY <1>1 DEF IssueEntry
<1>3. DOMAIN issues' = DOMAIN issues /\ issues'[id] = [issues[id] EXCEPT !.status = st]
      /\ \A x \in DOMAIN issues : x # id => issues'[x] = issues[x] OBVIOUS
<1> QED  BY <1>2, <1>3 DEF IssueShape

\* begin_plugin_iteration selects an issue that exists, or none.
LEMMA SelectedExists ==
    ASSUME NEW request, request = NoIssue \/ request \in DOMAIN issues, NEW id \in Selected(request)
    PROVE  id = NoIssue \/ id \in DOMAIN issues
BY DEF Selected, Candidates, OpenIssues

\* Every step of the kernel keeps the shape of its threads and issues.
LEMMA ShapeStep ==
    ASSUME KernelAssumption, ThreadShape, IssueShape, BookShape, BlockedIsLatest,
           [KernelNext]_kernelVars
    PROVE  ThreadShape' /\ IssueShape' /\ issued' \in Nat /\ issued \in Nat /\ issued <= issued'
<1>0. MaxIteration \in Nat /\ issued \in 0..MaxIteration /\ issued \in Nat /\ active \in 0..MaxIteration
  BY DEF KernelAssumption, ThreadShape
<1>same. ASSUME UNCHANGED <<worker, issued, active>>
         PROVE  ThreadShape' /\ issued' \in Nat /\ issued <= issued' BY <1>0, <1>same DEF ThreadShape
<1>i. ASSUME issued' = issued
      PROVE  issued' \in 0..MaxIteration /\ issued' \in Nat /\ issued <= issued' BY <1>0, <1>i
<1>kept. ASSUME UNCHANGED <<issues, observed>> PROVE IssueShape' BY <1>kept DEF IssueShape
<1>1. ASSUME NEW id \in IssueId, Observe(id)
      PROVE  ThreadShape' /\ IssueShape' /\ issued' \in Nat /\ issued <= issued'
  BY <1>1, IssueSeenShape, <1>same DEF Observe, IssueShape
<1>2. ASSUME NEW w \in Worker, NEW request \in {NoIssue} \cup IssueId, BeginIteration(w, request)
      PROVE  ThreadShape' /\ IssueShape' /\ issued' \in Nat /\ issued <= issued'
  <2>1. PICK id \in Selected(request) :
          /\ issued' = issued + 1 /\ active' = issued'
          /\ issues' = IF id = NoIssue THEN issues ELSE [issues EXCEPT ![id].status = "Running"]
          /\ worker' = [worker EXCEPT ![w] =
                          [at |-> "body", id |-> issued', issue |-> id, verdict |-> "none"]]
    BY <1>2 DEF BeginIteration
  <2>2. issued < MaxIteration /\ observed' = observed /\ (request = NoIssue \/ request \in DOMAIN issues)
    BY <1>2 DEF BeginIteration
  <2>3. id = NoIssue \/ id \in DOMAIN issues  BY <2>2, SelectedExists
  <2>4. id \in SomeIssue  BY <2>3 DEF IssueShape, SomeIssue
  <2>5. issued' \in 1..MaxIteration /\ issued' \in Nat /\ issued <= issued'  BY <1>0, <2>1, <2>2
  <2> DEFINE v == [at |-> "body", id |-> issued', issue |-> id, verdict |-> "none"]
  <2>6. v \in WorkerState /\ v.at = "body" /\ v.id = issued' BY <2>4, <2>5 DEF WorkerState, Points
  <2>7. Moved(w, v)  BY <2>1 DEF Moved
  <2> HIDE DEF v
  <2>8. ThreadShape' BY <1>0, <2>1, <2>5, <2>6, <2>7, ThreadStep
  <2>9. CASE id = NoIssue  BY <1>kept, <2>1, <2>2, <2>5, <2>8, <2>9
  <2>10. CASE id # NoIssue BY <2>1, <2>2, <2>3, <2>10, IssueStatusShape, <2>5, <2>8
  <2> QED  BY <2>9, <2>10
<1>3. ASSUME NEW w \in Worker, NEW source \in Source, StageIssue(w, source)
      PROVE  ThreadShape' /\ IssueShape' /\ issued' \in Nat /\ issued <= issued'
  <2>1. PICK root \in Root : issues' = WithIssueSeen(issues, <<root, source>>, observed)
    BY <1>3 DEF StageIssue
  <2>2. <<root, source>> \in IssueId  BY DEF IssueId
  <2>3. observed \in Nat /\ observed' = observed + 1  BY <1>3 DEF StageIssue, IssueShape
  <2>4. IssueShape'  BY <2>1, <2>2, <2>3, IssueSeenShape DEF IssueShape
  <2> QED  BY <1>3, <1>same, <2>4 DEF StageIssue
<1>4. ASSUME NEW w \in Worker, NEW v \in WorkerState, Moved(w, v),
             UNCHANGED <<issued, issues, observed>>, active' \in {active, 0},
             v.at # "idle" => v.id = worker[w].id /\ worker[w].at # "idle",
             v.at \notin {"idle", "body"} => v.verdict \in Verdicts
      PROVE  ThreadShape' /\ IssueShape' /\ issued' \in Nat /\ issued <= issued'
  BY <1>4, <1>0, <1>i, ThreadStep, <1>kept DEF ThreadShape
<1>5. ASSUME NEW w \in Worker, NEW end \in Verdicts \cup {"error", "panic"}, FinishIteration(w, end)
      PROVE  ThreadShape' /\ IssueShape' /\ issued' \in Nat /\ issued <= issued'
  <2>1. active' \in {active, 0} /\ worker[w].at # "idle" /\ UNCHANGED <<issued, issues, observed>>
    BY <1>5 DEF FinishIteration
  <2>2. CASE end \in Verdicts
    <3>0. "metrics" \in Points /\ end \in Verdicts  BY <2>2 DEF Points, Verdicts
    <3>1. Decides(w, "metrics", end)  BY <1>5, <2>2 DEF FinishIteration, Decides
    <3>2. PICK v \in WorkerState :
             v.at = "metrics" /\ v.id = worker[w].id /\ v.verdict = end /\ Moved(w, v)
      BY <3>0, <3>1, WorkerVerdict
    <3> QED  BY <1>4, <2>1, <2>2, <3>2
  <2>3. CASE end \notin Verdicts BY <1>5, <2>3, WorkerFields, <1>4, <2>1 DEF FinishIteration, Moved
  <2> QED  BY <2>2, <2>3
<1>6. ASSUME NEW w \in Worker, NEW id \in IterationId, ApproveBlocked(w, id)
      PROVE  ThreadShape' /\ IssueShape' /\ issued' \in Nat /\ issued <= issued'
  <2> DEFINE v == [at |-> "approve", id |-> id, issue |-> blockedBook[id].issue,
                   verdict |-> blockedBook[id].verdict]
  <2>1. id \in DOMAIN blockedBook /\ UNCHANGED <<issued, issues, observed, active>>
        /\ Moved(w, v) BY <1>6 DEF ApproveBlocked, Moved
  <2>2. blockedBook[id] \in Outcome  BY <2>1 DEF BookShape
  <2>3. blockedBook[id].issue \in SomeIssue /\ blockedBook[id].verdict \in Verdicts BY <2>2 DEF Outcome
  <2>4. id \in 1..issued  BY <1>6, <2>1 DEF BlockedIsLatest, BookShape
  <2>5. id \in Nat  BY <1>0, <2>4
  <2>6. v \in WorkerState /\ v.id = id /\ v.verdict \in Verdicts BY <2>3, <2>5 DEF WorkerState, Points
  <2> HIDE DEF v
  <2>7. ThreadShape'  BY <1>0, <1>i, <2>1, <2>4, <2>6, ThreadStep
  <2> QED  BY <1>0, <1>kept, <2>1, <2>7
<1>7. ASSUME NEW w \in Worker, NEW p \in Points, p # "idle", worker[w].at \notin {"idle", "body"},
             worker' = [worker EXCEPT ![w].at = p], UNCHANGED <<issued, issues, observed, active>>
      PROVE  ThreadShape' /\ IssueShape' /\ issued' \in Nat /\ issued <= issued'
  <2>1. PICK v \in WorkerState :
          /\ v.at = p /\ v.id = worker[w].id /\ v.verdict = worker[w].verdict
          /\ Moved(w, v) BY <1>7, WorkerAt
  <2>2. worker[w].verdict \in Verdicts  BY <1>7 DEF ThreadShape
  <2> QED  BY <1>4, <1>7, <2>1, <2>2
<1>8. ASSUME NEW w \in Worker, ApproveEnds(w)
      PROVE  ThreadShape' /\ IssueShape' /\ issued' \in Nat /\ issued <= issued'
  <2>1. worker[w].at = "approve" /\ UNCHANGED <<issued, issues, observed, active>> BY <1>8 DEF ApproveEnds
  <2>2. CASE worker' = [worker EXCEPT ![w].at = "metrics", ![w].verdict = "Promoted"]
    <3>0. "metrics" \in Points /\ "Promoted" \in Verdicts  BY <2>2 DEF Points, Verdicts
    <3>1. Decides(w, "metrics", "Promoted")  BY <2>2 DEF Decides
    <3>2. PICK v \in WorkerState :
             v.at = "metrics" /\ v.id = worker[w].id /\ v.verdict = "Promoted" /\ Moved(w, v)
      BY <3>0, <3>1, WorkerVerdict
    <3> QED  BY <1>4, <2>1, <3>0, <3>2
  <2>3. CASE worker' = [worker EXCEPT ![w] = IdleWorker] BY WorkerFields, <1>4, <2>1, <2>3 DEF Moved
  <2> QED  BY <1>8, <2>2, <2>3 DEF ApproveEnds
<1>9. ASSUME NEW w \in Worker, RecordMetrics(w) \/ RecordHistory(w) \/ RecordLast(w) \/ RecordBlocked(w)
      PROVE  ThreadShape' /\ IssueShape' /\ issued' \in Nat /\ issued <= issued'
  <2>1. /\ worker[w].at \notin {"idle", "body"} /\ UNCHANGED <<issued, issues, observed, active>>
        /\ \E p \in {"history", "last", "blocked", "issue"} : worker' = [worker EXCEPT ![w].at = p]
    BY <1>9 DEF RecordMetrics, RecordHistory, RecordLast, RecordBlocked
  <2>2. PICK p \in {"history", "last", "blocked", "issue"} : worker' = [worker EXCEPT ![w].at = p] BY <2>1
  <2>3. p \in Points /\ p # "idle"  BY DEF Points
  <2> QED  BY <1>7, <2>1, <2>2, <2>3
<1>10. ASSUME NEW w \in Worker, RecordIssue(w)
       PROVE  ThreadShape' /\ IssueShape' /\ issued' \in Nat /\ issued <= issued'
  <2>1. /\ worker[w].at = "issue" /\ UNCHANGED <<issued, observed, active>>
        /\ worker' = [worker EXCEPT ![w] = IdleWorker]
        /\ issues' = IF worker[w].issue \in DOMAIN issues
                     THEN [issues EXCEPT ![worker[w].issue].status = IssueStatusOf(worker[w].verdict)]
                     ELSE issues BY <1>10 DEF RecordIssue, ResultOf
  <2>2. worker[w].verdict \in Verdicts  BY <2>1 DEF ThreadShape
  <2>3. IssueStatusOf(worker[w].verdict) \in {"Open", "Running", "Blocked", "Resolved"}
    BY <2>2 DEF IssueStatusOf, Verdicts
  <2>4. IssueShape'
    <3>1. CASE worker[w].issue \in DOMAIN issues BY <2>1, <2>3, <3>1, IssueStatusShape
    <3>2. CASE worker[w].issue \notin DOMAIN issues BY <1>kept, <2>1, <3>2
    <3> QED  BY <3>1, <3>2
  <2>5. IdleWorker \in WorkerState /\ IdleWorker.at = "idle"  BY WorkerFields
  <2>6. ThreadShape'  BY <1>0, <1>i, <2>1, <2>5, ThreadStep DEF Moved
  <2> QED  BY <1>0, <2>1, <2>4, <2>6
<1>11. ASSUME RunIteration \/ StatusStep \/ StatusReturns \/ UNCHANGED kernelVars
       PROVE  ThreadShape' /\ IssueShape' /\ issued' \in Nat /\ issued <= issued'
  BY <1>11, <1>same, <1>kept DEF RunIteration, StatusStep, StatusReturns, kernelVars
<1> QED  BY <1>0, <1>1, <1>2, <1>3, <1>5, <1>6, <1>8, <1>9, <1>10, <1>11 DEF KernelNext

-----------------------------------------------------------------------------
(* The books agree with the verdict recorded last: one lemma for each step *)
(* that writes a book or changes who is responsible for an iteration.      *)

\* Only thread w moves.
Others(w) == \A u \in Worker \ {w} : worker'[u] = worker[u]

\* Steps that write none of the books, give up at most the thread's own
\* iteration, and are neither ahead in the history nor hold a recorded result.
LEMMA QuietStep ==
    ASSUME RecordInv, NEW w \in Worker, Others(w),
           worker'[w].at \in Owning => worker[w].at \in Owning /\ worker'[w].id = worker[w].id,
           worker[w].at # "last", worker'[w].at \notin {"approve", "blocked", "last"},
           UNCHANGED <<historyBook, last, blockedBook, latest>>
    PROVE  RecordInv'
<1>1. \A u \in Worker : \A id : Owns(u, id)' => Owns(u, id) BY DEF Owns, Others
<1>2. \A u \in Worker : \A id : Ahead(u, id)' <=> Ahead(u, id) BY DEF Ahead, Others
<1>3. OneOwner'  BY <1>1 DEF RecordInv, OneOwner
<1>4. HeldIsLatest' BY DEF Others, RecordInv, HeldIsLatest
<1>5. LastIsLatest' /\ BlockedIsLatest'  BY DEF RecordInv, LastIsLatest, BlockedIsLatest
<1>6. HistoryIsLatest'
  <2>1. \A u \in Worker : \A id : Ahead(u, id) => worker'[u] = worker[u] BY DEF Ahead, Others
  <2>2. HistoryIsLatest  BY DEF RecordInv
  <2> SUFFICES ASSUME NEW i \in DOMAIN historyBook
               PROVE  (\/ \E u \in Worker : Ahead(u, historyBook[i].id)
                                            /\ historyBook[i].verdict = worker[u].verdict
                       \/ /\ \A u \in Worker : ~ Ahead(u, historyBook[i].id)
                          /\ historyBook[i].id \in DOMAIN latest
                          /\ historyBook[i].verdict = latest[historyBook[i].id])' BY DEF HistoryIsLatest
  <2>3. CASE \E u \in Worker : Ahead(u, historyBook[i].id)
                               /\ historyBook[i].verdict = worker[u].verdict BY <1>2, <2>1, <2>3
  <2>4. CASE /\ \A u \in Worker : ~ Ahead(u, historyBook[i].id)
             /\ historyBook[i].id \in DOMAIN latest
             /\ historyBook[i].verdict = latest[historyBook[i].id] BY <1>2, <2>4
  <2> QED  BY <2>2, <2>3, <2>4 DEF HistoryIsLatest
<1>7. HistoryComplete' BY <1>2 DEF RecordInv, HistoryComplete, InHistory
<1> QED  BY <1>3, <1>4, <1>5, <1>6, <1>7 DEF RecordInv

\* begin_plugin_iteration hands out an id that no book and no thread has.
LEMMA BeginRecord ==
    ASSUME RecordInv, ThreadShape, BookShape, NEW w \in Worker, Others(w),
           worker[w].at = "idle", issued \in Nat,
           worker'[w].at = "body", worker'[w].id = issued + 1,
           UNCHANGED <<historyBook, last, blockedBook, latest>>
    PROVE  RecordInv'
<1>0. \A n \in 1..issued : n # issued + 1  OBVIOUS
<1>1. \A u \in Worker : ~ Owns(u, issued + 1) BY <1>0 DEF ThreadShape, Owns, Owning
<1>2. issued + 1 \notin DOMAIN blockedBook BY <1>0 DEF RecordInv, BlockedIsLatest, BookShape
<1>3. \A u \in Worker : \A id : Ahead(u, id)' <=> Ahead(u, id) BY DEF Ahead, Others
<1>4. OneOwner' BY <1>1, <1>2 DEF Owns, Others, RecordInv, OneOwner
<1>5. HeldIsLatest' BY DEF Others, RecordInv, HeldIsLatest
<1>6. LastIsLatest' /\ BlockedIsLatest'  BY DEF RecordInv, LastIsLatest, BlockedIsLatest
<1>7. HistoryIsLatest' BY <1>3 DEF Ahead, Others, RecordInv, HistoryIsLatest
<1>8. HistoryComplete' BY <1>3 DEF RecordInv, HistoryComplete, InHistory
<1> QED  BY <1>4, <1>5, <1>6, <1>7, <1>8 DEF RecordInv

\* approve_blocked_iteration takes a result over, and with it the iteration.
LEMMA ApproveRecord ==
    ASSUME RecordInv, NEW w \in Worker, Others(w), worker[w].at = "idle",
           NEW id \in DOMAIN blockedBook, blockedBook' = WithoutId(blockedBook, id),
           worker'[w].at = "approve", worker'[w].id = id,
           worker'[w].verdict = blockedBook[id].verdict,
           UNCHANGED <<historyBook, last, latest>>
    PROVE  RecordInv'
<1>1. \A k \in DOMAIN blockedBook' : k # id /\ k \in DOMAIN blockedBook /\ blockedBook'[k] = blockedBook[k]
  BY DEF WithoutId
<1>2. \A u \in Worker : \A k : Ahead(u, k)' <=> Ahead(u, k)  BY DEF Ahead, Others
<1>3. OneOwner' BY <1>1 DEF Owns, Others, RecordInv, OneOwner
<1>4. HeldIsLatest'
  <2>1. id \in DOMAIN latest /\ blockedBook[id].verdict = latest[id] /\ blockedBook[id].verdict \in Waiting
    BY DEF RecordInv, BlockedIsLatest
  <2>2. HeldIsLatest  BY DEF RecordInv
  <2> SUFFICES ASSUME NEW u \in Worker
               PROVE  (/\ worker[u].at \in {"approve", "blocked"} =>
                            worker[u].id \in DOMAIN latest /\ worker[u].verdict = latest[worker[u].id]
                       /\ worker[u].at = "approve" => worker[u].verdict \in Waiting)' BY DEF HeldIsLatest
  <2>3. CASE u = w  BY <2>1, <2>3
  <2>4. CASE u # w  BY <2>2, <2>4 DEF Others, HeldIsLatest
  <2> QED  BY <2>3, <2>4
<1>5. LastIsLatest'  BY DEF RecordInv, LastIsLatest
<1>6. BlockedIsLatest'  BY <1>1 DEF RecordInv, BlockedIsLatest
<1>7. HistoryIsLatest' BY <1>2 DEF Ahead, Others, RecordInv, HistoryIsLatest
<1>8. HistoryComplete'  BY <1>2 DEF RecordInv, HistoryComplete, InHistory
<1> QED  BY <1>3, <1>4, <1>5, <1>6, <1>7, <1>8 DEF RecordInv

\* An approval that fails gives both back.
LEMMA GiveBackRecord ==
    ASSUME RecordInv, NEW w \in Worker, Others(w), worker[w].at = "approve",
           worker'[w].at = "idle", worker[w].id \in IterationId,
           \E r : blockedBook' = With(blockedBook, worker[w].id, r) /\ r.verdict = worker[w].verdict,
           UNCHANGED <<historyBook, last, latest>>
    PROVE  RecordInv'
<1>0. PICK r : blockedBook' = With(blockedBook, worker[w].id, r) /\ r.verdict = worker[w].verdict OBVIOUS
<1>1. \A k \in DOMAIN blockedBook' :
         \/ k = worker[w].id /\ blockedBook'[k] = r
         \/ k \in DOMAIN blockedBook /\ blockedBook'[k] = blockedBook[k] BY <1>0 DEF With
<1>2. \A u \in Worker : \A k : Ahead(u, k)' <=> Ahead(u, k)  BY DEF Ahead, Others
<1>3. OneOwner' BY <1>1 DEF Owns, Owning, Others, RecordInv, OneOwner
<1>4. HeldIsLatest' BY DEF Others, RecordInv, HeldIsLatest
<1>5. LastIsLatest'  BY DEF RecordInv, LastIsLatest
<1>6. BlockedIsLatest' BY <1>0, <1>1 DEF RecordInv, HeldIsLatest, BlockedIsLatest
<1>7. HistoryIsLatest' BY <1>2 DEF Ahead, Others, RecordInv, HistoryIsLatest
<1>8. HistoryComplete'  BY <1>2 DEF RecordInv, HistoryComplete, InHistory
<1> QED  BY <1>3, <1>4, <1>5, <1>6, <1>7, <1>8 DEF RecordInv

\* A thread's iteration is its own.
LEMMA OnlyOwner ==
    ASSUME OneOwner, NEW w \in Worker, worker[w].at \in Owning, worker[w].id \in IterationId
    PROVE  /\ \A u \in Worker : Owns(u, worker[w].id) => u = w
           /\ worker[w].id \notin DOMAIN blockedBook
BY DEF OneOwner, Owns

\* The history is written: the thread is ahead of the other books.
LEMMA HistoryRecord ==
    ASSUME KernelAssumption, RecordInv, ThreadShape, BookShape, NEW w \in Worker, Others(w),
           worker[w].at = "history", worker'[w].at = "last",
           worker'[w].id = worker[w].id, worker'[w].verdict = worker[w].verdict,
           historyBook' = HistoryWith(ResultOf(w)), UNCHANGED <<last, blockedBook, latest>>
    PROVE  RecordInv'
<1>1. PICK r \in Outcome : r = ResultOf(w) /\ r.id = worker[w].id /\ r.verdict = worker[w].verdict
  BY ResultShape
<1>2. PICK me \in IterationId : me = worker[w].id /\ me = r.id  BY <1>1 DEF Outcome
<1>3. historyBook \in Seq(Outcome) /\ Len(historyBook) <= HistoryCap  BY DEF BookShape
<1>4. historyBook' = HistoryWith(r)  BY <1>1
<1>5. /\ \A i \in DOMAIN historyBook' :
            \/ historyBook'[i] = r
            \/ historyBook'[i].id # me /\ \E j \in DOMAIN historyBook : historyBook'[i] = historyBook[j]
      /\ \E i \in DOMAIN historyBook' : historyBook'[i] = r
      /\ Len(historyBook') < HistoryCap =>
            /\ Len(historyBook) < HistoryCap
            /\ \A j \in DOMAIN historyBook :
                 \E i \in DOMAIN historyBook' : historyBook'[i].id = historyBook[j].id
  <2>1. /\ \A i \in DOMAIN HistoryWith(r) :
               \/ HistoryWith(r)[i] = r
               \/ HistoryWith(r)[i].id # r.id
                  /\ \E j \in DOMAIN historyBook : HistoryWith(r)[i] = historyBook[j]
        /\ \E i \in DOMAIN HistoryWith(r) : HistoryWith(r)[i] = r
        /\ Len(HistoryWith(r)) < HistoryCap =>
              /\ Len(historyBook) < HistoryCap
              /\ \A j \in DOMAIN historyBook :
                   \E i \in DOMAIN HistoryWith(r) : HistoryWith(r)[i].id = historyBook[j].id
    BY <1>1, <1>3, HistoryWithFacts
  <2> QED  BY <1>2, <1>4, <2>1
<1>6. /\ \A id : Ahead(w, id)' <=> id = me
      /\ \A u \in Worker \ {w} : \A id : Ahead(u, id)' <=> Ahead(u, id)
      /\ \A id : ~ Ahead(w, id) BY <1>2 DEF Ahead, Others
<1>7. \A u \in Worker : ~ Ahead(u, me)
  <2>1. \A u \in Worker : Owns(u, me) => u = w BY <1>2, OnlyOwner DEF RecordInv, Owning
  <2>2. \A u \in Worker : Ahead(u, me) => Owns(u, me)  BY DEF Ahead, Owns, Owning
  <2> QED  BY <1>6, <2>1, <2>2
<1>8. OneOwner' BY DEF Owns, Others, Owning, RecordInv, OneOwner
<1>9. HeldIsLatest' BY DEF Others, RecordInv, HeldIsLatest
<1>10. LastIsLatest' /\ BlockedIsLatest'  BY DEF RecordInv, LastIsLatest, BlockedIsLatest
<1>11. HistoryIsLatest'
  <2> SUFFICES ASSUME NEW i \in DOMAIN historyBook'
               PROVE  (\/ \E u \in Worker : Ahead(u, historyBook[i].id)
                                            /\ historyBook[i].verdict = worker[u].verdict
                       \/ /\ \A u \in Worker : ~ Ahead(u, historyBook[i].id)
                          /\ historyBook[i].id \in DOMAIN latest
                          /\ historyBook[i].verdict = latest[historyBook[i].id])' BY DEF HistoryIsLatest
  <2>1. CASE historyBook'[i] = r BY <1>1, <1>2, <2>1 DEF Ahead
  <2>2. CASE historyBook'[i] # r
    <3>1. PICK j \in DOMAIN historyBook : historyBook'[i] = historyBook[j]  BY <1>5, <2>2
    <3>2. historyBook[j].id # me  BY <1>5, <2>2, <3>1
    <3>3. CASE \E u \in Worker : Ahead(u, historyBook[j].id)
                                 /\ historyBook[j].verdict = worker[u].verdict
      <4>1. PICK u \in Worker : Ahead(u, historyBook[j].id)
                                /\ historyBook[j].verdict = worker[u].verdict BY <3>3
      <4>2. u # w /\ worker'[u] = worker[u]  BY <1>6, <4>1 DEF Others
      <4>3. (Ahead(u, historyBook[i].id) /\ historyBook[i].verdict = worker[u].verdict)'
        BY <3>1, <4>1, <4>2 DEF Ahead
      <4> QED  BY <4>3
    <3>4. CASE /\ \A u \in Worker : ~ Ahead(u, historyBook[j].id)
               /\ historyBook[j].id \in DOMAIN latest
               /\ historyBook[j].verdict = latest[historyBook[j].id]
      <4>1. (\A u \in Worker : ~ Ahead(u, historyBook[i].id))' BY <1>2, <3>2, <3>4, <3>1 DEF Ahead, Others
      <4> QED  BY <3>1, <3>4, <4>1
    <3> QED  BY <3>3, <3>4 DEF RecordInv, HistoryIsLatest
  <2> QED  BY <2>1, <2>2
<1>12. HistoryComplete'
  <2> SUFFICES ASSUME Len(historyBook') < HistoryCap, NEW id \in IterationId,
                      id \in DOMAIN latest' \/ (\E u \in Worker : Ahead(u, id)')
               PROVE  \E i \in DOMAIN historyBook' : historyBook'[i].id = id BY DEF HistoryComplete, InHistory
  <2>1. CASE id = me  BY <1>2, <1>5, <2>1
  <2>2. CASE id # me BY <1>6, <2>2, <1>5 DEF RecordInv, HistoryComplete, InHistory
  <2> QED  BY <2>1, <2>2
<1> QED  BY <1>8, <1>9, <1>10, <1>11, <1>12 DEF RecordInv

\* last is written: from here on the verdict is the one recorded last.
LEMMA LastRecord ==
    ASSUME KernelAssumption, RecordInv, ThreadShape, NEW w \in Worker, Others(w),
           worker[w].at = "last", worker'[w].at = "blocked",
           worker'[w].id = worker[w].id, worker'[w].verdict = worker[w].verdict,
           last' = <<ResultOf(w)>>, latest' = With(latest, worker[w].id, worker[w].verdict),
           UNCHANGED <<historyBook, blockedBook>>
    PROVE  RecordInv'
<1>1. PICK r \in Outcome : r = ResultOf(w) /\ r.id = worker[w].id /\ r.verdict = worker[w].verdict
  BY ResultShape
<1>2. PICK me \in IterationId : me = worker[w].id /\ me = r.id  BY <1>1 DEF Outcome
<1>3. /\ DOMAIN latest' = DOMAIN latest \cup {me} /\ latest'[me] = worker[w].verdict
      /\ \A id \in DOMAIN latest : id # me => latest'[id] = latest[id] BY <1>2 DEF With
<1>4. /\ \A u \in Worker : Owns(u, me) => u = w
      /\ me \notin DOMAIN blockedBook BY <1>2, OnlyOwner DEF RecordInv, Owning
<1>5. /\ Ahead(w, me) /\ \A id : ~ Ahead(w, id)'
      /\ \A id : Ahead(w, id) => id = me
      /\ \A u \in Worker \ {w} : \A id : Ahead(u, id)' <=> Ahead(u, id)
      /\ \A u \in Worker \ {w} : ~ Ahead(u, me) BY <1>2, <1>4 DEF Ahead, Owns, Owning, Others
<1>6. OneOwner' BY DEF Owns, Others, Owning, RecordInv, OneOwner
<1>7. HeldIsLatest'
  <2> SUFFICES ASSUME NEW u \in Worker
               PROVE  (/\ worker[u].at \in {"approve", "blocked"} =>
                            worker[u].id \in DOMAIN latest /\ worker[u].verdict = latest[worker[u].id]
                       /\ worker[u].at = "approve" => worker[u].verdict \in Waiting)' BY DEF HeldIsLatest
  <2>1. CASE u = w  BY <1>2, <1>3, <2>1
  <2>2. CASE u # w BY <2>2, <1>4, <1>3 DEF Others, Owns, RecordInv, HeldIsLatest, Owning
  <2> QED  BY <2>1, <2>2
<1>8. LastIsLatest' BY <1>1, <1>2, <1>3 DEF LastIsLatest
<1>9. BlockedIsLatest'  BY <1>3, <1>4 DEF RecordInv, BlockedIsLatest
<1>10. HistoryIsLatest'
  <2> SUFFICES ASSUME NEW i \in DOMAIN historyBook
               PROVE  (\/ \E u \in Worker : Ahead(u, historyBook[i].id)
                                            /\ historyBook[i].verdict = worker[u].verdict
                       \/ /\ \A u \in Worker : ~ Ahead(u, historyBook[i].id)
                          /\ historyBook[i].id \in DOMAIN latest
                          /\ historyBook[i].verdict = latest[historyBook[i].id])' BY DEF HistoryIsLatest
  <2>1. CASE historyBook[i].id = me BY <1>5, <2>1, <1>3 DEF RecordInv, HistoryIsLatest
  <2>2. CASE historyBook[i].id # me
    <3>1. CASE \E u \in Worker : Ahead(u, historyBook[i].id)
                                 /\ historyBook[i].verdict = worker[u].verdict
      <4>1. PICK u \in Worker : Ahead(u, historyBook[i].id)
                                /\ historyBook[i].verdict = worker[u].verdict BY <3>1
      <4>2. u # w /\ worker'[u] = worker[u]  BY <1>5, <2>2, <4>1 DEF Others
      <4>3. (Ahead(u, historyBook[i].id) /\ historyBook[i].verdict = worker[u].verdict)'
        BY <4>1, <4>2 DEF Ahead
      <4> QED  BY <4>3
    <3>2. CASE /\ \A u \in Worker : ~ Ahead(u, historyBook[i].id)
               /\ historyBook[i].id \in DOMAIN latest
               /\ historyBook[i].verdict = latest[historyBook[i].id] BY <1>5, <3>2, <1>3, <2>2
    <3> QED  BY <3>1, <3>2 DEF RecordInv, HistoryIsLatest
  <2> QED  BY <2>1, <2>2
<1>11. HistoryComplete'
  <2> SUFFICES ASSUME Len(historyBook) < HistoryCap, NEW id \in IterationId,
                      id \in DOMAIN latest' \/ (\E u \in Worker : Ahead(u, id)')
               PROVE  InHistory(id) BY DEF HistoryComplete, InHistory
  <2>1. id \in DOMAIN latest \/ \E u \in Worker : Ahead(u, id)  BY <1>3, <1>5
  <2> QED  BY <2>1 DEF RecordInv, HistoryComplete
<1> QED  BY <1>6, <1>7, <1>8, <1>9, <1>10, <1>11 DEF RecordInv

\* The result waits for its approval, or not: nobody is responsible any more.
LEMMA BlockedRecord ==
    ASSUME KernelAssumption, RecordInv, ThreadShape, NEW w \in Worker, Others(w),
           worker[w].at = "blocked", worker'[w].at = "issue",
           blockedBook' = BlockedWith(ResultOf(w)), UNCHANGED <<historyBook, last, latest>>
    PROVE  RecordInv'
<1>1. PICK r \in Outcome : r = ResultOf(w) /\ r.id = worker[w].id /\ r.verdict = worker[w].verdict
  BY ResultShape
<1>2. PICK me \in IterationId : me = worker[w].id /\ me = r.id  BY <1>1 DEF Outcome
<1>3. \A id \in DOMAIN blockedBook' :
          \/ id = me /\ blockedBook'[id] = r /\ r.verdict \in Waiting
          \/ id # me /\ id \in DOMAIN blockedBook /\ blockedBook'[id] = blockedBook[id]
  BY <1>1, <1>2, BlockedWithFacts
<1>4. /\ \A u \in Worker : Owns(u, me) => u = w
      /\ me \notin DOMAIN blockedBook BY <1>2, OnlyOwner DEF RecordInv, Owning
<1>5. \A u \in Worker : \A k : Ahead(u, k)' <=> Ahead(u, k)  BY DEF Ahead, Others
<1>6. OneOwner' BY <1>3, <1>4 DEF Owns, Owning, Others, RecordInv, OneOwner
<1>7. HeldIsLatest' BY DEF Others, RecordInv, HeldIsLatest
<1>8. LastIsLatest'  BY DEF RecordInv, LastIsLatest
<1>9. BlockedIsLatest' BY <1>1, <1>2, <1>3 DEF RecordInv, HeldIsLatest, BlockedIsLatest
<1>10. HistoryIsLatest' BY <1>5 DEF Ahead, Others, RecordInv, HistoryIsLatest
<1>11. HistoryComplete'  BY <1>5 DEF RecordInv, HistoryComplete, InHistory
<1> QED  BY <1>6, <1>7, <1>8, <1>9, <1>10, <1>11 DEF RecordInv

-----------------------------------------------------------------------------
(* What the steps do to the thread that takes them.                        *)

\* A step that makes v the state of w.
LEMMA MovedTo ==
    ASSUME ThreadShape, NEW w \in Worker, NEW v, Moved(w, v)
    PROVE  Others(w) /\ worker'[w] = v
BY WorkerMoves DEF ThreadShape, Others

\* A step to the next lock section.
LEMMA MovedOn ==
    ASSUME ThreadShape, NEW w \in Worker, NEW p \in Points, worker' = [worker EXCEPT ![w].at = p]
    PROVE  /\ Others(w) /\ worker'[w].at = p /\ worker'[w].id = worker[w].id
           /\ worker'[w].verdict = worker[w].verdict
<1>1. PICK v \in WorkerState :
          /\ v.at = p /\ v.id = worker[w].id /\ v.verdict = worker[w].verdict /\ Moved(w, v) BY WorkerAt
<1> QED  BY <1>1, MovedTo

\* The iterating thread gets its number.
LEMMA BeginMoves ==
    ASSUME ThreadShape, NEW w \in Worker, NEW request, BeginIteration(w, request)
    PROVE  /\ Others(w) /\ worker[w].at = "idle" /\ worker'[w].at = "body"
           /\ issued' = issued + 1 /\ worker'[w].id = issued + 1
           /\ UNCHANGED <<books, view, latest>>
<1>1. PICK id \in Selected(request) :
          /\ issued' = issued + 1
          /\ worker' = [worker EXCEPT ![w] =
                          [at |-> "body", id |-> issued', issue |-> id, verdict |-> "none"]]
  BY DEF BeginIteration
<1> DEFINE v == [at |-> "body", id |-> issued', issue |-> id, verdict |-> "none"]
<1>2. v.at = "body" /\ v.id = issued'  OBVIOUS
<1>3. Moved(w, v)  BY <1>1 DEF Moved
<1> HIDE DEF v
<1>4. Others(w) /\ worker'[w] = v  BY <1>3, MovedTo
<1> QED  BY <1>1, <1>2, <1>4 DEF BeginIteration

\* The iteration ends with a verdict or without.
LEMMA FinishMoves ==
    ASSUME ThreadShape, NEW w \in Worker, NEW end \in Verdicts \cup {"error", "panic"},
           FinishIteration(w, end)
    PROVE  /\ Others(w) /\ worker[w].at = "body" /\ worker'[w].at \in {"idle", "metrics"}
           /\ worker'[w].at = "metrics" => worker'[w].id = worker[w].id
           /\ UNCHANGED <<books, view, latest, issued>>
<1>0. worker[w].at = "body" /\ UNCHANGED <<books, view, latest, issued>>  BY DEF FinishIteration
<1>1. CASE end \in Verdicts
  <2>0. "metrics" \in Points  BY DEF Points
  <2>1. Decides(w, "metrics", end)  BY <1>1 DEF FinishIteration, Decides
  <2>2. PICK v \in WorkerState : v.at = "metrics" /\ v.id = worker[w].id /\ Moved(w, v)
    BY <1>1, <2>0, <2>1, WorkerVerdict
  <2> QED  BY <1>0, <2>2, MovedTo
<1>2. CASE end \notin Verdicts
  <2>1. Moved(w, IdleWorker)  BY <1>2 DEF FinishIteration, Moved
  <2>2. IdleWorker.at = "idle"  BY DEF IdleWorker
  <2> QED  BY <1>0, <2>1, <2>2, MovedTo
<1> QED  BY <1>1, <1>2

\* The approving thread takes the result.
LEMMA ApproveMoves ==
    ASSUME ThreadShape, NEW w \in Worker, NEW id, ApproveBlocked(w, id)
    PROVE  /\ Others(w) /\ worker[w].at = "idle" /\ worker'[w].at = "approve"
           /\ worker'[w].id = id /\ worker'[w].verdict = blockedBook[id].verdict
           /\ id \in DOMAIN blockedBook /\ blockedBook' = WithoutId(blockedBook, id)
           /\ UNCHANGED <<historyBook, last, metrics, view, latest, issued>>
<1> DEFINE v == [at |-> "approve", id |-> id, issue |-> blockedBook[id].issue,
                 verdict |-> blockedBook[id].verdict]
<1>1. Moved(w, v)  BY DEF ApproveBlocked, Moved
<1>2. v.at = "approve" /\ v.id = id /\ v.verdict = blockedBook[id].verdict  OBVIOUS
<1> HIDE DEF v
<1>3. Others(w) /\ worker'[w] = v  BY <1>1, MovedTo
<1> QED  BY <1>2, <1>3 DEF ApproveBlocked

\* The approval succeeds, or the result goes back.
LEMMA ApproveEndsMoves ==
    ASSUME ThreadShape, NEW w \in Worker, ApproveEnds(w)
    PROVE  /\ Others(w) /\ worker[w].at = "approve"
           /\ UNCHANGED <<historyBook, last, metrics, view, latest, issued>>
           /\ \/ /\ worker'[w].at = "metrics" /\ worker'[w].id = worker[w].id
                 /\ blockedBook' = blockedBook
              \/ /\ worker'[w].at = "idle"
                 /\ blockedBook' = With(blockedBook, worker[w].id, ResultOf(w))
<1>0. worker[w].at = "approve" /\ UNCHANGED <<historyBook, last, metrics, view, latest, issued>>
  BY DEF ApproveEnds
<1>1. CASE worker' = [worker EXCEPT ![w].at = "metrics", ![w].verdict = "Promoted"]
           /\ UNCHANGED blockedBook
  <2>0. "metrics" \in Points /\ "Promoted" \in Verdicts  BY DEF Points, Verdicts
  <2>1. Decides(w, "metrics", "Promoted")  BY <1>1 DEF Decides
  <2>2. PICK v \in WorkerState : v.at = "metrics" /\ v.id = worker[w].id /\ Moved(w, v)
    BY <2>0, <2>1, WorkerVerdict
  <2> QED  BY <1>0, <1>1, <2>2, MovedTo
<1>2. CASE /\ blockedBook' = With(blockedBook, worker[w].id, ResultOf(w))
           /\ worker' = [worker EXCEPT ![w] = IdleWorker]
  <2>1. Moved(w, IdleWorker)  BY <1>2 DEF Moved
  <2>2. IdleWorker.at = "idle"  BY DEF IdleWorker
  <2> QED  BY <1>0, <1>2, <2>1, <2>2, MovedTo
<1> QED  BY <1>1, <1>2 DEF ApproveEnds, ResultOf

\* The lock sections of record_plugin_iteration_outcome, one after the other.
LEMMA RecordMoves ==
    ASSUME ThreadShape, NEW w \in Worker
    PROVE  /\ RecordMetrics(w) =>
                 /\ Others(w) /\ worker[w].at = "metrics" /\ worker'[w].at = "history"
                 /\ worker'[w].id = worker[w].id /\ worker'[w].verdict = worker[w].verdict
           /\ RecordHistory(w) =>
                 /\ Others(w) /\ worker[w].at = "history" /\ worker'[w].at = "last"
                 /\ worker'[w].id = worker[w].id /\ worker'[w].verdict = worker[w].verdict
           /\ RecordLast(w) =>
                 /\ Others(w) /\ worker[w].at = "last" /\ worker'[w].at = "blocked"
                 /\ worker'[w].id = worker[w].id /\ worker'[w].verdict = worker[w].verdict
           /\ RecordBlocked(w) =>
                 /\ Others(w) /\ worker[w].at = "blocked" /\ worker'[w].at = "issue"
                 /\ worker'[w].id = worker[w].id /\ worker'[w].verdict = worker[w].verdict
           /\ RecordIssue(w) =>
                 Others(w) /\ worker[w].at = "issue" /\ worker'[w].at = "idle"
<1>1. ASSUME NEW p \in {"history", "last", "blocked", "issue"}, worker' = [worker EXCEPT ![w].at = p]
      PROVE  /\ Others(w) /\ worker'[w].at = p /\ worker'[w].id = worker[w].id
             /\ worker'[w].verdict = worker[w].verdict BY <1>1, MovedOn DEF Points
<1>2. RecordIssue(w) => Others(w) /\ worker[w].at = "issue" /\ worker'[w].at = "idle"
  <2> SUFFICES ASSUME RecordIssue(w)
               PROVE  Others(w) /\ worker[w].at = "issue" /\ worker'[w].at = "idle" OBVIOUS
  <2>1. Moved(w, IdleWorker) /\ worker[w].at = "issue"  BY DEF RecordIssue, Moved
  <2>2. IdleWorker.at = "idle"  BY DEF IdleWorker
  <2> QED  BY <2>1, <2>2, MovedTo
<1>3. RecordMetrics(w) => worker[w].at = "metrics" /\ worker' = [worker EXCEPT ![w].at = "history"]
  BY DEF RecordMetrics
<1>4. RecordHistory(w) => worker[w].at = "history" /\ worker' = [worker EXCEPT ![w].at = "last"]
  BY DEF RecordHistory
<1>5. RecordLast(w) => worker[w].at = "last" /\ worker' = [worker EXCEPT ![w].at = "blocked"]
  BY DEF RecordLast
<1>6. RecordBlocked(w) => worker[w].at = "blocked" /\ worker' = [worker EXCEPT ![w].at = "issue"]
  BY DEF RecordBlocked
<1> QED  BY <1>1, <1>2, <1>3, <1>4, <1>5, <1>6

\* Steps that leave the threads and the books alone.
Aside == \/ \E id \in IssueId : Observe(id)
         \/ \E w \in Worker, source \in Source : StageIssue(w, source)
         \/ RunIteration \/ StatusStep \/ StatusReturns \/ UNCHANGED kernelVars

\* The steps of the kernel, sorted.
LEMMA KernelCases ==
    ASSUME [KernelNext]_kernelVars
    PROVE  \/ Aside
           \/ \E w \in Worker :
                \/ \E request : BeginIteration(w, request)
                \/ \E end \in Verdicts \cup {"error", "panic"} : FinishIteration(w, end)
                \/ \E id \in IterationId : ApproveBlocked(w, id)
                \/ ApproveEnds(w) \/ RecordMetrics(w) \/ RecordHistory(w) \/ RecordLast(w)
                \/ RecordBlocked(w) \/ RecordIssue(w)
BY DEF KernelNext, Aside

\* The books agree with the verdict recorded last after every step.
LEMMA RecordStep ==
    ASSUME KernelAssumption, ThreadShape, BookShape, RecordInv, [KernelNext]_kernelVars
    PROVE  RecordInv'
<1>0. issued \in Nat  BY DEF ThreadShape, KernelAssumption
<1>1. CASE Aside
  <2>1. UNCHANGED <<worker, historyBook, last, blockedBook, latest>>
    BY <1>1 DEF Aside, Observe, StageIssue, RunIteration, StatusStep, StatusReturns, kernelVars, books
  <2> QED  BY <2>1 DEF RecordInv, OneOwner, Owns, HeldIsLatest, LastIsLatest, BlockedIsLatest,
                       HistoryIsLatest, Ahead, HistoryComplete, InHistory
<1>2. ASSUME NEW w \in Worker, NEW request, BeginIteration(w, request) PROVE RecordInv'
  BY <1>0, <1>2, BeginMoves, BeginRecord DEF books
<1>3. ASSUME NEW w \in Worker, NEW end \in Verdicts \cup {"error", "panic"}, FinishIteration(w, end)
      PROVE  RecordInv' BY <1>3, FinishMoves, QuietStep DEF Owning, books
<1>4. ASSUME NEW w \in Worker, NEW id \in IterationId, ApproveBlocked(w, id) PROVE RecordInv'
  BY <1>4, ApproveMoves, ApproveRecord
<1>5. ASSUME NEW w \in Worker, ApproveEnds(w) PROVE RecordInv'
  <2>1. /\ Others(w) /\ worker[w].at = "approve" /\ UNCHANGED <<historyBook, last, latest>>
        /\ \/ /\ worker'[w].at = "metrics" /\ worker'[w].id = worker[w].id
              /\ blockedBook' = blockedBook
           \/ /\ worker'[w].at = "idle"
              /\ blockedBook' = With(blockedBook, worker[w].id, ResultOf(w)) BY <1>5, ApproveEndsMoves
  <2>2. CASE worker'[w].at = "metrics" /\ worker'[w].id = worker[w].id /\ blockedBook' = blockedBook
    BY <2>1, <2>2, QuietStep DEF Owning
  <2>3. CASE worker'[w].at = "idle" /\ blockedBook' = With(blockedBook, worker[w].id, ResultOf(w))
    <3>1. PICK r \in Outcome : r = ResultOf(w) /\ r.id = worker[w].id /\ r.verdict = worker[w].verdict
      BY <2>1, ResultShape
    <3>2. worker[w].id \in IterationId  BY <3>1 DEF Outcome
    <3> QED  BY <2>1, <2>3, <3>1, <3>2, GiveBackRecord
  <2> QED  BY <2>1, <2>2, <2>3
<1>6. ASSUME NEW w \in Worker, RecordMetrics(w) PROVE RecordInv'
  BY <1>6, RecordMoves, QuietStep DEF RecordMetrics, Owning
<1>7. ASSUME NEW w \in Worker, RecordHistory(w) PROVE RecordInv'
  BY <1>7, RecordMoves, HistoryRecord DEF RecordHistory
<1>8. ASSUME NEW w \in Worker, RecordLast(w) PROVE RecordInv' BY <1>8, RecordMoves, LastRecord DEF RecordLast
<1>9. ASSUME NEW w \in Worker, RecordBlocked(w) PROVE RecordInv'
  BY <1>9, RecordMoves, BlockedRecord DEF RecordBlocked
<1>10. ASSUME NEW w \in Worker, RecordIssue(w) PROVE RecordInv'
  BY <1>10, RecordMoves, QuietStep DEF RecordIssue, books, Owning
<1> QED  BY <1>1, <1>2, <1>3, <1>4, <1>5, <1>6, <1>7, <1>8, <1>9, <1>10, KernelCases

-----------------------------------------------------------------------------
(* The shape of the books, and the counters.                               *)

\* Every step keeps the shape of the books.
LEMMA BookStep ==
    ASSUME KernelAssumption, ThreadShape, BookShape, issued' \in Nat, issued \in Nat,
           issued <= issued', [KernelNext]_kernelVars
    PROVE  BookShape'
<1>0. \A S : S \subseteq 1..issued => S \subseteq 1..issued'  OBVIOUS
<1>same. ASSUME UNCHANGED <<historyBook, last, blockedBook, latest>>, metrics' \in Counters, view' \in Views
         PROVE  BookShape' BY <1>0, <1>same DEF BookShape
<1>m. metrics \in Counters /\ view \in Views  BY DEF BookShape
<1>n. ASSUME NEW x \in {0, 1}, NEW y \in {0, 1}, NEW z \in {0, 1}
      PROVE  [total |-> metrics.total + 1, promoted |-> metrics.promoted + x,
              rolledBack |-> metrics.rolledBack + y, infra |-> metrics.infra + z] \in Counters
  BY <1>m DEF Counters
<1>1. CASE Aside
  <2>1. UNCHANGED <<historyBook, last, blockedBook, latest>>
    BY <1>1 DEF Aside, Observe, StageIssue, RunIteration, StatusStep, StatusReturns, kernelVars, books
  <2>2. metrics' \in Counters
    <3>1. CASE RunIteration
      <4>1. PICK end \in {"promote", "rollback", "error"} :
               metrics' = [metrics EXCEPT
                             !.total = @ + 1,
                             !.promoted = @ + (IF end = "promote" THEN 1 ELSE 0),
                             !.rolledBack = @ + (IF end = "rollback" THEN 1 ELSE 0)] BY <3>1 DEF RunIteration
      <4>2. PICK x \in {0, 1}, y \in {0, 1} :
               metrics' = [metrics EXCEPT !.total = @ + 1, !.promoted = @ + x, !.rolledBack = @ + y] BY <4>1
      <4>3. metrics.total + 1 \in Nat /\ metrics.promoted + x \in Nat /\ metrics.rolledBack + y \in Nat
        BY <1>m DEF Counters
      <4>4. metrics' = [total |-> metrics.total + 1, promoted |-> metrics.promoted + x,
                        rolledBack |-> metrics.rolledBack + y, infra |-> metrics.infra]
        BY <1>m, <4>2 DEF Counters
      <4> QED  BY <1>m, <4>3, <4>4 DEF Counters
    <3>2. CASE ~ RunIteration
      <4>1. metrics' = metrics
        BY <1>1, <3>2 DEF Aside, Observe, StageIssue, StatusStep, StatusReturns, kernelVars, books
      <4> QED  BY <1>m, <4>1
    <3> QED  BY <3>1, <3>2
  <2>3. view' \in Views
    <3>1. CASE StatusStep
      <4>1. view.step \in 0..2  BY <1>m, <3>1 DEF StatusStep, StatusOrder, Views
      <4>2. Len(historyBook) \in Nat /\ metrics.total \in Nat /\ metrics.promoted \in Nat
        BY <1>m DEF BookShape, Counters
      <4> DEFINE book == StatusOrder[view.step + 1]
                 hs == IF book = "history" THEN Len(historyBook) ELSE view.history
                 la == IF book = "last" THEN last # <<>> ELSE view.last
                 to == IF book = "metrics" THEN metrics.total ELSE view.total
                 pr == IF book = "metrics" THEN metrics.promoted ELSE view.promoted
      <4>3. view' = [view EXCEPT !.step = @ + 1, !.history = hs, !.last = la, !.total = to, !.promoted = pr]
        BY <3>1 DEF StatusStep
      <4>4. hs \in Nat /\ to \in Nat /\ pr \in Nat /\ view.step + 1 \in 0..3 BY <1>m, <4>1, <4>2 DEF Views
      <4>5. la \in BOOLEAN BY <1>m DEF Views
      <4> HIDE DEF book, hs, la, to, pr
      <4> QED  BY <1>m, <4>3, <4>4, <4>5 DEF Views
    <3>2. CASE StatusReturns BY <3>2 DEF StatusReturns, NoView, Views
    <3>3. CASE ~ StatusStep /\ ~ StatusReturns
      BY <1>1, <1>m, <3>3 DEF Aside, Observe, StageIssue, RunIteration, kernelVars
    <3> QED  BY <3>1, <3>2, <3>3
  <2> QED  BY <1>same, <2>1, <2>2, <2>3
<1>2. ASSUME NEW w \in Worker, NEW request, BeginIteration(w, request) PROVE BookShape'
  BY <1>2, <1>m, <1>same DEF BeginIteration, books
<1>3. ASSUME NEW w \in Worker, NEW end, FinishIteration(w, end) PROVE BookShape'
  BY <1>3, <1>m, <1>same DEF FinishIteration, books
<1>4. ASSUME NEW w \in Worker, NEW id, ApproveBlocked(w, id) PROVE BookShape'
  BY <1>4 DEF ApproveBlocked, WithoutId, BookShape
<1>5. ASSUME NEW w \in Worker, ApproveEnds(w) PROVE BookShape'
  <2>1. /\ worker[w].at = "approve" /\ UNCHANGED <<historyBook, last, metrics, view, latest, issued>>
        /\ \/ blockedBook' = blockedBook
           \/ blockedBook' = With(blockedBook, worker[w].id, ResultOf(w)) BY <1>5, ApproveEndsMoves
  <2>2. PICK r \in Outcome : r = ResultOf(w) /\ r.id = worker[w].id BY <2>1, ResultShape
  <2>3. r.id \in IterationId  BY DEF Outcome
  <2>4. CASE blockedBook' = blockedBook  BY <1>m, <1>same, <2>1, <2>4
  <2>5. CASE blockedBook' = With(blockedBook, r.id, r) BY <2>3, <2>5, <2>1 DEF With, BookShape
  <2> QED  BY <2>1, <2>2, <2>4, <2>5
<1>6. ASSUME NEW w \in Worker, RecordMetrics(w) PROVE BookShape'
  <2>1. UNCHANGED <<historyBook, last, blockedBook, latest, view>>
        /\ metrics' = CountOutcome(worker[w].verdict) BY <1>6 DEF RecordMetrics
  <2>2. metrics' \in Counters BY <1>n, <2>1 DEF CountOutcome
  <2> QED  BY <1>m, <1>same, <2>1, <2>2
<1>7. ASSUME NEW w \in Worker, RecordHistory(w) PROVE BookShape'
  <2>1. /\ worker[w].at = "history" /\ historyBook' = HistoryWith(ResultOf(w))
        /\ UNCHANGED <<last, blockedBook, latest, view, metrics, issued>> BY <1>7 DEF RecordHistory
  <2>2. PICK r \in Outcome : r = ResultOf(w)  BY <2>1, ResultShape
  <2>3. HistoryWith(r) \in Seq(Outcome) /\ Len(HistoryWith(r)) <= HistoryCap
    BY <2>2, HistoryWithFacts DEF BookShape
  <2> QED  BY <2>1, <2>2, <2>3 DEF BookShape
<1>8. ASSUME NEW w \in Worker, RecordLast(w) PROVE BookShape'
  <2>1. /\ worker[w].at = "last" /\ last' = <<ResultOf(w)>>
        /\ latest' = With(latest, worker[w].id, worker[w].verdict)
        /\ UNCHANGED <<historyBook, blockedBook, view, metrics, issued>> BY <1>8 DEF RecordLast
  <2>2. PICK r \in Outcome : r = ResultOf(w)  BY <2>1, ResultShape
  <2>3. worker[w].id \in 1..issued  BY <2>1 DEF ThreadShape
  <2>4. DOMAIN latest' \subseteq 1..issued  BY <2>1, <2>3 DEF With, BookShape
  <2> QED  BY <2>1, <2>2, <2>4 DEF BookShape
<1>9. ASSUME NEW w \in Worker, RecordBlocked(w) PROVE BookShape'
  <2>1. /\ worker[w].at = "blocked" /\ blockedBook' = BlockedWith(ResultOf(w))
        /\ UNCHANGED <<historyBook, last, latest, view, metrics, issued>> BY <1>9 DEF RecordBlocked
  <2>2. PICK r \in Outcome : r = ResultOf(w)  BY <2>1, ResultShape
  <2>3. r.id \in IterationId  BY DEF Outcome
  <2>4. \A id \in DOMAIN BlockedWith(r) :
            \/ id = r.id /\ BlockedWith(r)[id] = r
            \/ id \in DOMAIN blockedBook /\ BlockedWith(r)[id] = blockedBook[id] BY BlockedWithFacts
  <2>5. DOMAIN blockedBook' \subseteq IterationId
        /\ \A k \in DOMAIN blockedBook' : blockedBook'[k] \in Outcome BY <2>1, <2>2, <2>3, <2>4 DEF BookShape
  <2> QED  BY <2>1, <2>5 DEF BookShape
<1>10. ASSUME NEW w \in Worker, RecordIssue(w) PROVE BookShape' BY <1>10, <1>m, <1>same DEF RecordIssue, books
<1> QED  BY <1>1, <1>2, <1>3, <1>4, <1>5, <1>6, <1>7, <1>8, <1>9, <1>10, KernelCases

\* A step that neither enters nor leaves the section of the history keeps the
\* counters ahead if it does not lower them.
LEMMA CountQuiet ==
    ASSUME CountInv, BookShape, metrics' \in Counters, historyBook' = historyBook,
           \A u \in Worker : worker'[u].at = "history" <=> worker[u].at = "history",
           \A u \in Worker : worker'[u].at = "last" => worker[u].at = "last",
           last' = last \/ \E u \in Worker : worker[u].at = "last",
           metrics.total <= metrics'.total, metrics'.promoted <= metrics'.total
    PROVE  CountInv'
<1>1. Counted' = Counted  BY DEF Counted
<1>2. metrics.total \in Nat /\ metrics'.total \in Nat /\ Len(historyBook) \in Nat BY DEF BookShape, Counters
<1>3. Cardinality(Counted) \in Nat  BY FS_CardinalityType DEF CountInv
<1>4. metrics.total > 0 => metrics'.total > 0  BY <1>2
<1>5. Len(historyBook) + Cardinality(Counted) <= metrics'.total  BY <1>2, <1>3 DEF CountInv
<1> QED  BY <1>1, <1>4, <1>5 DEF CountInv

\* The counters stay ahead of the history and of last, and never go down.
LEMMA CountStep ==
    ASSUME KernelAssumption, ThreadShape, BookShape, BookShape', CountInv, [KernelNext]_kernelVars
    PROVE  CountInv' /\ metrics.total <= metrics'.total
<1>m. metrics \in Counters /\ metrics' \in Counters /\ Len(historyBook) \in Nat
      /\ metrics.total \in Nat /\ metrics.promoted \in Nat /\ metrics.promoted <= metrics.total
      /\ metrics'.total \in Nat BY DEF BookShape, Counters, CountInv
<1>c. IsFiniteSet(Counted) /\ Cardinality(Counted) \in Nat
      /\ Len(historyBook) + Cardinality(Counted) <= metrics.total BY FS_CardinalityType DEF CountInv
<1>same. metrics' = metrics => metrics.total <= metrics'.total /\ metrics'.promoted <= metrics'.total BY <1>m
<1>1. CASE Aside
  <2>1. UNCHANGED <<worker, historyBook, last>>
    BY <1>1 DEF Aside, Observe, StageIssue, RunIteration, StatusStep, StatusReturns, kernelVars, books
  <2>2. metrics.total <= metrics'.total /\ metrics'.promoted <= metrics'.total
    <3>1. CASE RunIteration
      <4>1. PICK end \in {"promote", "rollback", "error"} :
               metrics' = [metrics EXCEPT
                             !.total = @ + 1,
                             !.promoted = @ + (IF end = "promote" THEN 1 ELSE 0),
                             !.rolledBack = @ + (IF end = "rollback" THEN 1 ELSE 0)] BY <3>1 DEF RunIteration
      <4>2. PICK t, p, r : /\ t = metrics.total + 1
                           /\ p = metrics.promoted + (IF end = "promote" THEN 1 ELSE 0)
                           /\ r = metrics.rolledBack + (IF end = "rollback" THEN 1 ELSE 0) OBVIOUS
      <4>3. metrics' = [metrics EXCEPT !.total = t, !.promoted = p, !.rolledBack = r]  BY <4>1, <4>2
      <4>4. metrics \in Counters  BY <1>m DEF Counters
      <4>5. metrics'.total = t /\ metrics'.promoted = p  BY <4>3, <4>4 DEF Counters
      <4> QED  BY <1>m, <4>2, <4>5
    <3>2. CASE ~ RunIteration
      <4>1. metrics' = metrics
        BY <1>1, <3>2 DEF Aside, Observe, StageIssue, StatusStep, StatusReturns, kernelVars, books
      <4> QED  BY <1>same, <4>1
    <3> QED  BY <3>1, <3>2
  <2> QED  BY <1>m, <2>1, <2>2, CountQuiet
<1>quiet. ASSUME NEW w \in Worker, Others(w), worker[w].at # "history",
                 worker'[w].at \notin {"history", "last"}, UNCHANGED <<historyBook, metrics>>,
                 last' = last \/ worker[w].at = "last"
          PROVE  CountInv' /\ metrics.total <= metrics'.total
  BY <1>quiet, <1>m, <1>same, CountQuiet DEF Others
<1>2. ASSUME NEW w \in Worker, NEW request, BeginIteration(w, request)
      PROVE  CountInv' /\ metrics.total <= metrics'.total BY <1>2, <1>quiet, BeginMoves DEF books
<1>3. ASSUME NEW w \in Worker, NEW end \in Verdicts \cup {"error", "panic"}, FinishIteration(w, end)
      PROVE  CountInv' /\ metrics.total <= metrics'.total BY <1>3, <1>quiet, FinishMoves DEF books
<1>4. ASSUME NEW w \in Worker, NEW id, ApproveBlocked(w, id)
      PROVE  CountInv' /\ metrics.total <= metrics'.total BY <1>4, <1>quiet, ApproveMoves
<1>5. ASSUME NEW w \in Worker, ApproveEnds(w) PROVE CountInv' /\ metrics.total <= metrics'.total
  BY <1>5, <1>quiet, ApproveEndsMoves
<1>6. ASSUME NEW w \in Worker, RecordMetrics(w) PROVE CountInv' /\ metrics.total <= metrics'.total
  <2>1. Others(w) /\ worker[w].at = "metrics" /\ worker'[w].at = "history"  BY <1>6, RecordMoves
  <2>2. UNCHANGED <<historyBook, last>> /\ metrics' = CountOutcome(worker[w].verdict)
    BY <1>6 DEF RecordMetrics
  <2>3. metrics'.total = metrics.total + 1 /\ metrics'.promoted <= metrics'.total
    BY <1>m, <2>2 DEF CountOutcome
  <2>4. Counted' = Counted \cup {w} /\ w \notin Counted  BY <2>1 DEF Counted, Others
  <2>5. IsFiniteSet(Counted') /\ Cardinality(Counted') = Cardinality(Counted) + 1 BY <1>c, <2>4, FS_AddElement
  <2>6. Len(historyBook') + Cardinality(Counted') <= metrics'.total BY <1>m, <1>c, <2>2, <2>3, <2>5
  <2>7. metrics'.total > 0 /\ metrics.total <= metrics'.total  BY <1>m, <2>3
  <2> QED  BY <2>3, <2>5, <2>6, <2>7 DEF CountInv
<1>7. ASSUME NEW w \in Worker, RecordHistory(w) PROVE CountInv' /\ metrics.total <= metrics'.total
  <2>1. Others(w) /\ worker[w].at = "history" /\ worker'[w].at = "last"  BY <1>7, RecordMoves
  <2>2. UNCHANGED <<metrics, last>> /\ historyBook' = HistoryWith(ResultOf(w)) BY <1>7 DEF RecordHistory
  <2>3. PICK r \in Outcome : r = ResultOf(w)  BY <2>1, ResultShape
  <2>4. Len(HistoryWith(r)) \in Len(historyBook)..Len(historyBook) + 1 BY <2>3, HistoryWithFacts DEF BookShape
  <2>5. Counted' = Counted \ {w} /\ w \in Counted  BY <2>1 DEF Counted, Others
  <2>6. IsFiniteSet(Counted') /\ Cardinality(Counted') = Cardinality(Counted) - 1
    BY <1>c, <2>5, FS_RemoveElement
  <2>7. Len(historyBook') + Cardinality(Counted') <= metrics'.total BY <1>m, <1>c, <2>2, <2>3, <2>4, <2>6
  <2>8. metrics'.total > 0 /\ metrics.total <= metrics'.total /\ metrics'.promoted <= metrics'.total
    BY <1>m, <2>1, <2>2 DEF CountInv
  <2> QED  BY <2>6, <2>7, <2>8 DEF CountInv
<1>8. ASSUME NEW w \in Worker, RecordLast(w) PROVE CountInv' /\ metrics.total <= metrics'.total
  BY <1>8, <1>quiet, RecordMoves DEF RecordLast
<1>9. ASSUME NEW w \in Worker, RecordBlocked(w) PROVE CountInv' /\ metrics.total <= metrics'.total
  BY <1>9, <1>quiet, RecordMoves DEF RecordBlocked
<1>10. ASSUME NEW w \in Worker, RecordIssue(w) PROVE CountInv' /\ metrics.total <= metrics'.total
  BY <1>10, <1>quiet, RecordMoves DEF RecordIssue, books
<1> QED  BY <1>1, <1>2, <1>3, <1>4, <1>5, <1>6, <1>7, <1>8, <1>9, <1>10, KernelCases

\* What a caller of status() has read stays covered.
LEMMA ViewStep ==
    ASSUME BookShape, BookShape', CountInv, ViewInv, metrics.total <= metrics'.total,
           [KernelNext]_kernelVars
    PROVE  ViewInv'
<1>m. /\ view \in Views /\ view' \in Views /\ Len(historyBook) \in Nat
      /\ metrics.total \in Nat /\ metrics'.total \in Nat /\ metrics.promoted \in Nat
  BY DEF BookShape, Counters
<1>v. view.step \in 0..3 /\ view.history \in Nat /\ view.total \in Nat /\ view.promoted \in Nat
  BY <1>m DEF Views
<1>1. CASE StatusStep
  <2>1. metrics' = metrics /\ view.step \in 0..2 BY <1>v, <1>1 DEF StatusStep, StatusOrder, books
  <2> DEFINE book == StatusOrder[view.step + 1]
             hs == IF book = "history" THEN Len(historyBook) ELSE view.history
             la == IF book = "last" THEN last # <<>> ELSE view.last
             to == IF book = "metrics" THEN metrics.total ELSE view.total
             pr == IF book = "metrics" THEN metrics.promoted ELSE view.promoted
  <2>2. view' = [view EXCEPT !.step = @ + 1, !.history = hs, !.last = la, !.total = to, !.promoted = pr]
    BY <1>1 DEF StatusStep
  <2>3. Len(historyBook) <= metrics.total BY FS_CardinalityType, <1>m DEF CountInv
  <2>4. (last # <<>> => metrics.total > 0) /\ metrics.promoted <= metrics.total  BY DEF CountInv
  <2>5. CASE view.step = 0
    <3>1. book = "history"  BY <2>5 DEF StatusOrder
    <3>2. hs = Len(historyBook)  BY <3>1
    <3> HIDE DEF book, hs, la, to, pr
    <3>3. view'.step = 1 /\ view'.history = Len(historyBook)  BY <1>m, <2>2, <2>5, <3>2 DEF Views
    <3> QED  BY <2>1, <2>3, <3>3 DEF ViewInv
  <2>6. CASE view.step = 1
    <3>1. book = "last"  BY <2>6 DEF StatusOrder
    <3>2. la = (last # <<>>) /\ hs = view.history  BY <3>1
    <3> HIDE DEF book, hs, la, to, pr
    <3>3. view'.step = 2 /\ view'.history = view.history /\ view'.last = (last # <<>>)
      BY <1>m, <2>2, <2>6, <3>2 DEF Views
    <3>4. view'.last => metrics'.total > 0  BY <2>1, <2>4, <3>3, Zenon
    <3>5. view'.history <= metrics'.total  BY <2>1, <2>6, <3>3 DEF ViewInv
    <3>6. view'.step = 2  BY <3>3
    <3> QED  BY <3>4, <3>5, <3>6 DEF ViewInv
  <2>7. CASE view.step = 2
    <3>1. book = "metrics"  BY <2>7 DEF StatusOrder
    <3>2. la = view.last /\ hs = view.history /\ to = metrics.total /\ pr = metrics.promoted  BY <3>1
    <3> HIDE DEF book, hs, la, to, pr
    <3>3. view'.step = 3 /\ view'.history = view.history /\ view'.last = view.last
          /\ view'.total = metrics.total /\ view'.promoted = metrics.promoted
      BY <1>m, <2>2, <2>7, <3>2 DEF Views
    <3> QED  BY <2>1, <2>4, <2>7, <3>3 DEF ViewInv
  <2> QED  BY <2>1, <2>5, <2>6, <2>7
<1>2. CASE StatusReturns BY <1>2 DEF StatusReturns, NoView, ViewInv
<1>3. CASE ~ StatusStep /\ ~ StatusReturns
  <2>1. view' = view
    BY <1>3 DEF KernelNext, Observe, BeginIteration, StageIssue, FinishIteration, ApproveBlocked,
                ApproveEnds, RecordMetrics, RecordHistory, RecordLast, RecordBlocked, RecordIssue,
                RunIteration, kernelVars
  <2>2. view.history <= metrics.total => view.history <= metrics'.total  BY <1>m, <1>v
  <2>3. metrics.total > 0 => metrics'.total > 0  BY <1>m
  <2> QED  BY <2>1, <2>2, <2>3 DEF ViewInv
<1> QED  BY <1>1, <1>2, <1>3

-----------------------------------------------------------------------------
(* The theorem.                                                            *)

\* The kernel starts with empty books.
LEMMA KernelInitInv ==
    ASSUME KernelAssumption, KernelInit
    PROVE  KernelInv
<1>1. \A w \in Worker : worker[w] = IdleWorker  BY DEF KernelInit
<1>2. IdleWorker \in WorkerState /\ IdleWorker.at = "idle" /\ IdleWorker.id = 0
  BY DEF IdleWorker, WorkerState, Points, SomeIssue, NoIssue
<1>3. \A w \in Worker : worker[w].at = "idle"  BY <1>1, <1>2
<1>e. historyBook = <<>> /\ last = <<>> /\ DOMAIN blockedBook = {} /\ DOMAIN latest = {}
      /\ DOMAIN issues = {} /\ DOMAIN historyBook = {} BY DEF KernelInit
<1>4. ThreadShape BY <1>2, <1>3 DEF KernelInit, KernelAssumption, ThreadShape
<1>5. IssueShape  BY <1>e DEF KernelInit, IssueShape
<1>6. BookShape BY <1>e DEF KernelInit, Counters, Views, NoView, KernelAssumption, BookShape
<1>7. RecordInv
  BY <1>3, <1>e DEF RecordInv, OneOwner, Owns, Owning, HeldIsLatest, LastIsLatest, BlockedIsLatest,
                    HistoryIsLatest, HistoryComplete, Ahead
<1>8. CountInv
  <2>1. Counted = {}  BY <1>3 DEF Counted
  <2>2. IsFiniteSet(Counted) /\ Cardinality(Counted) = 0  BY <2>1, FS_EmptySet
  <2>3. metrics.total = 0 /\ metrics.promoted = 0  BY DEF KernelInit
  <2> QED  BY <1>3, <1>e, <2>2, <2>3 DEF CountInv
<1>9. ViewInv  BY DEF KernelInit, NoView, ViewInv
<1> QED  BY <1>4, <1>5, <1>6, <1>7, <1>8, <1>9 DEF KernelInv, Shape

\* Every step of the kernel preserves the invariant.
LEMMA KernelStep ==
    ASSUME KernelAssumption, KernelInv, [KernelNext]_kernelVars
    PROVE  KernelInv'
<1>1. ThreadShape /\ IssueShape /\ BookShape /\ RecordInv /\ CountInv /\ ViewInv /\ BlockedIsLatest
  BY DEF KernelInv, Shape, RecordInv
<1>2. ThreadShape' /\ IssueShape' /\ issued' \in Nat /\ issued \in Nat /\ issued <= issued' BY <1>1, ShapeStep
<1>3. BookShape'  BY <1>1, <1>2, BookStep
<1>4. RecordInv'  BY <1>1, RecordStep
<1>5. CountInv' /\ metrics.total <= metrics'.total  BY <1>1, <1>3, CountStep
<1>6. ViewInv'  BY <1>1, <1>3, <1>5, ViewStep
<1> QED  BY <1>2, <1>3, <1>4, <1>5, <1>6 DEF KernelInv, Shape

\* The invariant says what the host's answers mean.
LEMMA KernelAnswers ==
    ASSUME KernelAssumption, KernelInv
    PROVE  StatusTruthful
<1>1. KernelTypeOK
  <2>1. \A id \in DOMAIN issues : issues[id].status \in {"Open", "Running", "Blocked", "Resolved"}
    BY DEF KernelInv, Shape, IssueShape, IssueEntry
  <2>2. view.step \in 0..Len(StatusOrder) BY DEF KernelInv, Shape, BookShape, Views, StatusOrder
  <2>3. \A id \in DOMAIN blockedBook : blockedBook[id].verdict \in {"Blocked", "InfrastructureFailure"}
    BY DEF KernelInv, RecordInv, BlockedIsLatest, Waiting
  <2> QED  BY <2>1, <2>2, <2>3 DEF KernelTypeOK, KernelInv, Shape, ThreadShape, IssueShape, BookShape
<1>2. StatusIsLatest
  <2> SUFFICES ASSUME NEW id \in DOMAIN latest, ~ Recording(id)
               PROVE  \/ StatusOf(id) = latest[id]
                      \/ StatusOf(id) = "not found" /\ Len(historyBook) = HistoryCap BY DEF StatusIsLatest
  <2>1. CASE last # <<>> /\ last[1].id = id BY <2>1 DEF StatusOf, KernelInv, RecordInv, LastIsLatest
  <2>2. CASE ~ (last # <<>> /\ last[1].id = id) /\ id \in DOMAIN blockedBook
    BY <2>2 DEF StatusOf, KernelInv, RecordInv, BlockedIsLatest
  <2>3. CASE ~ (last # <<>> /\ last[1].id = id) /\ id \notin DOMAIN blockedBook /\ InHistory(id)
    <3> DEFINE i == CHOOSE j \in DOMAIN historyBook : historyBook[j].id = id
    <3>1. i \in DOMAIN historyBook /\ historyBook[i].id = id  BY <2>3 DEF InHistory
    <3>2. StatusOf(id) = historyBook[i].verdict  BY <2>3 DEF StatusOf, InHistory
    <3> HIDE DEF i
    <3>3. \A w \in Worker : ~ Ahead(w, id)  BY DEF Recording, Ahead
    <3>4. historyBook[i].verdict = latest[id] BY <3>1, <3>3 DEF KernelInv, RecordInv, HistoryIsLatest
    <3> QED  BY <3>2, <3>4
  <2>4. CASE ~ (last # <<>> /\ last[1].id = id) /\ id \notin DOMAIN blockedBook /\ ~ InHistory(id)
    <3>1. StatusOf(id) = "not found"  BY <2>4 DEF StatusOf, InHistory
    <3>2. Len(historyBook) \in Nat /\ HistoryCap \in Nat /\ Len(historyBook) <= HistoryCap
      BY DEF KernelInv, Shape, BookShape, KernelAssumption
    <3>3. id \in IterationId BY DEF KernelInv, Shape, BookShape, ThreadShape, KernelAssumption, IterationId
    <3>4. ~ (Len(historyBook) < HistoryCap) BY <2>4, <3>3 DEF KernelInv, RecordInv, HistoryComplete
    <3>5. Len(historyBook) = HistoryCap  BY <3>2, <3>4
    <3> QED  BY <3>1, <3>5
  <2> QED  BY <2>1, <2>2, <2>3, <2>4
<1>3. StatusCoherent BY DEF StatusOrder, KernelInv, Shape, BookShape, Views, ViewInv, StatusCoherent
<1> QED  BY <1>1, <1>2, <1>3 DEF StatusTruthful

\* Whatever threads iterate, approve and record at the same time, and however
\* their lock sections interleave with the reads of status(): the status of an
\* iteration nobody is recording is the verdict recorded last unless a full
\* history has dropped it, and status() never shows more iterations than its
\* counters (RuntimeKernel, record_plugin_iteration_outcome).
THEOREM KernelTruthful == KernelSpec => []StatusTruthful
<1>1. KernelInit => KernelInv  BY KernelInitInv, KernelAssumption
<1>2. KernelInv /\ [KernelNext]_kernelVars => KernelInv'  BY KernelStep, KernelAssumption
<1>3. KernelInv => StatusTruthful  BY KernelAnswers, KernelAssumption
<1> QED  BY <1>1, <1>2, <1>3, PTL DEF KernelSpec

-----------------------------------------------------------------------------
(* The session of the iteration's agent.                                   *)
(*                                                                         *)
(* While a tool runs, a file may be different from what the session met    *)
(* with a backup that only the tool has.  What the invariant speaks of is  *)
(* therefore not the file but the text the tool found, and that text is    *)
(* either the one the session met or one the session has a backup for.     *)

Undo == [path : Path, original : Text]
Backups == UNION {[D -> Text] : D \in SUBSET Path}
AgentState ==
    [focus : SUBSET Path, all : SUBSET Path, expanded : BOOLEAN, summary : BOOLEAN,
     attempts : Nat, successes : Nat, rollback : Backups, operations : SUBSET Path,
     scaffolded : BOOLEAN, offered : BOOLEAN, read : SUBSET Path]

\* The shape of the session; a tool only runs in a running session, and has
\* nothing to undo when it is over.
SessionShape ==
    /\ files \in [Path -> Text] /\ agent \in AgentState /\ saved \in Backups
    /\ batch \in Seq(Operation) /\ done \in Seq(Undo)
    /\ tool \in {"none", "edit", "scaffold"}
    /\ session \in {"running", "finished", "failed", "restored"}
    /\ tool = "none" => done = <<>>
    /\ session # "running" => tool = "none"

\* What the running tool found.
Found(p) == IF p \in DOMAIN FirstBackup(done) THEN FirstBackup(done)[p] ELSE files[p]

\* Backups are of the text the session met.
BackupsGood ==
    /\ \A p \in DOMAIN agent.rollback \ stranded : agent.rollback[p] = OriginalText(p)
    /\ \A p \in DOMAIN saved \ stranded : saved[p] = OriginalText(p)

\* What differs from it has one.
FoundBackedUp ==
    \A p \in Path \ stranded :
        Found(p) # OriginalText(p) =>
            /\ session = "running" => p \in DOMAIN agent.rollback
            /\ session \in {"running", "failed"} => unsaved \/ p \in DOMAIN saved

\* The books of the session and their history agree.
SummaryInv ==
    /\ agent.operations = edited
    /\ agent.successes > 0 => proven
    /\ agent.summary => session = "finished"

SessionInv == SessionShape /\ BackupsGood /\ FoundBackedUp /\ FailureRestored
              /\ SummaryInv /\ SummaryEarned

\* A nonempty set of numbers has a least one.
LEMMA LeastOf ==
    ASSUME NEW T, T \subseteq Nat, T # {}
    PROVE  \E n \in T : \A m \in T : n <= m
<1>1. PICK n \in T : \A m \in T : <<m, n>> \notin OpToRel(<, Nat) BY NatLessThanWellFounded, WFMin
<1>2. \A m \in T : ~ (m < n)  BY <1>1 DEF OpToRel
<1>3. n \in Nat /\ \A m \in T : m \in Nat  OBVIOUS
<1> QED  BY <1>2, <1>3

\* FirstOf(d, p, i): the first backup of p in d is the i-th entry.
FirstOf(d, p, i) == i \in DOMAIN d /\ d[i].path = p /\ \A j \in 1..i - 1 : d[j].path # p

\* A path with a backup has a first one, and only one.
LEMMA FirstExists ==
    ASSUME NEW d \in Seq(Undo), NEW p \in {d[i].path : i \in DOMAIN d}
    PROVE  \E i : FirstOf(d, p, i)
<1> DEFINE T == {i \in DOMAIN d : d[i].path = p}
<1>1. DOMAIN d = 1..Len(d) /\ Len(d) \in Nat  OBVIOUS
<1>2. T \subseteq Nat /\ T # {}  BY <1>1
<1>3. \A i \in T : i \in DOMAIN d /\ d[i].path = p  OBVIOUS
<1>4. \A i \in DOMAIN d : d[i].path = p => i \in T  OBVIOUS
<1> HIDE DEF T
<1>5. PICK n \in T : \A m \in T : n <= m  BY <1>2, LeastOf
<1>6. n \in 1..Len(d) /\ d[n].path = p  BY <1>1, <1>3
<1>7. ASSUME NEW j \in 1..n - 1 PROVE d[j].path # p BY <1>1, <1>6, <1>5, <1>4
<1> QED  BY <1>1, <1>6, <1>7 DEF FirstOf

\* There is only one.
LEMMA FirstUnique ==
    ASSUME NEW d \in Seq(Undo), NEW p, NEW i, NEW j, FirstOf(d, p, i), FirstOf(d, p, j)
    PROVE  i = j
<1>1. i \in 1..Len(d) /\ j \in 1..Len(d) /\ Len(d) \in Nat  BY DEF FirstOf
<1>2. i < j => i \in 1..j - 1  BY <1>1
<1>3. j < i => j \in 1..i - 1  BY <1>1
<1>4. ~ (i < j) /\ ~ (j < i)  BY <1>2, <1>3 DEF FirstOf
<1> QED  BY <1>1, <1>4

\* What FirstBackup returns.
LEMMA FirstBackupFacts ==
    ASSUME NEW d \in Seq(Undo)
    PROVE  /\ DOMAIN FirstBackup(d) = {d[i].path : i \in DOMAIN d}
           /\ \A p, i : FirstOf(d, p, i) => p \in DOMAIN FirstBackup(d) /\ FirstBackup(d)[p] = d[i].original
           /\ FirstBackup(d) \in Backups
<1>1. DOMAIN FirstBackup(d) = {d[i].path : i \in DOMAIN d}  BY DEF FirstBackup
<1>2. ASSUME NEW p, NEW i, FirstOf(d, p, i)
      PROVE  p \in DOMAIN FirstBackup(d) /\ FirstBackup(d)[p] = d[i].original
  <2>1. p \in {d[k].path : k \in DOMAIN d}  BY <1>2 DEF FirstOf
  <2> DEFINE c == CHOOSE k \in DOMAIN d : d[k].path = p /\ \A j \in 1..k - 1 : d[j].path # p
  <2>2. FirstBackup(d)[p] = d[c].original  BY <2>1 DEF FirstBackup
  <2>3. c \in DOMAIN d /\ d[c].path = p /\ \A j \in 1..c - 1 : d[j].path # p BY <1>2 DEF FirstOf
  <2> HIDE DEF c
  <2>4. c = i  BY <1>2, <2>3, FirstUnique DEF FirstOf
  <2> QED  BY <1>1, <2>1, <2>2, <2>4
<1>3. \A i \in DOMAIN d : d[i].path \in Path /\ d[i].original \in Text
  <2>1. \A i \in DOMAIN d : d[i] \in Undo  OBVIOUS
  <2> QED  BY <2>1 DEF Undo
<1>4. \A p \in DOMAIN FirstBackup(d) : FirstBackup(d)[p] \in Text
  <2> TAKE p \in DOMAIN FirstBackup(d)
  <2>1. PICK i : FirstOf(d, p, i)  BY <1>1, FirstExists
  <2>2. i \in DOMAIN d  BY <2>1 DEF FirstOf
  <2> QED  BY <1>2, <1>3, <2>1, <2>2
<1>5. FirstBackup(d) = [p \in DOMAIN FirstBackup(d) |-> FirstBackup(d)[p]]  BY DEF FirstBackup
<1>6. DOMAIN FirstBackup(d) \in SUBSET Path  BY <1>1, <1>3
<1>7. FirstBackup(d) \in [DOMAIN FirstBackup(d) -> Text]  BY <1>4, <1>5
<1>8. FirstBackup(d) \in Backups  BY <1>6, <1>7 DEF Backups
<1> QED  BY <1>1, <1>2, <1>8

\* Nothing done, nothing to undo.
LEMMA NoneFirst == DOMAIN FirstBackup(<<>>) = {}
BY DEF FirstBackup

\* One more operation adds a backup for a path that had none, and no more.
LEMMA AppendFirst ==
    ASSUME NEW d \in Seq(Undo), NEW x \in Undo
    PROVE  /\ DOMAIN FirstBackup(Append(d, x)) = DOMAIN FirstBackup(d) \cup {x.path}
           /\ \A p \in DOMAIN FirstBackup(d) : FirstBackup(Append(d, x))[p] = FirstBackup(d)[p]
           /\ x.path \notin DOMAIN FirstBackup(d) => FirstBackup(Append(d, x))[x.path] = x.original
<1> DEFINE e == Append(d, x)
<1>1. /\ e \in Seq(Undo) /\ Len(e) = Len(d) + 1 /\ Len(d) \in Nat /\ e[Len(d) + 1] = x
      /\ \A i \in 1..Len(d) : e[i] = d[i]
      /\ DOMAIN e = 1..Len(d) + 1 /\ DOMAIN d = 1..Len(d) OBVIOUS
<1> HIDE DEF e
<1>2. DOMAIN FirstBackup(d) = {d[i].path : i \in DOMAIN d}
      /\ DOMAIN FirstBackup(e) = {e[i].path : i \in DOMAIN e} BY <1>1, FirstBackupFacts
<1>3. \A i \in DOMAIN e : (i \in DOMAIN d /\ e[i] = d[i]) \/ (i = Len(d) + 1 /\ e[i] = x)  BY <1>1
<1>4. \A i \in DOMAIN d : i \in DOMAIN e /\ e[i] = d[i]  BY <1>1
<1>5. Len(d) + 1 \in DOMAIN e  BY <1>1
<1>6. DOMAIN FirstBackup(e) = DOMAIN FirstBackup(d) \cup {x.path} BY <1>1, <1>3, <1>4, <1>5, <1>2
<1>7. ASSUME NEW p \in DOMAIN FirstBackup(d) PROVE FirstBackup(e)[p] = FirstBackup(d)[p]
  <2>1. PICK i : FirstOf(d, p, i)  BY <1>2, FirstExists
  <2>2. i \in 1..Len(d) /\ d[i].path = p /\ \A j \in 1..i - 1 : d[j].path # p BY <1>1, <2>1 DEF FirstOf
  <2>3. \A j \in 1..i - 1 : j \in 1..Len(d)  BY <1>1, <2>2
  <2>4. FirstOf(e, p, i)  BY <1>1, <1>4, <2>2, <2>3 DEF FirstOf
  <2>5. FirstBackup(d)[p] = d[i].original /\ FirstBackup(e)[p] = e[i].original
    BY <1>1, <2>1, <2>4, FirstBackupFacts, ZenonT(60)
  <2> QED  BY <1>1, <2>2, <2>5
<1>8. ASSUME x.path \notin DOMAIN FirstBackup(d) PROVE FirstBackup(e)[x.path] = x.original
  <2>1. \A j \in 1..Len(d) : e[j].path # x.path  BY <1>1, <1>2, <1>8
  <2>2. 1..(Len(d) + 1) - 1 = 1..Len(d)  BY <1>1
  <2>3. FirstOf(e, x.path, Len(d) + 1)  BY <1>1, <1>5, <2>1, <2>2 DEF FirstOf
  <2>4. PICK q, k : q = x.path /\ k = Len(d) + 1  OBVIOUS
  <2>5. FirstOf(e, q, k) /\ e \in Seq(Undo)  BY <1>1, <2>3, <2>4
  <2>6. FirstBackup(e)[q] = e[k].original  BY <2>5, FirstBackupFacts
  <2> QED  BY <1>1, <2>4, <2>6
<1> QED  BY <1>6, <1>7, <1>8 DEF e

\* PluginEditRollback::absorb keeps what is there.
LEMMA AbsorbFacts ==
    ASSUME NEW r \in Backups, NEW b \in Backups
    PROVE  /\ AbsorbBackup(r, b) \in Backups
           /\ DOMAIN AbsorbBackup(r, b) = DOMAIN r \cup DOMAIN b
           /\ \A p \in DOMAIN r : AbsorbBackup(r, b)[p] = r[p]
           /\ \A p \in DOMAIN b \ DOMAIN r : AbsorbBackup(r, b)[p] = b[p]
<1>1. PICK D \in SUBSET Path : r \in [D -> Text]  BY DEF Backups
<1>2. PICK E \in SUBSET Path : b \in [E -> Text]  BY DEF Backups
<1>3. AbsorbBackup(r, b) = [p \in D \cup E |-> IF p \in D THEN r[p] ELSE b[p]] BY <1>1, <1>2 DEF AbsorbBackup
<1>4. AbsorbBackup(r, b) \in [D \cup E -> Text]  BY <1>1, <1>2, <1>3
<1>5. D \cup E \in SUBSET Path  OBVIOUS
<1>6. AbsorbBackup(r, b) \in Backups  BY <1>4, <1>5 DEF Backups
<1> QED  BY <1>1, <1>2, <1>3, <1>6

\* In a running session there is no summary yet, and nothing to restore.
LEMMA StillRunning ==
    ASSUME SessionInv, session = "running", session' = "running", agent'.summary = agent.summary
    PROVE  FailureRestored' /\ SummaryEarned' /\ ~ agent'.summary
BY DEF SessionInv, SummaryInv, FailureRestored, SummaryEarned

\* Tools that look, check and count.
LEMMA LookingStep ==
    ASSUME SessionInv, session = "running", agent' \in AgentState,
           agent'.rollback = agent.rollback, agent'.operations = agent.operations,
           agent'.summary = agent.summary, agent'.successes > 0 => proven',
           UNCHANGED <<files, saved, tool, batch, done, session, stranded, unsaved, edited>>
    PROVE  SessionInv'
<1>1. FailureRestored' /\ SummaryEarned' /\ ~ agent'.summary  BY StillRunning
<1>2. SessionShape'  BY DEF SessionInv, SessionShape
<1>3. BackupsGood'  BY DEF SessionInv, BackupsGood, OriginalText
<1>4. FoundBackedUp'  BY DEF SessionInv, FoundBackedUp, Found, OriginalText
<1>5. SummaryInv'  BY <1>1 DEF SessionInv, SummaryInv
<1> QED  BY <1>1, <1>2, <1>3, <1>4, <1>5 DEF SessionInv

\* The operations of a scaffold are operations.
LEMMA ScaffoldShape ==
    ASSUME AgentFiles, files \in [Path -> Text]
    PROVE  ScaffoldOps \in Seq(Operation)
<1> DEFINE first == [path |-> ParentManifest, kind |-> "set", expected |-> files[ParentManifest],
                     new |-> "new"]
           rest == [i \in 1..Len(ChildFiles) |->
                      [path |-> ChildFiles[i], kind |-> "create", expected |-> "absent", new |-> "new"]]
<1>1. ParentManifest \in Path /\ ChildFiles \in Seq(Path) BY DEF AgentFiles
<1>2. Len(ChildFiles) \in Nat  BY <1>1
<1>3. files[ParentManifest] \in Text  BY <1>1
<1>4. first \in Operation  BY <1>1, <1>3 DEF Operation, Text
<1>5. \A i \in 1..Len(ChildFiles) :
         [path |-> ChildFiles[i], kind |-> "create", expected |-> "absent", new |-> "new"] \in Operation
  <2> TAKE i \in 1..Len(ChildFiles)
  <2>1. ChildFiles[i] \in Path  BY <1>1
  <2> QED  BY <2>1 DEF Operation, Text
<1>6. rest \in [1..Len(ChildFiles) -> Operation]  BY <1>5
<1> HIDE DEF first
<1>7. ScaffoldOps = <<first>> \o rest  BY DEF ScaffoldOps, first
<1> HIDE DEF rest
<1>8. rest \in Seq(Operation)
  <2>1. \A n \in Nat : \A f \in [1..n -> Operation] : f \in Seq(Operation)  OBVIOUS
  <2> QED  BY <1>2, <1>6, <2>1
<1>9. <<first>> \in Seq(Operation)  BY <1>4
<1> QED  BY <1>7, <1>8, <1>9

\* A batch begins, or is refused as a whole.
LEMMA BatchStarts ==
    ASSUME SessionInv, NEW name \in {"edit", "scaffold"}, NEW operations \in Seq(Operation),
           StartBatch(name, operations)
    PROVE  SessionInv'
<1>1. session = "running" /\ tool = "none" /\ done' = <<>>
      /\ tool' \in {name, "none"} /\ (batch' = <<>> \/ batch' = operations)
      /\ UNCHANGED <<files, agent, saved, session, stranded, unsaved, edited, proven>>
  BY DEF StartBatch, ToolCalls
<1>2. done = <<>>  BY <1>1 DEF SessionInv, SessionShape
<1>3. FailureRestored' /\ SummaryEarned'  BY <1>1, StillRunning
<1>4. SessionShape'
  <2>0. <<>> \in Seq(Operation) /\ <<>> \in Seq(Undo)  OBVIOUS
  <2>1. batch' \in Seq(Operation) /\ done' \in Seq(Undo)  BY <1>1, <2>0
  <2> QED  BY <1>1, <2>1 DEF SessionInv, SessionShape
<1>5. BackupsGood' /\ SummaryInv'  BY <1>1 DEF SessionInv, BackupsGood, OriginalText, SummaryInv
<1>6. FoundBackedUp'  BY <1>1, <1>2 DEF SessionInv, FoundBackedUp, Found, OriginalText
<1> QED  BY <1>3, <1>4, <1>5, <1>6 DEF SessionInv

\* An operation that is carried out leaves what the tool found where it was.
LEMMA OperationStep ==
    ASSUME AgentFiles, SessionInv, ApplyOne
    PROVE  SessionInv'
<1>1. PICK o : /\ o = Head(batch) /\ Applies(o) /\ files' = [files EXCEPT ![o.path] = Result(o)]
               /\ done' = Append(done, [path |-> o.path, original |-> files[o.path]]) BY DEF ApplyOne
<1>2. tool # "none" /\ batch # <<>> /\ batch' = Tail(batch)
      /\ UNCHANGED <<agent, saved, tool, session, stranded, unsaved, edited, proven>> BY DEF ApplyOne
<1>3. session = "running"  BY <1>2 DEF SessionInv, SessionShape
<1>4. batch \in Seq(Operation) /\ files \in [Path -> Text] /\ done \in Seq(Undo)
  BY DEF SessionInv, SessionShape
<1>5. o \in Operation /\ batch' \in Seq(Operation)  BY <1>1, <1>2, <1>4
<1>6. o.path \in Path /\ Result(o) \in Text  BY <1>5 DEF Operation, Result, Text
<1>7. files' \in [Path -> Text]  BY <1>1, <1>4, <1>6
<1> DEFINE x == [path |-> o.path, original |-> files[o.path]]
<1>8. x \in Undo /\ x.path = o.path /\ x.original = files[o.path]  BY <1>4, <1>6 DEF Undo
<1>9. done' = Append(done, x)  BY <1>1
<1> HIDE DEF x
<1>10. done' \in Seq(Undo)  BY <1>4, <1>8, <1>9
<1>11. SessionShape'  BY <1>2, <1>3, <1>5, <1>7, <1>10 DEF SessionInv, SessionShape
<1>12. FailureRestored' /\ SummaryEarned'  BY <1>2, <1>3, StillRunning
<1>13. BackupsGood' /\ SummaryInv' BY <1>2 DEF SessionInv, BackupsGood, OriginalText, SummaryInv
<1>14. /\ DOMAIN FirstBackup(done') = DOMAIN FirstBackup(done) \cup {o.path}
       /\ \A p \in DOMAIN FirstBackup(done) : FirstBackup(done')[p] = FirstBackup(done)[p]
       /\ o.path \notin DOMAIN FirstBackup(done) => FirstBackup(done')[o.path] = files[o.path]
  BY <1>4, <1>8, <1>9, AppendFirst, ZenonT(60)
<1>15. \A p \in Path : Found(p)' = Found(p)
  <2> TAKE p \in Path
  <2>1. CASE p \in DOMAIN FirstBackup(done)  BY <1>14, <2>1 DEF Found
  <2>2. CASE p \notin DOMAIN FirstBackup(done) /\ p = o.path  BY <1>14, <2>2 DEF Found
  <2>3. CASE p \notin DOMAIN FirstBackup(done) /\ p # o.path BY <1>1, <1>4, <2>3, <1>14 DEF Found
  <2> QED  BY <2>1, <2>2, <2>3
<1>16. FoundBackedUp'  BY <1>2, <1>15 DEF SessionInv, FoundBackedUp, OriginalText
<1> QED  BY <1>11, <1>12, <1>13, <1>16 DEF SessionInv

\* An undo puts back what the tool found, except where it stopped.
LEMMA UndoStep ==
    ASSUME SessionInv, NEW k \in 0..Len(done), ApplyFails(k)
    PROVE  SessionInv'
<1> DEFINE kept == {done[i].path : i \in 1..k}
           back == FirstBackup(done)
<1>1. /\ tool # "none" /\ stranded' = stranded \cup kept
      /\ files' = [p \in Path |-> IF p \in DOMAIN back \ kept THEN back[p] ELSE files[p]]
      /\ tool' = "none" /\ batch' = <<>> /\ done' = <<>>
      /\ UNCHANGED <<agent, saved, session, unsaved, edited, proven>> BY DEF ApplyFails, EndOps
<1>2. session = "running"  BY <1>1 DEF SessionInv, SessionShape
<1>3. files \in [Path -> Text] /\ done \in Seq(Undo)  BY DEF SessionInv, SessionShape
<1>4. back \in Backups  BY <1>3, FirstBackupFacts
<1> HIDE DEF kept, back
<1>5. files' \in [Path -> Text] BY <1>4, <1>1, <1>3 DEF Backups
<1>6. SessionShape'  BY <1>1, <1>2, <1>5 DEF SessionInv, SessionShape
<1>7. FailureRestored' /\ SummaryEarned'  BY <1>1, <1>2, StillRunning
<1>8. BackupsGood' /\ SummaryInv' BY <1>1 DEF SessionInv, BackupsGood, OriginalText, SummaryInv
<1>9. \A p \in Path \ stranded' : Found(p)' = Found(p)
  <2> TAKE p \in Path \ stranded'
  <2>1. p \notin kept  BY <1>1
  <2>2. Found(p)' = files'[p]  BY <1>1, NoneFirst DEF Found
  <2>3. files'[p] = IF p \in DOMAIN back THEN back[p] ELSE files[p]  BY <1>1, <2>1
  <2> QED  BY <2>2, <2>3 DEF Found, back
<1>10. FoundBackedUp' BY <1>1, <1>9 DEF SessionInv, FoundBackedUp, OriginalText
<1> QED  BY <1>6, <1>7, <1>8, <1>10 DEF SessionInv

\* The session's backups once it has absorbed a tool's.
LEMMA AbsorbedGood ==
    ASSUME SessionInv, session = "running"
    PROVE  LET r == AbsorbBackup(agent.rollback, FirstBackup(done))
           IN  /\ r \in Backups
               /\ \A p \in DOMAIN r \ stranded : r[p] = OriginalText(p)
               /\ \A p \in Path \ stranded : files[p] # OriginalText(p) => p \in DOMAIN r
               /\ DOMAIN FirstBackup(done) \in SUBSET Path
<1> DEFINE b == FirstBackup(done)
           r == AbsorbBackup(agent.rollback, b)
<1>1. done \in Seq(Undo) /\ agent.rollback \in Backups BY DEF SessionInv, SessionShape, AgentState
<1>2. b \in Backups  BY <1>1, FirstBackupFacts
<1>3. /\ r \in Backups /\ DOMAIN r = DOMAIN agent.rollback \cup DOMAIN b
      /\ \A p \in DOMAIN agent.rollback : r[p] = agent.rollback[p]
      /\ \A p \in DOMAIN b \ DOMAIN agent.rollback : r[p] = b[p] BY <1>1, <1>2, AbsorbFacts
<1>4. DOMAIN b \in SUBSET Path
  <2>1. PICK D \in SUBSET Path : b \in [D -> Text]  BY <1>2 DEF Backups
  <2> QED  BY <2>1
<1>5. \A p \in Path : Found(p) = IF p \in DOMAIN b THEN b[p] ELSE files[p]  BY DEF Found
<1> HIDE DEF b, r
<1>6. ASSUME NEW p \in DOMAIN r \ stranded PROVE r[p] = OriginalText(p)
  <2>1. CASE p \in DOMAIN agent.rollback  BY <1>3, <1>6, <2>1 DEF SessionInv, BackupsGood
  <2>2. CASE p \notin DOMAIN agent.rollback BY <1>3, <1>4, <1>5, <2>2 DEF SessionInv, FoundBackedUp
  <2> QED  BY <2>1, <2>2
<1>7. ASSUME NEW p \in Path \ stranded, files[p] # OriginalText(p) PROVE p \in DOMAIN r
  <2>1. CASE p \in DOMAIN b  BY <1>3, <2>1
  <2>2. CASE p \notin DOMAIN b BY <1>5, <2>2, <1>3, <1>7 DEF SessionInv, FoundBackedUp
  <2> QED  BY <2>1, <2>2
<1> QED  BY <1>3, <1>4, <1>6, <1>7 DEF r, b

\* A batch that is through is journalled, then recorded.
LEMMA FinishStep ==
    ASSUME SessionInv, FinishBatch
    PROVE  SessionInv'
<1>1. tool # "none"  BY DEF FinishBatch
<1>2. session = "running"  BY <1>1 DEF SessionInv, SessionShape
<1>3. PICK b, r : /\ b = FirstBackup(done) /\ r = AbsorbBackup(agent.rollback, b)
                  /\ r \in Backups /\ DOMAIN b \in SUBSET Path
                  /\ \A p \in DOMAIN r \ stranded : r[p] = OriginalText(p)
                  /\ \A p \in Path \ stranded : files[p] # OriginalText(p) => p \in DOMAIN r
  BY <1>2, AbsorbedGood
<1>4. /\ saved' = r /\ unsaved' = FALSE
      /\ agent' = [agent EXCEPT !.rollback = r, !.operations = @ \cup DOMAIN b,
                                !.focus = @ \cup DOMAIN b, !.all = @ \cup DOMAIN b,
                                !.scaffolded = @ \/ tool = "scaffold"]
      /\ edited' = edited \cup DOMAIN b
      /\ tool' = "none" /\ batch' = <<>> /\ done' = <<>>
      /\ UNCHANGED <<files, session, stranded, proven>> BY <1>3 DEF FinishBatch, EndOps, JournalOf
<1>5. PICK s \in BOOLEAN : s = (agent.scaffolded \/ tool = "scaffold")  OBVIOUS
<1>6. agent \in AgentState  BY DEF SessionInv, SessionShape
<1>7. /\ agent' \in AgentState /\ agent'.rollback = r
      /\ agent'.operations = agent.operations \cup DOMAIN b
      /\ agent'.summary = agent.summary /\ agent'.successes = agent.successes
  BY <1>4, <1>5, <1>3, <1>6, ZenonT(60) DEF AgentState
<1>8. FailureRestored' /\ SummaryEarned'  BY <1>2, <1>4, <1>7, StillRunning
<1>9. SessionShape'  BY <1>2, <1>3, <1>4, <1>7 DEF SessionInv, SessionShape
<1>10. BackupsGood'  BY <1>3, <1>4, <1>7 DEF BackupsGood, OriginalText
<1>11. \A p \in Path : Found(p)' = files[p]  BY <1>4, NoneFirst DEF Found
<1>12. FoundBackedUp'  BY <1>3, <1>4, <1>7, <1>11 DEF FoundBackedUp, OriginalText
<1>13. SummaryInv'  BY <1>4, <1>7 DEF SessionInv, SummaryInv
<1> QED  BY <1>8, <1>9, <1>10, <1>12, <1>13 DEF SessionInv

\* The journal could not be written: the backups are in memory only.
LEMMA UnsavedStep ==
    ASSUME SessionInv, FinishUnsaved
    PROVE  SessionInv'
<1>1. tool # "none"  BY DEF FinishUnsaved
<1>2. session = "running"  BY <1>1 DEF SessionInv, SessionShape
<1>3. PICK b, r : /\ b = FirstBackup(done) /\ r = AbsorbBackup(agent.rollback, b)
                  /\ r \in Backups /\ DOMAIN b \in SUBSET Path
                  /\ \A p \in DOMAIN r \ stranded : r[p] = OriginalText(p)
                  /\ \A p \in Path \ stranded : files[p] # OriginalText(p) => p \in DOMAIN r
  BY <1>2, AbsorbedGood
<1>4. /\ agent' = [agent EXCEPT !.rollback = r] /\ unsaved' = TRUE
      /\ tool' = "none" /\ batch' = <<>> /\ done' = <<>>
      /\ UNCHANGED <<files, saved, session, stranded, edited, proven>> BY <1>3 DEF FinishUnsaved, EndOps
<1>6. agent \in AgentState  BY DEF SessionInv, SessionShape
<1>7. /\ agent' \in AgentState /\ agent'.rollback = r /\ agent'.operations = agent.operations
      /\ agent'.summary = agent.summary /\ agent'.successes = agent.successes
  BY <1>3, <1>4, <1>6 DEF AgentState
<1>8. FailureRestored' /\ SummaryEarned'  BY <1>2, <1>4, <1>7, StillRunning
<1>9. SessionShape'  BY <1>2, <1>4, <1>7 DEF SessionInv, SessionShape
<1>10. BackupsGood'  BY <1>3, <1>4, <1>7 DEF SessionInv, BackupsGood, OriginalText
<1>11. \A p \in Path : Found(p)' = files[p]  BY <1>4, NoneFirst DEF Found
<1>12. FoundBackedUp'  BY <1>3, <1>4, <1>7, <1>11 DEF FoundBackedUp, OriginalText
<1>13. SummaryInv'  BY <1>4, <1>7 DEF SessionInv, SummaryInv
<1> QED  BY <1>8, <1>9, <1>10, <1>12, <1>13 DEF SessionInv

\* record_iteration_summary: what it asks for is what the summary promises.
LEMMA SummaryStep ==
    ASSUME SessionInv, RecordSummary
    PROVE  SessionInv'
<1>1. /\ session = "running" /\ tool = "none" /\ agent' = [agent EXCEPT !.summary = TRUE]
      /\ session' = "finished" /\ agent.operations # {} /\ agent.successes > 0 /\ Integrated
      /\ UNCHANGED <<files, saved, tool, batch, done, stranded, unsaved, edited, proven>>
  BY DEF RecordSummary, ToolCalls
<1>2. agent \in AgentState  BY DEF SessionInv, SessionShape
<1>3. /\ agent' \in AgentState /\ agent'.rollback = agent.rollback
      /\ agent'.operations = agent.operations /\ agent'.successes = agent.successes
      /\ agent'.scaffolded = agent.scaffolded BY <1>1, <1>2 DEF AgentState
<1>4. SessionShape'  BY <1>1, <1>3 DEF SessionInv, SessionShape
<1>5. BackupsGood'  BY <1>1, <1>3 DEF SessionInv, BackupsGood, OriginalText
<1>6. FoundBackedUp' /\ FailureRestored'  BY <1>1 DEF FoundBackedUp, FailureRestored
<1>7. SummaryInv'  BY <1>1, <1>3 DEF SessionInv, SummaryInv
<1>8. SummaryEarned' BY <1>1, <1>3 DEF SessionInv, SummaryInv, Integrated, SummaryEarned
<1> QED  BY <1>4, <1>5, <1>6, <1>7, <1>8 DEF SessionInv

\* A failing session takes its backups along; the journal stays.
LEMMA FailStep ==
    ASSUME SessionInv, SessionFails
    PROVE  SessionInv'
<1>1. /\ session = "running" /\ tool = "none" /\ session' = "failed"
      /\ agent' = [agent EXCEPT !.rollback = NoBackups]
      /\ UNCHANGED <<files, saved, tool, batch, done, stranded, unsaved, edited, proven>> BY DEF SessionFails
<1>2. agent \in AgentState  BY DEF SessionInv, SessionShape
<1>3. NoBackups \in Backups /\ DOMAIN NoBackups = {} BY DEF NoBackups, Backups
<1>4. /\ agent' \in AgentState /\ agent'.rollback = NoBackups
      /\ agent'.operations = agent.operations /\ agent'.successes = agent.successes
      /\ agent'.summary = agent.summary BY <1>1, <1>2, <1>3 DEF AgentState
<1>5. ~ agent'.summary  BY <1>1, <1>4 DEF SessionInv, SummaryInv
<1>6. SessionShape'  BY <1>1, <1>4 DEF SessionInv, SessionShape
<1>7. BackupsGood'  BY <1>1, <1>3, <1>4 DEF SessionInv, BackupsGood, OriginalText
<1>8. FoundBackedUp'  BY <1>1 DEF SessionInv, FoundBackedUp, Found, OriginalText
<1>9. FailureRestored' /\ SummaryEarned'  BY <1>1, <1>5 DEF FailureRestored, SummaryEarned
<1>10. SummaryInv'  BY <1>1, <1>4, <1>5 DEF SessionInv, SummaryInv
<1> QED  BY <1>6, <1>7, <1>8, <1>9, <1>10 DEF SessionInv

\* finalize replays the journal.
LEMMA RestoreStep ==
    ASSUME SessionInv, RestoreFiles
    PROVE  SessionInv'
<1>1. /\ session = "failed" /\ session' = "restored"
      /\ files' = [p \in Path |-> IF p \in DOMAIN saved THEN saved[p] ELSE files[p]]
      /\ UNCHANGED <<agent, saved, tool, batch, done, stranded, unsaved, edited, proven>> BY DEF RestoreFiles
<1>2. files \in [Path -> Text] /\ saved \in Backups /\ tool = "none" /\ done = <<>>
  BY <1>1 DEF SessionInv, SessionShape
<1>3. files' \in [Path -> Text] BY <1>2, <1>1 DEF Backups
<1>4. ~ agent'.summary  BY <1>1 DEF SessionInv, SummaryInv
<1>5. SessionShape'  BY <1>1, <1>2, <1>3 DEF SessionInv, SessionShape
<1>6. BackupsGood'  BY <1>1 DEF SessionInv, BackupsGood, OriginalText
<1>7. FoundBackedUp'  BY <1>1 DEF FoundBackedUp
<1>8. FailureRestored'
  <2> SUFFICES ASSUME ~ unsaved', NEW p \in Path \ stranded'
               PROVE  files'[p] = OriginalText(p) BY DEF FailureRestored, OriginalText
  <2>1. p \in Path \ stranded /\ ~ unsaved  BY <1>1
  <2>2. Found(p) = files[p]  BY <1>2, NoneFirst DEF Found
  <2>3. CASE p \in DOMAIN saved BY <2>1, <2>3, <1>1 DEF SessionInv, BackupsGood
  <2>4. CASE p \notin DOMAIN saved BY <1>1, <2>1, <2>2, <2>4 DEF SessionInv, FoundBackedUp
  <2> QED  BY <2>3, <2>4
<1>9. SummaryEarned' /\ SummaryInv'  BY <1>1, <1>4 DEF SessionInv, SummaryEarned, SummaryInv
<1> QED  BY <1>5, <1>6, <1>7, <1>8, <1>9 DEF SessionInv

\* A check that counts was successful and found no warning in an edited file.
LEMMA CheckStep ==
    ASSUME SessionInv, NEW command, RunCheckedCommand(command)
    PROVE  SessionInv'
<1>1. PICK success \in BOOLEAN :
          /\ agent' = [agent EXCEPT !.attempts = @ + 1,
                                    !.successes = IF Counts(success) THEN @ + 1 ELSE @]
          /\ proven' = (proven \/ (success /\ Warnings \cap edited = {})) BY DEF RunCheckedCommand
<1>2. /\ session = "running"
      /\ UNCHANGED <<files, saved, tool, batch, done, session, stranded, unsaved, edited>>
  BY DEF RunCheckedCommand, ToolCalls
<1>3. agent \in AgentState  BY DEF SessionInv, SessionShape
<1> DEFINE n == IF Counts(success) THEN agent.successes + 1 ELSE agent.successes
           m == agent.attempts + 1
<1>4. /\ n \in Nat /\ m \in Nat /\ (n = agent.successes \/ Counts(success))
      /\ agent' = [agent EXCEPT !.attempts = m, !.successes = n] BY <1>3, <1>1 DEF AgentState
<1> HIDE DEF n, m
<1>5. /\ agent' \in AgentState /\ agent'.rollback = agent.rollback
      /\ agent'.operations = agent.operations /\ agent'.summary = agent.summary
      /\ agent'.successes = n BY <1>3, <1>4 DEF AgentState
<1>6. agent'.successes > 0 => proven'
  <2>1. CASE n = agent.successes BY <1>5, <2>1, <1>1 DEF SessionInv, SummaryInv
  <2>2. CASE Counts(success) BY <2>2, <1>1 DEF Counts, SessionInv, SummaryInv
  <2> QED  BY <1>4, <2>1, <2>2
<1> QED  BY <1>2, <1>5, <1>6, LookingStep

\* The other tools that edit nothing.
LEMMA LookStep ==
    ASSUME SessionInv, NextRound \/ Rebuild \/ (\E scope \in {"focus", "all"} : ListContextFiles(scope))
                       \/ (\E p \in Path : ReadContextFiles({p}))
    PROVE  SessionInv'
<1>1. agent \in AgentState  BY DEF SessionInv, SessionShape
<1>2. agent.successes > 0 => proven  BY DEF SessionInv, SummaryInv
<1>3. ASSUME NextRound PROVE SessionInv'
  <2>1. /\ session = "running"
        /\ UNCHANGED <<files, saved, tool, batch, done, session, stranded, unsaved, edited, proven>>
    BY <1>3 DEF NextRound
  <2>2. PICK x \in BOOLEAN : agent' = [agent EXCEPT !.offered = x]
    <3>1. (agent.successes > 0) \in BOOLEAN  OBVIOUS
    <3> QED  BY <1>3, <3>1, Zenon DEF NextRound
  <2>3. /\ agent' \in AgentState /\ agent'.rollback = agent.rollback
        /\ agent'.operations = agent.operations /\ agent'.summary = agent.summary
        /\ agent'.successes = agent.successes BY <1>1, <2>2 DEF AgentState
  <2> QED  BY <1>2, <2>1, <2>3, LookingStep
<1>4. ASSUME Rebuild PROVE SessionInv' BY <1>4, <1>1, <1>2, LookingStep DEF Rebuild, ToolCalls, AgentState
<1>5. ASSUME NEW scope \in {"focus", "all"}, ListContextFiles(scope) PROVE SessionInv'
  <2>1. /\ session = "running"
        /\ UNCHANGED <<files, saved, tool, batch, done, session, stranded, unsaved, edited, proven>>
    BY <1>5 DEF ListContextFiles, ToolCalls
  <2>2. PICK x \in BOOLEAN : agent' = [agent EXCEPT !.expanded = x] BY <1>5 DEF ListContextFiles
  <2>3. /\ agent' \in AgentState /\ agent'.rollback = agent.rollback
        /\ agent'.operations = agent.operations /\ agent'.summary = agent.summary
        /\ agent'.successes = agent.successes BY <1>1, <2>2 DEF AgentState
  <2> QED  BY <1>2, <2>1, <2>3, LookingStep
<1>6. ASSUME NEW p \in Path, ReadContextFiles({p}) PROVE SessionInv'
  BY <1>6, <1>1, <1>2, LookingStep DEF ReadContextFiles, ToolCalls, AgentState
<1> QED  BY <1>3, <1>4, <1>5, <1>6

\* A session starts with the files as they are.
LEMMA SessionInitInv ==
    ASSUME AgentFiles, AgentInit
    PROVE  SessionInv
<1>1. /\ files = [p \in Path |-> OriginalText(p)] /\ saved = NoBackups /\ tool = "none"
      /\ batch = <<>> /\ done = <<>> /\ session = "running" /\ stranded = {}
      /\ unsaved = FALSE /\ edited = {} /\ proven = FALSE BY DEF AgentInit
<1>2. NoBackups \in Backups /\ DOMAIN NoBackups = {}
  <2>1. NoBackups \in [{} -> Text] /\ {} \in SUBSET Path  BY DEF NoBackups
  <2> QED  BY <2>1 DEF Backups
<1>3. /\ agent \in AgentState /\ agent.rollback = NoBackups /\ agent.operations = {}
      /\ agent.successes = 0 /\ agent.summary = FALSE BY <1>2 DEF AgentInit, AgentState, AgentFiles
<1>4. \A p \in Path : OriginalText(p) \in Text  BY DEF OriginalText, Text
<1>5. SessionShape BY <1>1, <1>4, <1>2, <1>3 DEF SessionShape
<1>6. BackupsGood  BY <1>1, <1>2, <1>3 DEF BackupsGood
<1>7. \A p \in Path : Found(p) = OriginalText(p)  BY <1>1, NoneFirst DEF Found
<1>8. FoundBackedUp  BY <1>7 DEF FoundBackedUp
<1>9. FailureRestored /\ SummaryEarned /\ SummaryInv
  BY <1>1, <1>3 DEF FailureRestored, SummaryEarned, SummaryInv
<1> QED  BY <1>5, <1>6, <1>8, <1>9 DEF SessionInv

\* Every step of the session preserves the invariant.
LEMMA SessionStep ==
    ASSUME AgentFiles, SessionInv, [AgentNext]_agentVars
    PROVE  SessionInv'
<1>1. CASE NextRound \/ Rebuild \/ (\E scope \in {"focus", "all"} : ListContextFiles(scope))
           \/ (\E p \in Path : ReadContextFiles({p})) BY <1>1, LookStep
<1>2. ASSUME NEW operations \in Batches, ApplyOperations(operations) PROVE SessionInv'
  BY <1>2, BatchStarts DEF AgentFiles, ApplyOperations
<1>3. CASE ScaffoldChildPlugin
  BY ScaffoldShape, <1>3, BatchStarts DEF SessionInv, SessionShape, ScaffoldChildPlugin
<1>4. CASE ApplyOne  BY <1>4, OperationStep
<1>5. ASSUME NEW k \in 0..Len(done), ApplyFails(k) PROVE SessionInv'  BY <1>5, UndoStep
<1>6. CASE FinishBatch  BY <1>6, FinishStep
<1>7. CASE FinishUnsaved  BY <1>7, UnsavedStep
<1>8. ASSUME NEW command \in ToolCommands, RunCheckedCommand(command) PROVE SessionInv' BY <1>8, CheckStep
<1>9. CASE RecordSummary  BY <1>9, SummaryStep
<1>10. CASE SessionFails  BY <1>10, FailStep
<1>11. CASE RestoreFiles  BY <1>11, RestoreStep
<1>12. CASE UNCHANGED agentVars
  BY <1>12 DEF agentVars, SessionInv, SessionShape, BackupsGood, FoundBackedUp, Found,
               FailureRestored, SummaryInv, SummaryEarned, OriginalText
<1> QED BY <1>1, <1>2, <1>3, <1>4, <1>5, <1>6, <1>7, <1>8, <1>9, <1>10, <1>11, <1>12 DEF AgentNext

\* The invariant gives what the host relies on.
LEMMA SessionMeans ==
    ASSUME SessionInv
    PROVE  SessionSound
<1>1. EditsBackedUp
  <2> SUFFICES ASSUME session = "running", tool = "none", NEW p \in Path \ stranded,
                      files[p] # OriginalText(p)
               PROVE  /\ p \in DOMAIN agent.rollback /\ agent.rollback[p] = OriginalText(p)
                      /\ unsaved \/ (p \in DOMAIN saved /\ saved[p] = OriginalText(p)) BY DEF EditsBackedUp
  <2>1. done = <<>>  BY DEF SessionInv, SessionShape
  <2>2. Found(p) = files[p]  BY <2>1, NoneFirst DEF Found
  <2>3. p \in DOMAIN agent.rollback /\ (unsaved \/ p \in DOMAIN saved) BY <2>2 DEF SessionInv, FoundBackedUp
  <2> QED  BY <2>3 DEF SessionInv, BackupsGood
<1> QED  BY <1>1 DEF SessionSound, SessionRecoverable, SessionInv

\* However many batches the agent runs, whichever of their operations fail and
\* wherever an undo or a save of the journal stops: between tools every edit
\* outside the stranded files has a backup of the text the session met, a
\* failed session leaves none of them behind once the journal is replayed, and
\* a summary follows a check that passed without a warning in an edited file
\* (PluginIterationAgentBackend of host.rs).
THEOREM SessionRecoversAndEarns == AgentSpec => []SessionSound
<1>1. AgentInit => SessionInv  BY SessionInitInv, AgentFiles
<1>2. SessionInv /\ [AgentNext]_agentVars => SessionInv'  BY SessionStep, AgentFiles
<1>3. SessionInv => SessionSound  BY SessionMeans
<1> QED  BY <1>1, <1>2, <1>3, PTL DEF AgentSpec

-----------------------------------------------------------------------------
(* The pipeline: PluginIteration.                                          *)
(*                                                                         *)
(* The invariant says, for every step an operation can be at, where the    *)
(* backup of an edited file is: in the journal, in the memory of the       *)
(* iteration, or among the backups a recovery still has to write; and      *)
(* which of the artifact, its entry and the sources belong together.       *)

\* The operations of an iteration, and the ones of them that take it back.
Iterating == {"iterate", "fail", "reject", "unpromote", "finish"}
Undoing == {"fail", "reject", "unpromote"}

\* The files with a backup as long as they need one.
Rest == Files \ lost

\* The steps an operation can be at.
OpSteps ==
    [none |-> {"none"},
     start |-> {"prepare", "load", "refused"},
     boot |-> {"restore", "refresh", "booted"},
     iterate |-> {"edit", "persist", "backup", "stage", "verify", "canary", "finalize"},
     fail |-> {"rollback", "restore", "drop", "rolled", "restore_own", "restored", "conclude"},
     reject |-> {"rollback", "restore", "drop", "rolled", "restore_own", "conclude", "errored"},
     unpromote |-> {"rollback", "restore", "drop", "rolled", "restore_own", "restored", "errored"},
     finish |-> {"promote", "clear", "take", "conclude", "promote_failed"},
     panic |-> {"restore", "restored"},
     abandon |-> {"rollback", "restore", "drop", "rolled", "panicked"},
     undo |-> {"rollback", "restore", "drop", "rolled", "done"},
     promote |-> {"promote", "clear", "take", "done", "command_failed"},
     approve |-> {"promote", "clear", "take", "approved", "reinsert"}]

\* Where an operation is, and what it calls there.
ControlInv ==
    /\ op \in DOMAIN OpSteps /\ step \in OpSteps[op]
    /\ sub \in {"none", "replay", "mark", "clear", "unmark", "wipe", "compile", "swap", "reindex", "rehash"}
    /\ sub \in {"replay", "mark", "clear", "unmark"} => step \in {"restore", "restore_own"}
    /\ sub \in {"wipe", "compile", "swap", "reindex", "rehash"} =>
         step \in {"restore", "restore_own", "prepare", "backup"}
    /\ sub = "rehash" => step = "backup"
    /\ sub = "mark" => journal # None
    /\ step \in {"clear", "take"} => cand # None
    /\ op = "start" => ~up
    /\ op \notin {"none", "start"} => up
    /\ op \notin Iterating \cup {"approve"} => iter = NoIteration

\* What a build has made so far.
BuiltOK == /\ sub \in {"swap", "reindex", "rehash"} => built \in Trees
           /\ sub \in {"reindex", "rehash"} => so = built

\* What the run state is at each operation.
IterateInv ==
    /\ ~(op = "iterate" /\ step = "edit") => iter.local = {}
    /\ op = "iterate" /\ step # "finalize" => iter.rollback # None /\ iter.error = "none"
    /\ op \in Iterating => iter.id # 0
    /\ op = "approve" => /\ iter.rollback = None /\ iter.id # 0 /\ iter.verifier = "none"
                         /\ iter.verdict \in {"blocked", "infrastructure_failure"}
                         /\ Cardinality(DOMAIN blocked) < MaxBlocked
    /\ op = "finish" => iter.verdict \in {"promoted", "blocked"}
    /\ \A b, c \in iter.local : b.path = c.path => b = c
    /\ "so" \notin Paths(iter.local)
    /\ iter.mode = "plan" => iter.local = {}

\* The types TypeOK leaves open.
BlockedOK == blocked \in [DOMAIN blocked -> [verdict : {"blocked", "infrastructure_failure"},
                                             cand : Nat \cup {None}]]
SpentOK == spent \in [iterations : 0..MaxIterations, commands : Nat, crashes : Nat,
                      faults : Nat, stages : Nat]
MoreTypes == /\ BlockedOK /\ SpentOK /\ expected \in Nat \cup {None}
             /\ approved \in Trees /\ start \in [tree : Trees, synced : BOOLEAN]
             /\ lost \subseteq Files /\ unclean \in BOOLEAN
Types == TypeOK /\ MoreTypes
BaseInv == Types /\ ControlInv /\ IterateInv /\ BuiltOK

\* A file that is what was last promoted.
Safe(f) == src[f] = approved[f]
AllSafe == \A f \in Rest : Safe(f)

\* Every other file has a backup, and the journal's is of what was promoted.
\* Between the clearing of the journal and the taking of its candidate a
\* promotion has none.
SrcInv == ~At("take") => \A f \in Rest : Safe(f) \/ f \in Journalled \/ f \in Held
TakeInv == At("take") => journal = None
JournalInv ==
    journal # None => \A b \in journal.backups : b.path \in Rest => b.original = approved[b.path]

\* From here on the backups in memory are not needed any more.
DoneWithOwn ==
    \/ op = "finish" /\ step = "conclude"
    \/ op \in Undoing /\ step \in {"restored", "conclude", "errored"}
DoneInv == DoneWithOwn => \A f \in Rest : Safe(f) \/ f \in Journalled

\* A recovery that writes backups back has the others still to write, or the
\* journal still on disk.
ReplayInv ==
    sub = "replay" =>
        /\ restored
        /\ IF journal = None
           THEN /\ step = "restore_own"
                /\ \A f \in Rest : Safe(f) \/ f \in Paths(undo)
                /\ \A b \in undo : b.path \in Rest => b.original = approved[b.path]
           ELSE /\ ~Applied /\ undo \subseteq journal.backups
                /\ \A b \in journal.backups \ undo : b.path \in Files => src[b.path] = b.original
                /\ step = "restore_own" => \A f \in Rest : Safe(f) \/ f \in Journalled

\* When they are written, the journal is not needed any more.
Recovering == step \in {"restore", "restore_own"} /\ sub \notin {"none", "replay"}
RecoverInv ==
    /\ Recovering => \A f \in Rest : Safe(f) \/ (step = "restore" /\ f \in Held)
    /\ Recovering /\ sub \in {"mark", "wipe", "compile", "swap", "reindex"} => restored

\* Until the journal is complete: a file without a backup is as the iteration
\* found it, and what it found edited is in the journal it found.
EarlyStages == op = "iterate" /\ sub = "none" /\ step \in {"edit", "persist", "backup"}
EditInv ==
    EarlyStages =>
        /\ \A b \in iter.rollback : b.path \in Files => b.original = start.tree[b.path]
        /\ step = "edit" =>
             /\ \A f \in Files : f \notin Held => src[f] = start.tree[f]
             /\ \A b \in iter.local : b.path \in Paths(iter.rollback) \/ b.original = start.tree[b.path]
        /\ \A f \in Rest : f \notin Held => src[f] = start.tree[f]
        /\ \A f \in Rest : start.tree[f] # approved[f] =>
             f \in Journalled /\ journal.origin[f] = approved[f]

\* From the build on, the journal has every backup of the iteration.
LateStages ==
    op = "iterate" /\ \/ step = "backup" /\ sub # "none"
                      \/ step \in {"stage", "verify", "canary"}
                      \/ step = "finalize" /\ iter.error = "none"
LateInv == LateStages => /\ journal # None /\ ~Applied /\ iter.rollback # None
                         /\ Files \cap Held \subseteq Journalled

\* After a recovery without an error.
Recovered ==
    \/ op = "boot" /\ step \in {"refresh", "booted"}
    \/ op = "panic" /\ step = "restored"
    \/ op = "abandon"
    \/ op \in {"fail", "reject"} /\ step \in {"restored", "conclude"}
RecoveredInv == Recovered /\ ~unclean => AllSafe

RecInv == /\ SrcInv /\ TakeInv /\ JournalInv /\ JournalFaithful /\ DoneInv
          /\ ReplayInv /\ RecoverInv /\ EditInv /\ LateInv /\ RecoveredInv

\* The artifact is the build of the sources.  What is being put in place is one,
\* unless someone else edits them during an iteration.
Synced == so = src /\ Loadable
BuildInv ==
    /\ sub \in {"swap", "reindex", "rehash"} =>
         (op = "iterate" /\ lost # {}) \/ built = src
    /\ op = "boot" /\ step \in {"refresh", "booted"} /\ restored /\ ~unclean => Synced

\* The candidate of an iteration is staged, and is being promoted.
Staging == op = "iterate" /\ (step \in {"verify", "canary"} \/ (step = "finalize" /\ iter.error = "none"))
Promoting == op = "finish" /\ step \in {"promote", "clear", "take"}
StagedInv ==
    /\ op = "iterate" => \/ step \in {"edit", "persist", "backup"}
                         \/ step = "finalize" /\ iter.error # "none"
                         \/ so \in Trees /\ (lost = {} => so = src)
    /\ Staging \/ Promoting => cand # None /\ cand.build = so /\ Loadable /\ expected = cand.id
    /\ Promoting => /\ iter.verifier = "pass" /\ iter.canary # "fail" /\ iter.verified = src
                    /\ (lost = {} => so = src)
    /\ op = "finish" /\ step = "conclude" /\ iter.verdict = "promoted" =>
         Loadable /\ (lost = {} => so = src)

\* From the verdict of an iteration to the end of its rollback.
Deciding ==
    \/ op = "iterate" /\ step = "finalize"
    \/ op \in {"fail", "reject"} /\ step \in {"rollback", "restore", "drop", "rolled", "restore_own"}

\* Nothing is lost, the iteration began with its artifacts built and its recovery
\* has had no error: it has not touched the artifact yet, or has nothing to put
\* back, or rebuilds it.
Clean == lost = {} /\ start.synced /\ ~unclean
KeptEarly == EarlyStages => so = start.tree /\ Loadable
KeptWhole ==
    Deciding =>
        IF sub = "none"
        THEN /\ iter.rollback = None /\ journal = None => Synced
             /\ Applied /\ Files \cap Held = {} => Synced
        ELSE /\ sub \in {"unmark", "clear"} /\ ~restored
             /\ step = "restore_own" \/ Files \cap Held = {}
             => Synced
KeptEnd == op \in {"fail", "reject"} /\ step \in {"restored", "conclude"} => Synced
KeptInv == Clean => KeptEarly /\ KeptWhole /\ KeptEnd
ArtInv == BuildInv /\ StagedInv /\ KeptInv

\* The tables of control, entry by entry.
LEMMA Table ==
    /\ After["start"]["prepare"] = "load"
    /\ After["boot"]["restore"] = "refresh" /\ After["boot"]["refresh"] = "booted"
    /\ After["iterate"]["edit"] = "persist" /\ After["iterate"]["persist"] = "backup"
    /\ After["iterate"]["backup"] = "stage" /\ After["iterate"]["stage"] = "verify"
    /\ After["iterate"]["verify"] = "canary" /\ After["iterate"]["canary"] = "finalize"
    /\ \A o \in {"fail", "reject", "unpromote", "abandon", "undo"} :
          After[o]["restore"] = "drop" /\ After[o]["drop"] = "rolled"
    /\ \A o \in Undoing : After[o]["rolled"] = "restore_own"
    /\ After["abandon"]["rolled"] = "panicked" /\ After["undo"]["rolled"] = "done"
    /\ After["fail"]["restore_own"] = "restored" /\ After["fail"]["restored"] = "conclude"
    /\ After["reject"]["restore_own"] = "conclude"
    /\ After["unpromote"]["restore_own"] = "restored" /\ After["unpromote"]["restored"] = "errored"
    /\ After["panic"]["restore"] = "restored"
    /\ \A o \in {"finish", "promote", "approve"} :
          After[o]["promote"] = "clear" /\ After[o]["clear"] = "take"
    /\ After["finish"]["take"] = "conclude" /\ After["promote"]["take"] = "done"
    /\ After["approve"]["take"] = "approved" BY DEF After, RollBack, Stages, Promotion, Undoing

\* Which operation a step belongs to.
LEMMA Belongs ==
    ASSUME ControlInv
    PROVE  /\ step \in {"prepare", "load", "refused"} => op = "start"
           /\ step \in {"edit", "persist", "backup", "stage", "verify", "canary", "finalize"} => op = "iterate"
           /\ step \in {"refresh", "booted"} => op = "boot"
           /\ step \in {"promote", "clear", "take"} => op \in {"finish", "promote", "approve"}
           /\ step = "promote_failed" => op = "finish"
           /\ step \in {"rollback", "drop", "rolled"} => op \in Undoing \cup {"abandon", "undo"}
           /\ step = "restore" => op \in Undoing \cup {"abandon", "undo", "boot", "panic"}
           /\ step = "restore_own" => op \in Undoing
           /\ step = "restored" => op \in {"fail", "unpromote", "panic"}
           /\ step = "conclude" => op \in {"fail", "reject", "finish"}
           /\ step = "errored" => op \in {"reject", "unpromote"}
           /\ step = "panicked" => op = "abandon"
           /\ step = "done" => op \in {"undo", "promote"}
           /\ step = "command_failed" => op = "promote"
           /\ step \in {"approved", "reinsert"} => op = "approve"
           /\ step = "none" => op = "none"
           /\ op \in {"none", "start", "boot", "iterate", "fail", "reject", "unpromote", "finish",
                      "panic", "abandon", "undo", "promote", "approve"} BY DEF ControlInv, OpSteps, Undoing

\* An operation that goes on, goes on to a step of its own.
LEMMA ProceedsTo ==
    ASSUME ControlInv, Proceeds,
           step \in {"prepare", "restore", "refresh", "edit", "persist", "backup", "stage", "verify", "canary",
                     "drop", "rolled", "restore_own", "promote", "clear", "take"}
              \/ (step = "restored" /\ op # "panic")
    PROVE  /\ op' = op /\ sub' = "none" /\ step' = After[op][step]
           /\ op \in DOMAIN OpSteps /\ step' \in OpSteps[op]
           /\ step \notin {"promote", "clear"} => step' \notin {"clear", "take"}
  BY Belongs, Table DEF ControlInv, OpSteps, Proceeds, Runs, Undoing

\* An error takes an operation to a step of its own.
LEMMA RaisesTo ==
    ASSUME ControlInv, NEW state, NEW kind, RaisesIn(state, kind),
           op \notin {"none"}, op \notin {"start"} \/ step # "refused"
    PROVE  /\ op' = op /\ sub' = "none" /\ step' = Handler
           /\ op \in DOMAIN OpSteps /\ step' \in OpSteps[op] /\ step' \notin {"clear", "take"}
  BY Belongs DEF ControlInv, OpSteps, RaisesIn, Runs, Handler, Undoing

\* What follows a step of a recovery or build.
LEMMA SubTo ==
    ASSUME ControlInv, SubProceeds, sub # "none"
    PROVE  /\ sub = "replay" => Calls(IF journal = None THEN "wipe" ELSE "mark")
           /\ sub = "mark" => Calls("clear")
           /\ sub = "clear" => IF restored THEN Calls("unmark") ELSE Proceeds
           /\ sub = "unmark" => Calls(IF restored THEN "wipe" ELSE "clear")
           /\ sub = "wipe" => Calls("compile")
           /\ sub = "compile" => Calls("swap")
           /\ sub = "swap" => Calls(IF OnePlugin THEN "rehash" ELSE "reindex")
           /\ sub \in {"reindex", "rehash"} => Proceeds BY DEF SubProceeds, Replay, Building, ControlInv

\* A recovery or build keeps the operation where it can be.
LEMMA SubControl ==
    ASSUME ControlInv, SubProceeds, sub # "none", UNCHANGED <<up, iter, cand>>,
           sub # "clear" => journal' = journal
    PROVE  ControlInv' /\ op' = op
  <1>1. step \in {"restore", "restore_own", "prepare", "backup"}  BY DEF ControlInv
  <1>2. CASE Proceeds BY <1>1, <1>2, ProceedsTo DEF ControlInv, NoIteration
  <1>3. ASSUME NEW s, Calls(s),
               \/ s \in {"clear", "unmark"} /\ sub \in {"replay", "mark", "clear", "unmark"}
               \/ s = "mark" /\ sub = "replay" /\ journal # None
               \/ s \in {"wipe", "compile", "swap", "reindex"}
               \/ s = "rehash" /\ op = "iterate"
        PROVE ControlInv' /\ op' = op BY <1>1, Belongs, <1>3 DEF Undoing, ControlInv, Calls, NoIteration
  <1>4. OnePlugin => op = "iterate"  BY DEF OnePlugin
  <1>5. CASE sub = "replay" BY <1>5, SubTo, <1>3
  <1>6. CASE sub = "mark"  BY <1>3, <1>6, SubTo
  <1>7. CASE sub = "clear" BY <1>7, SubTo, <1>2, <1>3
  <1>8. CASE sub = "unmark" BY <1>8, SubTo, <1>3
  <1>9. CASE sub = "wipe"  BY <1>3, <1>9, SubTo
  <1>10. CASE sub = "compile"  BY <1>3, <1>10, SubTo
  <1>11. CASE sub = "swap" BY <1>4, <1>11, SubTo, <1>3
  <1>12. CASE sub \in {"reindex", "rehash"}  BY <1>2, <1>12, SubTo
  <1> QED BY <1>5, <1>6, <1>7, <1>8, <1>9, <1>10, <1>11, <1>12 DEF ControlInv

\* An error keeps it where it can be.
LEMMA RaiseControl ==
    ASSUME ControlInv, NEW state, NEW kind, RaisesIn(state, kind), op \in Iterating \/ state = iter,
           op # "none", op = "start" => step # "refused", up' = up, cand' = cand
    PROVE  ControlInv'
  <1>1. /\ op' = op /\ sub' = "none" /\ op \in DOMAIN OpSteps /\ step' \in OpSteps[op]
        /\ step' \notin {"clear", "take"} BY RaisesTo
  <1>2. op \notin Iterating => iter' = iter  BY DEF RaisesIn, Iterating
  <1> QED  BY <1>1, <1>2 DEF ControlInv, NoIteration

\* The kinds of error finalize tells apart.
Errors == {"stage", "infrastructure"}

\* What an error leaves of the iteration.
LEMMA RaiseIter ==
    ASSUME NEW state \in IterationType, NEW kind \in Errors, RaisesIn(state, kind)
    PROVE  /\ iter' \in IterationType
           /\ iter'.local = state.local /\ iter'.rollback = state.rollback /\ iter'.id = state.id
           /\ iter'.verifier = state.verifier /\ iter'.verdict = state.verdict
           /\ op = "iterate" => iter'.error = kind
           /\ op # "iterate" => iter' = state
           /\ unclean' = (unclean \/ op # "iterate") BY DEF RaisesIn, IterationType, Errors

\* What a fault of the machine leaves of the iteration.
LEMMA FaultIter ==
    ASSUME Types, NEW state \in IterationType, NEW kind, FaultIn(kind, state)
    PROVE  /\ iter' \in IterationType
           /\ iter'.local = state.local /\ iter'.rollback = state.rollback
           /\ unclean' \in BOOLEAN /\ SpentOK'
           /\ \E error \in Errors : RaisesIn(state, error)
  <1>1. SpentOK'  BY DEF Types, MoreTypes, FaultIn, Happens, SpentOK
  <1>2. PICK error \in Errors : RaisesIn(state, error)  BY DEF FaultIn, Errors
  <1>3. unclean' \in BOOLEAN  BY <1>2 DEF RaisesIn, Types, MoreTypes
  <1> QED  BY <1>1, <1>2, <1>3, RaiseIter

-----------------------------------------------------------------------------
(* The types.                                                              *)

\* A build keeps the types.
LEMMA BuildTypes ==
    ASSUME BaseInv, Build PROVE Types'
  <1> USE DEF BaseInv
  <1>1. CASE Prepare BY <1>1 DEF Types, TypeOK, MoreTypes, Prepare, disk, memory, history, BlockedOK, SpentOK
  <1>2. ASSUME \/ UNCHANGED <<iter, spent, unclean>>
               \/ Raises("stage") /\ UNCHANGED spent
               \/ Fault("build")
        PROVE  iter' \in IterationType /\ iter'.rollback = iter.rollback /\ unclean' \in BOOLEAN /\ SpentOK'
    BY <1>2, RaiseIter, FaultIter DEF Types, TypeOK, MoreTypes, SpentOK, Fault, Raises, Errors
  <1>3. CASE Wipe BY <1>2, <1>3 DEF Wipe, Types, TypeOK, MoreTypes, BlockedOK
  <1>4. CASE Compile BY <1>2, <1>4 DEF Compile, Types, TypeOK, MoreTypes, BlockedOK, disk
  <1>5. CASE Swap BY <1>2, <1>5 DEF Swap, In, BuiltOK, Types, TypeOK, MoreTypes, BlockedOK
  <1>6. CASE WriteIndex
    <2>1. iter' \in IterationType /\ iter'.rollback = iter.rollback /\ unclean' \in BOOLEAN /\ SpentOK'
      BY <1>2, <1>6 DEF WriteIndex
    <2>2. built \in Trees /\ so \in Trees  BY <1>6 DEF WriteIndex, In, BuiltOK
    <2>3. index' \in [hash : Trees, finger : Trees] \cup {None}
      BY <1>6, <2>2, NoneAssumption DEF WriteIndex, Types, TypeOK
    <2> QED  BY <1>6, <2>1, <2>3 DEF Types, TypeOK, MoreTypes, WriteIndex, BlockedOK
  <1> QED  BY <1>1, <1>3, <1>4, <1>5, <1>6 DEF Build

\* So does a recovery.
LEMMA RecoverTypes ==
    ASSUME BaseInv, Recover PROVE Types'
  <1> USE DEF BaseInv
  <1>2. ASSUME \/ UNCHANGED <<iter, spent, unclean>>
               \/ Fault("restore")
        PROVE  iter' \in IterationType /\ iter'.rollback = iter.rollback /\ unclean' \in BOOLEAN /\ SpentOK'
    BY <1>2, FaultIter DEF Types, TypeOK, MoreTypes, SpentOK, Fault
  <1>3. CASE Restore
    <2>1. undo' \in SUBSET Backup /\ restored' \in BOOLEAN
      BY <1>3, NoneAssumption DEF Restore, Types, TypeOK, IterationType
    <2>2. Uncovered \subseteq Files /\ Unapproved(iter.rollback) \subseteq Files BY DEF Uncovered, Unapproved
    <2>3. lost' \subseteq Files  BY <1>3, <2>2 DEF Restore, Types, MoreTypes
    <2> QED  BY <1>3, <2>1, <2>3 DEF Types, TypeOK, MoreTypes, Restore, BlockedOK, SpentOK, disk
  <1>4. CASE WriteBack
    <2>1. iter' \in IterationType /\ iter'.rollback = iter.rollback /\ unclean' \in BOOLEAN /\ SpentOK'
      BY <1>2, <1>4 DEF WriteBack
    <2>2. lost' \subseteq Files  BY <1>4 DEF WriteBack, Types, MoreTypes
    <2>3. src' \in Trees /\ so' \in Trees \cup {None} /\ undo' \in SUBSET Backup
      <3>1. CASE UNCHANGED <<src, so, undo>>  BY <3>1 DEF Types, TypeOK
      <3>2. ASSUME NEW backup \in undo,
                   IF backup.path = "so"
                   THEN so' = backup.original /\ UNCHANGED src
                   ELSE src' = [src EXCEPT ![backup.path] = backup.original] /\ UNCHANGED so,
                   undo' = undo \ {backup}
            PROVE src' \in Trees /\ so' \in Trees \cup {None} /\ undo' \in SUBSET Backup
        <4>1. backup \in Backup  BY DEF Types, TypeOK
        <4>2. CASE backup.path = "so" BY <3>2, <4>1, <4>2, KnownNames DEF Backup, Types, TypeOK
        <4>3. CASE backup.path # "so" BY <3>2, <4>1, <4>3 DEF Backup, Types, TypeOK, Trees
        <4> QED BY <4>2, <4>3
      <3> QED  BY <1>4, <3>1, <3>2 DEF WriteBack
    <2> QED  BY <1>4, <2>1, <2>2, <2>3 DEF Types, TypeOK, MoreTypes, WriteBack, BlockedOK
  <1>5. CASE Mark
    <2>1. marker' \in {0, 1, None} BY <1>5 DEF Mark, In, ControlInv, Types, TypeOK
    <2>2. SpentOK'  BY <1>5 DEF Mark, Tolerated, Happens, SpentOK, Types, MoreTypes
    <2> QED  BY <1>5, <2>1, <2>2 DEF Types, TypeOK, MoreTypes, Mark, BlockedOK, memory, history
  <1>6. CASE ClearJournal BY <1>2, <1>6 DEF ClearJournal, Types, TypeOK, MoreTypes, BlockedOK
  <1> QED  BY <1>3, <1>4, <1>5, <1>6 DEF Recover

\* The run state outside an iteration.
LEMMA EmptyIteration ==
    NoIteration \in IterationType /\ NoIteration.rollback = None /\ NoIteration.local = {}
    /\ NoIteration.id = 0 /\ NoIteration.verifier = "none" /\ NoIteration.error = "none"
  BY Bounds, NoneAssumption DEF NoIteration, IterationType

\* Starting, loading, crashing and settling keep the types.
LEMMA HostTypes ==
    ASSUME BaseInv, Host PROVE Types'
  <1> USE DEF BaseInv
  <1>1. CASE Start
    <2>1. UNCHANGED <<disk, memory, spent, approved, start, passed, lost>> /\ unclean' \in BOOLEAN
      BY <1>1 DEF Start
    <2>2. TypeOK'  BY <2>1 DEF disk, memory, Types, TypeOK
    <2>3. MoreTypes'  BY <2>1 DEF disk, memory, Types, MoreTypes, BlockedOK, SpentOK
    <2> QED  BY <2>2, <2>3 DEF Types
  <1>2. CASE Load
    <2>1. iter' \in IterationType /\ iter'.rollback = iter.rollback /\ unclean' \in BOOLEAN
      BY <1>2, RaiseIter DEF Load, Types, TypeOK, MoreTypes, Raises, Errors
    <2>2. up' \in BOOLEAN /\ (up' => live' \in Trees) BY <1>2 DEF Load, Types, TypeOK, Loadable
    <2> QED  BY <1>2, <2>1, <2>2 DEF Types, TypeOK, MoreTypes, Load, disk, BlockedOK, SpentOK
  <1>3. CASE Refresh
    BY <1>3 DEF Types, TypeOK, MoreTypes, Refresh, disk, history, BlockedOK, SpentOK, Loadable
  <1>4. CASE Crash
    <2>1. /\ DOMAIN blocked' = {} /\ BlockedOK' /\ Cardinality(DOMAIN blocked') <= MaxBlocked
      BY <1>4, FS_EmptySet, Bounds DEF Crash, BlockedOK
    <2>2. lost' \subseteq Files  BY <1>4 DEF Crash, Types, MoreTypes, Uncovered, Cleared
    <2>3. SpentOK'  BY <1>4 DEF Crash, Happens, SpentOK, Types, MoreTypes
    <2> QED  BY <1>4, <2>1, <2>2, <2>3, EmptyIteration DEF Types, TypeOK, MoreTypes, Crash, disk
  <1>5. CASE Settle
    <2>1. iter' = iter \/ iter' = NoIteration  BY <1>5 DEF Settle
    <2> QED  BY <1>5, <2>1, EmptyIteration
             DEF Types, TypeOK, MoreTypes, Settle, disk, history, BlockedOK, SpentOK
  <1> QED  BY <1>1, <1>2, <1>3, <1>4, <1>5 DEF Host

\* A rollback has one backup per path, whatever it absorbs.
LEMMA AbsorbKeeps ==
    ASSUME NEW s \in SUBSET Backup, NEW t \in SUBSET Backup,
           \A b, c \in s : b.path = c.path => b = c,
           \A b, c \in t : b.path = c.path => b = c
    PROVE  /\ Absorb(s, t) \in SUBSET Backup /\ s \subseteq Absorb(s, t)
           /\ Paths(Absorb(s, t)) = Paths(s) \cup Paths(t)
           /\ \A b, c \in Absorb(s, t) : b.path = c.path => b = c BY DEF Absorb, Paths

\* A new journal is one, and the marker is not its.
LEMMA JournalTyped ==
    ASSUME Types, NEW backups \in SUBSET Backup
    PROVE  /\ Journal(backups) \in [backups : SUBSET Backup, gen : {0, 1}, origin : Trees]
           /\ Journal(backups).backups = backups /\ Journal(backups).origin = start.tree
           /\ Journal(backups).gen # marker /\ Journal(backups) # None
  BY NoneAssumption DEF Journal, Fresh, Types, TypeOK, MoreTypes

\* An edit keeps the types: Absorb adds one backup of a path at most.
LEMMA EditTypes ==
    ASSUME BaseInv, NEW f \in Files, NEW v \in Versions, Edit(f, v) PROVE Types'
  <1> USE DEF BaseInv
  <1>1. op = "iterate" /\ iter.rollback # None  BY Belongs DEF Edit, At, IterateInv
  <1>2. PICK backup : backup = [path |-> f, original |-> src[f]]  OBVIOUS
  <1>3. {backup} \in SUBSET Backup  BY <1>2 DEF Backup, Types, TypeOK, Trees
  <1>4. iter.rollback \in SUBSET Backup /\ iter.local \in SUBSET Backup /\ iter.edits + 1 \in 0..MaxEdits
    BY <1>1, Bounds DEF Types, TypeOK, IterationType, Edit
  <1>5. /\ Absorb(iter.rollback, {backup}) \in SUBSET Backup /\ Absorb(iter.local, {backup}) \in SUBSET Backup
        /\ \A b, c \in Absorb(iter.rollback, {backup}) : b.path = c.path => b = c
        /\ \A b, c \in Absorb(iter.local, {backup}) : b.path = c.path => b = c
    BY <1>1, <1>3, <1>4, AbsorbKeeps DEF Types, TypeOK, IterateInv
  <1>6. iter' \in IterationType /\ \A b, c \in iter'.rollback : b.path = c.path => b = c
    <2>1. CASE iter.mode = "plan" BY <1>2, <2>1, <1>4, <1>5, ZenonT(60) DEF Edit, Types, TypeOK, IterationType
    <2>2. CASE iter.mode # "plan" BY <1>2, <2>2, <1>1, <1>4, <1>5 DEF Edit, Types, TypeOK, IterationType
    <2> QED  BY <2>1, <2>2
  <1>7. src' \in Trees  BY DEF Edit, Types, TypeOK, Trees
  <1>8. TypeOK'  BY <1>6, <1>7 DEF Types, TypeOK, Edit
  <1>9. MoreTypes'  BY DEF Types, MoreTypes, Edit, BlockedOK, SpentOK, history
  <1> QED  BY <1>8, <1>9 DEF Types

\* What is added to lost are files.
LEMMA OverwrittenFiles == Overwritten \subseteq Files /\ Uncovered \subseteq Files /\ Cleared \subseteq Files
  BY DEF Overwritten, Uncovered, Cleared

\* The end of a batch and its refusal keep the types.
LEMMA BatchTypes ==
    ASSUME BaseInv, EndBatch \/ RefuseBatch PROVE Types'
  <1> USE DEF BaseInv
  <1>1. op = "iterate" /\ iter.rollback # None  BY Belongs DEF EndBatch, RefuseBatch, At, IterateInv
  <1>2. /\ iter.rollback \in SUBSET Backup /\ iter.local \in SUBSET Backup
        /\ iter.changed \in SUBSET Files BY <1>1 DEF Types, TypeOK, IterationType
  <1>3. CASE EndBatch
    <2>1. /\ Absorb(iter.rollback, iter.local) \in SUBSET Backup
          /\ \A b, c \in Absorb(iter.rollback, iter.local) : b.path = c.path => b = c
      BY <1>1, <1>2, AbsorbKeeps DEF Types, TypeOK, IterateInv
    <2>2. PICK kept : kept = [iter EXCEPT !.rollback = Absorb(@, iter.local), !.local = {}]  OBVIOUS
    <2>3. kept \in IterationType /\ kept.rollback = Absorb(iter.rollback, iter.local) /\ kept.local = {}
      BY <2>1, <2>2 DEF Types, TypeOK, IterationType
    <2>4. SpentOK'  BY <1>3 DEF EndBatch, Happens, SpentOK, Types, MoreTypes
    <2>5. CASE /\ journal' = Journal(kept.rollback) /\ lost' = lost \cup Overwritten
               /\ iter' = [kept EXCEPT !.changed = @ \cup Paths(iter.local)]
      <3>1. Paths(iter.local) \subseteq Files BY <1>2 DEF Paths, Backup, IterateInv
      <3>2. /\ iter' \in IterationType /\ iter'.rollback = kept.rollback BY <2>3, <2>5, <3>1 DEF IterationType
      <3>3. journal' \in [backups : SUBSET Backup, gen : {0, 1}, origin : Trees]
        BY <2>1, <2>3, <2>5, JournalTyped
      <3>4. lost' \subseteq Files  BY <2>5, OverwrittenFiles DEF Types, MoreTypes
      <3> QED  BY <1>3, <2>1, <2>3, <2>4, <3>2, <3>3, <3>4
               DEF Types, TypeOK, MoreTypes, EndBatch, BlockedOK
    <2>6. CASE iter' = kept /\ UNCHANGED <<journal, lost>>
      BY <1>3, <2>1, <2>3, <2>4, <2>6 DEF Types, TypeOK, MoreTypes, EndBatch, BlockedOK
    <2> QED  BY <1>3, <2>2, <2>5, <2>6 DEF EndBatch
  <1>4. CASE RefuseBatch
    <2>1. \A f \in Paths(iter.local) : (CHOOSE b \in iter.local : b.path = f).original \in Versions
      <3> SUFFICES ASSUME NEW f \in Paths(iter.local)
                   PROVE  (CHOOSE b \in iter.local : b.path = f).original \in Versions OBVIOUS
      <3>1. PICK b \in iter.local : b = CHOOSE x \in iter.local : x.path = f  BY DEF Paths
      <3>2. b.path # "so" /\ b \in Backup  BY <1>2, <3>1 DEF IterateInv, Paths
      <3> QED  BY <3>1, <3>2 DEF Backup
    <2>2. src' \in Trees  BY <1>4, <2>1 DEF RefuseBatch, Types, TypeOK, Trees
    <2>3. iter' \in IterationType /\ iter'.rollback = iter.rollback
      BY <1>4 DEF RefuseBatch, Types, TypeOK, IterationType
    <2> QED  BY <1>4, <2>2, <2>3 DEF Types, TypeOK, MoreTypes, RefuseBatch, BlockedOK, SpentOK, history
  <1> QED  BY <1>3, <1>4

\* The stages up to the candidate keep the types.
LEMMA StageTypes ==
    ASSUME BaseInv, EndEdits \/ Persist \/ BackupArtifacts \/ Stage PROVE Types'
  <1> USE DEF BaseInv
  <1>1. CASE EndEdits
    <2>1. [iter EXCEPT !.rollback = None] \in IterationType /\ [iter EXCEPT !.rollback = None].rollback = None
      BY DEF Types, TypeOK, IterationType
    <2>2. iter' \in IterationType /\ iter'.rollback \in {iter.rollback, None} /\ unclean' \in BOOLEAN
      BY <1>1, <2>1, RaiseIter DEF EndEdits, Types, TypeOK, MoreTypes, Raises, Errors
    <2>3. lost' \subseteq Files  BY <1>1, OverwrittenFiles DEF EndEdits, Types, MoreTypes
    <2> QED  BY <1>1, <2>2, <2>3 DEF Types, TypeOK, MoreTypes, EndEdits, disk, BlockedOK, SpentOK
  <1>2. CASE Persist
    <2>0. iter.rollback \in SUBSET Backup
      BY <1>2, Belongs DEF Persist, At, IterateInv, Types, TypeOK, IterationType
    <2>1. iter' \in IterationType /\ iter'.rollback = iter.rollback /\ unclean' \in BOOLEAN /\ SpentOK'
      BY <1>2, FaultIter DEF Persist, Types, TypeOK, MoreTypes, SpentOK, Fault
    <2>2. journal' \in [backups : SUBSET Backup, gen : {0, 1}, origin : Trees] \cup {None}
      BY <1>2, <2>0, JournalTyped DEF Persist, Types, TypeOK
    <2>3. lost' \subseteq Files  BY <1>2, OverwrittenFiles DEF Persist, Types, MoreTypes
    <2> QED  BY <1>2, <2>1, <2>2, <2>3 DEF Types, TypeOK, MoreTypes, Persist, BlockedOK
  <1>3. CASE BackupArtifacts
    <2>0. iter.rollback \in SUBSET Backup /\ iter.rollback # None
      BY <1>3, Belongs DEF BackupArtifacts, At, IterateInv, Types, TypeOK, IterationType
    <2>1. PICK kept : kept = [iter EXCEPT !.rollback = IF iter.root \/ so = None THEN @
                                ELSE Absorb(@, {[path |-> "so", original |-> so]})]  OBVIOUS
    <2>2. so # None => {[path |-> "so", original |-> so]} \in SUBSET Backup BY DEF Types, TypeOK, Backup
    <2>3. kept \in IterationType /\ kept.rollback \in SUBSET Backup
          /\ \A b, c \in kept.rollback : b.path = c.path => b = c
      <3>1. CASE iter.root \/ so = None BY <2>1, <3>1, <2>0 DEF Types, TypeOK, IterationType
      <3>2. CASE ~(iter.root \/ so = None)
        <4>1. kept = [iter EXCEPT !.rollback = Absorb(@, {[path |-> "so", original |-> so]})] BY <2>1, <3>2
        <4>2. PICK b : b = [path |-> "so", original |-> so]  OBVIOUS
        <4>3. Absorb(iter.rollback, {b}) \in SUBSET Backup
              /\ \A x, y \in Absorb(iter.rollback, {b}) : x.path = y.path => x = y
          BY <2>0, <2>2, <3>2, <4>2, AbsorbKeeps DEF Types, TypeOK
        <4> QED  BY <4>1, <4>2, <4>3 DEF Types, TypeOK, IterationType
      <3> QED  BY <3>1, <3>2
    <2>4. iter' \in IterationType /\ iter'.rollback = kept.rollback /\ unclean' \in BOOLEAN /\ SpentOK'
      BY <1>3, <2>1, <2>3, FaultIter DEF BackupArtifacts, Types, TypeOK, MoreTypes, SpentOK
    <2>5. journal' \in [backups : SUBSET Backup, gen : {0, 1}, origin : Trees] \cup {None}
      <3>1. journal' = Journal(kept.rollback) \/ journal' = journal  BY <1>3, <2>1 DEF BackupArtifacts
      <3> QED  BY <2>3, <3>1, JournalTyped DEF Types, TypeOK
    <2>6. lost' \subseteq Files  BY <1>3, OverwrittenFiles DEF BackupArtifacts, Types, MoreTypes
    <2> QED  BY <1>3, <2>3, <2>4, <2>5, <2>6 DEF Types, TypeOK, MoreTypes, BackupArtifacts, BlockedOK
  <1>4. CASE Stage
    <2>1. iter' \in IterationType /\ iter'.rollback = iter.rollback /\ unclean' \in BOOLEAN
      BY <1>4, RaiseIter DEF Stage, Types, TypeOK, MoreTypes, Raises, Errors
    <2>2. SpentOK' /\ cand' \in [id : Nat, build : Trees] \cup {None} /\ expected' \in Nat \cup {None}
      BY <1>4 DEF Stage, Staged, Loadable, Happens, SpentOK, Types, TypeOK, MoreTypes
    <2> QED  BY <1>4, <2>1, <2>2 DEF Types, TypeOK, MoreTypes, Stage, disk, BlockedOK
  <1> QED  BY <1>1, <1>2, <1>3, <1>4

\* The checks, the verdict and a panic keep the types.
LEMMA CheckTypes ==
    ASSUME BaseInv, Verify \/ Canary \/ Finalize \/ PromoteFailed \/ Panic PROVE Types'
  <1> USE DEF BaseInv
  <1>1. CASE Verify
    <2>1. iter' \in IterationType /\ iter'.rollback = iter.rollback /\ unclean' \in BOOLEAN /\ SpentOK'
      <3>1. CASE \E verdict \in {"pass", "fail"} : iter' = [iter EXCEPT !.verifier = verdict, !.verified = src]
                    /\ UNCHANGED <<spent, unclean>>
        <4>1. PICK verdict \in {"pass", "fail"} : iter' = [iter EXCEPT !.verifier = verdict, !.verified = src]
          BY <3>1
        <4>2. iter \in IterationType /\ src \in Trees  BY DEF Types, TypeOK
        <4>3. iter' \in IterationType /\ iter'.rollback = iter.rollback  BY <4>1, <4>2 DEF IterationType
        <4> QED  BY <3>1, <4>3 DEF Types, MoreTypes, SpentOK
      <3>2. CASE iter' = [iter EXCEPT !.verifier = "pass"] /\ Tolerated("hash") /\ UNCHANGED unclean
        BY <3>2 DEF Types, TypeOK, MoreTypes, SpentOK, IterationType, Tolerated, Happens
      <3>3. CASE Fault("verify") BY <3>3, FaultIter DEF Fault, Types, TypeOK
      <3> QED  BY <1>1, <3>1, <3>2, <3>3 DEF Verify
    <2> QED  BY <1>1, <2>1 DEF Types, TypeOK, MoreTypes, Verify, disk, BlockedOK
  <1>2. CASE Canary
    <2>1. iter' \in IterationType /\ iter'.rollback = iter.rollback /\ unclean' \in BOOLEAN
      <3>1. CASE \E verdict \in Canaries : iter' = [iter EXCEPT !.canary = verdict] /\ UNCHANGED unclean
        BY <3>1 DEF Types, TypeOK, MoreTypes, IterationType
      <3>2. CASE Raises("stage") BY <3>2, RaiseIter DEF Types, TypeOK, MoreTypes, Raises, Errors
      <3> QED  BY <1>2, <3>1, <3>2 DEF Canary
    <2> QED  BY <1>2, <2>1 DEF Types, TypeOK, MoreTypes, Canary, disk, BlockedOK, SpentOK
  <1>3. CASE Finalize
    <2>1. Verdict \in {"promoted", "rolled_back", "blocked", "infrastructure_failure"}  BY DEF Verdict
    <2>2. iter' \in IterationType /\ iter'.rollback = iter.rollback
      BY <1>3, <2>1 DEF Finalize, Types, TypeOK, IterationType
    <2> QED  BY <1>3, <2>2 DEF Types, TypeOK, MoreTypes, Finalize, disk, BlockedOK, SpentOK
  <1>4. CASE PromoteFailed
    BY <1>4 DEF Types, TypeOK, MoreTypes, PromoteFailed, disk, memory, history, BlockedOK, SpentOK
  <1>5. CASE Panic
    <2>1. lost' \subseteq Files  BY <1>5, OverwrittenFiles DEF Panic, Types, MoreTypes
    <2>2. SpentOK'  BY <1>5 DEF Panic, Happens, SpentOK, Types, MoreTypes
    <2> QED  BY <1>5, <2>1, <2>2, EmptyIteration DEF Types, TypeOK, MoreTypes, Panic, disk, BlockedOK
  <1> QED  BY <1>1, <1>2, <1>3, <1>4, <1>5

\* Someone else's edit keeps the types.
LEMMA DriftTypes ==
    ASSUME BaseInv, NEW f \in Files, NEW v \in Versions, Drift(f, v) PROVE Types'
  <1>1. src' \in Trees  BY DEF Drift, BaseInv, Types, TypeOK, Trees
  <1>2. SpentOK' /\ lost' \subseteq Files  BY DEF Drift, Happens, SpentOK, BaseInv, Types, MoreTypes
  <1> QED  BY <1>1, <1>2 DEF BaseInv, Types, TypeOK, MoreTypes, Drift, memory, BlockedOK

\* What is kept of a blocked iteration.
Entry == [verdict : {"blocked", "infrastructure_failure"}, cand : Nat \cup {None}]

\* The blocked iterations are few, and fewer when one is taken out.
LEMMA BlockedFinite ==
    ASSUME Types
    PROVE  /\ IsFiniteSet(DOMAIN blocked) /\ Cardinality(DOMAIN blocked) \in Nat
           /\ \A i : /\ DOMAIN Without(i) = DOMAIN blocked \ {i}
                     /\ Cardinality(DOMAIN blocked \ {i}) <= Cardinality(DOMAIN blocked)
                     /\ i \in DOMAIN blocked => Cardinality(DOMAIN blocked \ {i}) < Cardinality(DOMAIN blocked)
                     /\ Without(i) \in [DOMAIN Without(i) -> Entry]
  <1>1. DOMAIN blocked \subseteq 1..MaxIterations  BY DEF Types, TypeOK
  <1>2. IsFiniteSet(1..MaxIterations)
    <2>1. MaxIterations \in Int /\ 1 \in Int  BY Bounds
    <2> QED  BY <2>1, FS_Interval
  <1>3. IsFiniteSet(DOMAIN blocked) /\ Cardinality(DOMAIN blocked) \in Nat
    BY <1>1, <1>2, FS_Subset, FS_CardinalityType
  <1> SUFFICES ASSUME NEW i
               PROVE /\ DOMAIN Without(i) = DOMAIN blocked \ {i}
                     /\ Cardinality(DOMAIN blocked \ {i}) <= Cardinality(DOMAIN blocked)
                     /\ i \in DOMAIN blocked => Cardinality(DOMAIN blocked \ {i}) < Cardinality(DOMAIN blocked)
                     /\ Without(i) \in [DOMAIN Without(i) -> Entry] BY <1>3
  <1>4. DOMAIN Without(i) = DOMAIN blocked \ {i}  BY DEF Without
  <1>5. Without(i) \in [DOMAIN Without(i) -> Entry] BY <1>4 DEF Without, Types, MoreTypes, BlockedOK, Entry
  <1>6. CASE i \in DOMAIN blocked
    <2>1. Cardinality(DOMAIN blocked \ {i}) = Cardinality(DOMAIN blocked) - 1 BY <1>3, <1>6, FS_RemoveElement
    <2> QED  BY <1>3, <1>4, <1>5, <2>1
  <1>7. CASE i \notin DOMAIN blocked BY <1>7, <1>3, <1>4, <1>5
  <1> QED  BY <1>6, <1>7

\* Recording one more drops the oldest of too many.
LEMMA RecordedTypes ==
    ASSUME Types, NEW i \in 1..MaxIterations, NEW entry \in Entry
    PROVE  LET r == Recorded(i, entry) IN
           /\ DOMAIN r \subseteq 1..MaxIterations /\ Cardinality(DOMAIN r) <= MaxBlocked
           /\ r \in [DOMAIN r -> Entry]
  <1>1. PICK all : all = [k \in DOMAIN blocked \cup {i} |-> IF k = i THEN entry ELSE blocked[k]]  OBVIOUS
  <1>2. DOMAIN all = DOMAIN blocked \cup {i}  BY <1>1
  <1>3. DOMAIN all \subseteq 1..MaxIterations /\ \A k \in DOMAIN all : all[k] \in Entry
    BY <1>1, <1>2 DEF Types, TypeOK, MoreTypes, BlockedOK, Entry
  <1>4. IsFiniteSet(DOMAIN all) /\ Cardinality(DOMAIN all) \in Nat /\ Cardinality(DOMAIN blocked) \in Nat
        /\ Cardinality(DOMAIN all) <= Cardinality(DOMAIN blocked) + 1
    <2>1. IsFiniteSet(DOMAIN blocked) /\ Cardinality(DOMAIN blocked) \in Nat  BY BlockedFinite
    <2>2. /\ IsFiniteSet(DOMAIN blocked \cup {i})
          /\ \/ Cardinality(DOMAIN blocked \cup {i}) = Cardinality(DOMAIN blocked)
             \/ Cardinality(DOMAIN blocked \cup {i}) = Cardinality(DOMAIN blocked) + 1 BY <2>1, FS_AddElement
    <2> QED  BY <1>2, <2>1, <2>2
  <1>5. CASE Cardinality(DOMAIN all) <= MaxBlocked BY <1>1, <1>5, <1>2, <1>3 DEF Recorded
  <1>6. CASE ~(Cardinality(DOMAIN all) <= MaxBlocked)
    <2>1. PICK oldest : oldest = CHOOSE k \in DOMAIN all : \A j \in DOMAIN all : k <= j  OBVIOUS
    <2>2. Recorded(i, entry) = [k \in DOMAIN all \ {oldest} |-> all[k]]  BY <1>1, <1>6, <2>1 DEF Recorded
    <2>3. \E k \in DOMAIN all : \A j \in DOMAIN all : k <= j BY <1>2, <1>3, LeastOf
    <2>4. oldest \in DOMAIN all  BY <2>1, <2>3
    <2>5. Cardinality(DOMAIN all \ {oldest}) = Cardinality(DOMAIN all) - 1 BY <1>4, <2>4, FS_RemoveElement
    <2>6. Cardinality(DOMAIN blocked) <= MaxBlocked  BY DEF Types, TypeOK
    <2>7. Cardinality(DOMAIN all \ {oldest}) <= MaxBlocked BY <1>4, <2>5, <2>6, Bounds
    <2> QED  BY <1>3, <2>2, <2>7
  <1> QED  BY <1>5, <1>6

\* The record of an outcome keeps the types.
LEMMA ConcludeTypes ==
    ASSUME BaseInv, Conclude PROVE Types'
  <1> USE DEF BaseInv
  <1>1. iter.id \in 1..MaxIterations
    BY Belongs, Bounds DEF Conclude, At, IterateInv, Types, TypeOK, IterationType, Iterating
  <1>2. /\ DOMAIN blocked' \subseteq 1..MaxIterations /\ Cardinality(DOMAIN blocked') <= MaxBlocked
        /\ blocked' \in [DOMAIN blocked' -> Entry]
    <2>1. CASE iter.verdict \in {"blocked", "infrastructure_failure"}
      BY <2>1, <1>1, RecordedTypes DEF Entry, Types, MoreTypes, Conclude
    <2>2. CASE iter.verdict \notin {"blocked", "infrastructure_failure"}
      <3>1. blocked' = Without(iter.id)  BY <2>2 DEF Conclude
      <3>2. DOMAIN blocked' = DOMAIN blocked \ {iter.id} /\ blocked' \in [DOMAIN blocked' -> Entry]
            /\ Cardinality(DOMAIN blocked') <= Cardinality(DOMAIN blocked)
            /\ Cardinality(DOMAIN blocked') \in Nat /\ Cardinality(DOMAIN blocked) \in Nat
        BY <3>1, BlockedFinite, FS_RemoveElement, FS_CardinalityType
      <3> QED  BY <3>2, Bounds DEF Types, TypeOK
    <2> QED  BY <2>1, <2>2
  <1> QED  BY <1>2, EmptyIteration DEF Types, TypeOK, MoreTypes, Conclude, disk, history, BlockedOK, SpentOK, Entry

\* What happens to a candidate keeps the types.
LEMMA CandidateTypes ==
    ASSUME BaseInv, \/ Promote \/ TakeCandidate \/ RollbackCandidate \/ DropCandidate
                    \/ LoadCommand \/ CandidateCommand
    PROVE  Types'
  <1> USE DEF BaseInv
  <1>1. ASSUME \/ UNCHANGED <<iter, unclean>>
               \/ Raises("stage")
        PROVE  iter' \in IterationType /\ iter'.rollback = iter.rollback /\ unclean' \in BOOLEAN
    BY <1>1, RaiseIter DEF Types, TypeOK, MoreTypes, Raises, Errors
  <1>2. CASE Promote BY <1>1, <1>2 DEF Promote, Types, TypeOK, MoreTypes, disk, BlockedOK, SpentOK
  <1>3. CASE TakeCandidate
    <2>1. iter' \in IterationType /\ iter'.rollback = iter.rollback /\ unclean' \in BOOLEAN
      BY <1>1, <1>3 DEF TakeCandidate
    <2>2. cand \in [id : Nat, build : Trees]  BY <1>3 DEF TakeCandidate, At, ControlInv, Types, TypeOK
    <2>3. /\ lost' \subseteq Files /\ approved' \in Trees /\ (up' => live' \in Trees)
          /\ cand' \in [id : Nat, build : Trees] \cup {None}
      BY <1>3, <2>2, OverwrittenFiles DEF TakeCandidate, Types, TypeOK, MoreTypes
    <2> QED  BY <1>3, <2>1, <2>3 DEF Types, TypeOK, MoreTypes, TakeCandidate, disk, BlockedOK, SpentOK
  <1>4. CASE RollbackCandidate
    BY <1>1, <1>4 DEF RollbackCandidate, Types, TypeOK, MoreTypes, disk, BlockedOK, SpentOK
  <1>5. CASE DropCandidate
    BY <1>5 DEF Types, TypeOK, MoreTypes, DropCandidate, disk, history, BlockedOK, SpentOK
  <1>6. CASE LoadCommand
    <2>1. /\ SpentOK' /\ cand' \in [id : Nat, build : Trees] \cup {None}
          /\ (up' => live' \in Trees)
      <3>1. /\ cand' \in [id : Nat, build : Trees] \cup {None}
            /\ (up' => live' \in Trees)
        BY <1>6 DEF LoadCommand, Staged, Loadable, SpentOK, Types, TypeOK, MoreTypes
      <3>2. SpentOK'
        <4>1. CASE spent' = [spent EXCEPT !.commands = @ + 1] BY <4>1 DEF SpentOK, Types, MoreTypes
        <4>2. CASE spent' = [spent EXCEPT !.commands = @ + 1, !.stages = @ + 1]
          <5>1. PICK once : once = [spent EXCEPT !.commands = @ + 1]  OBVIOUS
          <5>2. once \in [iterations : 0..MaxIterations, commands : Nat, crashes : Nat, faults : Nat, stages : Nat]
            BY <5>1 DEF SpentOK, Types, MoreTypes
          <5>3. spent' = [once EXCEPT !.stages = @ + 1]  BY <4>2, <5>1 DEF SpentOK, Types, MoreTypes
          <5> QED  BY <5>2, <5>3 DEF SpentOK
        <4> QED  BY <1>6, <4>1, <4>2 DEF LoadCommand
      <3> QED  BY <3>1, <3>2
    <2> QED  BY <1>6, <2>1 DEF Types, TypeOK, MoreTypes, LoadCommand, disk, history, BlockedOK
  <1>7. CASE CandidateCommand
    <2>1. SpentOK'  BY <1>7 DEF CandidateCommand, Happens, SpentOK, Types, MoreTypes
    <2>2. expected' = None /\ unclean' = FALSE
          /\ UNCHANGED <<src, so, index, journal, marker, up, live, cand, blocked, iter, undo, built, restored,
                        approved, start, lost>> BY <1>7 DEF CandidateCommand, disk
    <2>3. TypeOK'  BY <2>2 DEF Types, TypeOK
    <2>4. BlockedOK'  BY <2>2 DEF Types, MoreTypes, BlockedOK
    <2> QED  BY <2>1, <2>2, <2>3, <2>4 DEF Types, MoreTypes
  <1> QED  BY <1>2, <1>3, <1>4, <1>5, <1>6, <1>7

\* An approval and its end keep the types.
LEMMA ApprovalTypes ==
    ASSUME BaseInv, EndApproval \/ (\E i \in DOMAIN blocked : Approve(i)) PROVE Types'
  <1> USE DEF BaseInv
  <1>1. ASSUME NEW i, blocked' = Without(i)
        PROVE  /\ DOMAIN blocked' \subseteq 1..MaxIterations /\ Cardinality(DOMAIN blocked') <= MaxBlocked
               /\ blocked' \in [DOMAIN blocked' -> Entry]
    <2>1. DOMAIN blocked' = DOMAIN blocked \ {i} /\ blocked' \in [DOMAIN blocked' -> Entry]
          /\ Cardinality(DOMAIN blocked') <= Cardinality(DOMAIN blocked)
          /\ Cardinality(DOMAIN blocked') \in Nat /\ Cardinality(DOMAIN blocked) \in Nat
      BY <1>1, BlockedFinite, FS_RemoveElement, FS_CardinalityType
    <2> QED  BY <2>1, Bounds DEF Types, TypeOK
  <1>2. CASE EndApproval
    <2>1. /\ DOMAIN blocked' \subseteq 1..MaxIterations /\ Cardinality(DOMAIN blocked') <= MaxBlocked
          /\ blocked' \in [DOMAIN blocked' -> Entry]
      <3>1. CASE At("approved") BY <1>2, <3>1, <1>1 DEF EndApproval
      <3>2. CASE ~At("approved")
        <4>0. op = "approve"  BY <1>2, <3>2, Belongs DEF EndApproval, At
        <4>1. /\ iter.id \in 1..MaxIterations /\ Cardinality(DOMAIN blocked) < MaxBlocked
              /\ iter.verdict \in {"blocked", "infrastructure_failure"}
          BY <4>0, Bounds DEF IterateInv, Types, TypeOK, IterationType
        <4>2. [verdict |-> iter.verdict, cand |-> expected] \in Entry BY <4>1 DEF Entry, Types, MoreTypes
        <4>3. blocked' = [k \in DOMAIN blocked \cup {iter.id} |->
                          IF k = iter.id THEN [verdict |-> iter.verdict, cand |-> expected] ELSE blocked[k]]
          BY <1>2, <3>2 DEF EndApproval
        <4>4. DOMAIN blocked' = DOMAIN blocked \cup {iter.id} /\ blocked' \in [DOMAIN blocked' -> Entry]
          BY <4>2, <4>3 DEF Types, MoreTypes, BlockedOK, Entry
        <4>5. Cardinality(DOMAIN blocked') <= Cardinality(DOMAIN blocked) + 1
              /\ Cardinality(DOMAIN blocked') \in Nat /\ Cardinality(DOMAIN blocked) \in Nat
          BY <4>4, BlockedFinite, FS_AddElement, FS_CardinalityType
        <4> QED  BY <4>1, <4>4, <4>5, Bounds DEF Types, TypeOK
      <3> QED  BY <3>1, <3>2
    <2> QED  BY <1>2, <2>1, EmptyIteration
             DEF Types, TypeOK, MoreTypes, EndApproval, disk, history, BlockedOK, SpentOK, Entry
  <1>3. ASSUME NEW i \in DOMAIN blocked, Approve(i) PROVE Types'
    <2>1. /\ DOMAIN blocked' \subseteq 1..MaxIterations /\ Cardinality(DOMAIN blocked') <= MaxBlocked
          /\ blocked' \in [DOMAIN blocked' -> Entry] BY <1>1, <1>3 DEF Approve
    <2>2. blocked[i] \in Entry /\ i \in 0..MaxIterations BY DEF Types, TypeOK, MoreTypes, BlockedOK, Entry
    <2>3. iter' \in IterationType /\ iter'.rollback = None /\ expected' \in Nat \cup {None}
      BY <1>3, <2>2, EmptyIteration DEF Approve, Entry, IterationType
    <2>4. SpentOK'
      <3>1. spent' = [spent EXCEPT !["commands"] = @ + 1]  BY <1>3 DEF Approve, Happens
      <3> QED  BY <3>1 DEF SpentOK, Types, MoreTypes
    <2>5. unclean' = FALSE
          /\ UNCHANGED <<src, so, index, journal, marker, up, live, cand, undo, built, restored,
                        approved, start, lost>> BY <1>3 DEF Approve, disk
    <2>6. TypeOK'  BY <2>1, <2>3, <2>5 DEF Types, TypeOK
    <2>7. BlockedOK'  BY <2>1 DEF BlockedOK, Entry
    <2> QED  BY <2>3, <2>4, <2>5, <2>6, <2>7 DEF Types, MoreTypes
  <1> QED  BY <1>2, <1>3

\* A new iteration keeps the types.
LEMMA BeginTypes ==
    ASSUME BaseInv, NEW request \in Requests, Begin(request) PROVE Types'
  <1> USE DEF BaseInv
  <1>1. /\ request.mode \in {"agent", "plan"} /\ request.root \in BOOLEAN /\ request.manual \in BOOLEAN
    BY KnownNames
  <1>2. spent.iterations + 1 \in 0..MaxIterations /\ SpentOK'
    BY Bounds DEF Begin, Happens, SpentOK, Types, MoreTypes
  <1>3. iter' \in IterationType /\ iter'.rollback = {} BY <1>1, <1>2, EmptyIteration DEF Begin, IterationType
  <1>4. start' \in [tree : Trees, synced : BOOLEAN] BY DEF Begin, Types, TypeOK, Loadable
  <1> QED  BY <1>2, <1>3, <1>4 DEF Types, TypeOK, MoreTypes, Begin, disk, BlockedOK

\* Every step keeps the types.
LEMMA NextTypes ==
    ASSUME BaseInv, [Next]_vars PROVE Types'
  <1>1. CASE UNCHANGED vars
    BY <1>1 DEF BaseInv, Types, TypeOK, MoreTypes, vars, disk, memory, control, history, BlockedOK, SpentOK
  <1>2. CASE Candidate  BY <1>2, CandidateTypes, ApprovalTypes DEF Candidate
  <1>3. CASE Work BY <1>3, EditTypes, DriftTypes, BatchTypes, StageTypes, CheckTypes, ConcludeTypes DEF Work
  <1> QED BY <1>1, <1>2, <1>3, BeginTypes, BuildTypes, RecoverTypes, HostTypes DEF Next, Idle

-----------------------------------------------------------------------------
(* Where the operations are.                                               *)

\* An operation is where it may be.
Placed == ControlInv /\ IterateInv /\ BuiltOK

\* An operation that goes on.
LEMMA ProceedPlaced ==
    ASSUME BaseInv, Proceeds, UNCHANGED <<up, blocked>>,
           step \in {"prepare", "restore", "refresh", "edit", "persist", "backup", "stage", "verify", "canary",
                     "drop", "rolled", "restore_own", "promote", "clear", "take"}
              \/ (step = "restored" /\ op # "panic"),
           step = "edit" => iter.local = {},
           step \in {"promote", "clear"} => cand' # None,
           \/ iter' = iter
           \/ op = "iterate" /\ iter'.local = iter.local /\ iter'.rollback = iter.rollback /\ iter'.id = iter.id
              /\ iter'.error = iter.error
    PROVE  Placed'
  <1> USE DEF BaseInv
  <1>1. /\ op' = op /\ sub' = "none" /\ step' = After[op][step]
        /\ op \in DOMAIN OpSteps /\ step' \in OpSteps[op]
        /\ step \notin {"promote", "clear"} => step' \notin {"clear", "take"} BY ProceedsTo
  <1>2. step' # "edit" BY <1>1, Belongs, Table DEF Undoing
  <1>3. op = "iterate" => step # "finalize"  BY Belongs
  <1>4. ControlInv' BY <1>1 DEF ControlInv, Iterating, NoIteration
  <1>5. IterateInv' BY <1>1, Belongs, <1>2, <1>3 DEF IterateInv, Paths, Iterating
  <1>6. BuiltOK'  BY <1>1 DEF BuiltOK
  <1> QED  BY <1>4, <1>5, <1>6 DEF Placed

\* An operation that meets an error.
LEMMA RaisePlaced ==
    ASSUME BaseInv, NEW state \in IterationType, NEW kind \in Errors, RaisesIn(state, kind),
           op # "none", op = "start" => step # "refused", iter.local = {},
           state.local = iter.local, state.id = iter.id,
           op = "iterate" \/ state = iter, UNCHANGED <<up, cand, blocked>>
    PROVE  Placed'
  <1> USE DEF BaseInv
  <1>1. /\ op' = op /\ sub' = "none" /\ step' = Handler
        /\ op \in DOMAIN OpSteps /\ step' \in OpSteps[op] BY RaisesTo
  <1>2. ControlInv'  BY RaiseControl DEF Iterating
  <1>3. op = "iterate" => step' = "finalize"  BY <1>1 DEF Handler
  <1>4. IterateInv' BY <1>1, <1>3, RaiseIter DEF IterateInv, Paths, Iterating
  <1>5. BuiltOK'  BY <1>1 DEF BuiltOK
  <1> QED  BY <1>2, <1>4, <1>5 DEF Placed

\* A fault leaves an operation where it may be.
LEMMA FaultPlaced ==
    ASSUME BaseInv, NEW state \in IterationType, NEW kind, FaultIn(kind, state),
           op # "none", op = "start" => step # "refused", iter.local = {},
           state.local = iter.local, state.id = iter.id,
           op = "iterate" \/ state = iter, UNCHANGED <<up, cand, blocked>>
    PROVE  Placed' BY FaultIter, RaisePlaced DEF BaseInv

\* A recovery or build that goes on.
LEMMA SubPlaced ==
    ASSUME BaseInv, SubProceeds, sub # "none", UNCHANGED <<up, iter, cand, blocked>>,
           sub # "clear" => journal' = journal,
           sub = "compile" => built' \in Trees,
           sub = "swap" => so' = built /\ built' = built
    PROVE  Placed'
  <1> USE DEF BaseInv
  <1>1. ControlInv' /\ op' = op  BY SubControl
  <1>2. BuiltOK' BY SubTo DEF Calls, Proceeds, Runs, ControlInv, BuiltOK
  <1>3. step \in {"restore", "restore_own", "prepare", "backup"}  BY DEF ControlInv
  <1>4. CASE Proceeds BY <1>3, <1>4, ProceedPlaced
  <1>5. CASE ~Proceeds BY <1>5, SubTo, <1>1, <1>2 DEF Calls, ControlInv, IterateInv, Paths, Placed
  <1> QED  BY <1>4, <1>5

\* Only while the agent edits there is a batch.
LEMMA NoLocal ==
    ASSUME BaseInv, ~At("edit") PROVE iter.local = {} BY DEF BaseInv, IterateInv, At, ControlInv

\* A build leaves the operation where it may be.
LEMMA BuildPlaced ==
    ASSUME BaseInv, Build PROVE Placed'
  <1> USE DEF BaseInv
  <1>0. iter \in IterationType  BY DEF Types, TypeOK
  <1>1. CASE Prepare
    <2>1. op = "start" /\ iter' = iter /\ up' = up /\ blocked' = blocked /\ cand' = cand
      BY <1>1, Belongs DEF Prepare, At, memory
    <2>2. CASE Proceeds  BY <1>1, <2>1, <2>2, ProceedPlaced DEF Prepare, At
    <2>3. CASE ~Proceeds
      <3>1. op' = op /\ sub' \in {"wipe", "compile"} /\ step' = "prepare" /\ step = "prepare"
        BY <1>1, <2>3 DEF Prepare, At, Calls, Full, Incremental
      <3> QED  BY <2>1, <3>1 DEF ControlInv, IterateInv, BuiltOK, OpSteps, Iterating, Placed, Paths, NoIteration
    <2> QED  BY <2>2, <2>3
  <1>2. ASSUME sub # "none", Fault("build") \/ Raises("stage"), UNCHANGED <<up, cand, blocked>>
        PROVE  Placed'
    <2>1. op # "none" /\ step # "refused" /\ step # "edit" BY <1>2 DEF ControlInv, OpSteps
    <2>2. iter.local = {}  BY <2>1, NoLocal DEF At
    <2> QED  BY <1>0, <1>2, <2>1, <2>2, FaultPlaced, RaisePlaced DEF Fault, Raises, Errors
  <1>3. CASE Wipe  BY <1>2, <1>3, SubPlaced DEF Wipe, In
  <1>4. CASE Compile  BY <1>2, <1>4, SubPlaced DEF Compile, In, disk, Types, TypeOK
  <1>5. CASE Swap  BY <1>2, <1>5, SubPlaced DEF Swap, In
  <1>6. CASE WriteIndex  BY <1>2, <1>6, SubPlaced DEF WriteIndex, In
  <1> QED  BY <1>1, <1>3, <1>4, <1>5, <1>6 DEF Build

\* So does a recovery.
LEMMA RecoverPlaced ==
    ASSUME BaseInv, Recover PROVE Placed'
  <1> USE DEF BaseInv
  <1>0. iter \in IterationType  BY DEF Types, TypeOK
  <1>1. ASSUME sub # "none" \/ step = "clear", Fault("restore"), UNCHANGED <<up, cand, blocked>>
        PROVE  Placed' BY <1>1, NoLocal, <1>0, FaultPlaced DEF ControlInv, OpSteps, At, Fault
  <1>2. CASE Restore
    <2>1. step \in {"restore", "restore_own"} /\ iter' = iter /\ up' = up /\ blocked' = blocked /\ cand' = cand
      BY <1>2 DEF Restore, At
    <2>2. CASE Proceeds  BY <2>1, <2>2, ProceedPlaced
    <2>3. CASE ~Proceeds
      <3>1. op' = op /\ step' = step /\ sub' \in {"unmark", "replay"} BY <1>2, <2>3 DEF Restore, Calls
      <3> QED  BY <2>1, <3>1 DEF ControlInv, IterateInv, BuiltOK, Placed, Paths, NoIteration
    <2> QED  BY <2>2, <2>3
  <1>3. CASE WriteBack
    <2>1. CASE SubProceeds /\ UNCHANGED iter  BY <1>3, <2>1, SubPlaced DEF WriteBack, In
    <2>2. CASE UNCHANGED <<control, iter>>
      BY <1>3, <2>2 DEF WriteBack, In, ControlInv, IterateInv, BuiltOK, Placed, control, Paths, NoIteration
    <2> QED  BY <1>1, <1>3, <2>1, <2>2 DEF WriteBack, In
  <1>4. CASE Mark  BY <1>4, SubPlaced DEF Mark, In, memory
  <1>5. CASE ClearJournal
    <2>1. CASE Fault("restore")  BY <1>1, <1>5, <2>1 DEF ClearJournal, In, At
    <2>2. CASE In("clear") /\ SubProceeds /\ UNCHANGED iter BY <1>5, <2>2, SubPlaced DEF ClearJournal, In
    <2>3. CASE At("clear") /\ Proceeds /\ UNCHANGED iter
      BY <1>5, <2>3, ProceedPlaced DEF ClearJournal, At, ControlInv
    <2> QED  BY <1>5, <2>1, <2>2, <2>3 DEF ClearJournal, In, At
  <1> QED  BY <1>2, <1>3, <1>4, <1>5 DEF Recover

\* So does the end of an operation.
LEMMA IdlePlaced ==
    ASSUME iter' = NoIteration, Ends, op' = "none" PROVE Placed'
  BY EmptyIteration DEF Ends, Runs, ControlInv, IterateInv, BuiltOK, OpSteps, Iterating, Paths, Placed,
                        NoIteration

\* So do starting, loading, crashing and settling.
LEMMA HostPlaced ==
    ASSUME BaseInv, Host PROVE Placed'
  <1> USE DEF BaseInv
  <1>0. iter \in IterationType  BY DEF Types, TypeOK
  <1>1. CASE Start
    <2>1. iter' = NoIteration /\ ~up' /\ op' = "start" /\ step' \in {"load", "prepare"} /\ sub' = "none"
      BY <1>1 DEF Start, Runs, memory, ControlInv, Iterating
    <2> QED  BY <2>1, EmptyIteration DEF ControlInv, IterateInv, BuiltOK, OpSteps, Iterating, Paths, Placed, NoIteration
  <1>2. CASE Load
    <2>1. op = "start" /\ iter = NoIteration  BY <1>2, Belongs DEF Load, At, ControlInv, Iterating
    <2>2. CASE Loadable
      <3>1. iter' = NoIteration /\ up' = TRUE /\ op' = "boot" /\ step' = "restore" /\ sub' = "none"
        BY <1>2, <2>1, <2>2 DEF Load, Runs
      <3> QED  BY <3>1, EmptyIteration DEF ControlInv, IterateInv, BuiltOK, OpSteps, Iterating, Paths, Placed, NoIteration
    <2>3. CASE ~Loadable BY <1>0, <1>2, <2>1, <2>3, EmptyIteration, RaisePlaced DEF Load, At, Raises, Errors
    <2> QED  BY <2>2, <2>3
  <1>3. CASE Refresh  BY <1>3, ProceedPlaced DEF Refresh, At
  <1>4. CASE Crash  BY <1>4, IdlePlaced DEF Crash, Ends, Runs
  <1>5. CASE Settle
    <2>1. CASE step \in {"rolled", "restored"} /\ Proceeds /\ UNCHANGED iter /\ (step = "restored" => op # "panic")
      BY <1>5, <2>1, ProceedPlaced DEF Settle
    <2>2. CASE At("restored") /\ op = "panic" /\ Runs("abandon", "rollback") /\ UNCHANGED iter
      <3>1. iter' = NoIteration /\ up' /\ op' = "abandon" /\ step' = "rollback" /\ sub' = "none"
        BY <1>5, <2>2 DEF Settle, Runs, ControlInv, Iterating
      <3> QED  BY <3>1, EmptyIteration DEF ControlInv, IterateInv, BuiltOK, OpSteps, Iterating, Paths, Placed, NoIteration
    <2>3. CASE Ends /\ iter' = NoIteration  BY <2>3, IdlePlaced DEF Ends, Runs
    <2> QED  BY <1>5, <2>1, <2>2, <2>3 DEF Settle, At
  <1> QED  BY <1>1, <1>2, <1>3, <1>4, <1>5 DEF Host

\* So do the edits.
LEMMA EditPlaced ==
    ASSUME BaseInv, NEW f \in Files, NEW v \in Versions, Edit(f, v) \/ Drift(f, v) PROVE Placed'
  <1> USE DEF BaseInv
  <1>1. CASE Edit(f, v)
    <2>1. op = "iterate" /\ step = "edit" /\ sub = "none" /\ iter.rollback # None
      BY <1>1, Belongs DEF Edit, At, IterateInv
    <2>2. PICK backup : backup = [path |-> f, original |-> src[f]]  OBVIOUS
    <2>3. /\ {backup} \in SUBSET Backup /\ iter.local \in SUBSET Backup /\ iter.rollback \in SUBSET Backup
          /\ "so" \notin Paths({backup})
      BY <2>1, <2>2, KnownNames DEF Backup, Types, TypeOK, Trees, IterationType, Paths
    <2>4. /\ Paths(Absorb(iter.local, {backup})) = Paths(iter.local) \cup Paths({backup})
          /\ \A b, c \in Absorb(iter.local, {backup}) : b.path = c.path => b = c
      BY <2>3, AbsorbKeeps DEF IterateInv
    <2>5. Absorb(iter.rollback, {backup}) # None
      <3>1. Absorb(iter.rollback, {backup}) \in SUBSET Backup  BY <2>1, <2>3, AbsorbKeeps DEF Types, TypeOK
      <3> QED  BY <3>1, NoneAssumption
    <2>6. /\ iter'.rollback # None /\ iter'.error = iter.error /\ iter'.id = iter.id /\ iter'.mode = iter.mode
          /\ iter'.local = IF iter.mode = "plan" THEN iter.local ELSE Absorb(iter.local, {backup})
      BY <1>1, <2>1, <2>2, <2>5 DEF Edit, Types, TypeOK, IterationType
    <2>7. op' = op /\ step' = step /\ sub' = sub /\ up' = up /\ UNCHANGED <<blocked, cand, journal>>
      BY <1>1 DEF Edit, control
    <2>8. ControlInv' /\ BuiltOK'  BY <2>1, <2>7 DEF ControlInv, BuiltOK, Iterating
    <2>9. IterateInv' BY <2>3, <2>4, <2>6, <2>1, <2>7 DEF IterateInv, Iterating, Paths
    <2> QED  BY <2>8, <2>9 DEF Placed
  <1>2. CASE Drift(f, v)
    BY <1>2 DEF Drift, memory, control, ControlInv, BuiltOK, IterateInv, Placed, Paths, NoIteration
  <1> QED  BY <1>1, <1>2

\* So do the end of a batch and its refusal.
LEMMA BatchPlaced ==
    ASSUME BaseInv, EndBatch \/ RefuseBatch PROVE Placed'
  <1> USE DEF BaseInv
  <1>1. op = "iterate" /\ step = "edit" /\ sub = "none" /\ iter.rollback # None
    BY Belongs DEF EndBatch, RefuseBatch, At, IterateInv
  <1>2. iter.rollback \in SUBSET Backup /\ iter.local \in SUBSET Backup
    BY <1>1 DEF Types, TypeOK, IterationType
  <1>3. Absorb(iter.rollback, iter.local) # None
    <2>1. Absorb(iter.rollback, iter.local) \in SUBSET Backup
      BY <1>1, <1>2, AbsorbKeeps DEF Types, TypeOK, IterateInv
    <2> QED  BY <2>1, NoneAssumption
  <1>4. /\ iter'.rollback # None /\ iter'.error = iter.error /\ iter'.id = iter.id /\ iter'.local = {}
    <2>1. CASE EndBatch BY <1>3, <2>1, ZenonT(60) DEF EndBatch, Types, TypeOK, IterationType
    <2>2. CASE RefuseBatch BY <1>1, <2>2 DEF RefuseBatch, Types, TypeOK, IterationType
    <2> QED  BY <2>1, <2>2
  <1>5. op' = op /\ step' = step /\ sub' = sub /\ up' = up /\ UNCHANGED <<blocked, cand>>
    BY DEF EndBatch, RefuseBatch, control
  <1> QED  BY <1>1, <1>4, <1>5 DEF ControlInv, BuiltOK, IterateInv, Iterating, Placed, Paths

\* So do the stages up to the candidate.
LEMMA StagePlaced ==
    ASSUME BaseInv, EndEdits \/ Persist \/ BackupArtifacts \/ Stage PROVE Placed'
  <1> USE DEF BaseInv
  <1>0. iter \in IterationType  BY DEF Types, TypeOK
  <1>1. CASE EndEdits
    <2>1. op = "iterate" /\ step = "edit" /\ iter.local = {}  BY <1>1, Belongs DEF EndEdits, At
    <2>2. [iter EXCEPT !.rollback = None] \in IterationType /\ [iter EXCEPT !.rollback = None].local = iter.local
          /\ [iter EXCEPT !.rollback = None].id = iter.id BY DEF Types, TypeOK, IterationType
    <2>3. CASE Proceeds /\ UNCHANGED iter  BY <1>1, <2>1, <2>3, ProceedPlaced DEF EndEdits
    <2>4. CASE Raises("stage")  BY <1>0, <1>1, <2>1, <2>4, RaisePlaced DEF EndEdits, Raises, Errors
    <2>5. CASE RaisesIn([iter EXCEPT !.rollback = None], "stage")
      BY <1>1, <2>1, <2>2, <2>5, RaisePlaced DEF EndEdits, Errors
    <2> QED  BY <1>1, <2>3, <2>4, <2>5 DEF EndEdits
  <1>2. CASE Persist
    <2>1. op = "iterate" /\ step = "persist" /\ iter.local = {}  BY <1>2, Belongs DEF Persist, At, IterateInv
    <2>2. CASE Proceeds /\ UNCHANGED iter  BY <1>2, <2>1, <2>2, ProceedPlaced DEF Persist
    <2>3. CASE Fault("persist")  BY <1>0, <1>2, <2>1, <2>3, FaultPlaced DEF Persist, Fault
    <2> QED  BY <1>2, <2>2, <2>3 DEF Persist
  <1>3. CASE BackupArtifacts
    <2>1. op = "iterate" /\ step = "backup" /\ sub = "none" /\ iter.local = {} /\ iter.rollback # None
          /\ iter.error = "none" BY <1>3, Belongs DEF BackupArtifacts, At, IterateInv
    <2>2. PICK kept : kept = [iter EXCEPT !.rollback = IF iter.root \/ so = None THEN @
                                ELSE Absorb(@, {[path |-> "so", original |-> so]})]  OBVIOUS
    <2>3. kept.local = iter.local /\ kept.id = iter.id /\ kept.error = iter.error
      BY <2>2 DEF Types, TypeOK, IterationType
    <2>4. kept \in IterationType /\ kept.rollback # None
      <3>1. CASE iter.root \/ so = None  BY <1>0, <2>1, <2>2, <3>1 DEF IterationType
      <3>2. CASE ~(iter.root \/ so = None)
        <4>1. kept = [iter EXCEPT !.rollback = Absorb(@, {[path |-> "so", original |-> so]})] BY <2>2, <3>2
        <4>2. {[path |-> "so", original |-> so]} \in SUBSET Backup /\ iter.rollback \in SUBSET Backup
          BY <2>1, <3>2 DEF Types, TypeOK, Backup, IterationType
        <4>3. PICK b : b = [path |-> "so", original |-> so]  OBVIOUS
        <4>4. Absorb(iter.rollback, {b}) \in SUBSET Backup BY <2>1, <4>2, <4>3, AbsorbKeeps DEF Types, TypeOK
        <4> QED  BY <4>1, <4>3, <4>4, NoneAssumption DEF Types, TypeOK, IterationType
      <3> QED  BY <3>1, <3>2
    <2>5. CASE iter' = kept /\ Calls(IF OnePlugin THEN Target ELSE Full)
      <3>1. op' = op /\ step' = step /\ sub' \in {"wipe", "compile"} /\ up' = up /\ blocked' = blocked /\ cand' = cand
        BY <1>3, <2>5 DEF Calls, Target, Full, BackupArtifacts
      <3> QED  BY <2>1, <2>3, <2>4, <2>5, <3>1 DEF ControlInv, BuiltOK, IterateInv, Iterating, Placed, Paths
    <2>6. CASE FaultIn("persist", kept) BY <1>3, <2>1, <2>3, <2>4, <2>6, FaultPlaced DEF BackupArtifacts
    <2> QED  BY <1>3, <2>2, <2>5, <2>6 DEF BackupArtifacts
  <1>4. CASE Stage
    <2>1. op = "iterate" /\ step = "stage" /\ iter.local = {}  BY <1>4, Belongs DEF Stage, At, IterateInv
    <2>2. CASE Proceeds /\ UNCHANGED iter  BY <1>4, <2>1, <2>2, ProceedPlaced DEF Stage
    <2>3. CASE Raises("stage") /\ UNCHANGED cand  BY <1>0, <1>4, <2>1, <2>3, RaisePlaced DEF Stage, Raises, Errors
    <2> QED  BY <1>4, <2>2, <2>3 DEF Stage
  <1> QED  BY <1>1, <1>2, <1>3, <1>4

\* So do the checks, the verdict and its record.
LEMMA CheckPlaced ==
    ASSUME BaseInv, Verify \/ Canary \/ Finalize \/ PromoteFailed \/ Conclude \/ Panic PROVE Placed'
  <1> USE DEF BaseInv
  <1>0. iter \in IterationType  BY DEF Types, TypeOK
  <1>1. CASE Verify
    <2>1. op = "iterate" /\ step = "verify" /\ iter.local = {}  BY <1>1, Belongs DEF Verify, At, IterateInv
    <2>2. CASE Proceeds /\ \E verdict \in {"pass", "fail"} :
                  iter' = [iter EXCEPT !.verifier = verdict, !.verified = src]
      BY <1>0, <2>2, <1>1, <2>1, ProceedPlaced DEF IterationType, Verify
    <2>3. CASE Proceeds /\ iter' = [iter EXCEPT !.verifier = "pass"]
      BY <1>0, <2>3, <1>1, <2>1, ProceedPlaced DEF IterationType, Verify
    <2>4. CASE Fault("verify")  BY <1>0, <1>1, <2>1, <2>4, FaultPlaced DEF Verify, Fault
    <2> QED  BY <1>1, <2>2, <2>3, <2>4 DEF Verify
  <1>2. CASE Canary
    <2>1. op = "iterate" /\ step = "canary" /\ iter.local = {}  BY <1>2, Belongs DEF Canary, At, IterateInv
    <2>2. CASE Proceeds /\ \E verdict \in Canaries : iter' = [iter EXCEPT !.canary = verdict]
      BY <1>0, <2>2, <1>2, <2>1, ProceedPlaced DEF IterationType, Canary
    <2>3. CASE Raises("stage")  BY <1>0, <1>2, <2>1, <2>3, RaisePlaced DEF Canary, Raises, Errors
    <2> QED  BY <1>2, <2>2, <2>3 DEF Canary
  <1>3. CASE Finalize
    <2>1. op = "iterate" /\ step = "finalize" /\ iter.local = {} /\ up /\ iter.id # 0
      BY <1>3, Belongs DEF Finalize, At, IterateInv, ControlInv, Iterating
    <2>2. /\ iter'.local = {} /\ iter'.id = iter.id /\ iter'.verdict = Verdict /\ up'
      BY <1>0, <1>3, <2>1 DEF Finalize, IterationType
    <2>3. /\ sub' = "none"
          /\ \/ op' = "fail" /\ step' = "rollback"
             \/ op' = "finish" /\ step' \in {"promote", "conclude"} /\ Verdict \in {"promoted", "blocked"}
             \/ op' = "reject" /\ step' = "rollback" BY <1>3 DEF Finalize, Runs
    <2>4. ControlInv' /\ BuiltOK'  BY <2>2, <2>3 DEF ControlInv, BuiltOK, OpSteps, Iterating
    <2>5. IterateInv' BY <2>1, <2>2, <2>3 DEF IterateInv, Iterating, Paths
    <2> QED  BY <2>4, <2>5 DEF Placed
  <1>4. CASE PromoteFailed
    <2>1. op = "finish" /\ step = "promote_failed"  BY <1>4, Belongs DEF PromoteFailed, At
    <2>2. op' = "unpromote" /\ step' = "rollback" /\ sub' = "none" /\ iter' = iter /\ up' = up
      BY <1>4 DEF PromoteFailed, Runs, memory
    <2> QED  BY <2>1, <2>2 DEF ControlInv, IterateInv, BuiltOK, OpSteps, Iterating, Paths, Placed
  <1>5. CASE Conclude  BY <1>5, IdlePlaced DEF Conclude, Ends, Runs
  <1>6. CASE Panic
    <2>1. up /\ iter' = NoIteration /\ op' = "panic" /\ step' = "restore" /\ sub' = "none" /\ up' = up
      BY <1>6 DEF Panic, Runs, ControlInv
    <2> QED  BY <2>1, EmptyIteration DEF ControlInv, IterateInv, BuiltOK, OpSteps, Iterating, Paths, Placed, NoIteration
  <1> QED  BY <1>1, <1>2, <1>3, <1>4, <1>5, <1>6

\* So does what happens to a candidate.
LEMMA CandidatePlaced ==
    ASSUME BaseInv, Candidate PROVE Placed'
  <1> USE DEF BaseInv
  <1>0. iter \in IterationType  BY DEF Types, TypeOK
  <1>1. CASE Promote
    <2>1. op \in {"finish", "promote", "approve"} /\ step = "promote"  BY <1>1, Belongs DEF Promote, At
    <2>2. CASE cand # None  BY <1>1, <2>1, <2>2, ProceedPlaced DEF Promote
    <2>3. CASE cand = None
      <3>1. iter.local = {}  BY <2>1, NoLocal DEF At
      <3> QED  BY <1>0, <1>1, <2>1, <2>3, <3>1, RaisePlaced DEF Promote, Raises, Errors
    <2> QED  BY <2>2, <2>3
  <1>2. CASE TakeCandidate
    <2>1. op \in {"finish", "promote", "approve"} /\ step = "take"  BY <1>2, Belongs DEF TakeCandidate, At
    <2>2. CASE Proceeds /\ UNCHANGED iter  BY <1>2, <2>1, <2>2, ProceedPlaced DEF TakeCandidate
    <2>3. CASE Raises("stage") /\ UNCHANGED cand
      <3>1. iter.local = {}  BY <2>1, NoLocal DEF At
      <3> QED  BY <1>0, <1>2, <2>1, <2>3, <3>1, RaisePlaced DEF TakeCandidate, Raises, Errors
    <2> QED  BY <1>2, <2>2, <2>3 DEF TakeCandidate
  <1>3. CASE RollbackCandidate
    <2>1. op \in Undoing \cup {"abandon", "undo"} /\ step = "rollback" /\ iter.local = {}
      BY <1>3, Belongs, NoLocal DEF RollbackCandidate, At
    <2>2. CASE Raises("stage")
      BY <1>0, <1>3, <2>1, <2>2, RaisePlaced DEF RollbackCandidate, Raises, Errors, Undoing
    <2>3. CASE ~Raises("stage")
      <3>1. op' = op /\ step' \in {"rolled", "restore"} /\ sub' = "none" /\ iter' = iter /\ up' = up /\ blocked' = blocked
        BY <1>3, <2>3 DEF RollbackCandidate, Runs
      <3>2. ControlInv'  BY <2>1, <3>1 DEF ControlInv, OpSteps, Undoing, NoIteration
      <3> QED  BY <2>1, <3>1, <3>2 DEF IterateInv, BuiltOK, Undoing, Iterating, Paths, Placed
    <2> QED  BY <2>2, <2>3
  <1>4. CASE DropCandidate  BY <1>4, ProceedPlaced DEF DropCandidate, At
  <1>5. CASE LoadCommand
    <2>1. op = "none" /\ op' = op /\ sub' = sub /\ step' = step /\ iter' = iter /\ up' = up /\ step = "none"
      BY <1>5 DEF LoadCommand, Commanded, control, ControlInv, OpSteps
    <2> QED  BY <1>5, <2>1 DEF LoadCommand, disk, ControlInv, IterateInv, BuiltOK, Iterating, Paths, Placed, NoIteration
  <1>6. CASE CandidateCommand
    <2>1. up /\ iter = NoIteration /\ iter' = iter /\ up' = up /\ sub' = "none"
          /\ ((op' = "promote" /\ step' = "promote") \/ (op' = "undo" /\ step' = "rollback"))
      BY <1>6 DEF CandidateCommand, Commanded, Runs, ControlInv, Iterating
    <2> QED  BY <2>1, EmptyIteration DEF ControlInv, IterateInv, BuiltOK, OpSteps, Iterating, Paths, Placed, NoIteration
  <1>7. CASE EndApproval  BY <1>7, IdlePlaced DEF EndApproval, Ends, Runs
  <1>8. ASSUME NEW i \in DOMAIN blocked, Approve(i) PROVE Placed'
    <2>1. up' /\ op' = "approve" /\ step' = "promote" /\ sub' = "none" BY <1>8 DEF Approve, Commanded, Runs
    <2>2. blocked[i].verdict \in {"blocked", "infrastructure_failure"} /\ i # 0
      BY DEF Types, TypeOK, MoreTypes, BlockedOK
    <2>3. /\ iter'.local = {} /\ iter'.rollback = None /\ iter'.id # 0 /\ iter'.verifier = "none"
          /\ iter'.verdict \in {"blocked", "infrastructure_failure"}
      BY <1>8, <2>2, EmptyIteration DEF Approve, IterationType
    <2>4. Cardinality(DOMAIN blocked') < MaxBlocked
      <3>1. DOMAIN blocked' = DOMAIN blocked \ {i} /\ Cardinality(DOMAIN blocked') < Cardinality(DOMAIN blocked)
            /\ Cardinality(DOMAIN blocked) <= MaxBlocked /\ Cardinality(DOMAIN blocked) \in Nat
            /\ IsFiniteSet(DOMAIN blocked) BY <1>8, BlockedFinite DEF Approve, Types, TypeOK
      <3>2. Cardinality(DOMAIN blocked') \in Nat  BY <3>1, FS_RemoveElement, FS_CardinalityType
      <3> QED  BY <3>1, <3>2, Bounds
    <2> QED  BY <2>1, <2>3, <2>4 DEF ControlInv, IterateInv, BuiltOK, OpSteps, Iterating, Paths, Placed
  <1> QED  BY <1>1, <1>2, <1>3, <1>4, <1>5, <1>6, <1>7, <1>8 DEF Candidate

\* So does a new iteration.
LEMMA BeginPlaced ==
    ASSUME BaseInv, NEW request \in Requests, Begin(request) PROVE Placed'
  <1> USE DEF BaseInv
  <1>1. up' /\ op' = "iterate" /\ step' = "edit" /\ sub' = "none"  BY DEF Begin, Runs
  <1>2. spent.iterations \in Nat  BY Bounds DEF Types, MoreTypes, SpentOK
  <1>3. {} # None  BY NoneAssumption
  <1>4. iter'.local = {} /\ iter'.rollback # None /\ iter'.error = "none" /\ iter'.id # 0
    BY <1>2, <1>3, EmptyIteration DEF Begin, IterationType
  <1> QED  BY <1>1, <1>4 DEF ControlInv, IterateInv, BuiltOK, OpSteps, Iterating, Paths, Placed

\* Every step keeps the shape of the state and the places of the operations.
LEMMA NextBase ==
    ASSUME BaseInv, [Next]_vars PROVE BaseInv'
  <1> SUFFICES Placed'  BY NextTypes DEF BaseInv, Placed
  <1>2. CASE UNCHANGED vars
    <2>1. UNCHANGED <<op, step, sub, iter, up, journal, cand, built, so, blocked>>
      BY <1>2 DEF vars, disk, memory, control
    <2>2. ControlInv' /\ BuiltOK'  BY <2>1 DEF BaseInv, ControlInv, BuiltOK, NoIteration
    <2>3. IterateInv'  BY <2>1 DEF BaseInv, IterateInv, Paths
    <2> QED  BY <2>2, <2>3 DEF Placed
  <1>3. CASE Work
    <2>1. CASE \E f \in Files, v \in Versions : Edit(f, v) \/ Drift(f, v)  BY <2>1, EditPlaced
    <2> QED  BY <1>3, <2>1, BatchPlaced, StagePlaced, CheckPlaced DEF Work
  <1> QED
    BY <1>2, <1>3, BeginPlaced, BuildPlaced, RecoverPlaced, HostPlaced, CandidatePlaced DEF Next, Idle, BaseInv, Placed

\* The shape of the first state.
LEMMA InitBase == Init => BaseInv
  <1> SUFFICES ASSUME Init PROVE BaseInv  OBVIOUS
  <1>1. Types
    <2>1. DOMAIN blocked = {} /\ BlockedOK /\ Cardinality(DOMAIN blocked) <= MaxBlocked
      BY FS_EmptySet, Bounds DEF Init, BlockedOK
    <2>2. SpentOK  BY Bounds DEF Init, SpentOK
    <2>3. iter = NoIteration /\ iter \in IterationType /\ iter.rollback = None  BY EmptyIteration DEF Init
    <2>4. TypeOK  BY <2>1, <2>3, OriginalCompiles DEF Init, TypeOK, Trees
    <2>5. MoreTypes  BY <2>1, <2>2, OriginalCompiles DEF Init, MoreTypes, Trees
    <2> QED  BY <2>4, <2>5 DEF Types
  <1>2. ControlInv /\ IterateInv /\ BuiltOK
    BY EmptyIteration DEF Init, ControlInv, IterateInv, BuiltOK, OpSteps, Iterating, Paths
  <1> QED  BY <1>1, <1>2 DEF BaseInv

-----------------------------------------------------------------------------
(* The backups.                                                            *)

\* The journal alone could put everything back.
AllJournalled == \A f \in Rest : Safe(f) \/ f \in Journalled

\* What the backups are about.
Data == <<src, journal, marker, approved, start, lost>>

\* What depends on the data alone.
LEMMA DataKept ==
    ASSUME UNCHANGED Data
    PROVE  /\ Applied' = Applied /\ Journalled' = Journalled /\ Rest' = Rest
           /\ \A f : Safe(f)' <=> Safe(f)
           /\ AllJournalled' <=> AllJournalled
           /\ AllSafe' <=> AllSafe
           /\ (JournalInv' <=> JournalInv) /\ (JournalFaithful' <=> JournalFaithful)
           /\ iter'.local = iter.local /\ iter'.rollback = iter.rollback => Held' = Held
  <1> USE DEF Data
  <1>1. Applied' = Applied /\ Rest' = Rest  BY DEF Applied, Rest
  <1>2. Journalled' = Journalled  BY <1>1 DEF Journalled, Paths
  <1>3. \A f : Safe(f)' <=> Safe(f)  BY DEF Safe
  <1>4. AllJournalled' <=> AllJournalled  BY <1>1, <1>2 DEF AllJournalled, Safe
  <1>5. AllSafe' <=> AllSafe  BY <1>1 DEF AllSafe, Safe
  <1>6. JournalInv' <=> JournalInv  BY <1>1 DEF JournalInv
  <1>7. JournalFaithful' <=> JournalFaithful  BY DEF JournalFaithful
  <1>8. iter'.local = iter.local /\ iter'.rollback = iter.rollback => Held' = Held  BY DEF Held, Paths
  <1> QED  BY <1>1, <1>2, <1>3, <1>4, <1>5, <1>6, <1>7, <1>8

\* A step that only moves an operation on.
LEMMA MoveRec ==
    ASSUME RecInv, UNCHANGED Data,
           iter'.local = iter.local, iter'.rollback = iter.rollback,
           ~At("take"), ~At("take")', sub' # "replay",
           DoneWithOwn' => DoneWithOwn \/ AllJournalled,
           Recovering' => Recovering /\ step' = step
                          /\ (sub' \in {"mark", "wipe", "compile", "swap", "reindex"} => restored'),
           EarlyStages' => EarlyStages /\ (step' = "edit" => step = "edit"),
           LateStages' => LateStages,
           Recovered' /\ ~unclean' => (Recovered /\ ~unclean) \/ AllSafe
    PROVE  RecInv'
  <1> USE DEF RecInv
  <1>1. /\ Applied' = Applied /\ Journalled' = Journalled /\ Rest' = Rest
        /\ \A f : Safe(f)' <=> Safe(f)
        /\ AllJournalled' <=> AllJournalled
        /\ AllSafe' <=> AllSafe
        /\ (JournalInv' <=> JournalInv) /\ (JournalFaithful' <=> JournalFaithful)
        /\ Held' = Held BY DataKept
  <1>2. SrcInv' /\ TakeInv'  BY <1>1 DEF SrcInv, TakeInv
  <1>3. DoneInv' BY <1>1 DEF DoneInv, AllJournalled
  <1>4. ReplayInv'  BY DEF ReplayInv
  <1>5. RecoverInv'  BY <1>1 DEF RecoverInv
  <1>6. EditInv'  BY <1>1 DEF EditInv, Data, Paths
  <1>7. LateInv'  BY <1>1 DEF LateInv, Data
  <1>8. RecoveredInv'  BY <1>1 DEF RecoveredInv
  <1> QED  BY <1>1, <1>2, <1>3, <1>4, <1>5, <1>6, <1>7, <1>8

\* An operation that is over: nothing in memory is needed any more.
LEMMA EndRec ==
    ASSUME RecInv, UNCHANGED Data, iter' = NoIteration, Ends, AllJournalled
    PROVE  RecInv'
  <1> USE DEF RecInv
  <1>1. /\ Journalled' = Journalled /\ Rest' = Rest
        /\ \A f : Safe(f)' <=> Safe(f)
        /\ (JournalInv' <=> JournalInv) /\ (JournalFaithful' <=> JournalFaithful) BY DataKept
  <1>2. op' = "none" /\ step' = "none" /\ sub' = "none"  BY DEF Ends, Runs
  <1>3. SrcInv' /\ TakeInv'  BY <1>1, <1>2 DEF SrcInv, TakeInv, AllJournalled, At
  <1>4. ~DoneWithOwn' /\ ~Recovering' /\ ~EarlyStages' /\ ~LateStages' /\ ~Recovered'
    BY <1>2 DEF DoneWithOwn, Recovering, EarlyStages, LateStages, Recovered, Undoing
  <1> QED  BY <1>1, <1>2, <1>3, <1>4 DEF DoneInv, ReplayInv, RecoverInv, EditInv, LateInv, RecoveredInv

\* Outside an iteration no backup is in memory.
LEMMA NothingHeld ==
    ASSUME BaseInv, op \notin Iterating PROVE Held = {}
  BY EmptyIteration, NoneAssumption DEF BaseInv, ControlInv, IterateInv, Held, Paths, Iterating, NoIteration

\* A build touches no source and no backup.
LEMMA BuildRec ==
    ASSUME BaseInv, RecInv, Build PROVE RecInv'
  <1> USE DEF BaseInv
  <1>1. CASE Prepare
    <2>1. op = "start" /\ op' = "start" /\ UNCHANGED Data /\ iter' = iter /\ sub' # "replay" /\ step # "take"
      BY <1>1, Belongs DEF Prepare, At, memory, disk, history, Data, Calls, Proceeds, Runs, Full, Incremental
    <2>2. step' \in {"prepare", "load"} BY <1>1, <2>1, Table DEF Prepare, At, Calls, Proceeds, Runs
    <2> QED  BY <2>1, <2>2, MoveRec
             DEF DoneWithOwn, Recovering, EarlyStages, LateStages, Recovered, At, Undoing
  <1>2. ASSUME sub \in {"wipe", "compile", "swap", "reindex", "rehash"}, UNCHANGED <<Data, restored>>,
               (SubProceeds /\ UNCHANGED <<iter, unclean>>) \/ Fault("build") \/ Raises("stage")
        PROVE  RecInv'
    <2>1. step \in {"restore", "restore_own", "prepare", "backup"}  BY <1>2 DEF ControlInv
    <2>2. step = "restore_own" => AllSafe BY <1>2 DEF RecInv, RecoverInv, Recovering, AllSafe
    <2>3. step = "restore" /\ op \in {"boot", "panic"} => AllSafe
      BY NothingHeld, <1>2 DEF Iterating, RecInv, RecoverInv, Recovering, AllSafe
    <2>4. AllSafe => AllJournalled  BY DEF AllSafe, AllJournalled
    <2>5. CASE Fault("build") \/ Raises("stage")
      <3>1. PICK kind \in Errors : RaisesIn(iter, kind)
        BY <2>5, FaultIter DEF Fault, Raises, Errors, Types, TypeOK
      <3>2. /\ op' = op /\ sub' = "none" /\ step' = Handler
            /\ iter'.local = iter.local /\ iter'.rollback = iter.rollback
            /\ op = "iterate" => iter'.error # "none"
            /\ op # "iterate" => unclean'
        <4>1. op # "none" /\ step # "refused"  BY <2>1 DEF ControlInv, OpSteps
        <4> QED  BY <3>1, <4>1, RaisesTo, RaiseIter DEF Types, TypeOK, Errors
      <3>3. /\ step' \in {"refused", "booted", "finalize", "restored", "errored", "rolled"}
            /\ op = "iterate" => step' = "finalize"
            /\ op \in Undoing /\ step' \in {"restored", "errored"} => step = "restore_own"
            /\ op \in {"start", "boot", "panic"} \cup Undoing \cup {"abandon", "undo", "iterate"}
        BY <2>1, <3>2, Belongs DEF Handler, Undoing
      <3> QED
        BY <1>2, <2>1, <2>2, <2>4, <3>2, <3>3, MoveRec
        DEF DoneWithOwn, Recovering, EarlyStages, LateStages, Recovered, At, Undoing
    <2>6. CASE SubProceeds /\ UNCHANGED <<iter, unclean>>
      <3>1. \/ Proceeds /\ sub \in {"reindex", "rehash"}
            \/ \E s \in {"compile", "swap", "reindex", "rehash"} : Calls(s) BY <1>2, <2>6, SubTo
      <3>2. CASE \E s \in {"compile", "swap", "reindex", "rehash"} : Calls(s)
        <4>1. op' = op /\ step' = step /\ sub' \in {"compile", "swap", "reindex", "rehash"} BY <3>2 DEF Calls
        <4>2. Recovering => (restored \/ sub = "rehash")  BY <1>2 DEF RecInv, RecoverInv
        <4>3. sub = "rehash" => ~Recovering  BY DEF ControlInv, Recovering
        <4> QED  BY <1>2, <2>1, <2>6, <4>1, <4>2, <4>3, MoveRec
                 DEF DoneWithOwn, Recovering, EarlyStages, LateStages, Recovered, At, Undoing
      <3>3. CASE Proceeds
        <4>1. op' = op /\ sub' = "none" /\ step' = After[op][step]  BY <2>1, <3>3, ProceedsTo
        <4>2. /\ step = "prepare" => op = "start" /\ step' = "load"
              /\ step = "backup" => op = "iterate" /\ step' = "stage"
              /\ step = "restore_own" => op \in Undoing /\ step' \in {"restored", "conclude"}
              /\ step = "restore" => \/ op = "boot" /\ step' = "refresh"
                                     \/ op = "panic" /\ step' = "restored"
                                     \/ op \in Undoing \cup {"abandon", "undo"} /\ step' = "drop"
          BY <4>1, Belongs, Table DEF Undoing
        <4> QED  BY <1>2, <2>1, <2>2, <2>3, <2>4, <2>6, <4>1, <4>2, MoveRec
                 DEF DoneWithOwn, Recovering, EarlyStages, LateStages, Recovered, At, Undoing
      <3> QED  BY <3>1, <3>2, <3>3
    <2> QED  BY <1>2, <2>5, <2>6
  <1>3. CASE Wipe  BY <1>2, <1>3 DEF Wipe, In, Data
  <1>4. CASE Compile  BY <1>2, <1>4 DEF Compile, In, Data, disk
  <1>5. CASE Swap  BY <1>2, <1>5 DEF Swap, In, Data
  <1>6. CASE WriteIndex  BY <1>2, <1>6 DEF WriteIndex, In, Data
  <1> QED  BY <1>1, <1>3, <1>4, <1>5, <1>6 DEF Build

\* An operation that holds no backups it still needs: the journal has them all.
LEMMA SettledRec ==
    ASSUME BaseInv, RecInv, ~At("take"), DoneWithOwn \/ op \notin Iterating
    PROVE  AllJournalled
  <1>1. CASE DoneWithOwn  BY <1>1 DEF RecInv, DoneInv, AllJournalled
  <1>2. CASE op \notin Iterating BY <1>2, NothingHeld DEF RecInv, SrcInv, AllJournalled
  <1> QED  BY <1>1, <1>2

\* An error of a step that is no recovery.
LEMMA RaiseRec ==
    ASSUME BaseInv, RecInv, NEW kind \in Errors, RaisesIn(iter, kind), UNCHANGED Data,
           sub = "none", step \in {"load", "persist", "stage", "verify", "canary", "promote", "clear", "rollback"}
                                  \/ (step = "edit" /\ iter.local = {})
    PROVE  RecInv'
  <1> USE DEF BaseInv
  <1>1. /\ op' = op /\ sub' = "none" /\ step' = Handler
        /\ iter'.local = iter.local /\ iter'.rollback = iter.rollback
        /\ op = "iterate" => iter'.error # "none"
        /\ op # "iterate" => unclean'
    <2>1. op # "none" /\ step # "refused"  BY DEF ControlInv, OpSteps
    <2> QED  BY <2>1, RaisesTo, RaiseIter DEF Types, TypeOK, Errors
  <1>2. /\ step' \in {"refused", "finalize", "promote_failed", "command_failed", "reinsert", "rolled"}
        /\ op = "iterate" => step' = "finalize" BY <1>1, Belongs DEF Handler, Undoing
  <1> QED
    BY <1>1, <1>2, MoveRec
    DEF DoneWithOwn, Recovering, EarlyStages, LateStages, Recovered, At, Undoing

\* Starting, loading and settling keep the backups.
LEMMA HostRec ==
    ASSUME BaseInv, RecInv, Start \/ Load \/ Refresh \/ Settle PROVE RecInv'
  <1> USE DEF BaseInv
  <1>1. CASE Start
    <2>1. op = "none" /\ step = "none" /\ op' = "start" /\ UNCHANGED Data /\ iter' = iter /\ sub' = "none"
          /\ step' \in {"load", "prepare"}
      BY <1>1 DEF Start, At, memory, disk, Data, Runs, ControlInv, OpSteps
    <2> QED  BY <2>1, MoveRec DEF DoneWithOwn, Recovering, EarlyStages, LateStages, Recovered, At, Undoing
  <1>2. CASE Load
    <2>1. UNCHANGED Data /\ op = "start" /\ step = "load" /\ sub = "none"
      BY <1>2, Belongs DEF Load, At, disk, Data
    <2>2. CASE Loadable
      <3>1. op' = "boot" /\ step' = "restore" /\ sub' = "none" /\ iter' = iter BY <1>2, <2>2 DEF Load, Runs
      <3> QED  BY <2>1, <3>1, MoveRec DEF DoneWithOwn, Recovering, EarlyStages, LateStages, Recovered, At, Undoing
    <2>3. CASE ~Loadable  BY <1>2, <2>1, <2>3, RaiseRec DEF Load, Raises, Errors
    <2> QED  BY <2>2, <2>3
  <1>3. CASE Refresh
    <2>1. UNCHANGED Data /\ op = "boot" /\ step = "refresh" /\ sub = "none" /\ iter' = iter /\ unclean' = unclean
      BY <1>3, Belongs DEF Refresh, At, disk, Data, history
    <2>2. op' = "boot" /\ step' = "booted" /\ sub' = "none" BY <1>3, <2>1, Table DEF Refresh, Proceeds, Runs
    <2> QED  BY <2>1, <2>2, MoveRec DEF DoneWithOwn, Recovering, EarlyStages, LateStages, Recovered, At, Undoing
  <1>4. CASE Settle
    <2>0. UNCHANGED Data /\ unclean' = unclean  BY <1>4 DEF Settle, Data, disk, history
    <2>1. CASE At("rolled") /\ Proceeds /\ UNCHANGED iter
      <3>1. op' = op /\ sub' = "none" /\ op \in Undoing \cup {"abandon", "undo"} /\ step = "rolled" /\ sub = "none"
            /\ step' \in {"restore_own", "panicked", "done"}
            /\ (step' = "panicked" => op = "abandon") BY <2>1, Belongs, Table DEF At, Proceeds, Runs, Undoing
      <3> QED  BY <2>0, <2>1, <3>1, MoveRec DEF DoneWithOwn, Recovering, EarlyStages, LateStages, Recovered, At, Undoing
    <2>2. CASE At("restored") /\ op # "panic" /\ Proceeds /\ UNCHANGED iter
      <3>1. op' = op /\ sub' = "none" /\ op \in {"fail", "unpromote"} /\ step = "restored" /\ sub = "none"
            /\ step' \in {"conclude", "errored"} BY <2>2, Belongs, Table DEF At, Proceeds, Runs, Undoing
      <3> QED  BY <2>0, <2>2, <3>1, MoveRec DEF DoneWithOwn, Recovering, EarlyStages, LateStages, Recovered, At, Undoing
    <2>3. CASE At("restored") /\ op = "panic" /\ Runs("abandon", "rollback") /\ UNCHANGED iter
      <3>1. op' = "abandon" /\ sub' = "none" /\ step = "restored" /\ sub = "none" /\ step' = "rollback"
        BY <2>3 DEF At, Runs
      <3> QED  BY <2>0, <2>3, <3>1, MoveRec DEF DoneWithOwn, Recovering, EarlyStages, LateStages, Recovered, At, Undoing
    <2>4. CASE /\ \E s \in {"errored", "panicked", "booted", "refused", "command_failed", "done"} : At(s)
               /\ Ends /\ iter' = NoIteration
      BY <2>4, Belongs, SettledRec, <2>0, EndRec DEF At, DoneWithOwn, Iterating, Undoing
    <2> QED  BY <1>4, <2>1, <2>2, <2>3, <2>4 DEF Settle
  <1> QED  BY <1>1, <1>2, <1>3, <1>4

\* The checks, the verdict and its record keep the backups.
LEMMA CheckRec ==
    ASSUME BaseInv, RecInv, Stage \/ Verify \/ Canary \/ Finalize \/ PromoteFailed \/ Conclude PROVE RecInv'
  <1> USE DEF BaseInv
  <1>0. iter \in IterationType  BY DEF Types, TypeOK
  <1>1. ASSUME op = "iterate", sub = "none", step \in {"stage", "verify", "canary"}, UNCHANGED Data, Proceeds,
               iter'.local = iter.local, iter'.rollback = iter.rollback, iter'.error = iter.error
        PROVE  RecInv'
    <2>1. op' = op /\ sub' = "none" /\ step' \in {"verify", "canary", "finalize"}
      BY <1>1, Table DEF Proceeds, Runs
    <2> QED  BY <1>1, <2>1, MoveRec DEF DoneWithOwn, Recovering, EarlyStages, LateStages, Recovered, At, Undoing
  <1>2. CASE Stage
    <2>1. UNCHANGED Data /\ op = "iterate" /\ step = "stage" /\ sub = "none"
      BY <1>2, Belongs DEF Stage, At, disk, Data
    <2> QED  BY <1>1, <1>2, <2>1, RaiseRec DEF Stage, Raises, Errors
  <1>3. CASE Verify
    <2>1. UNCHANGED Data /\ op = "iterate" /\ step = "verify" /\ sub = "none"
      BY <1>3, Belongs DEF Verify, At, disk, Data
    <2>2. CASE Proceeds /\ \/ iter' = [iter EXCEPT !.verifier = "pass"]
                           \/ \E verdict \in {"pass", "fail"} :
                                iter' = [iter EXCEPT !.verifier = verdict, !.verified = src]
      BY <1>0, <2>2, <1>1, <2>1 DEF IterationType
    <2>3. CASE Fault("verify")
      <3>1. PICK kind \in Errors : RaisesIn(iter, kind)  BY <1>0, <2>3, FaultIter DEF Fault
      <3> QED  BY <2>1, <3>1, RaiseRec
    <2> QED  BY <1>3, <2>2, <2>3 DEF Verify
  <1>4. CASE Canary
    <2>1. UNCHANGED Data /\ op = "iterate" /\ step = "canary" /\ sub = "none"
      BY <1>4, Belongs DEF Canary, At, disk, Data
    <2>2. CASE Proceeds /\ \E verdict \in Canaries : iter' = [iter EXCEPT !.canary = verdict]
      BY <1>0, <2>2, <1>1, <2>1 DEF IterationType
    <2>3. CASE Raises("stage")  BY <2>1, <2>3, RaiseRec DEF Raises, Errors
    <2> QED  BY <1>4, <2>2, <2>3 DEF Canary
  <1>5. CASE Finalize
    <2>1. UNCHANGED Data /\ op = "iterate" /\ step = "finalize" /\ sub = "none"
      BY <1>5, Belongs DEF Finalize, At, disk, Data
    <2>2. iter'.local = iter.local /\ iter'.rollback = iter.rollback BY <1>0, <1>5 DEF Finalize, IterationType
    <2>3. iter.error = "none" => AllJournalled
      BY <2>1 DEF RecInv, LateInv, LateStages, SrcInv, At, AllJournalled, Rest
    <2>4. /\ sub' = "none"
          /\ \/ op' = "fail" /\ step' = "rollback"
             \/ op' = "finish" /\ step' = "promote"
             \/ op' = "finish" /\ step' = "conclude" /\ iter.error = "none"
             \/ op' = "reject" /\ step' = "rollback" BY <1>5 DEF Finalize, Runs
    <2> QED  BY <2>1, <2>2, <2>3, <2>4, MoveRec DEF DoneWithOwn, Recovering, EarlyStages, LateStages, Recovered, At, Undoing
  <1>6. CASE PromoteFailed
    <2>1. UNCHANGED Data /\ step = "promote_failed" /\ sub = "none" /\ iter' = iter /\ op' = "unpromote"
          /\ step' = "rollback" /\ sub' = "none"
      BY <1>6 DEF PromoteFailed, At, disk, Data, memory, history, Runs
    <2> QED  BY <2>1, MoveRec DEF DoneWithOwn, Recovering, EarlyStages, LateStages, Recovered, At, Undoing
  <1>7. CASE Conclude
    <2>1. UNCHANGED Data /\ step = "conclude" /\ iter' = NoIteration /\ Ends
      BY <1>7 DEF Conclude, At, disk, Data, history
    <2>2. DoneWithOwn  BY <2>1, Belongs DEF DoneWithOwn, Undoing
    <2>3. AllJournalled  BY <2>1, <2>2, SettledRec DEF At
    <2> QED  BY <2>1, <2>3, EndRec
  <1> QED  BY <1>2, <1>3, <1>4, <1>5, <1>6, <1>7

\* So do the commands of the operator and the steps of a rollback.
LEMMA CandidateRec ==
    ASSUME BaseInv, RecInv,
           \/ Promote \/ RollbackCandidate \/ DropCandidate \/ LoadCommand \/ CandidateCommand \/ EndApproval
           \/ \E i \in DOMAIN blocked : Approve(i)
    PROVE  RecInv'
  <1> USE DEF BaseInv
  <1>1. CASE Promote
    <2>1. UNCHANGED Data /\ op \in {"finish", "promote", "approve"} /\ step = "promote" /\ sub = "none"
      BY <1>1, Belongs DEF Promote, At, disk, Data
    <2>2. CASE cand # None
      <3>1. op' = op /\ step' = "clear" /\ sub' = "none" /\ iter' = iter
        BY <1>1, <2>1, <2>2, Table DEF Promote, Proceeds, Runs
      <3> QED  BY <2>1, <3>1, MoveRec DEF DoneWithOwn, Recovering, EarlyStages, LateStages, Recovered, At, Undoing
    <2>3. CASE cand = None  BY <1>1, <2>1, <2>3, RaiseRec DEF Promote, Raises, Errors
    <2> QED  BY <2>2, <2>3
  <1>2. CASE RollbackCandidate
    <2>1. UNCHANGED Data /\ op \in Undoing \cup {"abandon", "undo"} /\ step = "rollback" /\ sub = "none"
      BY <1>2, Belongs DEF RollbackCandidate, At, disk, Data
    <2>2. CASE Raises("stage")  BY <2>1, <2>2, RaiseRec DEF Raises, Errors
    <2>3. CASE ~Raises("stage")
      <3>1. op' = op /\ step' \in {"rolled", "restore"} /\ sub' = "none" /\ iter' = iter /\ unclean' = unclean
        BY <1>2, <2>3 DEF RollbackCandidate, Runs
      <3> QED  BY <2>1, <3>1, MoveRec DEF DoneWithOwn, Recovering, EarlyStages, LateStages, Recovered, At, Undoing
    <2> QED  BY <2>2, <2>3
  <1>3. CASE DropCandidate
    <2>1. UNCHANGED Data /\ op \in Undoing \cup {"abandon", "undo"} /\ step = "drop" /\ sub = "none" /\ iter' = iter
          /\ unclean' = unclean BY <1>3, Belongs DEF DropCandidate, At, disk, Data, history
    <2>2. op' = op /\ step' = "rolled" /\ sub' = "none"
      BY <1>3, <2>1, Table DEF DropCandidate, Proceeds, Runs, Undoing
    <2> QED  BY <2>1, <2>2, MoveRec DEF DoneWithOwn, Recovering, EarlyStages, LateStages, Recovered, At, Undoing
  <1>4. CASE LoadCommand
    <2>1. UNCHANGED Data /\ op = "none" /\ op' = op /\ step' = step /\ step = "none" /\ sub' = sub /\ sub = "none" /\ iter' = iter
      BY <1>4 DEF LoadCommand, Commanded, disk, Data, history, control, ControlInv, OpSteps
    <2> QED  BY <2>1, MoveRec DEF DoneWithOwn, Recovering, EarlyStages, LateStages, Recovered, At, Undoing
  <1>5. CASE CandidateCommand
    <2>1. UNCHANGED Data /\ step = "none" /\ op' \in {"promote", "undo"} /\ step' \in {"promote", "rollback"} /\ sub' = "none"
          /\ iter' = iter BY <1>5 DEF CandidateCommand, Commanded, disk, Data, Runs, ControlInv, OpSteps
    <2> QED  BY <2>1, MoveRec DEF DoneWithOwn, Recovering, EarlyStages, LateStages, Recovered, At, Undoing
  <1>6. CASE EndApproval
    <2>1. UNCHANGED Data /\ op = "approve" /\ step # "take" /\ iter' = NoIteration /\ Ends
      BY <1>6, Belongs DEF EndApproval, At, disk, Data, history
    <2>2. AllJournalled  BY <2>1, SettledRec DEF At, Iterating
    <2> QED  BY <2>1, <2>2, EndRec
  <1>7. ASSUME NEW i \in DOMAIN blocked, Approve(i) PROVE RecInv'
    <2>1. UNCHANGED Data /\ op = "none" /\ step = "none" /\ op' = "approve" /\ step' = "promote" /\ sub' = "none"
      BY <1>7 DEF Approve, Commanded, disk, Data, Runs, ControlInv, OpSteps
    <2>2. iter = NoIteration  BY <2>1 DEF ControlInv, Iterating
    <2>3. iter'.local = iter.local /\ iter'.rollback = iter.rollback
      BY <1>7, <2>2, EmptyIteration DEF Approve, IterationType
    <2> QED  BY <2>1, <2>3, MoveRec DEF DoneWithOwn, Recovering, EarlyStages, LateStages, Recovered, At, Undoing
  <1> QED  BY <1>1, <1>2, <1>3, <1>4, <1>5, <1>6, <1>7

\* No operation is where more is asked of the backups.
Elsewhere == ~DoneWithOwn /\ ~Recovering /\ sub # "replay" /\ ~EarlyStages /\ ~LateStages /\ ~Recovered
             /\ ~At("take")

\* Files that are given up take nothing from the others.
LEMMA LoseFacts ==
    ASSUME UNCHANGED <<src, journal, marker, approved>>, lost \subseteq lost'
    PROVE  /\ Rest' \subseteq Rest /\ Applied' = Applied /\ Journalled' = Journalled
           /\ \A f : Safe(f)' <=> Safe(f)
           /\ JournalInv => JournalInv'
           /\ JournalFaithful' <=> JournalFaithful
           /\ AllSafe => AllSafe'
           /\ iter'.local = iter.local /\ iter'.rollback = iter.rollback => Held' = Held
  <1>1. Applied' = Applied /\ Rest' \subseteq Rest  BY DEF Applied, Rest
  <1>2. Journalled' = Journalled  BY <1>1 DEF Journalled, Paths
  <1>3. \A f : Safe(f)' <=> Safe(f)  BY DEF Safe
  <1>6. JournalInv => JournalInv'  BY <1>1 DEF JournalInv
  <1>7. JournalFaithful' <=> JournalFaithful  BY DEF JournalFaithful
  <1>8. iter'.local = iter.local /\ iter'.rollback = iter.rollback => Held' = Held  BY DEF Held, Paths
  <1>9. AllSafe => AllSafe'  BY <1>1, <1>3 DEF AllSafe
  <1> QED  BY <1>1, <1>2, <1>3, <1>6, <1>7, <1>8, <1>9

\* Where the invariant asks for the sources and the journal only.
LEMMA ElsewhereRec ==
    ASSUME Elsewhere', SrcInv', JournalInv', JournalFaithful' PROVE RecInv'
  BY DEF Elsewhere, RecInv, TakeInv, DoneInv, ReplayInv, RecoverInv, EditInv, LateInv, RecoveredInv

\* The memory is gone.
LEMMA CrashRec ==
    ASSUME BaseInv, RecInv, Crash \/ Panic PROVE RecInv'
  <1> USE DEF BaseInv
  <1>1. UNCHANGED <<src, journal, marker, approved>> /\ lost \subseteq lost' /\ Uncovered \subseteq lost'
        /\ (At("take") => Cleared \subseteq lost') BY Belongs DEF Crash, Panic, disk, At
  <1>2. Elsewhere'
    BY DEF Crash, Panic, Ends, Runs, Elsewhere, DoneWithOwn, Recovering, EarlyStages, LateStages, Recovered, Undoing, At
  <1>3. \A f \in Rest' : Safe(f)' \/ f \in Journalled'
    <2> SUFFICES ASSUME NEW f \in Rest' PROVE Safe(f)' \/ f \in Journalled'  OBVIOUS
    <2>1. f \in Rest /\ f \notin Uncovered /\ f \in Files  BY <1>1 DEF Rest
    <2>2. f \in Held => f \in Journalled  BY <2>1 DEF Uncovered
    <2>3. At("take") => f \notin Cleared  BY <1>1 DEF Rest
    <2>4. Safe(f) \/ f \in Journalled \/ f \in Held BY <2>1, <2>3 DEF RecInv, SrcInv, Cleared, Safe
    <2> QED  BY <1>1, <2>2, <2>4, LoseFacts
  <1>4. SrcInv'  BY <1>3 DEF SrcInv
  <1> QED  BY <1>1, <1>2, <1>4, LoseFacts, ElsewhereRec DEF RecInv

\* A new iteration begins without backups, and the journal has what is not approved.
LEMMA BeginRec ==
    ASSUME BaseInv, RecInv, NEW request \in Requests, Begin(request) PROVE RecInv'
  <1> USE DEF BaseInv
  <1>1. /\ op = "none" /\ step = "none" /\ op' = "iterate" /\ step' = "edit" /\ sub' = "none"
        /\ UNCHANGED <<src, journal, marker, approved, lost>> /\ start'.tree = src
    BY DEF Begin, Runs, ControlInv, OpSteps, disk
  <1>2. Held = {}  BY <1>1, NothingHeld DEF Iterating
  <1>3. iter'.local = {} /\ iter'.rollback = {} BY EmptyIteration DEF Begin, IterationType
  <1>4. /\ Rest' \subseteq Rest /\ Applied' = Applied /\ Journalled' = Journalled
        /\ \A f : Safe(f)' <=> Safe(f)
        /\ JournalInv' /\ JournalFaithful' BY <1>1, LoseFacts DEF RecInv
  <1>5. Held' = {}  BY <1>3 DEF Held, Paths
  <1>6. \A f \in Rest : Safe(f) \/ f \in Journalled  BY <1>1, <1>2 DEF RecInv, SrcInv, At
  <1>7. SrcInv'  BY <1>4, <1>6 DEF SrcInv
  <1>8. \A f \in Rest' : start'.tree[f] # approved'[f] =>
             f \in Journalled' /\ journal'.origin[f] = approved'[f]
    <2> SUFFICES ASSUME NEW f \in Rest', start'.tree[f] # approved'[f]
                 PROVE  f \in Journalled' /\ journal'.origin[f] = approved'[f] OBVIOUS
    <2>1. f \in Journalled /\ f \in Rest  BY <1>1, <1>4, <1>6 DEF Safe
    <2>2. PICK b \in journal.backups : b.path = f /\ journal # None  BY <2>1 DEF Journalled, Paths
    <2>3. b.original = approved[f]  BY <2>1, <2>2 DEF RecInv, JournalInv
    <2>4. b.original = journal.origin[f]  BY <2>1, <2>2 DEF RecInv, JournalFaithful, Rest
    <2> QED  BY <1>1, <1>4, <2>1, <2>3, <2>4
  <1>9. EditInv' BY <1>1, <1>3, <1>4, <1>8 DEF EditInv, Rest
  <1>10. ~DoneWithOwn' /\ ~Recovering' /\ ~LateStages' /\ ~Recovered' /\ ~At("take")'
    BY <1>1 DEF DoneWithOwn, Recovering, LateStages, Recovered, Undoing, At
  <1> QED  BY <1>1, <1>4, <1>7, <1>9, <1>10
           DEF RecInv, TakeInv, DoneInv, ReplayInv, RecoverInv, LateInv, RecoveredInv

\* Someone else's edit is counted as lost.
LEMMA DriftRec ==
    ASSUME BaseInv, RecInv, NEW f \in Files, NEW v \in Versions, Drift(f, v) PROVE RecInv'
  <1> USE DEF BaseInv
  <1>1. /\ op = "iterate" /\ step # "edit" /\ UNCHANGED <<op, step, sub, iter, journal, marker, approved, start>>
        /\ src' = [src EXCEPT ![f] = v] /\ lost' = lost \cup {f} /\ src \in Trees
    BY DEF Drift, memory, control, Types, TypeOK
  <1>2. Rest' \subseteq Rest /\ f \notin Rest' /\ \A g \in Rest' : src'[g] = src[g] BY <1>1 DEF Rest, Trees
  <1>3. \A g \in Rest' : Safe(g)' <=> Safe(g)  BY <1>1, <1>2 DEF Safe
  <1>4. Applied' = Applied /\ Journalled' = Journalled /\ Held' = Held
    BY <1>1 DEF Applied, Journalled, Held, Paths
  <1>5. step \notin {"restore", "restore_own", "take", "promote", "clear"} /\ sub # "replay"
    BY <1>1, Belongs DEF ControlInv, Undoing
  <1>6. SrcInv' /\ TakeInv'  BY <1>1, <1>2, <1>3, <1>4, <1>5 DEF RecInv, SrcInv, TakeInv, At
  <1>7. JournalInv' /\ JournalFaithful'  BY <1>1, <1>2 DEF RecInv, JournalInv, JournalFaithful
  <1>8. ~DoneWithOwn' /\ ~Recovering' /\ ~Recovered' /\ sub' # "replay"
    BY <1>1, <1>5 DEF DoneWithOwn, Recovering, Recovered, Undoing
  <1>9. EditInv' BY <1>1, <1>2, <1>4 DEF RecInv, EditInv, EarlyStages
  <1>10. LateInv'  BY <1>1, <1>4 DEF RecInv, LateInv, LateStages
  <1> QED  BY <1>6, <1>7, <1>8, <1>9, <1>10 DEF RecInv, DoneInv, ReplayInv, RecoverInv, RecoveredInv

\* A candidate that is taken makes its build the approved tree.
LEMMA TakeRec ==
    ASSUME BaseInv, RecInv, TakeCandidate PROVE RecInv'
  <1> USE DEF BaseInv
  <1>1. /\ op \in {"finish", "promote", "approve"} /\ step = "take" /\ sub = "none" /\ journal = None
        /\ UNCHANGED <<src, journal, marker>> /\ lost \subseteq lost'
    BY Belongs DEF TakeCandidate, At, disk, RecInv, TakeInv
  <1>2. JournalInv' /\ JournalFaithful'  BY <1>1 DEF JournalInv, JournalFaithful
  <1>3. CASE expected = None \/ expected = cand.id
    <2>1. /\ approved' = cand.build /\ lost' = lost \cup {f \in Files : src[f] # cand.build[f]}
          /\ op' = op /\ sub' = "none" /\ step' \in {"conclude", "done", "approved"}
      BY <1>1, <1>3, Table DEF TakeCandidate, Proceeds, Runs
    <2>2. \A f \in Rest' : Safe(f)'  BY <1>1, <2>1 DEF Rest, Safe
    <2>3. SrcInv' /\ DoneInv' /\ TakeInv'  BY <2>1, <2>2 DEF SrcInv, DoneInv, TakeInv, At
    <2>4. ~Recovering' /\ ~EarlyStages' /\ ~LateStages' /\ ~Recovered' /\ sub' # "replay"
      BY <1>1, <2>1 DEF Recovering, EarlyStages, LateStages, Recovered
    <2> QED  BY <1>2, <2>3, <2>4 DEF RecInv, ReplayInv, RecoverInv, EditInv, LateInv, RecoveredInv
  <1>4. CASE ~(expected = None \/ expected = cand.id)
    <2>1. /\ RaisesIn(iter, "stage") /\ lost' = lost \cup Cleared /\ approved' = approved
      BY <1>4 DEF TakeCandidate, Raises
    <2>2. /\ iter'.local = iter.local /\ iter'.rollback = iter.rollback /\ sub' = "none" /\ op' = op
          /\ step' \in {"promote_failed", "command_failed", "reinsert"}
      BY <1>1, <2>1, RaiseIter DEF Types, TypeOK, Errors, RaisesIn, Runs, Handler
    <2>3. Elsewhere'
      BY <1>1, <2>2 DEF Elsewhere, DoneWithOwn, Recovering, EarlyStages, LateStages, Recovered, Undoing, At
    <2>4. Held' = Held /\ \A f : Safe(f)' <=> Safe(f)  BY <1>1, <2>1, <2>2, LoseFacts
    <2>5. \A f \in Rest' : Safe(f)' \/ f \in Held'  BY <2>1, <2>4 DEF Rest, Cleared, Safe
    <2>6. SrcInv'  BY <2>5 DEF SrcInv
    <2> QED  BY <1>2, <2>3, <2>6, ElsewhereRec
  <1> QED  BY <1>3, <1>4

\* What an iteration at its edits knows.
LEMMA EditFacts ==
    ASSUME BaseInv, RecInv, EarlyStages
    PROVE  /\ iter.rollback \in SUBSET Backup /\ iter.local \in SUBSET Backup /\ iter.rollback # None
           /\ Held = Paths(iter.local) \cup Paths(iter.rollback)
           /\ step # "edit" => iter.local = {}
           /\ iter \in IterationType /\ src \in Trees
           /\ \A b \in iter.rollback : b.path \in Files => b.original = start.tree[b.path]
           /\ ~DoneWithOwn /\ ~Recovering /\ ~LateStages /\ ~Recovered /\ ~At("take")
  <1>1. iter.rollback # None  BY DEF BaseInv, IterateInv, EarlyStages
  <1>2. iter \in IterationType /\ src \in Trees  BY DEF BaseInv, Types, TypeOK
  <1>3. iter.rollback \in SUBSET Backup /\ iter.local \in SUBSET Backup  BY <1>1, <1>2 DEF IterationType
  <1>4. Held = Paths(iter.local) \cup Paths(iter.rollback)  BY <1>1 DEF Held
  <1>5. step # "edit" => iter.local = {}  BY DEF BaseInv, IterateInv
  <1>6. ~DoneWithOwn /\ ~Recovering /\ ~LateStages /\ ~Recovered /\ ~At("take")
    BY DEF EarlyStages, DoneWithOwn, Recovering, LateStages, Recovered, At, Undoing
  <1> QED  BY <1>1, <1>2, <1>3, <1>4, <1>5, <1>6 DEF RecInv, EditInv

\* A step at the edits that leaves the journal alone.
LEMMA EditKeepsRec ==
    ASSUME BaseInv, RecInv, EarlyStages, EarlyStages', UNCHANGED <<journal, marker, approved, start, lost>>,
           \A f \in Rest : f \in Held' \/ src'[f] = start.tree[f],
           EditInv', ~LateStages', step' # "take"
    PROVE  RecInv'
  <1>1. /\ \A f \in Rest : start.tree[f] # approved[f] => f \in Journalled
        /\ JournalInv /\ JournalFaithful BY DEF RecInv, EditInv
  <1>2. Rest' = Rest /\ Applied' = Applied /\ Journalled' = Journalled BY DEF Rest, Applied, Journalled, Paths
  <1>3. JournalInv' /\ JournalFaithful'  BY <1>1, <1>2 DEF JournalInv, JournalFaithful
  <1>4. SrcInv'  BY <1>1, <1>2 DEF SrcInv, Safe
  <1>5. ~DoneWithOwn' /\ ~Recovering' /\ ~Recovered' /\ sub' # "replay" /\ ~At("take")'
    BY DEF EarlyStages, DoneWithOwn, Recovering, Recovered, At, Undoing
  <1> QED  BY <1>3, <1>4, <1>5 DEF RecInv, TakeInv, DoneInv, ReplayInv, RecoverInv, LateInv, RecoveredInv

\* An edit has its backup, of what the iteration found.
LEMMA EditRec ==
    ASSUME BaseInv, RecInv, NEW f \in Files, NEW v \in Versions, Edit(f, v) PROVE RecInv'
  <1> USE DEF BaseInv
  <1>1. op = "iterate" /\ step = "edit" /\ sub = "none" /\ UNCHANGED <<op, step, sub>>
        /\ UNCHANGED <<journal, marker, approved, start, lost>> /\ src' = [src EXCEPT ![f] = v]
    BY Belongs DEF Edit, At, control, history
  <1>2. EarlyStages /\ EarlyStages' /\ ~LateStages'  BY <1>1 DEF EarlyStages, LateStages
  <1>3. PICK backup : backup = [path |-> f, original |-> src[f]]  OBVIOUS
  <1>4. backup.path = f /\ backup.original = src[f] /\ backup \in Backup /\ Paths({backup}) = {f}
    BY <1>2, <1>3, EditFacts DEF Backup, Trees, Paths
  <1>5. /\ Paths(Absorb(iter.local, {backup})) = Paths(iter.local) \cup {f}
        /\ Paths(Absorb(iter.rollback, {backup})) = Paths(iter.rollback) \cup {f}
    <2>1. /\ {backup} \in SUBSET Backup /\ iter.local \in SUBSET Backup /\ iter.rollback \in SUBSET Backup
          /\ \A b, c \in iter.local : b.path = c.path => b = c
          /\ \A b, c \in iter.rollback : b.path = c.path => b = c
          /\ \A b, c \in {backup} : b.path = c.path => b = c
      BY <1>2, <1>4, EditFacts DEF Types, TypeOK, IterateInv
    <2>2. Paths(Absorb(iter.local, {backup})) = Paths(iter.local) \cup Paths({backup}) BY <2>1, AbsorbKeeps
    <2>3. Paths(Absorb(iter.rollback, {backup})) = Paths(iter.rollback) \cup Paths({backup})
      BY <2>1, AbsorbKeeps
    <2> QED  BY <1>4, <2>2, <2>3
  <1>6. /\ \/ iter.mode = "plan" /\ iter'.rollback = Absorb(iter.rollback, {backup}) /\ iter'.local = iter.local
           \/ iter.mode # "plan" /\ iter'.rollback = iter.rollback /\ iter'.local = Absorb(iter.local, {backup})
        /\ iter'.rollback # None
    <2>1. iter \in IterationType  BY <1>2, EditFacts
    <2>2. iter'.rollback # None  BY <1>1, NextBase DEF IterateInv, Next, Work, BaseInv
    <2> QED  BY <1>3, <2>1, <2>2 DEF Edit, IterationType
  <1>7. Held' = Held \cup {f} BY <1>2, <1>5, <1>6, EditFacts DEF Held
  <1>8. /\ \A b \in iter.rollback : b.path \in Files => b.original = start.tree[b.path]
        /\ \A g \in Files : g \notin Held => src[g] = start.tree[g]
        /\ \A b \in iter.local : b.path \in Paths(iter.rollback) \/ b.original = start.tree[b.path]
        /\ \A g \in Rest : start.tree[g] # approved[g] => g \in Journalled /\ journal.origin[g] = approved[g]
    BY <1>1, <1>2 DEF RecInv, EditInv
  <1>9. \A g \in Files : g \notin Held' => src'[g] = start.tree[g]
    BY <1>1, <1>2, <1>7, <1>8, EditFacts DEF Trees
  <1>10. \A b \in iter'.rollback : b.path \in Files => b.original = start.tree[b.path]
    <2>1. CASE iter.mode = "plan" BY <1>2, <2>1, EditFacts, <1>4, <1>8, <1>6 DEF IterateInv, Paths, Absorb
    <2>2. CASE iter.mode # "plan"  BY <1>6, <1>8, <2>2
    <2> QED  BY <2>1, <2>2
  <1>11. \A b \in iter'.local : b.path \in Paths(iter'.rollback) \/ b.original = start.tree[b.path]
    <2>1. CASE iter.mode = "plan" BY <1>6, <2>1 DEF IterateInv
    <2>2. CASE iter.mode # "plan" BY <1>2, <1>4, <1>8, EditFacts, <1>6, <2>2 DEF Absorb
    <2> QED  BY <2>1, <2>2
  <1>12. Rest' = Rest /\ Journalled' = Journalled  BY <1>1 DEF Rest, Applied, Journalled, Paths
  <1>13. EditInv'  BY <1>1, <1>8, <1>9, <1>10, <1>11, <1>12 DEF EditInv, Rest
  <1> QED  BY <1>1, <1>2, <1>9, <1>13, EditKeepsRec DEF Rest

\* A refused batch puts back what it found.
LEMMA RefuseRec ==
    ASSUME BaseInv, RecInv, RefuseBatch PROVE RecInv'
  <1> USE DEF BaseInv
  <1>1. op = "iterate" /\ step = "edit" /\ sub = "none" /\ UNCHANGED <<op, step, sub>>
        /\ UNCHANGED <<journal, marker, approved, start, lost>>
    BY Belongs DEF RefuseBatch, At, control, history
  <1>2. EarlyStages /\ EarlyStages' /\ ~LateStages'  BY <1>1 DEF EarlyStages, LateStages
  <1>3. iter'.local = {} /\ iter'.rollback = iter.rollback BY <1>2, EditFacts DEF RefuseBatch, IterationType
  <1>4. Held' = Paths(iter.rollback)  BY <1>2, <1>3, EditFacts DEF Held, Paths
  <1>5. /\ \A b \in iter.rollback : b.path \in Files => b.original = start.tree[b.path]
        /\ \A g \in Files : g \notin Held => src[g] = start.tree[g]
        /\ \A b \in iter.local : b.path \in Paths(iter.rollback) \/ b.original = start.tree[b.path]
        /\ \A g \in Rest : start.tree[g] # approved[g] => g \in Journalled /\ journal.origin[g] = approved[g]
    BY <1>1, <1>2 DEF RecInv, EditInv
  <1>6. \A g \in Files : g \notin Held' => src'[g] = start.tree[g]
    <2> SUFFICES ASSUME NEW g \in Files, g \notin Paths(iter.rollback) PROVE src'[g] = start.tree[g] BY <1>4
    <2>1. CASE g \in Paths(iter.local)
      <3>1. PICK b \in iter.local : b = CHOOSE x \in iter.local : x.path = g  BY <2>1 DEF Paths
      <3>2. b.path = g  BY <2>1, <3>1 DEF Paths
      <3>3. src'[g] = b.original  BY <2>1, <3>1 DEF RefuseBatch
      <3> QED  BY <1>5, <3>2, <3>3
    <2>2. CASE g \notin Paths(iter.local) BY <2>2, <1>2, <1>5, EditFacts DEF RefuseBatch
    <2> QED  BY <2>1, <2>2
  <1>7. Rest' = Rest /\ Journalled' = Journalled  BY <1>1 DEF Rest, Applied, Journalled, Paths
  <1>8. EditInv'  BY <1>1, <1>3, <1>5, <1>6, <1>7 DEF EditInv, Rest
  <1> QED  BY <1>1, <1>2, <1>6, <1>8, EditKeepsRec DEF Rest

\* Writing the journal: what an earlier journal covered and this one does not
\* is given up, so that the other files began as they were approved.
LEMMA WriteJournal ==
    ASSUME BaseInv, RecInv, EarlyStages, NEW R \in SUBSET Backup,
           journal' = Journal(R), lost' = lost \cup Overwritten,
           UNCHANGED <<src, marker, approved, start>>,
           Files \cap Paths(R) = Files \cap Held,
           \A b \in R : b.path \in Files => b.original = start.tree[b.path]
    PROVE  /\ Journalled' = Paths(R) /\ ~Applied' /\ journal' # None
           /\ JournalInv' /\ JournalFaithful'
           /\ \A f \in Rest' : Safe(f)' \/ f \in Paths(R)
           /\ \A f \in Rest' : start.tree[f] = approved[f]
           /\ Rest' \subseteq Rest
  <1>1. /\ journal'.backups = R /\ journal'.origin = start.tree /\ journal'.gen # marker /\ journal' # None
    BY JournalTyped DEF BaseInv
  <1>2. ~Applied' /\ Journalled' = Paths(R)  BY <1>1 DEF Applied, Journalled, Paths
  <1>3. Rest' \subseteq Rest  BY DEF Rest
  <1>4. \A f \in Rest' : start.tree[f] = approved[f]
    <2> SUFFICES ASSUME NEW f \in Rest', start.tree[f] # approved[f] PROVE FALSE  OBVIOUS
    <2>1. f \in Journalled /\ journal.origin[f] = approved[f]  BY <1>3 DEF RecInv, EditInv
    <2>2. journal # None /\ journal.origin # start.tree  BY <2>1 DEF Journalled
    <2>3. f \in Overwritten  BY <2>1, <2>2 DEF Overwritten, Rest
    <2> QED  BY <2>3 DEF Rest
  <1>5. JournalFaithful'  BY <1>1 DEF JournalFaithful
  <1>6. JournalInv' BY <1>1, <1>4 DEF JournalInv, Rest
  <1>7. \A f \in Rest' : Safe(f)' \/ f \in Paths(R)
    <2> SUFFICES ASSUME NEW f \in Rest', f \notin Paths(R) PROVE Safe(f)'  OBVIOUS
    <2>1. f \notin Held /\ f \in Files  BY DEF Rest
    <2>2. src[f] = start.tree[f]  BY <1>3, <2>1 DEF RecInv, EditInv
    <2> QED  BY <1>4, <2>2 DEF Safe
  <1> QED  BY <1>1, <1>2, <1>3, <1>4, <1>5, <1>6, <1>7

\* A batch that ends has its backups in the rollback, and in the journal if it could be written.
LEMMA BatchRec ==
    ASSUME BaseInv, RecInv, EndBatch PROVE RecInv'
  <1> USE DEF BaseInv
  <1>1. op = "iterate" /\ step = "edit" /\ sub = "none" /\ UNCHANGED <<op, step, sub>>
        /\ UNCHANGED <<src, marker, approved, start>> BY Belongs DEF EndBatch, At, control
  <1>2. EarlyStages /\ EarlyStages' /\ ~LateStages'  BY <1>1 DEF EarlyStages, LateStages
  <1>3. PICK R : R = Absorb(iter.rollback, iter.local)  OBVIOUS
  <1>4. R \in SUBSET Backup /\ Paths(R) = Held /\ iter.rollback \subseteq R
    <2>1. /\ Absorb(iter.rollback, iter.local) \in SUBSET Backup /\ iter.rollback \subseteq Absorb(iter.rollback, iter.local)
          /\ Paths(Absorb(iter.rollback, iter.local)) = Paths(iter.rollback) \cup Paths(iter.local)
      BY <1>2, EditFacts, AbsorbKeeps DEF Types, TypeOK, IterateInv
    <2> QED  BY <1>2, <1>3, <2>1, EditFacts
  <1>5. iter'.rollback = R /\ iter'.local = {} BY <1>2, <1>3, EditFacts DEF EndBatch, IterationType
  <1>6. Held' = Held BY <1>4, NoneAssumption, <1>5 DEF Held, Paths
  <1>7. /\ \A b \in iter.rollback : b.path \in Files => b.original = start.tree[b.path]
        /\ \A g \in Files : g \notin Held => src[g] = start.tree[g]
        /\ \A b \in iter.local : b.path \in Paths(iter.rollback) \/ b.original = start.tree[b.path]
        /\ \A g \in Rest : start.tree[g] # approved[g] => g \in Journalled /\ journal.origin[g] = approved[g]
    BY <1>1, <1>2 DEF RecInv, EditInv
  <1>8. \A b \in R : b.path \in Files => b.original = start.tree[b.path] BY <1>3, <1>7 DEF Absorb
  <1>9. CASE journal' = Journal(R) /\ lost' = lost \cup Overwritten
    <2>1. /\ Journalled' = Paths(R) /\ JournalInv' /\ JournalFaithful'
          /\ \A f \in Rest' : Safe(f)' \/ f \in Paths(R)
          /\ \A f \in Rest' : start.tree[f] = approved[f]
          /\ Rest' \subseteq Rest BY <1>1, <1>2, <1>4, <1>8, <1>9, WriteJournal
    <2>2. SrcInv'  BY <2>1 DEF SrcInv
    <2>3. EditInv'  BY <1>1, <1>5, <1>6, <1>7, <1>8, <2>1 DEF EditInv, Rest
    <2>4. ~DoneWithOwn' /\ ~Recovering' /\ ~Recovered' /\ sub' # "replay" /\ ~At("take")'
      BY <1>1 DEF DoneWithOwn, Recovering, Recovered, At, Undoing
    <2> QED  BY <1>2, <2>1, <2>2, <2>3, <2>4 DEF RecInv, TakeInv, DoneInv, ReplayInv, RecoverInv, LateInv, RecoveredInv
  <1>10. CASE UNCHANGED <<journal, lost>>
    <2>1. Rest' = Rest /\ Journalled' = Journalled  BY <1>1, <1>10 DEF Rest, Applied, Journalled, Paths
    <2>2. EditInv'  BY <1>1, <1>5, <1>6, <1>7, <1>8, <1>10, <2>1 DEF EditInv, Rest
    <2> QED  BY <1>1, <1>2, <1>6, <1>7, <1>10, <2>2, EditKeepsRec DEF Rest
  <1> QED BY <1>2, <1>3, EditFacts, <1>9, <1>10 DEF EndBatch, IterationType

\* When the edits end, what is dropped with an error is counted as lost.
LEMMA EndEditsRec ==
    ASSUME BaseInv, RecInv, EndEdits PROVE RecInv'
  <1> USE DEF BaseInv
  <1>1. op = "iterate" /\ step = "edit" /\ sub = "none" /\ iter.local = {}
        /\ UNCHANGED <<src, journal, marker, approved, start>> BY Belongs DEF EndEdits, At, disk
  <1>2. EarlyStages  BY <1>1 DEF EarlyStages
  <1>3. CASE Proceeds /\ UNCHANGED <<iter, unclean, lost>>
    <2>1. op' = op /\ step' = "persist" /\ sub' = "none"  BY <1>1, <1>3, Table DEF Proceeds, Runs
    <2> QED  BY <1>1, <1>3, <2>1, MoveRec
             DEF Data, DoneWithOwn, Recovering, EarlyStages, LateStages, Recovered, At, Undoing
  <1>4. CASE Raises("stage") /\ UNCHANGED lost  BY <1>1, <1>4, RaiseRec DEF Data, Raises, Errors
  <1>5. CASE RaisesIn([iter EXCEPT !.rollback = None], "stage") /\ lost' = lost \cup Uncovered
    <2>1. [iter EXCEPT !.rollback = None] \in IterationType /\ [iter EXCEPT !.rollback = None].rollback = None
      BY DEF Types, TypeOK, IterationType
    <2>2. op' = "iterate" /\ step' = "finalize" /\ sub' = "none" /\ iter'.error # "none"
      BY <1>1, <1>5, <2>1, RaiseIter DEF RaisesIn, Runs, Handler, Errors
    <2>3. Elsewhere'
      BY <2>2 DEF Elsewhere, DoneWithOwn, Recovering, EarlyStages, LateStages, Recovered, Undoing, At
    <2>4. \A f \in Rest' : Safe(f)' \/ f \in Journalled'
      BY <1>1, <1>5, LoseFacts DEF RecInv, SrcInv, At, Rest, Uncovered
    <2>5. SrcInv'  BY <2>4 DEF SrcInv
    <2> QED  BY <1>1, <1>5, <2>3, <2>5, LoseFacts, ElsewhereRec DEF RecInv
  <1> QED  BY <1>3, <1>4, <1>5 DEF EndEdits

\* The journal that is written covers every edit of the iteration.
LEMMA PersistRec ==
    ASSUME BaseInv, RecInv, Persist PROVE RecInv'
  <1> USE DEF BaseInv
  <1>1. op = "iterate" /\ step = "persist" /\ sub = "none" /\ UNCHANGED <<src, marker, approved, start>>
    BY Belongs DEF Persist, At
  <1>2. EarlyStages  BY <1>1 DEF EarlyStages
  <1>3. /\ iter.rollback \in SUBSET Backup /\ Held = Paths(iter.rollback) /\ iter \in IterationType
        /\ \A b \in iter.rollback : b.path \in Files => b.original = start.tree[b.path]
    BY <1>1, <1>2, EditFacts DEF Paths
  <1>4. CASE journal' = Journal(iter.rollback) /\ lost' = lost \cup Overwritten /\ Proceeds /\ UNCHANGED iter
    <2>1. /\ Journalled' = Paths(iter.rollback) /\ JournalInv' /\ JournalFaithful'
          /\ \A f \in Rest' : Safe(f)' \/ f \in Paths(iter.rollback)
          /\ \A f \in Rest' : start.tree[f] = approved[f]
          /\ Rest' \subseteq Rest BY <1>1, <1>2, <1>3, <1>4, WriteJournal
    <2>2. SrcInv'  BY <2>1 DEF SrcInv
    <2>3. op' = "iterate" /\ step' = "backup" /\ sub' = "none"  BY <1>1, <1>4, Table DEF Proceeds, Runs
    <2>4. Held' = Held  BY <1>4 DEF Held, Paths
    <2>5. \A f \in Rest : f \notin Held => src[f] = start.tree[f]  BY <1>2 DEF RecInv, EditInv
    <2>6. EditInv'  BY <1>1, <1>3, <1>4, <2>1, <2>3, <2>4, <2>5 DEF EditInv
    <2>7. ~DoneWithOwn' /\ ~Recovering' /\ ~Recovered' /\ sub' # "replay" /\ ~At("take")' /\ ~LateStages'
      BY <2>3 DEF DoneWithOwn, Recovering, Recovered, LateStages, At, Undoing
    <2> QED  BY <2>1, <2>2, <2>6, <2>7 DEF RecInv, TakeInv, DoneInv, ReplayInv, RecoverInv, LateInv, RecoveredInv
  <1>5. CASE Fault("persist") /\ UNCHANGED <<journal, lost>>
    <2>1. PICK kind \in Errors : RaisesIn(iter, kind)  BY <1>3, <1>5, FaultIter DEF Fault
    <2> QED  BY <1>1, <1>5, <2>1, RaiseRec DEF Data
  <1> QED  BY <1>4, <1>5 DEF Persist

\* The artifact joins the backups, the sources keep theirs.
LEMMA BackupRec ==
    ASSUME BaseInv, RecInv, BackupArtifacts PROVE RecInv'
  <1> USE DEF BaseInv
  <1>1. op = "iterate" /\ step = "backup" /\ sub = "none" /\ UNCHANGED <<src, marker, approved, start>>
    BY Belongs DEF BackupArtifacts, At
  <1>2. EarlyStages  BY <1>1 DEF EarlyStages
  <1>3. /\ iter.rollback \in SUBSET Backup /\ iter.rollback # None /\ Held = Paths(iter.rollback) /\ iter \in IterationType
        /\ iter.local = {}
        /\ \A b \in iter.rollback : b.path \in Files => b.original = start.tree[b.path]
    BY <1>1, <1>2, EditFacts DEF Paths
  <1>4. PICK kept : kept = [iter EXCEPT !.rollback = IF iter.root \/ so = None THEN @
                              ELSE Absorb(@, {[path |-> "so", original |-> so]})]  OBVIOUS
  <1>5. PICK R : R = kept.rollback  OBVIOUS
  <1>6. /\ R \in SUBSET Backup /\ Files \cap Paths(R) = Files \cap Held /\ kept \in IterationType /\ kept.local = {}
        /\ \A b \in R : b.path \in Files => b.original = start.tree[b.path]
    <2>1. CASE iter.root \/ so = None BY <1>3, <1>4, <2>1, <1>5 DEF IterationType
    <2>2. CASE ~(iter.root \/ so = None)
      <3>1. PICK b : b = [path |-> "so", original |-> so]  OBVIOUS
      <3>2. b \in Backup /\ b.path = "so" /\ b.path \notin Files
        BY <2>2, <3>1, KnownNames DEF Backup, Types, TypeOK
      <3>3. kept = [iter EXCEPT !.rollback = Absorb(@, {b})]  BY <1>4, <2>2, <3>1
      <3>4. R = Absorb(iter.rollback, {b}) /\ kept.local = {}  BY <1>3, <1>5, <3>3 DEF IterationType
      <3>5. R \in SUBSET Backup /\ Paths(R) = Paths(iter.rollback) \cup Paths({b})
        BY <1>3, <3>2, <3>4, AbsorbKeeps DEF Types, TypeOK
      <3>6. kept \in IterationType  BY <1>3, <3>3, <3>4, <3>5 DEF IterationType
      <3>7. Files \cap Paths(R) = Files \cap Held  BY <1>3, <3>2, <3>5 DEF Paths
      <3>8. \A c \in R : c.path \in Files => c.original = start.tree[c.path] BY <1>3, <3>2, <3>4 DEF Absorb
      <3> QED  BY <3>4, <3>5, <3>6, <3>7, <3>8
    <2> QED  BY <2>1, <2>2
  <1>7. CASE /\ iter' = kept /\ journal' = Journal(kept.rollback) /\ lost' = lost \cup Overwritten
             /\ Calls(IF OnePlugin THEN Target ELSE Full)
    <2>1. /\ Journalled' = Paths(R) /\ JournalInv' /\ JournalFaithful' /\ ~Applied' /\ journal' # None
          /\ \A f \in Rest' : Safe(f)' \/ f \in Paths(R) BY <1>1, <1>2, <1>5, <1>6, <1>7, WriteJournal
    <2>2. SrcInv'  BY <2>1 DEF SrcInv
    <2>3. op' = "iterate" /\ step' = "backup" /\ sub' \in {"compile", "wipe"}
      BY <1>1, <1>7 DEF Calls, Target, Full
    <2>4. R # None  BY <1>6, NoneAssumption
    <2>5. Held' = Paths(R)  BY <1>5, <1>6, <1>7, <2>4 DEF Held, Paths
    <2>6. LateInv'  BY <1>5, <1>7, <2>1, <2>4, <2>5 DEF LateInv
    <2>7. ~DoneWithOwn' /\ ~Recovering' /\ ~Recovered' /\ sub' # "replay" /\ ~At("take")' /\ ~EarlyStages'
      BY <2>3 DEF DoneWithOwn, Recovering, Recovered, EarlyStages, At, Undoing
    <2> QED  BY <2>1, <2>2, <2>6, <2>7 DEF RecInv, TakeInv, DoneInv, ReplayInv, RecoverInv, EditInv, RecoveredInv
  <1>8. CASE FaultIn("persist", kept) /\ UNCHANGED <<journal, lost>>
    <2>1. PICK kind \in Errors : RaisesIn(kept, kind)  BY <1>6, <1>8, FaultIter
    <2>2. op' = "iterate" /\ step' = "finalize" /\ sub' = "none" /\ iter'.error # "none" /\ iter'.rollback = R
      BY <1>1, <1>5, <1>6, <2>1, RaiseIter DEF RaisesIn, Runs, Handler, Errors
    <2>3. Elsewhere'
      BY <2>2 DEF Elsewhere, DoneWithOwn, Recovering, EarlyStages, LateStages, Recovered, Undoing, At
    <2>4. R # None  BY <1>6, NoneAssumption
    <2>5. \A f \in Files : f \in Held => f \in Held'  BY <1>6, <2>2, <2>4 DEF Held
    <2>6. \A f \in Rest : Safe(f) \/ f \in Journalled \/ f \in Held  BY <1>1 DEF RecInv, SrcInv, At
    <2>7. SrcInv' BY <1>1, <1>8, <2>5, <2>6, LoseFacts DEF SrcInv, Rest
    <2> QED  BY <1>1, <1>8, <2>3, <2>7, LoseFacts, ElsewhereRec DEF RecInv
  <1> QED  BY <1>4, <1>7, <1>8 DEF BackupArtifacts

\* Where a recovery goes on, and where its errors go.
LEMMA RecoveryPlaces ==
    ASSUME BaseInv, step \in {"restore", "restore_own"}
    PROVE  /\ op \in {"boot", "panic", "abandon", "undo"} \cup Undoing
           /\ step = "restore_own" => op \in Undoing
           /\ Proceeds => /\ op' = op /\ sub' = "none"
                          /\ step = "restore_own" => step' \in {"restored", "conclude"}
                          /\ step = "restore" => \/ op = "boot" /\ step' = "refresh"
                                                 \/ op = "panic" /\ step' = "restored"
                                                 \/ op \in Undoing \cup {"abandon", "undo"} /\ step' = "drop"
           /\ \A kind \in Errors : RaisesIn(iter, kind) =>
                 /\ op' = op /\ sub' = "none" /\ unclean' /\ iter' = iter
                 /\ step = "restore_own" => step' \in {"restored", "errored"}
                 /\ step = "restore" => \/ op = "boot" /\ step' = "booted"
                                        \/ op = "panic" /\ step' = "restored"
                                        \/ op \in Undoing \cup {"abandon", "undo"} /\ step' = "rolled"
           /\ ~EarlyStages /\ ~LateStages /\ ~At("take") /\ ~DoneWithOwn
           /\ iter.local = {}
  <1> USE DEF BaseInv
  <1>1. op \in {"boot", "panic", "abandon", "undo"} \cup Undoing /\ (step = "restore_own" => op \in Undoing)
    BY Belongs
  <1>2. Proceeds => op' = op /\ sub' = "none" /\ step' = After[op][step]  BY DEF Proceeds, Runs
  <1>3. ASSUME NEW kind \in Errors, RaisesIn(iter, kind)
        PROVE  op' = op /\ sub' = "none" /\ unclean' /\ iter' = iter /\ step' = Handler
    BY <1>1, <1>3 DEF RaisesIn, Runs, Undoing
  <1>4. step' = Handler => /\ step = "restore_own" => step' \in {"restored", "errored"}
                           /\ step = "restore" => \/ op = "boot" /\ step' = "booted"
                                                  \/ op = "panic" /\ step' = "restored"
                                                  \/ op \in Undoing \cup {"abandon", "undo"} /\ step' = "rolled"
    BY <1>1 DEF Handler, Undoing
  <1>5. ~EarlyStages /\ ~LateStages /\ ~At("take") /\ ~DoneWithOwn
    BY <1>1 DEF EarlyStages, LateStages, At, DoneWithOwn, Undoing
  <1>6. iter.local = {}  BY NoLocal DEF At
  <1>7. step' = After[op][step] =>
                  /\ step = "restore_own" => step' \in {"restored", "conclude"}
                  /\ step = "restore" => \/ op = "boot" /\ step' = "refresh"
                                         \/ op = "panic" /\ step' = "restored"
                                         \/ op \in Undoing \cup {"abandon", "undo"} /\ step' = "drop"
    BY <1>1, Table DEF Undoing
  <1> QED  BY <1>1, <1>2, <1>3, <1>4, <1>5, <1>6, <1>7

\* Where a recovery is over.
LEMMA LeavesRec ==
    ASSUME BaseInv, RecInv, step \in {"restore", "restore_own"},
           (Proceeds /\ UNCHANGED <<iter, unclean>>) \/ (\E kind \in Errors : RaisesIn(iter, kind)),
           SrcInv', JournalInv', JournalFaithful',
           step = "restore_own" => AllJournalled',
           step = "restore_own" /\ ~unclean' => AllSafe',
           op \in {"boot", "panic"} /\ ~unclean' => AllSafe',
           op = "abandon" /\ ~unclean => AllSafe'
    PROVE  RecInv'
  <1>1. ~Recovering' /\ ~EarlyStages' /\ ~LateStages' /\ ~At("take")' /\ sub' # "replay"
    BY RecoveryPlaces DEF Recovering, EarlyStages, LateStages, At, Undoing
  <1>2. DoneInv' BY RecoveryPlaces DEF DoneWithOwn, Undoing, DoneInv, AllJournalled
  <1>3. RecoveredInv' BY RecoveryPlaces DEF Recovered, Undoing, RecoveredInv
  <1> QED  BY <1>1, <1>2, <1>3 DEF RecInv, TakeInv, ReplayInv, RecoverInv, EditInv, LateInv

\* Where a recovery goes on.
LEMMA StaysRec ==
    ASSUME BaseInv, RecInv, step \in {"restore", "restore_own"},
           op' = op, step' = step, iter' = iter, unclean' = unclean, sub' # "none",
           SrcInv', JournalInv', JournalFaithful', ReplayInv', RecoverInv',
           op = "abandon" /\ ~unclean => AllSafe'
    PROVE  RecInv'
  <1>1. ~EarlyStages' /\ ~LateStages' /\ ~At("take")' /\ ~DoneWithOwn'
    BY RecoveryPlaces DEF EarlyStages, LateStages, At, DoneWithOwn, Undoing
  <1>2. Recovered' => op = "abandon" BY RecoveryPlaces DEF Recovered, Undoing
  <1> QED  BY <1>1, <1>2 DEF RecInv, TakeInv, DoneInv, EditInv, LateInv, RecoveredInv

\* A recovery begins with all the backups there are.
LEMMA RestoreRec ==
    ASSUME BaseInv, RecInv, Restore PROVE RecInv'
  <1> USE DEF BaseInv
  <1>1. step \in {"restore", "restore_own"} /\ sub = "none"  BY DEF Restore, At
  <1>2. UNCHANGED <<src, journal, marker, approved, start, iter, unclean>>  BY DEF Restore, disk
  <1>3. PICK own : own = IF step = "restore_own" THEN iter.rollback ELSE None  OBVIOUS
  <1>4. lost' = lost \cup (IF own = None THEN {} ELSE IF journal = None THEN Unapproved(own) ELSE Uncovered)
    BY <1>1, <1>3 DEF Restore, At
  <1>5. lost \subseteq lost'  BY <1>4
  <1>6. /\ Rest' \subseteq Rest /\ Applied' = Applied /\ Journalled' = Journalled /\ Held' = Held
        /\ \A f : Safe(f)' <=> Safe(f)
        /\ JournalInv' /\ JournalFaithful'
        /\ AllSafe => AllSafe' BY <1>2, <1>5, LoseFacts DEF RecInv
  <1>7. \A f \in Rest : Safe(f) \/ f \in Journalled \/ f \in Held  BY <1>1 DEF RecInv, SrcInv, At
  <1>8. SrcInv'  BY <1>6, <1>7 DEF SrcInv
  <1>9. Held = IF iter.rollback = None THEN {} ELSE Paths(iter.rollback)
    BY <1>1, RecoveryPlaces DEF Held, Paths
  <1>10. step = "restore_own" /\ own = None => Held = {}  BY <1>3, <1>9
  <1>11. step = "restore_own" /\ journal # None => \A f \in Rest' : Safe(f) \/ f \in Journalled
    <2> SUFFICES ASSUME step = "restore_own", journal # None, NEW f \in Rest' PROVE Safe(f) \/ f \in Journalled
      OBVIOUS
    <2>1. own # None => f \notin Uncovered  BY <1>4 DEF Rest
    <2>2. f \in Held => f \in Journalled  BY <1>10, <2>1 DEF Uncovered, Rest
    <2> QED  BY <1>6, <1>7, <2>2
  <1>12. op = "abandon" /\ ~unclean => AllSafe'  BY <1>6 DEF RecInv, RecoveredInv, Recovered
  <1>13. CASE Applied /\ Calls("unmark") /\ restored' = FALSE
    <2>1. op' = op /\ step' = step /\ sub' = "unmark"  BY <1>13 DEF Calls
    <2>2. Journalled = {} /\ journal # None  BY <1>13 DEF Journalled, Applied
    <2>3. RecoverInv'  BY <1>1, <1>6, <1>7, <1>11, <2>1, <2>2 DEF RecoverInv
    <2>4. ReplayInv'  BY <2>1 DEF ReplayInv
    <2> QED  BY <1>1, <1>2, <1>6, <1>8, <1>12, <2>1, <2>3, <2>4, StaysRec
  <1>14. CASE journal # None /\ ~Applied /\ Calls("replay") /\ restored' = TRUE /\ undo' = journal.backups
    <2>1. op' = op /\ step' = step /\ sub' = "replay"  BY <1>14 DEF Calls
    <2>2. RecoverInv'  BY <2>1 DEF RecoverInv, Recovering
    <2>3. ReplayInv'  BY <1>2, <1>6, <1>11, <1>14, <2>1 DEF ReplayInv
    <2> QED  BY <1>1, <1>2, <1>6, <1>8, <1>12, <2>1, <2>2, <2>3, StaysRec
  <1>15. CASE journal = None /\ own # None /\ Calls("replay") /\ restored' = TRUE /\ undo' = own
    <2>1. op' = op /\ step' = step /\ sub' = "replay" /\ step = "restore_own" /\ undo' = iter.rollback
      BY <1>3, <1>15 DEF Calls
    <2>2. RecoverInv'  BY <2>1 DEF RecoverInv, Recovering
    <2>3. Journalled = {}  BY <1>15 DEF Journalled
    <2>4. \A f \in Rest' : Safe(f)' \/ f \in Paths(undo)'
      BY <1>3, <1>6, <1>7, <1>9, <1>15, <2>1, <2>3 DEF Paths
    <2>5. \A b \in undo' : b.path \in Rest' => b.original = approved'[b.path]
      BY <1>2, <1>4, <1>15 DEF Unapproved, Rest
    <2>6. ReplayInv'  BY <1>2, <1>15, <2>1, <2>4, <2>5 DEF ReplayInv
    <2> QED  BY <1>1, <1>2, <1>6, <1>8, <1>12, <2>1, <2>2, <2>6, StaysRec
  <1>16. CASE journal = None /\ own = None /\ Proceeds
    <2>1. Journalled = {}  BY <1>16 DEF Journalled
    <2>2. step = "restore_own" => AllSafe' BY <1>6, <1>7, <1>10, <1>16, <2>1 DEF AllSafe
    <2>3. op \in {"boot", "panic"} => AllSafe' BY NothingHeld, <1>6, <1>7, <2>1 DEF Iterating, AllSafe
    <2>4. AllSafe' => AllJournalled'  BY DEF AllSafe, AllJournalled
    <2> QED  BY <1>1, <1>2, <1>6, <1>8, <1>12, <1>16, <2>2, <2>3, <2>4, LeavesRec
  <1> QED  BY <1>1, <1>3, <1>13, <1>14, <1>15, <1>16 DEF Restore, At

\* A recovery that fails is noted as such, and goes on to a later step.
LEMMA RecoveryRaises ==
    ASSUME BaseInv, Fault("restore"), step \in {"restore", "restore_own"}
    PROVE  /\ iter' = iter /\ unclean' = TRUE /\ \E kind \in Errors : RaisesIn(iter, kind)
  <1>1. PICK kind \in Errors : RaisesIn(iter, kind) BY FaultIter DEF Fault, BaseInv, Types, TypeOK
  <1>2. iter' = iter /\ unclean'  BY <1>1, RecoveryPlaces
  <1>3. unclean' \in BOOLEAN  BY FaultIter DEF Fault, BaseInv, Types, TypeOK
  <1> QED  BY <1>1, <1>2, <1>3

\* Each backup that is written back makes one file safe, and keeps the others so.
LEMMA WriteBackRec ==
    ASSUME BaseInv, RecInv, WriteBack PROVE RecInv'
  <1> USE DEF BaseInv
  <1>1. sub = "replay" /\ step \in {"restore", "restore_own"} /\ UNCHANGED <<journal, marker, restored, approved, start>>
        /\ src \in Trees BY DEF WriteBack, In, ControlInv, Types, TypeOK
  <1>2. /\ restored
        /\ journal = None => /\ step = "restore_own"
                             /\ \A f \in Rest : Safe(f) \/ f \in Paths(undo)
                             /\ \A b \in undo : b.path \in Rest => b.original = approved[b.path]
        /\ journal # None => /\ ~Applied /\ undo \subseteq journal.backups
                             /\ \A b \in journal.backups \ undo : b.path \in Files => src[b.path] = b.original
                             /\ step = "restore_own" => \A f \in Rest : Safe(f) \/ f \in Journalled
    BY <1>1 DEF RecInv, ReplayInv
  <1>3. \A f \in Rest : Safe(f) \/ f \in Journalled \/ f \in Held  BY <1>1 DEF RecInv, SrcInv, At
  <1>4. journal # None => Journalled = Paths(journal.backups)  BY <1>2 DEF Journalled
  <1>5. op = "abandon" /\ ~unclean => AllSafe  BY DEF RecInv, RecoveredInv, Recovered
  <1>6. CASE undo = {} /\ SubProceeds /\ UNCHANGED <<src, so, undo, iter, spent, unclean, lost>>
    <2>1. op' = op /\ step' = step /\ sub' = IF journal = None THEN "wipe" ELSE "mark"
      BY <1>1, <1>6, SubTo DEF Calls
    <2>2. /\ Rest' \subseteq Rest /\ Applied' = Applied /\ Journalled' = Journalled /\ Held' = Held
          /\ \A f : Safe(f)' <=> Safe(f)
          /\ JournalInv' /\ JournalFaithful'
          /\ AllSafe => AllSafe' BY <1>1, <1>6, LoseFacts DEF RecInv
    <2>3. \A f \in Rest : f \in Journalled => Safe(f)
      <3> SUFFICES ASSUME NEW f \in Rest, f \in Journalled PROVE Safe(f)  OBVIOUS
      <3>1. journal # None  BY DEF Journalled
      <3>2. PICK b \in journal.backups : b.path = f  BY <1>4, <3>1 DEF Paths
      <3>3. src[f] = b.original  BY <1>2, <1>6, <3>1, <3>2 DEF Rest
      <3>4. b.original = approved[f]  BY <3>1, <3>2 DEF RecInv, JournalInv
      <3> QED  BY <3>3, <3>4 DEF Safe
    <2>4. \A f \in Rest : Safe(f) \/ (step = "restore" /\ f \in Held)
      BY <1>2, <1>6, <1>1, <1>3, <2>3 DEF Paths
    <2>5. RecoverInv'  BY <1>1, <1>2, <2>1, <2>2, <2>4 DEF RecoverInv
    <2>6. ReplayInv'  BY <2>1 DEF ReplayInv
    <2>7. SrcInv'  BY <1>3, <2>2 DEF SrcInv
    <2> QED  BY <1>1, <1>5, <1>6, <2>1, <2>2, <2>5, <2>6, <2>7, StaysRec
  <1>7. ASSUME NEW backup \in undo,
               IF backup.path = "so"
               THEN so' = backup.original /\ UNCHANGED src
               ELSE src' = [src EXCEPT ![backup.path] = backup.original] /\ UNCHANGED so,
               undo' = undo \ {backup}, UNCHANGED <<control, iter, spent, unclean, lost>>
        PROVE  RecInv'
    <2>1. op' = op /\ step' = step /\ sub' = "replay"  BY <1>1, <1>7 DEF control
    <2>2. /\ Rest' = Rest /\ Applied' = Applied /\ Journalled' = Journalled /\ Held' = Held
          /\ JournalInv' /\ JournalFaithful'
      BY <1>1, <1>7 DEF Rest, Applied, Journalled, Held, Paths, RecInv, JournalInv, JournalFaithful
    <2>3. backup \in Backup /\ (backup.path \in Files \/ backup.path = "so") BY DEF Types, TypeOK, Backup
    <2>4. \A f \in Files : src'[f] = IF f = backup.path THEN backup.original ELSE src[f]
      BY <1>1, <1>7, <2>3, KnownNames DEF Trees
    <2>5. backup.path \in Rest => backup.original = approved[backup.path] BY <1>2 DEF RecInv, JournalInv
    <2>6. \A f \in Rest : f = backup.path => Safe(f)' BY <1>1, <2>4, <2>5 DEF Safe, Rest
    <2>7. \A f \in Rest : Safe(f) => Safe(f)' BY <1>1, <2>4, <2>6 DEF Safe, Rest
    <2>8. SrcInv'  BY <1>3, <2>2, <2>7 DEF SrcInv
    <2>9. ReplayInv'
      <3>1. CASE journal = None
        <4>1. \A f \in Rest' : Safe(f)' \/ f \in Paths(undo)' BY <1>2, <1>7, <2>2, <2>6, <2>7, <3>1 DEF Paths
        <4>2. \A b \in undo' : b.path \in Rest' => b.original = approved'[b.path]
          BY <1>1, <1>2, <1>7, <2>2, <3>1
        <4> QED  BY <1>1, <1>2, <2>1, <3>1, <4>1, <4>2 DEF ReplayInv
      <3>2. CASE journal # None
        <4>1. undo' \subseteq journal'.backups  BY <1>1, <1>2, <1>7, <3>2
        <4>2. \A b \in journal.backups \ undo' : b.path \in Files => src'[b.path] = b.original
          <5> SUFFICES ASSUME NEW b \in journal.backups \ undo', b.path \in Files
                       PROVE  src'[b.path] = b.original OBVIOUS
          <5>1. CASE b.path = backup.path BY <1>2, <3>2, <5>1, <2>4 DEF RecInv, JournalFaithful
          <5>2. CASE b.path # backup.path BY <1>7, <5>2, <1>2, <2>4, <3>2
          <5> QED  BY <5>1, <5>2
        <4>3. step = "restore_own" => \A f \in Rest' : Safe(f)' \/ f \in Journalled' BY <1>2, <2>2, <2>7, <3>2
        <4> QED  BY <1>1, <1>2, <2>1, <2>2, <3>2, <4>1, <4>2, <4>3 DEF ReplayInv
      <3> QED  BY <3>1, <3>2
    <2>10. RecoverInv'  BY <2>1 DEF RecoverInv, Recovering
    <2>11. op = "abandon" /\ ~unclean => AllSafe'  BY <1>5, <2>2, <2>7 DEF AllSafe
    <2> QED  BY <1>1, <1>7, <2>1, <2>2, <2>8, <2>9, <2>10, <2>11, StaysRec
  <1>8. CASE /\ Fault("restore") /\ UNCHANGED <<src, so, undo>>
             /\ lost' = IF journal = None THEN lost \cup (Files \cap Paths(undo)) ELSE lost
    <2>1. iter' = iter /\ unclean' = TRUE /\ \E kind \in Errors : RaisesIn(iter, kind)
      BY <1>1, <1>8, RecoveryRaises
    <2>2. /\ Rest' \subseteq Rest /\ Applied' = Applied /\ Journalled' = Journalled /\ Held' = Held
          /\ \A f : Safe(f)' <=> Safe(f)
          /\ JournalInv' /\ JournalFaithful'
          /\ AllSafe => AllSafe' BY <1>1, <1>8, <2>1, LoseFacts DEF RecInv
    <2>3. SrcInv'  BY <1>3, <2>2 DEF SrcInv
    <2>4. step = "restore_own" => AllJournalled'
      <3>1. CASE journal = None BY <1>8, <3>1, <1>2, <2>2 DEF Rest, AllJournalled
      <3>2. CASE journal # None  BY <1>2, <2>2, <3>2 DEF AllJournalled
      <3> QED  BY <3>1, <3>2
    <2> QED  BY <1>1, <1>5, <2>1, <2>2, <2>3, <2>4, LeavesRec
  <1> QED  BY <1>6, <1>7, <1>8 DEF WriteBack

\* The marker is written when every backup has been.
LEMMA MarkRec ==
    ASSUME BaseInv, RecInv, Mark PROVE RecInv'
  <1> USE DEF BaseInv
  <1>1. sub \in {"mark", "unmark"} /\ step \in {"restore", "restore_own"}
        /\ UNCHANGED <<src, journal, restored, approved, start, iter, unclean, lost>>
    BY DEF Mark, In, ControlInv, memory, history
  <1>2. /\ op' = op /\ step' = step
        /\ sub = "mark" => sub' = "clear"
        /\ sub = "unmark" => sub' = IF restored THEN "wipe" ELSE "clear" BY <1>1, SubTo DEF Mark, Calls
  <1>3. Recovering /\ \A f \in Rest : Safe(f) \/ (step = "restore" /\ f \in Held)
    BY <1>1 DEF RecInv, RecoverInv, Recovering
  <1>4. /\ Rest' = Rest /\ Held' = Held /\ \A f : Safe(f)' <=> Safe(f) BY <1>1 DEF Rest, Held, Paths, Safe
  <1>5. JournalInv' /\ JournalFaithful'  BY <1>1, <1>4 DEF RecInv, JournalInv, JournalFaithful
  <1>6. SrcInv'  BY <1>3, <1>4 DEF SrcInv
  <1>7. ReplayInv'  BY <1>1, <1>2 DEF ReplayInv
  <1>8. RecoverInv'  BY <1>1, <1>2, <1>3, <1>4 DEF RecoverInv
  <1>9. op = "abandon" /\ ~unclean => AllSafe'  BY <1>4 DEF RecInv, RecoveredInv, Recovered, AllSafe
  <1> QED  BY <1>1, <1>2, <1>5, <1>6, <1>7, <1>8, <1>9, StaysRec

\* The journal is cleared when no file needs it any more.
LEMMA ClearRec ==
    ASSUME BaseInv, RecInv, ClearJournal PROVE RecInv'
  <1> USE DEF BaseInv
  <1>1. UNCHANGED <<src, marker, restored, approved, start, lost>>  BY DEF ClearJournal
  <1>2. CASE At("clear")
    <2>1. op \in {"finish", "promote", "approve"} /\ step = "clear" /\ sub = "none" BY <1>2, Belongs DEF At
    <2>2. CASE journal' = None /\ Proceeds
      <3>1. op' = op /\ step' = "take" /\ sub' = "none"  BY <2>1, <2>2, Table DEF Proceeds, Runs
      <3>2. SrcInv' /\ TakeInv' /\ JournalInv' /\ JournalFaithful'
        BY <2>2, <3>1 DEF SrcInv, TakeInv, JournalInv, JournalFaithful, At
      <3>3. ~DoneWithOwn' /\ ~Recovering' /\ ~Recovered' /\ sub' # "replay" /\ ~EarlyStages' /\ ~LateStages'
        BY <2>1, <3>1 DEF DoneWithOwn, Recovering, Recovered, EarlyStages, LateStages, Undoing
      <3> QED  BY <3>2, <3>3 DEF RecInv, DoneInv, ReplayInv, RecoverInv, EditInv, LateInv, RecoveredInv
    <2>3. CASE Fault("restore") /\ UNCHANGED journal
      <3>1. PICK kind \in Errors : RaisesIn(iter, kind)  BY <2>3, FaultIter DEF Fault, Types, TypeOK
      <3> QED  BY <1>1, <2>1, <2>3, <3>1, RaiseRec DEF Data
    <2> QED  BY <1>2, <2>1, <2>2, <2>3 DEF ClearJournal, In
  <1>3. CASE In("clear")
    <2>1. sub = "clear" /\ step \in {"restore", "restore_own"}  BY <1>3 DEF In, ControlInv
    <2>2. Recovering /\ \A f \in Rest : Safe(f) \/ (step = "restore" /\ f \in Held)
      BY <2>1 DEF RecInv, RecoverInv, Recovering
    <2>3. step = "restore_own" \/ op \in {"boot", "panic"} => AllSafe
      BY NothingHeld, <2>2 DEF Iterating, AllSafe
    <2>4. op = "abandon" /\ ~unclean => AllSafe  BY DEF RecInv, RecoveredInv, Recovered
    <2>5. Rest' = Rest /\ \A f : Safe(f)' <=> Safe(f)  BY <1>1 DEF Rest, Safe
    <2>6. AllSafe => AllSafe' /\ AllJournalled'  BY <2>5 DEF AllSafe, AllJournalled
    <2>7. CASE journal' = None /\ SubProceeds /\ UNCHANGED <<iter, unclean>>
      <3>1. Held' = Held  BY <2>7 DEF Held, Paths
      <3>2. SrcInv' /\ JournalInv' /\ JournalFaithful'
        BY <2>2, <2>5, <2>7, <3>1 DEF SrcInv, JournalInv, JournalFaithful
      <3>3. CASE restored
        <4>1. op' = op /\ step' = step /\ sub' = "unmark"  BY <2>1, <2>7, <3>3, SubTo DEF Calls
        <4>2. ReplayInv' /\ RecoverInv'  BY <1>1, <2>2, <2>5, <3>1, <4>1 DEF ReplayInv, RecoverInv
        <4> QED  BY <2>1, <2>4, <2>6, <2>7, <3>2, <4>1, <4>2, StaysRec
      <3>4. CASE ~restored BY <2>1, <2>7, <3>4, SubTo, <2>3, <2>4, <2>6, <3>2, LeavesRec
      <3> QED  BY <3>3, <3>4
    <2>8. CASE Fault("restore") /\ UNCHANGED journal
      <3>1. iter' = iter /\ unclean' = TRUE /\ \E kind \in Errors : RaisesIn(iter, kind)
        BY <2>1, <2>8, RecoveryRaises
      <3>2. SrcInv' /\ JournalInv' /\ JournalFaithful'
        BY <1>1, <2>1, <2>8, <3>1, LoseFacts DEF RecInv, SrcInv, At
      <3> QED  BY <2>1, <2>3, <2>4, <2>6, <3>1, <3>2, LeavesRec
    <2> QED  BY <1>3, <2>1, <2>7, <2>8 DEF ClearJournal, In
  <1> QED  BY <1>2, <1>3 DEF ClearJournal

\* Every step keeps a backup of every edit.
LEMMA NextRec ==
    ASSUME BaseInv, RecInv, [Next]_vars PROVE RecInv'
  <1>1. CASE UNCHANGED vars
    <2>1. UNCHANGED <<src, journal, marker, approved, start, lost, op, step, sub, iter, restored, undo, unclean>>
      BY <1>1 DEF vars, disk, memory, control, history
    <2>2. Rest' = Rest /\ Applied' = Applied /\ Journalled' = Journalled /\ Held' = Held /\ Paths(undo)' = Paths(undo)
      BY <2>1 DEF Rest, Applied, Journalled, Held, Paths
    <2>3. SrcInv' /\ TakeInv' /\ JournalInv' /\ JournalFaithful'
      BY <2>1, <2>2 DEF RecInv, SrcInv, TakeInv, JournalInv, JournalFaithful, Safe, At
    <2>4. DoneInv' /\ RecoveredInv' /\ LateInv'
      BY <2>1, <2>2 DEF RecInv, DoneInv, RecoveredInv, LateInv, DoneWithOwn, Recovered, LateStages, AllSafe, Safe
    <2>5. ReplayInv' /\ RecoverInv' BY <2>1, <2>2 DEF RecInv, ReplayInv, RecoverInv, Recovering, Safe
    <2>6. EditInv' BY <2>1, <2>2 DEF RecInv, EditInv, EarlyStages, Paths
    <2> QED  BY <2>3, <2>4, <2>5, <2>6 DEF RecInv
  <1>2. CASE Work
    <2>1. CASE \E f \in Files, v \in Versions : Edit(f, v) \/ Drift(f, v)  BY <2>1, EditRec, DriftRec
    <2> QED  BY <1>2, <2>1, BatchRec, RefuseRec, EndEditsRec, PersistRec, BackupRec, CheckRec, CrashRec DEF Work
  <1>3. CASE Candidate  BY <1>3, CandidateRec, TakeRec DEF Candidate
  <1>4. CASE Recover  BY <1>4, RestoreRec, WriteBackRec, MarkRec, ClearRec DEF Recover
  <1>5. CASE Host  BY <1>5, HostRec, CrashRec DEF Host
  <1> QED  BY <1>1, <1>2, <1>3, <1>4, <1>5, BeginRec, BuildRec DEF Next, Idle

\* At first nothing is edited.
LEMMA InitRec == Init => RecInv
  <1> SUFFICES ASSUME Init PROVE RecInv  OBVIOUS
  <1>1. op = "none" /\ step = "none" /\ sub = "none" /\ journal = None /\ src = approved  BY DEF Init
  <1>2. SrcInv /\ TakeInv /\ JournalInv /\ JournalFaithful
    BY <1>1 DEF SrcInv, TakeInv, JournalInv, JournalFaithful, Safe, At
  <1>3. ~DoneWithOwn /\ ~Recovering /\ ~Recovered /\ ~EarlyStages /\ ~LateStages
    BY <1>1 DEF DoneWithOwn, Recovering, Recovered, EarlyStages, LateStages, Undoing
  <1> QED  BY <1>1, <1>2, <1>3 DEF RecInv, DoneInv, ReplayInv, RecoverInv, EditInv, LateInv, RecoveredInv

\* However often the host crashes and whichever steps fail, for any files, edits,
\* iterations and commands: each edited file outside lost has a backup of what was
\* last promoted in the journal or in memory, and a boot that recovers without an
\* error puts it back (persist_journal, apply_plugin_iteration_journal, boot).
THEOREM IterationStaysRecoverable == Spec => []IterationRecoverable
  <1>1. Init => BaseInv /\ RecInv  BY InitBase, InitRec
  <1>2. BaseInv /\ RecInv /\ [Next]_vars => (BaseInv /\ RecInv)'  BY NextBase, NextRec
  <1>3. BaseInv /\ RecInv => IterationRecoverable
    <2> SUFFICES ASSUME BaseInv, RecInv PROVE IterationRecoverable  OBVIOUS
    <2>1. EditsRecoverable BY DEF RecInv, SrcInv, Safe, Rest, EditsRecoverable
    <2>2. CrashRestores
      <3>1. At("booted") => Recovered  BY Belongs DEF BaseInv, At, Recovered
      <3> QED  BY <3>1 DEF RecInv, RecoveredInv, AllSafe, Safe, Rest, CrashRestores
    <2> QED  BY <2>1, <2>2 DEF IterationRecoverable, BaseInv, Types, RecInv
  <1> QED  BY <1>1, <1>2, <1>3, PTL DEF Spec

-----------------------------------------------------------------------------
(* The artifacts.                                                          *)

\* The steps of a build that has something to put in place.
Making == {"swap", "reindex", "rehash"}

\* Where the artifacts are made.
LEMMA BuildArt ==
    ASSUME BaseInv, RecInv, ArtInv, Build PROVE BuildInv'
  <1> USE DEF BaseInv, ArtInv
  <1>1. CASE Prepare
    <2>1. op = "start" /\ op' = op /\ sub' \in {"none", "wipe", "compile"}
      BY <1>1, Belongs DEF Prepare, At, Calls, Proceeds, Runs, Full, Incremental
    <2> QED  BY <2>1 DEF BuildInv
  <1>2. ASSUME sub \in {"wipe", "compile"} \cup Making, Fault("build") \/ Raises("stage")
        PROVE  BuildInv'
    <2>1. PICK kind \in Errors : RaisesIn(iter, kind)
      BY <1>2, FaultIter DEF Fault, Raises, Errors, Types, TypeOK
    <2>2. op' = op /\ sub' = "none" /\ (op = "boot" => unclean')  BY <2>1 DEF RaisesIn, Runs
    <2> QED  BY <2>2 DEF BuildInv
  <1>3. CASE Wipe
    <2>1. CASE SubProceeds BY <1>3, <2>1, SubTo DEF Wipe, In, Calls, ControlInv, BuildInv
    <2> QED  BY <1>2, <1>3, <2>1 DEF Wipe, In
  <1>4. CASE Compile
    <2>1. CASE built' = src /\ SubProceeds
      BY <1>4, <2>1, SubTo DEF Compile, In, Calls, disk, ControlInv, BuildInv
    <2> QED  BY <1>2, <1>4, <2>1 DEF Compile, In
  <1>5. CASE Swap
    <2>1. CASE SubProceeds BY <1>5, <2>1, SubTo DEF Swap, In, Calls, ControlInv, BuildInv
    <2> QED  BY <1>2, <1>5, <2>1 DEF Swap, In, Making
  <1>6. CASE WriteIndex
    <2>1. CASE SubProceeds /\ index' = IF In("reindex") THEN [hash |-> so, finger |-> built]
                     ELSE IF index = None THEN None ELSE [index EXCEPT !.hash = so]
      <3>1. Proceeds /\ sub \in {"reindex", "rehash"} /\ step \in {"restore", "restore_own", "prepare", "backup"}
        BY <1>6, <2>1, SubTo DEF WriteIndex, In, ControlInv
      <3>2. sub' = "none" /\ op' = op  BY <3>1 DEF Proceeds, Runs
      <3>3. op = "boot" => sub = "reindex"  BY <3>1, Belongs DEF ControlInv
      <3>4. op = "boot" => Synced'
        <4>1. so \in Trees /\ (op = "boot" => so = src)  BY <3>1 DEF BuiltOK, BuildInv
        <4>2. sub = "reindex" => index' = [hash |-> so, finger |-> built]  BY <2>1 DEF In
        <4>3. [hash |-> so, finger |-> built] # None  BY <3>1, <4>1, NoneAssumption DEF BuiltOK
        <4>4. so' = so /\ src' = src  BY <1>6 DEF WriteIndex
        <4>5. so # None  BY <4>1, NoneAssumption
        <4> QED  BY <3>3, <4>1, <4>2, <4>3, <4>4, <4>5 DEF Synced, Loadable
      <3> QED  BY <3>2, <3>4 DEF BuildInv
    <2> QED  BY <1>2, <1>6, <2>1 DEF WriteIndex, In, Making
  <1> QED  BY <1>1, <1>3, <1>4, <1>5, <1>6 DEF Build

\* A recovery rebuilds from the sources it has put back.
LEMMA RecoverArt ==
    ASSUME BaseInv, RecInv, ArtInv, Recover PROVE BuildInv'
  <1> USE DEF BaseInv, ArtInv
  <1>1. ASSUME Fault("restore") PROVE BuildInv'
    <2>1. PICK kind \in Errors : RaisesIn(iter, kind) BY <1>1, FaultIter DEF Fault, Types, TypeOK
    <2>2. op' = op /\ sub' = "none" /\ (op = "boot" => unclean')  BY <2>1 DEF RaisesIn, Runs
    <2> QED  BY <2>2 DEF BuildInv
  <1>2. CASE Restore BY <1>2 DEF Restore, At, Calls, Proceeds, Runs, Making, BuildInv
  <1>3. CASE WriteBack
    <2>0. step \in {"restore", "restore_own"} /\ sub = "replay"  BY <1>3 DEF WriteBack, In, ControlInv
    <2>1. CASE SubProceeds BY <2>0, <2>1, SubTo DEF Calls, BuildInv
    <2>2. CASE UNCHANGED control  BY <2>0, <2>2 DEF BuildInv, control
    <2> QED  BY <1>1, <1>3, <2>1, <2>2 DEF WriteBack
  <1>4. CASE Mark BY <1>4, SubTo DEF Mark, In, ControlInv, Calls, BuildInv
  <1>5. CASE ClearJournal
    <2>1. CASE Fault("restore")  BY <1>1, <2>1
    <2>2. CASE In("clear") /\ SubProceeds
      <3>1. step \in {"restore", "restore_own"} /\ sub = "clear"  BY <2>2 DEF In, ControlInv
      <3>2. \/ sub' = "unmark" /\ step' = step
            \/ sub' = "none" /\ ~restored BY <2>2, <3>1, SubTo DEF Calls, Proceeds, Runs
      <3> QED  BY <1>5, <3>1, <3>2 DEF BuildInv, ClearJournal
    <2>3. CASE At("clear") /\ Proceeds BY <2>3, Belongs DEF At, Proceeds, Runs, BuildInv
    <2> QED  BY <1>5, <2>1, <2>2, <2>3 DEF ClearJournal, In, At
  <1> QED  BY <1>2, <1>3, <1>4, <1>5 DEF Recover

\* In every step, what a build has made is a build of the sources.
LEMMA NextBuild ==
    ASSUME BaseInv, RecInv, ArtInv, [Next]_vars PROVE BuildInv'
  <1> USE DEF BaseInv, ArtInv
  <1>1. ASSUME sub' = "none", op' # "boot" PROVE BuildInv'  BY <1>1 DEF BuildInv
  <1>2. CASE UNCHANGED vars BY <1>2 DEF vars, disk, memory, control, history, BuildInv, Synced, Loadable
  <1>3. CASE Host
    <2>1. CASE Start  BY <1>1, <2>1 DEF Start, Runs
    <2>2. CASE Load BY <2>2, Belongs DEF Load, At, Runs, Raises, RaisesIn, BuildInv
    <2>3. CASE Refresh
      <3>1. op = "boot" /\ step = "refresh" /\ sub' = "none"
            /\ UNCHANGED <<src, so, index, restored, unclean, op>>
        BY <2>3, Belongs DEF Refresh, At, Proceeds, Runs, disk, history
      <3> QED  BY <3>1 DEF BuildInv, Synced, Loadable
    <2>4. CASE Crash  BY <1>1, <2>4 DEF Crash, Ends, Runs
    <2>5. CASE Settle BY Belongs, <1>1, <2>5 DEF Undoing, Settle, Ends, Runs, Proceeds, At
    <2> QED  BY <1>3, <2>1, <2>2, <2>3, <2>4, <2>5 DEF Host
  <1>4. CASE Work
    <2>1. ASSUME NEW f \in Files, NEW v \in Versions, Edit(f, v) \/ Drift(f, v) PROVE BuildInv'
      BY <2>1, Belongs DEF Edit, Drift, At, control, BuildInv
    <2>2. ASSUME op = "iterate", sub' \notin Making, op' # "boot" PROVE BuildInv' BY <2>2 DEF BuildInv, Making
    <2>3. CASE EndBatch \/ RefuseBatch \/ EndEdits \/ Persist \/ BackupArtifacts \/ Stage \/ Verify \/ Canary \/ Finalize \/ Panic
      <3>1. op = "iterate"
        BY <2>3, Belongs DEF EndBatch, RefuseBatch, EndEdits, Persist, BackupArtifacts, Stage, Verify, Canary, Finalize, Panic, At
      <3>2. CASE EndBatch \/ RefuseBatch \/ EndEdits \/ Persist \/ BackupArtifacts
        BY <2>2, <3>1, <3>2 DEF EndBatch, RefuseBatch, EndEdits, Persist, BackupArtifacts, At, control,
           Proceeds, Runs, Calls, Raises, RaisesIn, Fault, FaultIn, Target, Full, Making
      <3>3. CASE Stage \/ Verify \/ Canary
        BY <2>2, <3>1, <3>3 DEF Stage, Verify, Canary, At, control,
           Proceeds, Runs, Calls, Raises, RaisesIn, Fault, FaultIn, Target, Full, Making
      <3>4. CASE Finalize \/ Panic BY <1>1, <3>4 DEF Finalize, Panic, Runs
      <3> QED  BY <2>3, <3>2, <3>3, <3>4
    <2>4. CASE PromoteFailed \/ Conclude  BY <1>1, <2>4 DEF PromoteFailed, Conclude, Ends, Runs
    <2> QED  BY <1>4, <2>1, <2>3, <2>4 DEF Work
  <1>5. CASE Candidate
    <2>1. CASE Promote \/ TakeCandidate \/ RollbackCandidate \/ DropCandidate
      <3>1. op # "boot"
        BY <2>1, Belongs DEF Promote, TakeCandidate, RollbackCandidate, DropCandidate, At, Undoing
      <3>2. op' = op /\ sub' = "none"
        BY <2>1 DEF Promote, TakeCandidate, RollbackCandidate, DropCandidate, Proceeds, Runs, Raises, RaisesIn
      <3> QED  BY <1>1, <3>1, <3>2
    <2>2. CASE LoadCommand BY <2>2, <1>1 DEF LoadCommand, Commanded, control, ControlInv, OpSteps
    <2>3. CASE CandidateCommand \/ EndApproval  BY <1>1, <2>3 DEF CandidateCommand, EndApproval, Ends, Runs
    <2>4. ASSUME NEW i \in DOMAIN blocked, Approve(i) PROVE BuildInv'  BY <1>1, <2>4 DEF Approve, Runs
    <2> QED  BY <1>5, <2>1, <2>2, <2>3, <2>4 DEF Candidate
  <1>6. ASSUME NEW request \in Requests, Begin(request) PROVE BuildInv'  BY <1>1, <1>6 DEF Begin, Runs
  <1> QED  BY <1>2, <1>3, <1>4, <1>5, <1>6, BuildArt, RecoverArt DEF Next, Idle

\* An iteration without an error has staged the artifact it has built.
LEMMA NextStaged ==
    ASSUME BaseInv, RecInv, ArtInv, [Next]_vars PROVE StagedInv'
  <1> USE DEF BaseInv, ArtInv
  <1>0. iter \in IterationType  BY DEF Types, TypeOK
  <1>1. ASSUME op' \notin {"iterate", "finish"} PROVE StagedInv' BY <1>1 DEF StagedInv, Staging, Promoting
  <1>2. ASSUME op' = "iterate", step' \in {"edit", "persist", "backup"} \/ (step' = "finalize" /\ iter'.error # "none")
        PROVE  StagedInv' BY <1>2 DEF StagedInv, Staging, Promoting
  <1>3. ASSUME op = "iterate", NEW state \in IterationType, NEW kind \in Errors, RaisesIn(state, kind) PROVE StagedInv'
    BY <1>3, RaiseIter, <1>2 DEF RaisesIn, Runs, Handler, Errors
  <1>4. ASSUME op = "iterate", NEW state \in IterationType, NEW kind, FaultIn(kind, state) PROVE StagedInv'
    <2>1. PICK error \in Errors : RaisesIn(state, error)  BY <1>4, FaultIter
    <2> QED  BY <1>3, <1>4, <2>1
  <1>5. ASSUME UNCHANGED <<src, so, index, op, step, sub, iter, cand, expected, lost>> PROVE StagedInv'
    BY <1>5 DEF StagedInv, Staging, Promoting, Loadable
  <1>6. CASE UNCHANGED vars  BY <1>5, <1>6 DEF vars, disk, memory, control, history
  <1>7. CASE Build
    <2>1. CASE op # "iterate"
      <3>1. op' = op /\ op \notin {"iterate", "finish"}
        <4>1. op \notin {"iterate", "finish"}
          BY <1>7, <2>1, Belongs DEF Build, Prepare, Wipe, Compile, Swap, WriteIndex, In, At, ControlInv, Undoing
        <4>2. sub # "none" /\ SubProceeds => op' = op  BY SubTo DEF Calls, Proceeds, Runs, ControlInv
        <4> QED
          BY <1>7, <4>1, <4>2 DEF Build, Prepare, Wipe, Compile, Swap, WriteIndex, In, At, Calls, Proceeds, Runs,
             Fault, FaultIn, Raises, RaisesIn
      <3> QED  BY <1>1, <3>1
    <2>2. CASE op = "iterate"
      <3>1. ~Prepare /\ sub # "none" /\ step = "backup"
        BY <1>7, <2>2, Belongs DEF Build, Prepare, Wipe, Compile, Swap, WriteIndex, In, At, ControlInv, Undoing
      <3>2. CASE Fault("build") \/ Raises("stage") BY <1>0, <1>3, <1>4, <2>2, <3>2 DEF Fault, Raises, Errors
      <3>3. CASE SubProceeds /\ ~Proceeds BY <3>1, <3>3, SubTo, <1>2, <2>2 DEF Calls, ControlInv
      <3>4. CASE SubProceeds /\ Proceeds
        <4>1. op' = "iterate" /\ step' = "stage"  BY <2>2, <3>1, <3>4, Table DEF Proceeds, Runs
        <4>2. sub \in {"reindex", "rehash"} BY <3>1, <3>4, SubTo, <4>1 DEF Calls, ControlInv
        <4>3. WriteIndex  BY <1>7, <3>1, <4>2 DEF Build, Wipe, Compile, Swap, In
        <4>4. so' = so /\ src' = src /\ lost' = lost  BY <4>3 DEF WriteIndex
        <4>5. so \in Trees /\ (lost = {} => so = src)  BY <4>2 DEF BuiltOK, BuildInv
        <4> QED  BY <4>1, <4>4, <4>5 DEF StagedInv, Staging, Promoting
      <3> QED  BY <1>7, <3>1, <3>2, <3>3, <3>4 DEF Build, Wipe, Compile, Swap, WriteIndex
    <2> QED  BY <2>1, <2>2
  <1>8. CASE Restore \/ WriteBack \/ Mark
    <2>1. step \in {"restore", "restore_own"}  BY <1>8 DEF Restore, WriteBack, Mark, In, At, ControlInv
    <2>2. op \notin {"iterate", "finish"}  BY <2>1, Belongs DEF Undoing
    <2>3. op' = op
      <3>1. sub # "none" /\ SubProceeds => op' = op  BY SubTo DEF Calls, Proceeds, Runs, ControlInv
      <3> QED  BY <1>8, <3>1 DEF Restore, WriteBack, Mark, In, Calls, Proceeds, Runs, Fault, FaultIn, RaisesIn, control
    <2> QED  BY <1>1, <2>2, <2>3
  <1>9. CASE ClearJournal
    <2>1. CASE op # "finish"
      <3>1. op # "iterate"  BY <1>9, Belongs DEF ClearJournal, In, At, ControlInv, Undoing
      <3>2. sub # "none" /\ SubProceeds => op' = op  BY SubTo DEF Calls, Proceeds, Runs, ControlInv
      <3>3. op' = op BY <1>9, <3>2 DEF ClearJournal, In, At, Proceeds, Runs, Fault, FaultIn, RaisesIn
      <3> QED  BY <1>1, <2>1, <3>1, <3>3
    <2>2. CASE op = "finish"
      <3>1. step = "clear" /\ sub = "none"  BY <1>9, <2>2, Belongs DEF ClearJournal, In, At, ControlInv, Undoing
      <3>2. CASE Proceeds /\ UNCHANGED iter
        <4>1. op' = "finish" /\ step' = "take"  BY <2>2, <3>1, <3>2, Table DEF Proceeds, Runs
        <4>2. UNCHANGED <<src, so, index, iter, cand, expected, lost>>  BY <1>9, <3>2 DEF ClearJournal
        <4> QED  BY <2>2, <3>1, <4>1, <4>2 DEF StagedInv, Staging, Promoting, Loadable
      <3>3. CASE Fault("restore")
        <4>1. op' = "finish" /\ step' = "promote_failed"
          BY <2>2, <3>3 DEF Fault, FaultIn, RaisesIn, Runs, Handler
        <4> QED  BY <4>1 DEF StagedInv, Staging, Promoting
      <3> QED  BY <1>9, <3>1, <3>2, <3>3 DEF ClearJournal, In
    <2> QED  BY <2>1, <2>2
  <1>10. CASE Host
    <2>1. op' \notin {"iterate", "finish"}
      <3>1. step \in {"rolled", "restored", "load", "refresh"} => op \notin {"iterate", "finish"}  BY Belongs DEF Undoing
      <3> QED  BY <1>10, <3>1 DEF Host, Start, Load, Refresh, Crash, Settle, At, Ends, Runs, Proceeds, Raises, RaisesIn
    <2> QED  BY <1>1, <2>1
  <1>11. CASE Candidate
    <2>1. CASE Promote /\ op = "finish"
      <3>1. step = "promote"  BY <2>1 DEF Promote, At
      <3>2. cand # None  BY <2>1, <3>1 DEF StagedInv, Promoting
      <3>3. op' = "finish" /\ step' = "clear" /\ UNCHANGED <<src, so, index, iter, cand, expected, lost>>
        BY <2>1, <3>1, <3>2, Table DEF Promote, Proceeds, Runs, disk
      <3> QED  BY <2>1, <3>1, <3>3 DEF StagedInv, Staging, Promoting, Loadable
    <2>2. CASE TakeCandidate /\ op = "finish"
      <3>1. step = "take"  BY <2>2 DEF TakeCandidate, At
      <3>2. op' = "finish" /\ step' \in {"conclude", "promote_failed"} /\ lost \subseteq lost' /\ UNCHANGED <<src, so, index>>
        BY <2>2, <3>1, Table DEF TakeCandidate, Proceeds, Runs, Raises, RaisesIn, Handler, disk
      <3> QED  BY <2>2, <3>1, <3>2 DEF StagedInv, Staging, Promoting, Loadable
    <2>3. CASE (Promote \/ TakeCandidate) /\ op # "finish"
      <3>1. op' = op /\ op # "iterate"
        BY <2>3, Belongs DEF Promote, TakeCandidate, At, Proceeds, Runs, Raises, RaisesIn
      <3> QED  BY <1>1, <2>3, <3>1
    <2>4. CASE RollbackCandidate \/ DropCandidate
      <3>1. op \notin {"iterate", "finish"} /\ op' = op
        BY <2>4, Belongs DEF RollbackCandidate, DropCandidate, At, Undoing, Proceeds, Runs, Raises, RaisesIn
      <3> QED  BY <1>1, <3>1
    <2>5. CASE LoadCommand \/ CandidateCommand \/ EndApproval
      BY <2>5, <1>1 DEF LoadCommand, Commanded, CandidateCommand, EndApproval, control, Ends, Runs
    <2>6. ASSUME NEW i \in DOMAIN blocked, Approve(i) PROVE StagedInv'  BY <1>1, <2>6 DEF Approve, Runs
    <2> QED  BY <1>11, <2>1, <2>2, <2>3, <2>4, <2>5, <2>6 DEF Candidate
  <1>12. ASSUME NEW request \in Requests, Begin(request) PROVE StagedInv'  BY <1>2, <1>12 DEF Begin, Runs
  <1>13. CASE Work
    <2>1. ASSUME NEW f \in Files, NEW v \in Versions, Edit(f, v) PROVE StagedInv'
      BY <1>2, <2>1, Belongs DEF Edit, At, control
    <2>2. ASSUME NEW f \in Files, NEW v \in Versions, Drift(f, v) PROVE StagedInv'
      BY <2>2 DEF Drift, memory, control, StagedInv, Staging, Promoting, Loadable
    <2>3. CASE EndBatch \/ RefuseBatch  BY <1>2, <2>3, Belongs DEF EndBatch, RefuseBatch, At, control
    <2>4. CASE EndEdits
      <3>0. op = "iterate" /\ step = "edit"  BY <2>4, Belongs DEF EndEdits, At
      <3>1. [iter EXCEPT !.rollback = None] \in IterationType  BY <1>0 DEF IterationType
      <3>2. Proceeds => op' = "iterate" /\ step' = "persist"  BY <3>0, Table DEF Proceeds, Runs
      <3> QED  BY <1>0, <1>2, <1>3, <2>4, <3>0, <3>1, <3>2 DEF EndEdits, Raises, Errors
    <2>5. CASE Persist
      <3>0. op = "iterate" /\ step = "persist"  BY <2>5, Belongs DEF Persist, At
      <3>2. Proceeds => op' = "iterate" /\ step' = "backup"  BY <3>0, Table DEF Proceeds, Runs
      <3> QED  BY <1>0, <1>2, <1>4, <2>5, <3>0, <3>2 DEF Persist, Fault
    <2>6. CASE BackupArtifacts
      <3>0. op = "iterate" /\ step = "backup"  BY <2>6, Belongs DEF BackupArtifacts, At
      <3>1. \/ op' = "iterate" /\ step' = "backup"
            \/ op' = "iterate" /\ step' = "finalize" /\ \E s, kind : kind \in Errors /\ iter' = [s EXCEPT !.error = kind]
        BY <2>6, <3>0 DEF BackupArtifacts, Calls, FaultIn, RaisesIn, Runs, Handler, Errors
      <3>2. iter' \in IterationType  BY NextTypes DEF Types, TypeOK
      <3>3. \A s, kind : kind \in Errors /\ iter' = [s EXCEPT !.error = kind] => iter'.error # "none"
        BY <3>2 DEF IterationType, Errors
      <3> QED  BY <1>2, <3>0, <3>1, <3>3
    <2>7. CASE Stage
      <3>0. op = "iterate" /\ step = "stage"  BY <2>7, Belongs DEF Stage, At
      <3>1. CASE Loadable
        <4>1. op' = "iterate" /\ step' = "verify" /\ cand' = Staged /\ expected' = Staged.id
              /\ UNCHANGED <<src, so, index, lost>> BY <2>7, <3>0, <3>1, Table DEF Stage, Proceeds, Runs, disk
        <4>2. cand' # None  BY <3>1, <4>1, NoneAssumption DEF Staged, Types, TypeOK, MoreTypes, SpentOK, Loadable
        <4> QED  BY <3>0, <3>1, <4>1, <4>2 DEF StagedInv, Staging, Promoting, Loadable, Staged
      <3>2. CASE ~Loadable  BY <1>0, <1>3, <2>7, <3>0, <3>2 DEF Stage, Raises, Errors
      <3> QED  BY <3>1, <3>2
    <2>8. ASSUME op = "iterate", step \in {"verify", "canary"}, Proceeds,
                 iter'.error = iter.error, UNCHANGED <<src, so, index, cand, expected, lost>>
          PROVE  StagedInv' BY <2>8, Table DEF Proceeds, Runs, StagedInv, Staging, Promoting, Loadable
    <2>9. CASE Verify
      <3>0. op = "iterate" /\ step = "verify" /\ UNCHANGED <<src, so, index, cand, expected, lost>>
        BY <2>9, Belongs DEF Verify, At, disk
      <3>1. CASE Proceeds /\ \/ iter' = [iter EXCEPT !.verifier = "pass"]
                             \/ \E verdict \in {"pass", "fail"} :
                                  iter' = [iter EXCEPT !.verifier = verdict, !.verified = src]
        BY <1>0, <3>1, <2>8, <3>0 DEF IterationType
      <3>2. CASE Fault("verify")  BY <1>0, <1>4, <3>0, <3>2 DEF Fault
      <3> QED  BY <2>9, <3>1, <3>2 DEF Verify
    <2>10. CASE Canary
      <3>0. op = "iterate" /\ step = "canary" /\ UNCHANGED <<src, so, index, cand, expected, lost>>
        BY <2>10, Belongs DEF Canary, At, disk
      <3>1. CASE Proceeds /\ \E verdict \in Canaries : iter' = [iter EXCEPT !.canary = verdict]
        BY <1>0, <3>1, <2>8, <3>0 DEF IterationType
      <3>2. CASE Raises("stage")  BY <1>0, <1>3, <3>0, <3>2 DEF Raises, Errors
      <3> QED  BY <2>10, <3>1, <3>2 DEF Canary
    <2>11. CASE Finalize
      <3>0. op = "iterate" /\ step = "finalize" /\ UNCHANGED <<src, so, index, cand, expected, lost>>
        BY <2>11, Belongs DEF Finalize, At, disk
      <3>1. /\ iter'.verdict = Verdict /\ iter'.verifier = iter.verifier /\ iter'.canary = iter.canary
            /\ iter'.verified = iter.verified BY <1>0, <2>11 DEF Finalize, IterationType
      <3>2. CASE iter.error = "none" /\ Verdict = "promoted" /\ Runs("finish", "promote")
        <4>1. iter.verifier = "pass" /\ iter.verified = src /\ iter.canary # "fail"
          BY <3>2 DEF Verdict, Verified, Drifted
        <4> QED  BY <3>0, <3>1, <3>2, <4>1 DEF StagedInv, Staging, Promoting, Loadable, Runs
      <3>3. CASE iter.error = "none" /\ Verdict = "blocked" /\ Runs("finish", "conclude")
        BY <3>1, <3>3 DEF StagedInv, Staging, Promoting, Runs
      <3>4. CASE Runs("fail", "rollback") \/ Runs("reject", "rollback")  BY <1>1, <3>4 DEF Runs
      <3> QED  BY <2>11, <3>2, <3>3, <3>4 DEF Finalize
    <2>12. CASE PromoteFailed \/ Conclude \/ Panic  BY <1>1, <2>12 DEF PromoteFailed, Conclude, Panic, Ends, Runs
    <2> QED  BY <1>13, <2>1, <2>2, <2>3, <2>4, <2>5, <2>6, <2>7, <2>9, <2>10, <2>11, <2>12 DEF Work
  <1> QED  BY <1>6, <1>7, <1>8, <1>9, <1>10, <1>11, <1>12, <1>13 DEF Next, Idle, Recover

-----------------------------------------------------------------------------
(* The artifacts an iteration that gives up leaves.                        *)

\* What Clean, Loadable and the backups depend on.
Stays == UNCHANGED <<src, so, index, journal, marker, start>>

\* Nothing lost is found again, no error forgotten.
Worse == lost \subseteq lost' /\ (unclean => unclean')

\* A clean state is reached from clean states.
LEMMA CleanBefore ==
    ASSUME Clean', Worse, start' = start PROVE Clean BY DEF Clean, Worse

\* The predicates that are about what stays.
LEMMA StaysSame ==
    ASSUME Stays
    PROVE  (Loadable' <=> Loadable) /\ (Synced' <=> Synced) /\ (Applied' <=> Applied)
           /\ Journalled' = Journalled
           /\ (iter'.local = iter.local /\ iter'.rollback = iter.rollback => Held' = Held)
  <1>1. (Loadable' <=> Loadable) /\ (Applied' <=> Applied)  BY DEF Stays, Loadable, Applied
  <1>2. Synced' <=> Synced  BY <1>1 DEF Stays, Synced
  <1>3. Journalled' = Journalled  BY <1>1 DEF Stays, Journalled, Paths
  <1>4. iter'.local = iter.local /\ iter'.rollback = iter.rollback => Held' = Held  BY DEF Held, Paths
  <1> QED  BY <1>1, <1>2, <1>3, <1>4

\* The steps that the artifacts are not asked of.
LEMMA KeptElsewhere ==
    ASSUME \/ op' \notin {"iterate", "fail", "reject"}
           \/ op' = "iterate" /\ step' # "finalize" /\ ~(sub' = "none" /\ step' \in {"edit", "persist", "backup"})
           \/ op' \in {"fail", "reject"} /\ step' \in {"restore", "restore_own"} /\ sub' # "none"
                /\ (sub' \in {"unmark", "clear"} => restored')
           \/ lost' # {} \/ unclean'
    PROVE  KeptInv' BY DEF KeptInv, Clean, KeptEarly, KeptWhole, KeptEnd, EarlyStages, Deciding

\* The edits go on.
LEMMA KeptEditing ==
    ASSUME KeptInv, EarlyStages, UNCHANGED <<so, index, start>>, Worse,
           op' = "iterate", step' \in {"edit", "persist", "backup"}
    PROVE  KeptInv'
  <1>1. SUFFICES ASSUME Clean' PROVE KeptEarly' BY DEF KeptInv, KeptWhole, KeptEnd, Deciding
  <1>2. Clean  BY <1>1, CleanBefore
  <1> QED  BY <1>2 DEF KeptInv, KeptEarly, Loadable

\* While the iteration decides and gives up, nothing that it has is touched.
LEMMA KeptDeciding ==
    ASSUME KeptInv, Deciding, sub = "none", Stays, Worse, iter'.local = iter.local, iter'.rollback = iter.rollback,
           sub' = "none", \/ op' = "iterate" /\ step' = "finalize"
                          \/ op' \in {"fail", "reject"} /\ step' \in {"rollback", "restore", "drop", "rolled", "restore_own"}
    PROVE  KeptInv'
  <1>1. SUFFICES ASSUME Clean' PROVE KeptWhole' BY DEF KeptInv, KeptEarly, KeptEnd, EarlyStages
  <1>2. Clean  BY <1>1, CleanBefore DEF Stays
  <1>3. KeptWhole  BY <1>2 DEF KeptInv
  <1>4. (Synced' <=> Synced) /\ (Applied' <=> Applied) /\ Held' = Held  BY StaysSame
  <1> QED  BY <1>3, <1>4 DEF KeptWhole, Stays

\* An iteration that fails before it has built anything, and has no edit that a
\* backup does not cover, has left the artifacts as they were.
LEMMA KeptRaise ==
    ASSUME BaseInv, RecInv, KeptInv, EarlyStages, Stays, Worse,
           op' = "iterate", step' = "finalize", sub' = "none",
           \/ iter'.rollback = None /\ Uncovered \subseteq lost'
           \/ iter'.rollback # None /\ Files \cap Held \subseteq Held'
    PROVE  KeptInv'
  <1>1. SUFFICES ASSUME Clean' PROVE KeptWhole' BY DEF KeptInv, KeptEarly, KeptEnd, EarlyStages
  <1>2. Clean  BY <1>1, CleanBefore DEF Stays
  <1>3. so = start.tree /\ Loadable  BY <1>2 DEF KeptInv, KeptEarly
  <1>4. (Synced' <=> Synced) /\ (Applied' <=> Applied)  BY StaysSame
  <1>5. ASSUME Files \cap Held = {} PROVE Synced
    <2>1. \A f \in Files : src[f] = start.tree[f]  BY <1>2, <1>5 DEF RecInv, EditInv, Rest, Clean
    <2>2. src \in Trees /\ start.tree \in Trees  BY DEF BaseInv, Types, TypeOK, MoreTypes
    <2>3. src = start.tree  BY <2>1, <2>2 DEF Trees
    <2> QED  BY <1>3, <2>3 DEF Synced
  <1>6. CASE iter'.rollback = None /\ Uncovered \subseteq lost'
    BY <1>1, <1>6, <1>4, <1>5 DEF Clean, Uncovered, Journalled, KeptWhole, Stays
  <1>7. CASE iter'.rollback # None /\ Files \cap Held \subseteq Held' BY <1>7, <1>4, <1>5 DEF KeptWhole
  <1> QED  BY <1>6, <1>7

\* An iteration that has built, has its journal, which is not applied.
LEMMA KeptLate ==
    ASSUME RecInv, LateStages, Stays, op' = "iterate", step' = "finalize", sub' = "none", iter'.rollback = iter.rollback
    PROVE  KeptInv'
  <1>1. ~Applied' /\ iter'.rollback # None  BY StaysSame DEF RecInv, LateInv
  <1> QED  BY <1>1 DEF KeptInv, KeptEarly, KeptWhole, KeptEnd, EarlyStages

\* An error that is not one of the stages is noted.
LEMMA KeptFault ==
    ASSUME NEW state, NEW kind, RaisesIn(state, kind) \/ FaultIn(kind, state), op # "iterate"
    PROVE  KeptInv'
  <1>1. unclean'  BY DEF RaisesIn, FaultIn
  <1> QED  BY <1>1, KeptElsewhere

\* An error of a stage.
LEMMA KeptStageError ==
    ASSUME BaseInv, RecInv, KeptInv, op = "iterate", Stays, lost' = lost, NEW state \in IterationType,
           \/ \E kind \in Errors : RaisesIn(state, kind)
           \/ \E kind : FaultIn(kind, state),
           \/ LateStages /\ state = iter
           \/ EarlyStages /\ state.rollback # None /\ Files \cap Held \subseteq Paths(state.rollback)
    PROVE  KeptInv'
  <1>1. PICK kind \in Errors : RaisesIn(state, kind)  BY FaultIter DEF BaseInv
  <1>2. /\ op' = "iterate" /\ step' = "finalize" /\ sub' = "none" /\ iter'.rollback = state.rollback
        /\ unclean' = unclean BY <1>1, RaiseIter DEF RaisesIn, Runs, Handler, BaseInv, Types, MoreTypes
  <1>3. CASE LateStages /\ state = iter  BY <1>2, <1>3, KeptLate
  <1>4. CASE EarlyStages /\ state.rollback # None /\ Files \cap Held \subseteq Paths(state.rollback)
    BY <1>2, <1>4, KeptRaise DEF Held, Paths, Worse
  <1> QED  BY <1>3, <1>4

\* A rebuild that ends makes the artifact the build of the sources.
LEMMA BuildKept ==
    ASSUME BaseInv, RecInv, ArtInv, Build PROVE KeptInv'
  <1> USE DEF BaseInv, ArtInv
  <1>0. iter \in IterationType  BY DEF Types, TypeOK
  <1>1. CASE Prepare BY <1>1, Belongs, KeptElsewhere DEF Prepare, At, Calls, Proceeds, Runs
  <1>2. CASE ~Prepare
    <2>0. sub \in {"wipe", "compile", "swap", "reindex", "rehash"}
      BY <1>2 DEF Build, Wipe, Compile, Swap, WriteIndex, In
    <2>1. step \in {"restore", "restore_own", "prepare", "backup"}  BY <2>0 DEF ControlInv
    <2>2. CASE op \notin {"iterate", "fail", "reject"}
      <3>1. SubProceeds => op' = op  BY <2>0, SubTo DEF Calls, Proceeds, Runs
      <3>2. op' = op
        BY <1>2, <3>1 DEF Build, Wipe, Compile, Swap, WriteIndex, Fault, FaultIn, Raises, RaisesIn, Runs
      <3> QED  BY <2>2, <3>2, KeptElsewhere
    <2>3. CASE op = "iterate"
      <3>1. step = "backup" /\ LateStages  BY <2>0, <2>1, <2>3, Belongs DEF LateStages, Undoing
      <3>2. CASE SubProceeds
        <4>1. op' = "iterate" /\ \/ sub' # "none" /\ step' = "backup"
                                 \/ step' = "stage"
          BY <2>0, <2>3, <3>1, <3>2, SubTo, Table DEF Calls, Proceeds, Runs
        <4> QED  BY <4>1, KeptElsewhere
      <3>3. CASE ~SubProceeds
        <4>1. Stays /\ lost' = lost BY <1>2, <3>3 DEF Build, Wipe, Compile, Swap, WriteIndex, Stays, disk
        <4>2. Raises("stage") \/ Fault("build") BY <1>2, <3>3 DEF Build, Wipe, Compile, Swap, WriteIndex
        <4> QED  BY <1>0, <2>3, <3>1, <4>1, <4>2, KeptStageError DEF Raises, Fault, Errors
      <3> QED  BY <3>2, <3>3
    <2>4. CASE op \in {"fail", "reject"}
      <3>1. step \in {"restore", "restore_own"} /\ sub # "rehash"  BY <2>0, <2>1, <2>4, Belongs DEF ControlInv, OpSteps
      <3>2. CASE Raises("stage") \/ Fault("build")  BY <2>4, <3>2, KeptFault DEF Raises, Fault
      <3>3. CASE SubProceeds /\ sub # "reindex" BY <2>0, <3>1, <3>3, SubTo, <2>4, KeptElsewhere DEF Calls
      <3>4. CASE WriteIndex /\ SubProceeds /\ sub = "reindex" /\ ~Fault("build")
        <4>1. so = built /\ so = src /\ so \in Trees  BY <2>4, <3>4 DEF BuiltOK, BuildInv
        <4>2. so' = so /\ src' = src /\ index' = [hash |-> so, finger |-> built] BY <3>4 DEF WriteIndex, In
        <4>a. index' \in [hash : Trees, finger : Trees]  BY <4>1, <4>2
        <4>b. index' # None /\ so' # None /\ index'.hash = so'  BY <4>1, <4>2, <4>a, NoneAssumption
        <4>3. Synced'  BY <4>1, <4>2, <4>b DEF Synced, Loadable
        <4>4. op' = op  BY <3>4, SubTo DEF Proceeds, Runs
        <4> QED  BY <2>4, <4>3, <4>4 DEF KeptInv, KeptEarly, KeptWhole, KeptEnd, EarlyStages
      <3> QED  BY <1>2, <3>1, <3>2, <3>3, <3>4 DEF Build, Wipe, Compile, Swap, WriteIndex, In
    <2> QED  BY <2>2, <2>3, <2>4
  <1> QED  BY <1>1, <1>2

\* A rollback that finds nothing to write back has lost nothing.
LEMMA RestoreKept ==
    ASSUME BaseInv, RecInv, ArtInv, Restore, op \in {"fail", "reject"} PROVE KeptInv'
  <1> USE DEF BaseInv, ArtInv
  <1>1. PICK own : own = IF At("restore_own") THEN iter.rollback ELSE None  OBVIOUS
  <1>2. /\ Stays /\ Worse /\ iter' = iter
        /\ lost' = lost \cup (IF own = None THEN {} ELSE IF journal = None THEN Unapproved(own) ELSE Uncovered)
    BY <1>1 DEF Restore, Stays, Worse, disk
  <1>3. sub = "none" /\ step \in {"restore", "restore_own"}  BY DEF Restore, At
  <1>4. Deciding  BY <1>3 DEF Deciding
  <1>5. (Synced' <=> Synced) /\ (Applied' <=> Applied) /\ Held' = Held  BY <1>2, StaysSame
  <1>6. iter.local = {}  BY <1>3, NoLocal DEF At
  <1>7. CASE Calls("replay") BY <1>3, <1>7, KeptElsewhere DEF Calls
  <1>8. CASE Applied /\ Calls("unmark")
    <2>1. SUFFICES ASSUME Clean', step = "restore_own" \/ Files \cap Held = {} PROVE Synced
      BY <1>3, <1>5, <1>8 DEF KeptInv, KeptEarly, KeptWhole, KeptEnd, EarlyStages, Calls
    <2>2. Clean  BY <1>2, <2>1, CleanBefore DEF Stays
    <2>3. CASE Files \cap Held = {}  BY <1>3, <1>4, <1>8, <2>2, <2>3 DEF KeptInv, KeptWhole
    <2>4. CASE step = "restore_own"
      <3>1. own = iter.rollback  BY <1>1, <1>3, <2>4 DEF At
      <3>2. own = None => Held = {}  BY <1>6, <3>1 DEF Held, Paths
      <3>3. own # None => Uncovered = {}  BY <1>2, <1>8, <2>1 DEF Clean, Applied
      <3>4. Files \cap Held = {}  BY <1>8, <3>2, <3>3 DEF Uncovered, Journalled
      <3> QED  BY <2>3, <3>4
    <2> QED  BY <2>1, <2>3, <2>4
  <1>9. CASE journal = None /\ own = None /\ Proceeds
    <2>1. CASE step = "restore" BY <1>9, <2>1, Table, <1>2, <1>3, <1>4, KeptDeciding DEF Proceeds, Runs
    <2>2. CASE step = "restore_own"
      <3>1. iter.rollback = None  BY <1>1, <1>3, <1>9, <2>2 DEF At
      <3>2. op' = op /\ step' \in {"restored", "conclude"} /\ sub' = "none"  BY <1>9, <2>2, Table DEF Proceeds, Runs
      <3>3. SUFFICES ASSUME Clean' PROVE Synced
        BY <1>5, <3>2 DEF KeptInv, KeptEarly, KeptWhole, KeptEnd, EarlyStages, Deciding
      <3>4. Clean  BY <1>2, <3>3, CleanBefore DEF Stays
      <3> QED  BY <1>3, <1>4, <1>9, <3>1, <3>4 DEF KeptInv, KeptWhole
    <2> QED  BY <1>3, <2>1, <2>2
  <1> QED  BY <1>1, <1>7, <1>8, <1>9 DEF Restore

\* A recovery ends with a rebuild, or had nothing to put back.
LEMMA RecoverKept ==
    ASSUME BaseInv, RecInv, ArtInv, Recover PROVE KeptInv'
  <1> USE DEF BaseInv, ArtInv
  <1>0. sub # "none" /\ SubProceeds => op' = op  BY SubTo DEF Calls, Proceeds, Runs, ControlInv
  <1>1. CASE op \notin {"fail", "reject"}
    <2>1. op # "iterate"  BY Belongs DEF Recover, Restore, WriteBack, Mark, ClearJournal, In, At, ControlInv, Undoing
    <2>2. op' = op
      BY <1>0 DEF Recover, Restore, WriteBack, Mark, ClearJournal, In, At, Proceeds, Runs, Calls, control,
         Fault, FaultIn, RaisesIn
    <2> QED  BY <1>1, <2>1, <2>2, KeptElsewhere
  <1>2. CASE op \in {"fail", "reject"}
    <2>0. step \in {"restore", "restore_own"}
      BY <1>2, Belongs DEF Recover, Restore, WriteBack, Mark, ClearJournal, In, At, ControlInv
    <2>1. CASE Restore  BY <1>2, <2>1, RestoreKept
    <2>2. CASE WriteBack
      <3>1. sub = "replay"  BY <2>2 DEF WriteBack, In
      <3>2. CASE Fault("restore")  BY <1>2, <3>2, KeptFault DEF Fault
      <3>3. CASE SubProceeds BY <3>1, <3>3, SubTo, <1>2, <2>0, KeptElsewhere DEF Calls
      <3>4. CASE UNCHANGED control  BY <1>2, <2>0, <3>1, <3>4, KeptElsewhere DEF control
      <3> QED  BY <2>2, <3>2, <3>3, <3>4 DEF WriteBack
    <2>3. CASE Mark
      <3>1. /\ sub \in {"mark", "unmark"} /\ SubProceeds
            /\ UNCHANGED <<src, so, index, journal, start, iter, restored, lost, unclean>>
        BY <2>3 DEF Mark, In, memory, history
      <3>2. CASE restored BY <3>1, <3>2, SubTo, <1>2, <2>0, KeptElsewhere DEF Calls
      <3>3. CASE ~restored
        <4>1. sub = "unmark"  BY <2>0, <3>1, <3>3 DEF RecInv, RecoverInv, Recovering
        <4>2. op' = op /\ step' = step /\ sub' = "clear"  BY <3>1, <3>3, <4>1, SubTo DEF Calls
        <4>3. (Synced' <=> Synced) /\ Held' = Held  BY <3>1 DEF Synced, Loadable, Held, Paths
        <4>4. SUFFICES ASSUME Clean' PROVE KeptWhole'
          BY <1>2, <2>0, <4>2 DEF KeptInv, KeptEarly, KeptEnd, EarlyStages
        <4>5. Clean  BY <3>1, <4>4 DEF Clean
        <4>6. KeptWhole /\ Deciding  BY <1>2, <2>0, <4>5 DEF KeptInv, Deciding
        <4> QED  BY <3>3, <4>1, <4>2, <4>3, <4>6 DEF KeptWhole
      <3> QED  BY <3>2, <3>3
    <2>4. CASE ClearJournal
      <3>1. sub = "clear"  BY <2>0, <2>4 DEF ClearJournal, In, At
      <3>2. CASE Fault("restore")  BY <1>2, <3>2, KeptFault DEF Fault
      <3>3. CASE restored /\ SubProceeds
        BY <2>4, <3>1, <3>3, SubTo, <1>2, <2>0, KeptElsewhere DEF Calls, ClearJournal
      <3>4. CASE ~restored /\ SubProceeds /\ ~Fault("restore")
        <4>1. Proceeds  BY <3>1, <3>4, SubTo
        <4>2. journal' = None /\ UNCHANGED <<src, so, index, start, iter, restored, lost, unclean>>
          BY <2>4, <3>4 DEF ClearJournal
        <4>3. op' = op /\ sub' = "none" /\ (step = "restore" => step' = "drop")
              /\ (step = "restore_own" => step' \in {"restored", "conclude"})
          BY <1>2, <4>1, Table DEF Proceeds, Runs, Undoing
        <4>4. Synced' <=> Synced  BY <4>2 DEF Synced, Loadable
        <4>5. ASSUME Clean', step = "restore_own" \/ Files \cap Held = {} PROVE Synced
          <5>1. Clean  BY <4>2, <4>5 DEF Clean
          <5> QED  BY <1>2, <2>0, <3>1, <3>4, <4>5, <5>1 DEF KeptInv, KeptWhole, Deciding
        <4>6. CASE step = "restore_own"
          BY <1>2, <4>3, <4>4, <4>5, <4>6 DEF KeptInv, KeptEarly, KeptWhole, KeptEnd, EarlyStages, Deciding
        <4>7. CASE step = "restore"
          <5>1. SUFFICES ASSUME Clean' PROVE KeptWhole'
            BY <1>2, <4>3, <4>7 DEF KeptInv, KeptEarly, KeptEnd, EarlyStages
          <5>2. ~Applied'  BY <4>2 DEF Applied
          <5>3. iter.local = {}  BY <3>1, NoLocal DEF At
          <5>4. iter'.rollback = None => Files \cap Held = {}  BY <4>2, <5>3 DEF Held, Paths
          <5> QED  BY <4>3, <4>4, <4>5, <5>1, <5>2, <5>4 DEF KeptWhole
        <4> QED  BY <2>0, <4>6, <4>7
      <3> QED  BY <2>4, <3>1, <3>2, <3>3, <3>4 DEF ClearJournal, In
    <2> QED  BY <2>1, <2>2, <2>3, <2>4 DEF Recover
  <1> QED  BY <1>1, <1>2

\* The iteration itself leaves the artifact alone until the journal is written.
LEMMA WorkKept ==
    ASSUME BaseInv, RecInv, ArtInv, Work PROVE KeptInv'
  <1> USE DEF BaseInv, ArtInv
  <1>0. iter \in IterationType  BY DEF Types, TypeOK
  <1>1. ASSUME NEW f \in Files, NEW v \in Versions, Edit(f, v) PROVE KeptInv'
    BY <1>1, Belongs, KeptEditing DEF Edit, At, control, history, EarlyStages, Worse
  <1>2. ASSUME NEW f \in Files, NEW v \in Versions, Drift(f, v) PROVE KeptInv'
    BY <1>2, KeptElsewhere DEF Drift
  <1>3. CASE EndBatch \/ RefuseBatch
    <2>1. EarlyStages /\ UNCHANGED <<so, index, start, op, step>> /\ Worse
      BY <1>3, Belongs DEF EndBatch, RefuseBatch, At, control, history, EarlyStages, Worse
    <2> QED  BY <2>1, KeptEditing DEF EarlyStages
  <1>4. CASE EndEdits
    <2>0. op = "iterate" /\ step = "edit" /\ sub = "none" /\ EarlyStages /\ Stays /\ iter.local = {} /\ iter.rollback # None
      BY <1>4, Belongs DEF EndEdits, At, EarlyStages, Stays, disk, IterateInv
    <2>1. CASE Proceeds /\ UNCHANGED <<iter, unclean, lost>>
      BY <2>0, <2>1, Table, KeptEditing DEF Proceeds, Runs, Stays, Worse
    <2>2. CASE Raises("stage") /\ UNCHANGED lost
      BY <2>0, <1>0, <2>2, KeptStageError DEF Held, Paths, Raises, Errors
    <2>3. CASE RaisesIn([iter EXCEPT !.rollback = None], "stage") /\ lost' = lost \cup Uncovered
      <3>1. [iter EXCEPT !.rollback = None] \in IterationType /\ [iter EXCEPT !.rollback = None].rollback = None
        BY <1>0 DEF IterationType
      <3>2. iter'.rollback = None /\ unclean' = (unclean \/ op # "iterate")
        BY <2>3, <3>1, RaiseIter DEF Errors
      <3>3. op' = "iterate" /\ step' = "finalize" /\ sub' = "none"  BY <2>0, <2>3 DEF RaisesIn, Runs, Handler
      <3>4. Worse /\ Uncovered \subseteq lost'  BY <2>3, <3>2 DEF Worse
      <3> QED  BY <2>0, <3>2, <3>3, <3>4, KeptRaise
    <2> QED  BY <1>4, <2>1, <2>2, <2>3 DEF EndEdits
  <1>5. CASE Persist
    <2>0. op = "iterate" /\ step = "persist" /\ sub = "none" /\ EarlyStages /\ iter.local = {} /\ iter.rollback # None
      BY <1>5, Belongs DEF Persist, At, EarlyStages, IterateInv
    <2>1. CASE Fault("persist") /\ UNCHANGED <<journal, lost>>
      <3>1. Files \cap Held \subseteq Paths(iter.rollback) /\ Stays  BY <1>5, <2>0, <2>1 DEF Held, Paths, Stays, Persist
      <3> QED  BY <1>0, <2>0, <2>1, <3>1, KeptStageError DEF Fault
    <2>2. CASE Proceeds /\ lost' = lost \cup Overwritten /\ UNCHANGED unclean
      BY <2>0, <2>2, Table, <1>5, KeptEditing DEF Proceeds, Runs, Worse, Persist
    <2> QED  BY <1>5, <2>1, <2>2 DEF Persist
  <1>6. CASE BackupArtifacts
    <2>0. op = "iterate" /\ step = "backup" /\ sub = "none" /\ EarlyStages /\ iter.local = {} /\ iter.rollback # None
      BY <1>6, Belongs DEF BackupArtifacts, At, EarlyStages, IterateInv
    <2>1. PICK kept : kept = [iter EXCEPT !.rollback =
                    IF iter.root \/ so = None THEN @
                    ELSE Absorb(@, {[path |-> "so", original |-> so]})] OBVIOUS
    <2>2. CASE \E s \in {Target, Full} : Calls(s) BY <2>0, <2>2, KeptElsewhere DEF Calls, Target, Full
    <2>3. CASE FaultIn("persist", kept) /\ UNCHANGED <<journal, lost>>
      <3>1. iter.rollback \in SUBSET Backup  BY <1>0, <2>0 DEF IterationType
      <3>2. PICK held : held = kept.rollback  OBVIOUS
      <3>3. held = iter.rollback \/ (so # None /\ held = Absorb(iter.rollback, {[path |-> "so", original |-> so]}))
        BY <1>0, <2>1, <3>2 DEF IterationType
      <3>4. so # None => {[path |-> "so", original |-> so]} \in SUBSET Backup  BY DEF Backup, Types, TypeOK
      <3>5. held \in SUBSET Backup /\ iter.rollback \subseteq held  BY <3>1, <3>3, <3>4 DEF Absorb
      <3>6. held # None  BY <3>5, NoneAssumption
      <3>7. kept = [iter EXCEPT !.rollback = held]  BY <1>0, <2>1, <3>2 DEF IterationType
      <3>8. kept \in IterationType  BY <1>0, <3>5, <3>7 DEF IterationType
      <3>9. Files \cap Held \subseteq Paths(kept.rollback)  BY <2>0, <3>2, <3>5 DEF Held, Paths
      <3>10. Stays  BY <1>6, <2>3 DEF BackupArtifacts, Stays
      <3> QED  BY <2>0, <2>3, <3>2, <3>6, <3>8, <3>9, <3>10, KeptStageError
    <2> QED  BY <1>6, <2>1, <2>2, <2>3 DEF BackupArtifacts
  <1>7. CASE Stage \/ Verify \/ Canary
    <2>0. op = "iterate" /\ sub = "none" /\ step \in {"stage", "verify", "canary"} /\ Stays /\ lost' = lost /\ LateStages
      BY <1>7, Belongs DEF Stage, Verify, Canary, At, disk, Stays, LateStages
    <2>1. CASE Raises("stage") \/ Fault("verify")
      BY <1>0, <2>0, <2>1, KeptStageError DEF Raises, Fault, Errors
    <2>2. CASE Proceeds /\ iter'.rollback = iter.rollback
      <3>1. op' = "iterate" /\ step' \in {"verify", "canary", "finalize"} /\ sub' = "none"
        BY <2>0, <2>2, Table DEF Proceeds, Runs
      <3>2. CASE step' = "finalize"  BY <2>0, <2>2, <3>1, <3>2, KeptLate
      <3>3. CASE step' # "finalize"  BY <3>1, <3>3, KeptElsewhere
      <3> QED  BY <3>2, <3>3
    <2>3. CASE Stage  BY <2>1, <2>2, <2>3 DEF Stage
    <2>4. CASE Verify
      <3>1. ASSUME \/ iter' = [iter EXCEPT !.verifier = "pass"]
                   \/ \E verdict \in {"pass", "fail"} :
                        iter' = [iter EXCEPT !.verifier = verdict, !.verified = src]
            PROVE  iter'.rollback = iter.rollback BY <1>0, <3>1 DEF IterationType
      <3> QED  BY <2>1, <2>2, <2>4, <3>1 DEF Verify
    <2>5. CASE Canary
      <3>1. ASSUME \E verdict \in Canaries : iter' = [iter EXCEPT !.canary = verdict]
            PROVE  iter'.rollback = iter.rollback BY <1>0, <3>1 DEF IterationType
      <3> QED  BY <2>1, <2>2, <2>5, <3>1 DEF Canary
    <2> QED  BY <1>7, <2>3, <2>4, <2>5
  <1>8. CASE Finalize
    <2>0. op = "iterate" /\ sub = "none" /\ step = "finalize" /\ Stays /\ Worse /\ Deciding
      BY <1>8, Belongs DEF Finalize, At, disk, Stays, Worse, Deciding
    <2>1. iter'.local = iter.local /\ iter'.rollback = iter.rollback  BY <1>0, <1>8 DEF Finalize, IterationType
    <2>2. CASE Runs("fail", "rollback") \/ Runs("reject", "rollback")
      BY <2>0, <2>1, <2>2, KeptDeciding DEF Runs
    <2>3. CASE Runs("finish", "promote") \/ Runs("finish", "conclude")  BY <2>3, KeptElsewhere DEF Runs
    <2> QED  BY <1>8, <2>2, <2>3 DEF Finalize
  <1>9. CASE PromoteFailed \/ Conclude \/ Panic
    BY <1>9, KeptElsewhere DEF PromoteFailed, Conclude, Panic, Ends, Runs
  <1> QED  BY <1>1, <1>2, <1>3, <1>4, <1>5, <1>6, <1>7, <1>8, <1>9 DEF Work

\* An iteration that gives up without an error has its artifacts built from its sources.
LEMMA NextKept ==
    ASSUME BaseInv, RecInv, ArtInv, [Next]_vars PROVE KeptInv'
  <1> USE DEF BaseInv, ArtInv
  <1>1. CASE UNCHANGED vars
    <2>1. UNCHANGED <<src, so, index, journal, marker, start, iter, op, step, sub, lost, unclean, restored>>
      BY <1>1 DEF vars, disk, memory, control, history
    <2>2. Stays  BY <2>1 DEF Stays
    <2>3. (Synced' <=> Synced) /\ (Applied' <=> Applied) /\ Held' = Held /\ (Loadable' <=> Loadable)
      BY <2>1, <2>2, StaysSame
    <2> QED  BY <2>1, <2>3 DEF KeptInv, Clean, KeptEarly, KeptWhole, KeptEnd, EarlyStages, Deciding
  <1>2. CASE Host
    <2>1. CASE Start \/ Load \/ Refresh \/ Crash
      <3>1. op' \notin {"iterate", "fail", "reject"}
        BY <2>1, Belongs DEF Start, Load, Refresh, Crash, At, Ends, Runs, Proceeds, Raises, RaisesIn
      <3> QED  BY <3>1, KeptElsewhere
    <2>2. CASE Settle
      <3>1. CASE op \notin {"fail", "reject"} \/ op' = "none" \/ op' = "abandon"
        <4>1. op # "iterate"  BY <2>2, Belongs DEF Settle, At, Undoing
        <4>2. op' = op \/ op' = "none" \/ op' = "abandon"  BY <2>2 DEF Settle, Ends, Runs, Proceeds
        <4> QED  BY <3>1, <4>1, <4>2, KeptElsewhere
      <3>2. CASE op \in {"fail", "reject"} /\ Proceeds /\ UNCHANGED iter /\ step \in {"rolled", "restored"}
        <4>1. Stays /\ Worse /\ sub = "none" /\ UNCHANGED <<lost, unclean, start>>
          BY <2>2 DEF Settle, Stays, Worse, At, disk, history
        <4>2. op' = op /\ sub' = "none" /\ (step = "rolled" => step' = "restore_own")
          BY <3>2, Table DEF Proceeds, Runs, Undoing
        <4>3. CASE step = "rolled" BY <3>2, <4>1, <4>2, <4>3, KeptDeciding DEF Deciding
        <4>4. CASE step = "restored"
          <5>1. op = "fail" /\ step' = "conclude" BY <3>2, <4>4, Table, Belongs DEF Proceeds, Runs
          <5>2. Synced' <=> Synced  BY <4>1, StaysSame
          <5>3. Clean' => Clean  BY <4>1 DEF Clean
          <5> QED  BY <4>2, <4>4, <5>1, <5>2, <5>3 DEF KeptInv, KeptEarly, KeptWhole, KeptEnd, EarlyStages, Deciding
        <4> QED  BY <3>2, <4>3, <4>4
      <3> QED  BY <2>2, <3>1, <3>2 DEF Settle, At, Ends, Runs
    <2> QED  BY <1>2, <2>1, <2>2 DEF Host
  <1>3. CASE Candidate
    <2>1. CASE Promote \/ TakeCandidate
      <3>1. op' = op /\ op \in {"finish", "promote", "approve"}
        BY <2>1, Belongs DEF Promote, TakeCandidate, At, Proceeds, Runs, Raises, RaisesIn
      <3> QED  BY <3>1, KeptElsewhere
    <2>2. CASE RollbackCandidate \/ DropCandidate
      <3>1. sub = "none" /\ step \in {"rollback", "drop"} /\ op # "iterate" /\ Stays /\ lost' = lost
        BY <2>2, Belongs DEF RollbackCandidate, DropCandidate, At, Undoing, Stays, disk, history
      <3>2. CASE Raises("stage")  BY <3>1, <3>2, KeptFault DEF Raises
      <3>3. CASE ~Raises("stage")
        <4>1. UNCHANGED <<iter, unclean>> /\ op' = op /\ sub' = "none"
          BY <2>2, <3>3 DEF RollbackCandidate, DropCandidate, Proceeds, Runs, history
        <4>2. step' \in {"rolled", "restore"}
          BY <2>2, <3>1, <3>3, Table, Belongs DEF RollbackCandidate, DropCandidate, At, Proceeds, Runs, Undoing
        <4>3. CASE op \in {"fail", "reject"} BY <3>1, <4>1, <4>2, <4>3, KeptDeciding DEF Deciding, Worse
        <4>4. CASE op \notin {"fail", "reject"}  BY <3>1, <4>1, <4>4, KeptElsewhere
        <4> QED  BY <4>3, <4>4
      <3> QED  BY <3>2, <3>3
    <2>3. CASE LoadCommand \/ CandidateCommand \/ EndApproval
      BY <2>3, KeptElsewhere DEF LoadCommand, Commanded, CandidateCommand, EndApproval, control, Ends, Runs
    <2>4. ASSUME NEW i \in DOMAIN blocked, Approve(i) PROVE KeptInv'  BY <2>4, KeptElsewhere DEF Approve, Runs
    <2> QED  BY <1>3, <2>1, <2>2, <2>3, <2>4 DEF Candidate
  <1>4. ASSUME NEW request \in Requests, Begin(request) PROVE KeptInv'
    <2>1. op' = "iterate" /\ step' = "edit" /\ sub' = "none"  BY <1>4 DEF Begin, Runs
    <2>2. start' = [tree |-> src, synced |-> so = src /\ Loadable] /\ UNCHANGED <<so, index>>
      BY <1>4 DEF Begin, disk
    <2>3. start'.synced => so' = start'.tree /\ Loadable'  BY <2>2 DEF Loadable
    <2> QED  BY <2>1, <2>3 DEF KeptInv, Clean, KeptEarly, KeptWhole, KeptEnd, Deciding
  <1> QED  BY <1>1, <1>2, <1>3, <1>4, BuildKept, RecoverKept, WorkKept DEF Next, Idle

\* At first the artifact is the build of the sources.
LEMMA InitArt == Init => ArtInv
  BY DEF Init, ArtInv, BuildInv, StagedInv, KeptInv, Staging, Promoting, KeptEarly, KeptWhole, KeptEnd, EarlyStages, Deciding

\* An iteration reported as rolled back leaves none of its edits, and when it is
\* over, or boot has replayed a journal, without an error and with nothing lost,
\* the artifact is the build of the sources and index.json has its hash
\* (finalize_plugin_iteration, restore_plugin_iteration_workspace).
THEOREM IterationLeavesClean == Spec => []IterationClean
  <1>1. Init => BaseInv /\ RecInv /\ ArtInv  BY InitBase, InitRec, InitArt
  <1>2. BaseInv /\ RecInv /\ ArtInv /\ [Next]_vars => (BaseInv /\ RecInv /\ ArtInv)'
    BY NextBase, NextRec, NextBuild, NextStaged, NextKept DEF ArtInv
  <1>3. ASSUME BaseInv, RecInv, ArtInv PROVE IterationClean
    <2>1. ControlInv /\ IterateInv  BY <1>3 DEF BaseInv
    <2>2. RolledBackClean
      <3>1. SUFFICES ASSUME ~unclean,
                            At("panicked") \/ (At("conclude") /\ iter.verdict \in {"rolled_back", "infrastructure_failure"})
                     PROVE  AllSafe BY DEF RolledBackClean, AllSafe, Safe, Rest
      <3>2. Recovered BY <2>1, <3>1, Belongs DEF Recovered, At, IterateInv
      <3> QED  BY <1>3, <3>1, <3>2 DEF RecInv, RecoveredInv
    <2>3. ArtifactsFollow
      <3>1. SUFFICES ASSUME ~unclean, lost = {},
                            \/ At("booted") /\ restored
                            \/ At("conclude") /\ iter.verdict \in {"promoted", "rolled_back"} /\ start.synced
                     PROVE  Synced BY DEF ArtifactsFollow, Synced
      <3>2. CASE At("booted") /\ restored BY <1>3, <2>1, <3>1, <3>2, Belongs DEF At, ArtInv, BuildInv
      <3>3. CASE At("conclude") /\ op = "finish" /\ iter.verdict \in {"promoted", "rolled_back"}
        BY <2>1, <3>3, <1>3, <3>1 DEF IterateInv, At, ArtInv, StagedInv, Synced
      <3>4. CASE At("conclude") /\ op # "finish" /\ start.synced
        <4>1. op \in {"fail", "reject"}  BY <2>1, <3>4, Belongs DEF At
        <4> QED  BY <1>3, <3>1, <3>4, <4>1 DEF At, ArtInv, KeptInv, KeptEnd, Clean
      <3> QED  BY <3>1, <3>2, <3>3, <3>4
    <2> QED  BY <2>2, <2>3 DEF IterationClean
  <1> QED  BY <1>1, <1>2, <1>3, PTL DEF Spec

\* What finalize makes live has passed its verification and not failed its canary,
\* the sources are the tree that was verified, and with nothing lost the candidate
\* is its build: the hash taken before the promotion (promote_candidate_matching).
THEOREM PromotesOnlyVerified == Spec => PromotedVerified
  <1>1. Init => BaseInv /\ RecInv /\ ArtInv  BY InitBase, InitRec, InitArt
  <1>2. BaseInv /\ RecInv /\ ArtInv /\ [Next]_vars => (BaseInv /\ RecInv /\ ArtInv)'
    BY NextBase, NextRec, NextBuild, NextStaged, NextKept DEF ArtInv
  <1>3. ASSUME BaseInv, ArtInv, At("take"), iter.verifier # "none", cand # None
        PROVE  /\ iter.verifier = "pass" /\ iter.canary # "fail"
               /\ iter.verified = src /\ (lost = {} => cand.build = src)
    <2>1. op = "finish" BY <1>3, Belongs, EmptyIteration DEF BaseInv, ControlInv, IterateInv, At, Iterating
    <2> QED  BY <1>3, <2>1 DEF ArtInv, StagedInv, Promoting, At
  <1>4. BaseInv /\ RecInv /\ ArtInv /\ [Next]_vars =>
          [ (At("take") /\ iter.verifier # "none" /\ cand' = None /\ cand # None)
             => /\ iter.verifier = "pass" /\ iter.canary # "fail"
                /\ iter.verified = src /\ (lost = {} => cand.build = src) ]_vars BY <1>3
  <1> QED  BY <1>1, <1>2, <1>4, PTL DEF Spec, PromotedVerified
=============================================================================
