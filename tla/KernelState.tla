---------------------------- MODULE KernelState ----------------------------
(***************************************************************************)
(* The books the kernel keeps about plugin iterations (RuntimeKernel in    *)
(* host.rs, ChangeMemory in kernel/memory.rs): the issues observed by root *)
(* and source, the one active iteration, the capped history, the last      *)
(* result, the blocked results waiting for an approval, the counters and   *)
(* the memory of automatic updates.  Each book has a lock of its own, and  *)
(* record_plugin_iteration_outcome takes them one after the other, never   *)
(* two at once, while status() reads them one by one and                   *)
(* plugin_iteration_status looks an iteration up in three of them.         *)
(*                                                                         *)
(* What an iteration does between its begin and its verdict is the module  *)
(* PluginIteration; here it ends in any verdict, in an error or in a panic.*)
(***************************************************************************)
EXTENDS Integers, FiniteSets, Sequences, SequencesExt

CONSTANTS
    Root,           \* the roots of plugin subtrees
    Source,         \* priorities of the issue sources that occur, 0..5
    Worker,         \* threads that iterate or approve
    MaxIteration,   \* bound: iterations begun
    MaxObserve,     \* bound: issues observed from outside an iteration
    MaxUpdate,      \* bound: automatic updates run
    HistoryCap,     \* MAX_PLUGIN_HISTORY (1024)
    BlockedCap,     \* MAX_BLOCKED_ITERATIONS (64)
    MemoryLimit     \* kernel.change_history_limit of the configuration

ASSUME KernelAssumption ==
    /\ Source \subseteq 0..5
    /\ MaxIteration \in Nat /\ MaxObserve \in Nat /\ MaxUpdate \in Nat
    /\ HistoryCap \in Nat \ {0} /\ BlockedCap \in Nat \ {0} /\ MemoryLimit \in Nat

NoIssue == <<>>
IssueId == Root \X Source
IdleWorker == [at |-> "idle", id |-> 0, issue |-> NoIssue, verdict |-> "none"]
Verdicts == {"Promoted", "RolledBack", "Blocked", "InfrastructureFailure"}
IterationId == 1..MaxIteration

VARIABLES
    issues,     \* plugin_issues: id -> [status, first]
    active,     \* active_plugin_iteration: an id, or 0
    historyBook,    \* plugin_history, newest first
    last,       \* last_plugin_iteration: <<>> or <<result>>
    blockedBook,    \* blocked_iterations: id -> result
    metrics,    \* iteration_metrics
    updateMemory,     \* ChangeMemory.records, oldest first
    worker,     \* what each thread is doing
    issued,     \* iteration ids handed out so far
    observed,   \* observations so far: the clock of first_observed_at_ms
    updates,    \* automatic updates run so far
    view,       \* one caller of status() between two of its locks
    latest      \* history variable: id -> verdict of its last complete record

kernelVars == <<issues, active, historyBook, last, blockedBook, metrics, updateMemory,
                worker, issued, observed, updates, view, latest>>

books == <<historyBook, last, blockedBook, metrics>>

------------------------------------------------------------------------------
(* Capped sequences *)

\* A VecDeque with push_front and pop_back at its bound (as for the samples
\* of invocations, 64 of them, and for the history).
PushFrontCapped(s, x, cap) == SubSeq(<<x>> \o s, 1, IF Len(s) < cap THEN Len(s) + 1 ELSE cap)

\* ChangeMemory::record: push_back, then pop_front down to limit.max(1).
Remembered(s, x) ==
    LET limit == IF MemoryLimit = 0 THEN 1 ELSE MemoryLimit
        t     == Append(s, x)
    IN  IF Len(t) > limit THEN SubSeq(t, Len(t) - limit + 1, Len(t)) ELSE t

WithoutId(f, k) == [x \in DOMAIN f \ {k} |-> f[x]]
With(f, k, v) == [x \in DOMAIN f \cup {k} |-> IF x = k THEN v ELSE f[x]]

Least(S) == CHOOSE x \in S : \A y \in S : x <= y

------------------------------------------------------------------------------
(* Issues *)

\* observe_plugin_issue: one entry per root and source; seen again it is
\* open again, unless an iteration is running on it.
WithIssueSeen(iss, id, now) ==
    IF id \in DOMAIN iss
    THEN [iss EXCEPT ![id].status = IF @ = "Running" THEN @ ELSE "Open"]
    ELSE With(iss, id, [status |-> "Open", first |-> now])

\* Reloads observe unavailable plugins and drifted docs, failed reloads the
\* plugin that the error names.
Observe(id) ==
    /\ observed < MaxObserve
    /\ observed' = observed + 1
    /\ issues' = WithIssueSeen(issues, id, observed)
    /\ UNCHANGED <<active, books, updateMemory, worker, issued, updates, view, latest>>

\* select_issue_for_request without an issue id: the open issue with the
\* lowest priority number, the oldest of those.
OpenIssues == {id \in DOMAIN issues : issues[id].status = "Open"}
Before(a, b) == \/ a[2] < b[2]
                \/ a[2] = b[2] /\ issues[a].first < issues[b].first
Candidates == {id \in OpenIssues : \A other \in OpenIssues : ~ Before(other, id)}

\* The issue a request works on: the one it names, whatever its status, or
\* the first open one, or none.
Selected(request) ==
    IF request # NoIssue THEN {request}
    ELSE IF OpenIssues = {} THEN {NoIssue} ELSE Candidates

------------------------------------------------------------------------------
(* An iteration: begin, its body, finish, record *)

\* begin_plugin_iteration refuses while another is active or when the named
\* issue does not exist; a root without a registered plugin is refused after
\* the selection, which has not marked the issue yet.
BeginIteration(w, request) ==
    /\ worker[w].at = "idle"
    /\ active = 0
    /\ issued < MaxIteration
    /\ request = NoIssue \/ request \in DOMAIN issues
    /\ \E id \in Selected(request) :
        /\ issued' = issued + 1
        /\ active' = issued'
        /\ issues' = IF id = NoIssue THEN issues
                     ELSE [issues EXCEPT ![id].status = "Running"]
        /\ worker' = [worker EXCEPT ![w] =
                        [at |-> "body", id |-> issued', issue |-> id, verdict |-> "none"]]
    /\ UNCHANGED <<books, updateMemory, observed, updates, view, latest>>

\* A failing stage files an issue of its own: the policy's refusal, a failed
\* rebuild or staging, a failed verification, a failed canary; a full disk
\* files none.
StageIssue(w, source) ==
    /\ worker[w].at = "body"
    /\ observed < MaxObserve
    /\ observed' = observed + 1
    /\ \E root \in Root : issues' = WithIssueSeen(issues, <<root, source>>, observed)
    /\ UNCHANGED <<active, books, updateMemory, worker, issued, updates, view, latest>>

\* The body has ended: with a verdict, with an error of finalize or with a
\* caught panic.  finish_plugin_iteration comes first in either case, and
\* only a verdict is recorded.
FinishIteration(w, end) ==
    /\ worker[w].at = "body"
    /\ active' = IF active = worker[w].id THEN 0 ELSE active
    /\ worker' = IF end \in Verdicts
                 THEN [worker EXCEPT ![w].at = "metrics", ![w].verdict = end]
                 ELSE [worker EXCEPT ![w] = IdleWorker]
    /\ UNCHANGED <<issues, books, updateMemory, issued, observed, updates, view, latest>>

\* approve_blocked_iteration takes the result out of the map under its lock.
ApproveBlocked(w, id) ==
    /\ worker[w].at = "idle"
    /\ id \in DOMAIN blockedBook
    /\ blockedBook' = WithoutId(blockedBook, id)
    /\ worker' = [worker EXCEPT ![w] =
                    [at |-> "approve", id |-> id, issue |-> blockedBook[id].issue,
                     verdict |-> blockedBook[id].verdict]]
    /\ UNCHANGED <<issues, active, historyBook, last, metrics, updateMemory, issued,
                   observed, updates, view, latest>>

\* The promotion succeeds and its outcome will be recorded, or it fails and
\* the result goes back as it was, past the cap.
ApproveEnds(w) ==
    /\ worker[w].at = "approve"
    /\ \/ /\ worker' = [worker EXCEPT ![w].at = "metrics", ![w].verdict = "Promoted"]
          /\ UNCHANGED blockedBook
       \/ /\ blockedBook' = With(blockedBook, worker[w].id,
                             [id |-> worker[w].id, issue |-> worker[w].issue,
                              verdict |-> worker[w].verdict])
          /\ worker' = [worker EXCEPT ![w] = IdleWorker]
    /\ UNCHANGED <<issues, active, historyBook, last, metrics, updateMemory, issued,
                   observed, updates, view, latest>>

------------------------------------------------------------------------------
(* record_plugin_iteration_outcome: five lock sections *)

ResultOf(w) == [id |-> worker[w].id, issue |-> worker[w].issue, verdict |-> worker[w].verdict]

\* The entry of a known iteration is replaced in place.
HistoryWith(r) ==
    IF \E i \in DOMAIN historyBook : historyBook[i].id = r.id
    THEN [i \in DOMAIN historyBook |-> IF historyBook[i].id = r.id THEN r ELSE historyBook[i]]
    ELSE PushFrontCapped(historyBook, r, HistoryCap)

CountOutcome(v) ==
    [total |-> metrics.total + 1,
     promoted |-> metrics.promoted + (IF v = "Promoted" THEN 1 ELSE 0),
     rolledBack |-> metrics.rolledBack + (IF v = "RolledBack" THEN 1 ELSE 0),
     infra |-> metrics.infra + (IF v = "InfrastructureFailure" THEN 1 ELSE 0)]

\* A blocked result and one stopped by the infrastructure wait for an
\* approval; over the cap the smallest id goes, which may be the new one.
BlockedWith(r) ==
    IF r.verdict \in {"Blocked", "InfrastructureFailure"}
    THEN LET all == With(blockedBook, r.id, r)
         IN  IF Cardinality(DOMAIN all) > BlockedCap
             THEN WithoutId(all, Least(DOMAIN all)) ELSE all
    ELSE WithoutId(blockedBook, r.id)

IssueStatusOf(v) ==
    CASE v \in {"Blocked", "InfrastructureFailure"} -> "Blocked"
      [] v = "Promoted"   -> "Resolved"
      [] v = "RolledBack" -> "Open"

RecordMetrics(w) ==
    /\ worker[w].at = "metrics"
    /\ metrics' = CountOutcome(worker[w].verdict)
    /\ worker' = [worker EXCEPT ![w].at = "history"]
    /\ UNCHANGED <<issues, active, historyBook, last, blockedBook, updateMemory, issued,
                   observed, updates, view, latest>>

RecordHistory(w) ==
    /\ worker[w].at = "history"
    /\ historyBook' = HistoryWith(ResultOf(w))
    /\ worker' = [worker EXCEPT ![w].at = "last"]
    /\ UNCHANGED <<issues, active, last, blockedBook, metrics, updateMemory, issued,
                   observed, updates, view, latest>>

RecordLast(w) ==
    /\ worker[w].at = "last"
    /\ last' = <<ResultOf(w)>>
    /\ latest' = With(latest, worker[w].id, worker[w].verdict)
    /\ worker' = [worker EXCEPT ![w].at = "blocked"]
    /\ UNCHANGED <<issues, active, historyBook, blockedBook, metrics, updateMemory, issued,
                   observed, updates, view>>

RecordBlocked(w) ==
    /\ worker[w].at = "blocked"
    /\ blockedBook' = BlockedWith(ResultOf(w))
    /\ worker' = [worker EXCEPT ![w].at = "issue"]
    /\ UNCHANGED <<issues, active, historyBook, last, metrics, updateMemory, issued,
                   observed, updates, view, latest>>

RecordIssue(w) ==
    LET r == ResultOf(w)
    IN  /\ worker[w].at = "issue"
        /\ issues' = IF r.issue \in DOMAIN issues
                     THEN [issues EXCEPT ![r.issue].status = IssueStatusOf(r.verdict)]
                     ELSE issues
        /\ worker' = [worker EXCEPT ![w] = IdleWorker]
        /\ UNCHANGED <<active, books, updateMemory, issued, observed, updates, view, latest>>

------------------------------------------------------------------------------
(* run_iteration of the automatic updater, and status() *)

\* run_iteration counts the attempt, runs the updater and counts its end; an
\* error of the updater counts neither way and is not remembered.
RunIteration ==
    /\ updates < MaxUpdate
    /\ updates' = updates + 1
    /\ \E end \in {"promote", "rollback", "error"} :
        /\ metrics' = [metrics EXCEPT
                         !.total = @ + 1,
                         !.promoted = @ + (IF end = "promote" THEN 1 ELSE 0),
                         !.rolledBack = @ + (IF end = "rollback" THEN 1 ELSE 0)]
        /\ updateMemory' = IF end = "error" THEN updateMemory ELSE Remembered(updateMemory, end)
    /\ UNCHANGED <<issues, active, historyBook, last, blockedBook, worker, issued,
                   observed, view, latest>>

\* Mutant: the counters are read first.
CountersFirst == <<"metrics", "history", "last">>

\* The books in the order in which status() locks them, without the three
\* it only takes the length of.
StatusOrder == <<"history", "last", "metrics">>

NoView == [step |-> 0, history |-> 0, last |-> FALSE, total |-> 0, promoted |-> 0]

StatusStep ==
    /\ view.step < Len(StatusOrder)
    /\ LET book == StatusOrder[view.step + 1]
       IN  view' = [view EXCEPT
                      !.step = @ + 1,
                      !.history = IF book = "history" THEN Len(historyBook) ELSE @,
                      !.last = IF book = "last" THEN last # <<>> ELSE @,
                      !.total = IF book = "metrics" THEN metrics.total ELSE @,
                      !.promoted = IF book = "metrics" THEN metrics.promoted ELSE @]
    /\ UNCHANGED <<issues, active, books, updateMemory, worker, issued, observed, updates, latest>>

StatusReturns ==
    /\ view.step = Len(StatusOrder)
    /\ view' = NoView
    /\ UNCHANGED <<issues, active, books, updateMemory, worker, issued, observed, updates, latest>>

------------------------------------------------------------------------------
KernelInit ==
    /\ issues = <<>> /\ active = 0
    /\ historyBook = <<>> /\ last = <<>> /\ blockedBook = <<>> /\ updateMemory = <<>>
    /\ metrics = [total |-> 0, promoted |-> 0, rolledBack |-> 0, infra |-> 0]
    /\ worker = [w \in Worker |-> IdleWorker]
    /\ issued = 0 /\ observed = 0 /\ updates = 0
    /\ view = NoView
    /\ latest = <<>>

KernelNext ==
    \/ \E id \in IssueId : Observe(id)
    \/ \E w \in Worker :
        \/ \E request \in {NoIssue} \cup IssueId : BeginIteration(w, request)
        \/ \E source \in Source : StageIssue(w, source)
        \/ \E end \in Verdicts \cup {"error", "panic"} : FinishIteration(w, end)
        \/ \E id \in IterationId : ApproveBlocked(w, id)
        \/ ApproveEnds(w)
        \/ RecordMetrics(w) \/ RecordHistory(w) \/ RecordLast(w)
        \/ RecordBlocked(w) \/ RecordIssue(w)
    \/ RunIteration
    \/ StatusStep \/ StatusReturns

KernelSpec == KernelInit /\ [][KernelNext]_kernelVars

------------------------------------------------------------------------------
(* Properties *)

KernelTypeOK ==
    /\ DOMAIN issues \subseteq IssueId
    /\ \A id \in DOMAIN issues : issues[id].status \in {"Open", "Running", "Blocked", "Resolved"}
    /\ active \in 0..MaxIteration
    /\ DOMAIN blockedBook \subseteq IterationId
    /\ Len(historyBook) <= HistoryCap
    /\ \A id \in DOMAIN blockedBook : blockedBook[id].verdict \in {"Blocked", "InfrastructureFailure"}
    /\ view.step \in 0..Len(StatusOrder)

\* plugin_iteration_status: the last result, then the blocked ones, then the
\* history, each under a lock of its own.
StatusOf(id) ==
    IF last # <<>> /\ last[1].id = id THEN last[1].verdict
    ELSE IF id \in DOMAIN blockedBook THEN blockedBook[id].verdict
    ELSE IF \E i \in DOMAIN historyBook : historyBook[i].id = id
         THEN historyBook[CHOOSE i \in DOMAIN historyBook : historyBook[i].id = id].verdict
         ELSE "not found"

\* Recording(id): some thread has not yet written its verdict for id to last.
Recording(id) ==
    \E w \in Worker : worker[w].id = id /\ worker[w].at \in {"metrics", "history", "last"}

\* Whatever the interleaving of the lock sections of several recorders, of
\* approvals and of evictions, plugin_iteration_status answers for an
\* iteration nobody is recording with the verdict recorded last, or does not
\* know it any more because the history is full.
StatusIsLatest ==
    \A id \in DOMAIN latest : ~ Recording(id) =>
        \/ StatusOf(id) = latest[id]
        \/ StatusOf(id) = "not found" /\ Len(historyBook) = HistoryCap

\* status() reads the books one lock at a time while outcomes are recorded:
\* it never shows an iteration in the history or as the last one that its
\* counters do not include, nor more promotions than iterations.
StatusCoherent ==
    view.step = Len(StatusOrder) =>
        /\ view.total >= view.history
        /\ view.last => view.total > 0
        /\ view.total >= view.promoted

\* What a host says about its iterations (plugin_iteration_status, status) is
\* true of what has been recorded.
StatusTruthful == KernelTypeOK /\ StatusIsLatest /\ StatusCoherent
=============================================================================
