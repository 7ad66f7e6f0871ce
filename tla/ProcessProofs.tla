---------------------------- MODULE ProcessProofs ----------------------------
(***************************************************************************)
(* Proofs about what a host waits for: the commands of a verification, a   *)
(* plugin behind the catalog, the waits of a workflow, the side channel of *)
(* a completion and the stream of a model's answer.  Each part states the  *)
(* inductive invariant of one component, shows that every action keeps it, *)
(* and draws the property from it.                                         *)
(***************************************************************************)
EXTENDS VerificationRun, LlmSink, PluginCatalog, WorkflowWait, ModelStream,
        WellFoundedInduction, TLAPS

-----------------------------------------------------------------------------
(* VerificationRun *)

\* What the proof needs of the types.
VerdictTypes ==
    /\ stage \in 1 .. 4
    /\ outcome \in [Stage -> {"Pending", "Passed", "Failed", "Skipped"}]
    /\ DOMAIN fate = Stage

\* A stage that passed has a command that ended by itself, in time and
\* successfully; one that was skipped has none.
StatusEarned ==
    \A s \in Stage : /\ outcome[s] = "Passed" => fate[s] = "ok"
                     /\ outcome[s] = "Skipped" => plan[s] = "none"

\* A command belongs to a stage, and the report to what the stages came to.
ReportOfStages ==
    /\ at \in {"invoke", "poll", "kill", "drain", "drainLate"} => stage \in Stage
    /\ at = "done" => /\ report.tests = TestsPassed(outcome)
                      /\ report.safety = SafetyPassed(outcome)

\* VerdictEarned speaks of the report only; the statuses of the stages connect
\* it to the fates of the commands.
VerdictInv == VerdictTypes /\ StatusEarned /\ ReportOfStages

\* A stage that ends with the status its command earned.
LEMMA StageEnds ==
    ASSUME VerdictInv, stage \in Stage, UNCHANGED <<plan, report>>,
           NEW status \in {"Pending", "Passed", "Failed", "Skipped"}, NEW how,
           StageDone(status, how),
           status = "Passed" => how = "ok", status = "Skipped" => plan[stage] = "none"
    PROVE  VerdictInv'
<1>1. /\ outcome' = [outcome EXCEPT ![stage] = status]
      /\ fate' = [fate EXCEPT ![stage] = how]
      /\ stage' = stage + 1 /\ at' = "next" BY DEF StageDone
<1>2. VerdictTypes' BY <1>1 DEF VerdictInv, VerdictTypes, Stage
<1>3. StatusEarned' BY <1>1 DEF VerdictInv, VerdictTypes, StatusEarned
<1>4. ReportOfStages' BY <1>1 DEF ReportOfStages
<1> QED BY <1>2, <1>3, <1>4 DEF VerdictInv

\* A step that ends no stage and makes no report.
LEMMA StageGoesOn ==
    ASSUME VerdictInv, UNCHANGED <<plan, stage, outcome, fate, report>>,
           at' \in {"invoke", "poll", "kill", "drain", "drainLate"} => stage \in Stage,
           at' = "done" => at = "done"
    PROVE  VerdictInv'
BY DEF VerdictInv, VerdictTypes, StatusEarned, ReportOfStages, TestsPassed, SafetyPassed,
       AnyExecuted, Succeeded

\* Every step of the verifier, of the child and of its descendants keeps it.
LEMMA VerdictInvStep == VerdictInv /\ [VerifyNext]_verifyVars => VerdictInv'
<1> SUFFICES ASSUME VerdictInv, [VerifyNext]_verifyVars PROVE VerdictInv' OBVIOUS
<1>1. CASE StartStage
  <2>0. UNCHANGED <<plan, report>> /\ stage \in Stage BY <1>1 DEF StartStage
  <2>1. CASE plan[stage] = "none" /\ StageDone("Skipped", "none") BY <2>0, <2>1, StageEnds
  <2>2. CASE StageDone("Failed", "unsplit") BY <2>0, <2>2, StageEnds
  <2>3. CASE at' \in {"error", "invoke", "poll"} /\ UNCHANGED <<stage, outcome, fate>>
    BY <2>0, <2>3, StageGoesOn
  <2> QED BY <1>1, <2>1, <2>2, <2>3 DEF StartStage
<1>2. CASE PluginAnswers
  <2>0. UNCHANGED <<plan, report>> /\ stage \in Stage BY <1>2 DEF PluginAnswers, VerdictInv, ReportOfStages
  <2>1. CASE StageDone("Passed", "ok") BY <2>0, <2>1, StageEnds
  <2>2. CASE StageDone("Failed", "fail") BY <2>0, <2>2, StageEnds
  <2> QED BY <1>2, <2>1, <2>2 DEF PluginAnswers
<1>3. CASE Poll \/ WaitFails \/ Kill
  BY <1>3, StageGoesOn DEF Poll, WaitFails, Kill, VerdictInv, ReportOfStages
<1>4. CASE Drain
  <2> DEFINE status == IF CommandSuccess THEN "Passed" ELSE "Failed"
             how == IF at = "drainLate" THEN "timeout" ELSE child
  <2>1. UNCHANGED <<plan, report>> /\ stage \in Stage /\ StageDone(status, how)
    BY <1>4 DEF Drain, VerdictInv, ReportOfStages
  <2>2. status \in {"Passed", "Failed"} /\ (status = "Passed" => how = "ok") BY DEF CommandSuccess
  <2> HIDE DEF status, how
  <2> QED BY <2>1, <2>2, StageEnds
<1>5. CASE Report
  <2>1. /\ UNCHANGED <<plan, stage, outcome, fate>> /\ at' = "done"
        /\ report'.tests = TestsPassed(outcome) /\ report'.safety = SafetyPassed(outcome) BY <1>5 DEF Report
  <2> QED
    BY <2>1 DEF VerdictInv, VerdictTypes, StatusEarned, ReportOfStages, TestsPassed,
                SafetyPassed, AnyExecuted, Succeeded
<1>6. CASE ChildWrites \/ ChildForks \/ ChildExits \/ DescendantExits \/ Deadline
  BY <1>6, StageGoesOn DEF ChildWrites, ChildForks, ChildExits, DescendantExits, Deadline, VerdictInv,
     ReportOfStages
<1>7. CASE UNCHANGED verifyVars BY <1>7, StageGoesOn DEF verifyVars, VerdictInv, ReportOfStages
<1> QED BY <1>1, <1>2, <1>3, <1>4, <1>5, <1>6, <1>7 DEF VerifyNext, Verifier

\* Whatever a command writes, forks or ignores, and whenever its deadline
\* passes, Verifier::verify accepts only when every planned command ended by
\* itself, in time and successfully, and at least one did.
THEOREM VerdictIsEarned == VerifySpec => []VerdictEarned
<1>1. VerifyInit => VerdictInv
  BY DEF VerifyInit, VerdictInv, VerdictTypes, StatusEarned, ReportOfStages, Stage
<1>2. VerdictInv => VerdictEarned
  <2> SUFFICES ASSUME VerdictInv, at = "done", Accepted(report)
               PROVE  /\ \E s \in Stage : fate[s] = "ok"
                      /\ \A s \in Stage : plan[s] # "none" => fate[s] = "ok" BY DEF VerdictEarned
  <2>1. TestsPassed(outcome) /\ SafetyPassed(outcome) BY DEF Accepted, VerdictInv, ReportOfStages
  <2>2. \A s \in Stage : outcome[s] \in {"Passed", "Skipped"}
    BY <2>1 DEF TestsPassed, SafetyPassed, Succeeded, Stage
  <2>3. \E s \in Stage : outcome[s] = "Passed" BY <2>1, <2>2 DEF TestsPassed, AnyExecuted
  <2> QED BY <2>2, <2>3 DEF VerdictInv, StatusEarned
<1> QED BY <1>1, <1>2, VerdictInvStep, PTL DEF VerifySpec

-----------------------------------------------------------------------------
(* PluginCatalog *)

\* The fingerprint is the one the index promised, or the index promises none.
Promised == entry.expected = "none" \/ entry.actual = entry.expected

\* An entry of the index.
CatalogEntry == [kind: {"dylib", "process"}, expected: {"none", "a"}, actual: {"a", "b"}]

\* A thread that verifies or handles does so on an open library, the mark of a
\* verified library is a comparison that held, and handle is only entered
\* behind it: what was handled, and what is about to be, is as promised.
CatalogInv ==
    /\ entry \in CatalogEntry
    /\ lib \in [open: BOOLEAN, verified: BOOLEAN]
    /\ DOMAIN thread = Thread
    /\ \A t \in Thread : thread[t] \in {"verify", "handle"} => lib.open
    /\ \A t \in Thread : thread[t] = "handle" => Promised
    /\ lib.verified => Promised
    /\ HandledIsVerified

\* A step that leaves the library and what was handled alone, and takes no
\* thread to the library, keeps the invariant.
LEMMA CatalogElsewhere ==
    ASSUME CatalogInv, UNCHANGED <<entry, lib, handled>>, NEW t \in Thread,
           NEW x, x \notin {"verify", "handle"},
           thread' = [thread EXCEPT ![t] = x] \/ thread' = thread
    PROVE  CatalogInv'
<1>1. DOMAIN thread' = Thread BY DEF CatalogInv
<1>2. \A u \in Thread : thread'[u] \in {"verify", "handle"} => thread'[u] = thread[u] BY DEF CatalogInv
<1> QED BY <1>1, <1>2 DEF CatalogInv, HandledIsVerified, Promised

\* Every step of a caller and of a child process keeps the invariant.
LEMMA CatalogInvStep == CatalogInv /\ [CatalogNext]_catalogVars => CatalogInv'
<1> SUFFICES ASSUME CatalogInv, [CatalogNext]_catalogVars PROVE CatalogInv' OBVIOUS
<1>1. ASSUME NEW t \in Thread, InvokeCatalog(t) PROVE CatalogInv' BY <1>1, CatalogElsewhere DEF InvokeCatalog
<1>2. ASSUME NEW t \in Thread, LockSlot(t) PROVE CatalogInv' BY <1>2, CatalogElsewhere DEF LockSlot
<1>3. ASSUME NEW t \in Thread, LoadLibrary(t) PROVE CatalogInv'
  <2>1. CASE lib' = [lib EXCEPT !.open = TRUE] /\ thread' = [thread EXCEPT ![t] = "verify"]
    BY <1>3, <2>1 DEF LoadLibrary, CatalogInv, HandledIsVerified, Promised
  <2>2. CASE UNCHANGED lib /\ thread' = [thread EXCEPT ![t] = "error"]
    <3>1. UNCHANGED <<entry, handled>> /\ "error" \notin {"verify", "handle"} BY <1>3 DEF LoadLibrary
    <3> QED BY <2>2, <3>1, CatalogElsewhere
  <2> QED BY <1>3, <2>1, <2>2 DEF LoadLibrary
<1>4. ASSUME NEW t \in Thread, Verify(t) PROVE CatalogInv'
  <2> DEFINE ok == lib.verified \/ entry.expected = "none" \/ entry.actual = entry.expected
  <2>1. /\ UNCHANGED <<entry, handled>> /\ lib.open
        /\ lib' = [lib EXCEPT !.verified = @ \/ MarkVerified(entry)]
        /\ thread' = [thread EXCEPT ![t] = IF ok THEN "handle" ELSE "error"] BY <1>4 DEF Verify, CatalogInv
  <2>2. /\ lib' \in [open: BOOLEAN, verified: BOOLEAN] /\ lib'.open
        /\ lib'.verified => lib.verified \/ Promised BY <2>1 DEF CatalogInv, MarkVerified, Promised
  <2>3. /\ DOMAIN thread' = Thread
        /\ \A u \in Thread : thread'[u] = "handle" => thread[u] = "handle" \/ ok BY <2>1 DEF CatalogInv
  <2>4. ok => Promised BY DEF CatalogInv, Promised
  <2> QED BY <2>1, <2>2, <2>3, <2>4 DEF CatalogInv, HandledIsVerified, Promised
<1>5. ASSUME NEW t \in Thread, Handle(t) PROVE CatalogInv'
  <2>1. PICK end \in {"ok", "error"} : thread' = [thread EXCEPT ![t] = end] BY <1>5 DEF Handle
  <2>2. /\ UNCHANGED <<entry, lib>> /\ lib.open /\ Promised
        /\ handled' = handled \cup {[open |-> lib.open, expected |-> entry.expected,
                                     actual |-> entry.actual]} BY <1>5 DEF Handle, CatalogInv
  <2>3. HandledIsVerified' BY <2>2 DEF CatalogInv, HandledIsVerified, Promised
  <2>4. DOMAIN thread' = Thread /\ \A u \in Thread : thread'[u] \in {"verify", "handle"} => thread'[u] = thread[u]
    BY <2>1 DEF CatalogInv
  <2> QED BY <2>2, <2>3, <2>4 DEF CatalogInv, Promised
<1>6. ASSUME NEW t \in Thread, Spawn(t) \/ WriteInput(t) \/ WaitOutput(t) PROVE CatalogInv'
  <2>1. UNCHANGED <<entry, lib, handled>> BY <1>6 DEF Spawn, WriteInput, WaitOutput
  <2>2. \E x \in {"error", "write", "wait", "ok"} :
            thread' = [thread EXCEPT ![t] = x] \/ thread' = thread BY <1>6 DEF Spawn, WriteInput, WaitOutput
  <2> QED BY <2>1, <2>2, CatalogElsewhere
<1>7. ASSUME NEW t \in Thread, Child(t) PROVE CatalogInv'
  BY <1>7, "error" \notin {"verify", "handle"}, CatalogElsewhere DEF Child, ChildReads, ChildAnswers,
     ChildEnds
<1>8. CASE UNCHANGED catalogVars BY <1>8 DEF catalogVars, CatalogInv, HandledIsVerified, Promised
<1> QED BY <1>1, <1>2, <1>3, <1>4, <1>5, <1>6, <1>7, <1>8 DEF CatalogNext, Caller

\* For any number of threads that share the slot of a plugin: no library is
\* handed a call that is not open or whose fingerprint is not the one the index
\* promises.
THEOREM CatalogVerifies == CatalogSpec => []HandledIsVerified
<1>1. CatalogInit => CatalogInv BY DEF CatalogInit, CatalogInv, CatalogEntry, HandledIsVerified, Promised
<1>2. CatalogInv => HandledIsVerified BY DEF CatalogInv
<1> QED BY <1>1, <1>2, CatalogInvStep, PTL DEF CatalogSpec

-----------------------------------------------------------------------------
(* WorkflowWait *)

\* A submitted wait, as the runtime and the future see it.
WaitRecord == [state: {"pending", "ready"}, outcome: WaitOutcome \cup {"none"},
               given: Nat, cancels: Nat]

\* The future of an await.
FutureRecord == [kind: WaitKind \cup {"none"}, handle: Nat, over: BOOLEAN]

\* A wait whose outcome was handed over or that was cancelled.
Settled(w) == w.given + w.cancels = 1

\* The handle of the future is that of a wait nobody has settled yet.
WaitInv ==
    /\ future \in FutureRecord
    /\ waits \in Seq(WaitRecord)
    /\ future.handle # 0 =>
        /\ future.kind # "none" /\ ~ future.over
        /\ future.handle \in DOMAIN waits
        /\ waits[future.handle].given = 0 /\ waits[future.handle].cancels = 0
    /\ SettledOnce

\* Replacing an element of a sequence by another of the same set.
LEMMA ExceptSeq ==
    ASSUME NEW S, NEW s \in Seq(S), NEW i \in DOMAIN s, NEW x \in S
    PROVE  LET r == [s EXCEPT ![i] = x]
           IN  /\ r \in Seq(S) /\ DOMAIN r = DOMAIN s /\ r[i] = x
               /\ \A j \in DOMAIN s : j # i => r[j] = s[j]
<1> DEFINE r == [s EXCEPT ![i] = x]
<1>1. DOMAIN s = 1 .. Len(s) /\ Len(s) \in Nat /\ \A j \in DOMAIN s : s[j] \in S OBVIOUS
<1>2. r \in [1 .. Len(s) -> S] BY <1>1
<1>3. r \in Seq(S) BY <1>1, <1>2
<1> QED BY <1>1, <1>3

\* Handing over the outcome of a fresh wait settles it, and so does cancelling it.
LEMMA Settles ==
    ASSUME NEW w \in WaitRecord, w.given = 0, w.cancels = 0
    PROVE  /\ [w EXCEPT !.given = @ + 1] \in WaitRecord
           /\ [w EXCEPT !.cancels = @ + 1] \in WaitRecord
           /\ Settled([w EXCEPT !.given = @ + 1])
           /\ Settled([w EXCEPT !.cancels = @ + 1])
BY DEF WaitRecord, Settled

\* All waits but that of the future's handle are settled.
LEMMA RestSettled ==
    ASSUME WaitInv, NEW i \in DOMAIN waits, i # future.handle
    PROVE  Settled(waits[i])
<1>1. waits[i] \in WaitRecord BY DEF WaitInv
<1> QED BY <1>1 DEF WaitInv, SettledOnce, WaitRecord, Settled

\* Every step of the workflow and of the runtime keeps the invariant.
LEMMA WaitInvStep == WaitInv /\ [WaitNext]_waitVars => WaitInv'
<1> SUFFICES ASSUME WaitInv, [WaitNext]_waitVars PROVE WaitInv' OBVIOUS
<1> USE DEF WaitInv, FutureRecord, SettledOnce, Settled
<1>1. ASSUME NEW kind \in WaitKind, NewFuture(kind) PROVE WaitInv' BY <1>1 DEF NewFuture, NoFuture, WaitKind
<1>2. ASSUME PollWait PROVE WaitInv'
  <2> DEFINE all == IF future.handle = 0 THEN Append(waits, Submitted) ELSE waits
             h   == IF future.handle = 0 THEN Len(all) ELSE future.handle
  <2>1. /\ all \in Seq(WaitRecord) /\ h \in DOMAIN all /\ h # 0
        /\ all[h].given = 0 /\ all[h].cancels = 0
        /\ \A i \in DOMAIN all : i # h => Settled(all[i])
    <3>1. CASE future.handle = 0
      <4>1. Submitted \in WaitRecord BY DEF Submitted, WaitRecord
      <4>2. /\ all = Append(waits, Submitted) /\ h = Len(waits) + 1
            /\ DOMAIN all = 1 .. Len(waits) + 1 /\ all \in Seq(WaitRecord) BY <3>1, <4>1
      <4>3. \A i \in 1 .. Len(waits) : all[i] = waits[i] BY <4>1, <4>2
      <4>4. all[h] = Submitted BY <4>1, <4>2
      <4> HIDE DEF all, h
      <4>5. \A i \in DOMAIN all : i # h => i \in DOMAIN waits BY <4>2
      <4>6. \A i \in DOMAIN waits : Settled(waits[i]) BY <3>1, RestSettled
      <4> QED BY <4>2, <4>3, <4>4, <4>5, <4>6 DEF Submitted
    <3>2. CASE future.handle # 0 BY <3>2, RestSettled
    <3> QED BY <3>1, <3>2
  <2> HIDE DEF all, h
  <2>2. CASE all[h].state = "pending"
    <3>1. waits' = all /\ future' = [future EXCEPT !.handle = h] BY <1>2, <2>2 DEF PollWait, all, h
    <3>2. future.kind # "none" /\ ~ future.over BY <1>2 DEF PollWait
    <3>0. h \in Nat BY <2>1
    <3>3. future' \in FutureRecord /\ future'.handle = h /\ future'.kind # "none" /\ ~ future'.over
      BY <3>0, <3>1, <3>2
    <3>4. all[h].given + all[h].cancels = 0 BY <2>1
    <3>5. SettledOnce' BY <2>1, <3>1, <3>3, <3>4
    <3> QED BY <2>1, <3>1, <3>3, <3>5
  <2>3. CASE all[h].state # "pending"
    <3>1. /\ waits' = [all EXCEPT ![h].given = @ + 1]
          /\ future' = [future EXCEPT !.handle = 0, !.over = TRUE]
      BY <1>2, <2>3 DEF PollWait, HandleAfter, all, h
    <3>2. future' \in FutureRecord /\ future'.handle = 0 BY <3>1
    <3>a. [all[h] EXCEPT !.given = @ + 1] \in WaitRecord
      <4>1. all[h] \in WaitRecord BY <2>1
      <4> QED BY <2>1, <4>1, Settles
    <3>3. waits' \in Seq(WaitRecord) /\ DOMAIN waits' = DOMAIN all BY <2>1, <3>1, <3>a, ExceptSeq
    <3>4. \A i \in DOMAIN waits' : Settled(waits'[i]) BY <2>1, <3>1, <3>3
    <3> QED BY <3>2, <3>3, <3>4
  <2> QED BY <2>2, <2>3
<1>3. ASSUME DropFuture PROVE WaitInv'
  <2>1. future' = NoFuture /\ future'.handle = 0 /\ future' \in FutureRecord BY <1>3 DEF DropFuture, NoFuture
  <2>2. CASE future.handle = 0 BY <1>3, <2>2, <2>1 DEF DropFuture
  <2>3. CASE future.handle # 0
    <3> DEFINE h == future.handle
               w == [waits[h] EXCEPT !.cancels = @ + 1]
    <3>1. waits' = [waits EXCEPT ![h] = w] BY <1>3, <2>3 DEF DropFuture
    <3>2. waits[h] \in WaitRecord /\ h \in DOMAIN waits BY <2>3
    <3>3. w \in WaitRecord /\ Settled(w) BY <2>3, <3>2, Settles
    <3>4. waits' \in Seq(WaitRecord) /\ DOMAIN waits' = DOMAIN waits BY <3>1, <3>2, <3>3, ExceptSeq
    <3>5. ASSUME NEW i \in DOMAIN waits PROVE Settled(waits'[i])
      <4>1. CASE i = h BY <3>1, <3>2, <3>3, <4>1
      <4>2. CASE i # h BY <3>1, <3>2, <4>2, RestSettled
      <4> QED BY <4>1, <4>2
    <3> QED BY <2>1, <3>4, <3>5
  <2> QED BY <2>2, <2>3
<1>4. ASSUME NEW h \in DOMAIN waits, Resolve(h) PROVE WaitInv'
  <2>1. PICK o \in WaitOutcome :
            waits' = [waits EXCEPT ![h].state = "ready", ![h].outcome = o] BY <1>4 DEF Resolve
  <2> DEFINE w == [waits[h] EXCEPT !.state = "ready", !.outcome = o]
  <2>2. waits' = [waits EXCEPT ![h] = w] BY <2>1
  <2>3. w \in WaitRecord /\ w.given = waits[h].given /\ w.cancels = waits[h].cancels
    <3>1. waits[h] \in WaitRecord OBVIOUS
    <3> QED BY <3>1 DEF WaitRecord
  <2>4. /\ waits' \in Seq(WaitRecord) /\ DOMAIN waits' = DOMAIN waits
        /\ waits'[h] = w /\ \A i \in DOMAIN waits : i # h => waits'[i] = waits[i] BY <2>2, <2>3, ExceptSeq
  <2>5. \A i \in DOMAIN waits : /\ waits'[i].given = waits[i].given
                                /\ waits'[i].cancels = waits[i].cancels BY <2>3, <2>4
  <2> QED BY <1>4, <2>4, <2>5 DEF Resolve
<1>5. CASE UNCHANGED waitVars BY <1>5 DEF waitVars
<1> QED BY <1>1, <1>2, <1>3, <1>4, <1>5 DEF WaitNext

\* For any number of waits: every submitted wait but the one that is still
\* awaited was either handed over or cancelled, once and not both.
THEOREM WaitsSettledOnce == WaitsSpec => []SettledOnce
<1>1. WaitInit => WaitInv BY DEF WaitInit, WaitInv, NoFuture, SettledOnce, WaitRecord, FutureRecord
<1>2. WaitInv => SettledOnce BY DEF WaitInv
<1> QED BY <1>1, <1>2, WaitInvStep, PTL DEF WaitsSpec

-----------------------------------------------------------------------------
(* LlmSink *)

\* A line on the side channel.
Frame == [t: {"delta", "key", "garbage"}, of: Call \cup {Free}, n: Nat]

\* How many of its plugin's frames the reader of a call has taken.
Taken(c) == Len(sent[peer[c]]) - Len(unread[c])

\* A frame says where it stands in what its plugin sent, and a key is the
\* plugin's own.
SentInForm ==
    \A p \in Call : \A n \in DOMAIN sent[p] :
        /\ sent[p][n].t = "delta" => sent[p][n].n = n
        /\ sent[p][n].t = "key" => sent[p][n].of = p

\* No two readers talk to one plugin; a reader that has accepted nobody has
\* nothing, and a plugin that has not connected has sent nothing.
OnePeer ==
    /\ \A c, d \in Call : peer[c] = peer[d] /\ peer[c] \in Call => c = d
    /\ \A c \in Call : call[c] = "new" => reader[c] = "none"
    /\ \A c \in Call : reader[c] \in {"none", "accept"} =>
          peer[c] = Free /\ ~ shaken[c] /\ unread[c] = <<>>
    /\ \A p \in Call : (\A c \in Call : peer[c] # p) => sent[p] = <<>>

\* What a reader has not read is the end of what its plugin sent.
UnreadIsRest ==
    \A c \in Call : reader[c] = "read" =>
        /\ peer[c] \in Call
        /\ Len(unread[c]) <= Len(sent[peer[c]])
        /\ \A i \in DOMAIN unread[c] : unread[c][i] = sent[peer[c]][Taken(c) + i]

\* Only the plugin of the call itself passes the handshake, nothing reaches the
\* sink before it, and behind it every delta that was taken has.
ForwardedAfterHandshake ==
    \A c \in Call :
        /\ shaken[c] => peer[c] = c
        /\ out[c] # <<>> => shaken[c]
        /\ reader[c] = "read" /\ peer[c] = c =>
            /\ \A i \in DOMAIN out[c] : out[c][i].n <= Taken(c)
            /\ \A m \in 1 .. Taken(c) : sent[c][m].t = "delta" =>
                  \E i \in DOMAIN out[c] : out[c][i].n = m

\* What the proof needs of the types.
SinkTypes ==
    /\ call \in [Call -> {"new", "invoked", "joining", "ok", "error"}]
    /\ reader \in [Call -> {"none", "accept", "read", "over"}]
    /\ shaken \in [Call -> BOOLEAN]
    /\ peer \in [Call -> Call \cup {Free}]
    /\ sent \in [Call -> Seq(Frame)]
    /\ unread \in [Call -> Seq(Frame)]
    /\ out \in [Call -> Seq(Frame)]

\* TokensAreOwn is inductive only with the history of each connection: whose
\* frames they are, and how many were taken.
SinkInv == SinkTypes /\ SentInForm /\ OnePeer /\ UnreadIsRest
           /\ ForwardedAfterHandshake /\ TokensAreOwn

\* A step of a call or of a reader that moves no frame keeps the invariant.
LEMMA SinkElsewhere ==
    ASSUME SinkInv, UNCHANGED <<peer, shaken, sent, unread, out>>,
           call' \in [Call -> {"new", "invoked", "joining", "ok", "error"}],
           reader' \in [Call -> {"none", "accept", "read", "over"}],
           \A c \in Call : call'[c] = "new" => call[c] = "new" /\ reader'[c] = reader[c],
           \A c \in Call : reader'[c] = "read" => reader[c] = "read",
           \A c \in Call : reader'[c] \in {"none", "accept"} => reader[c] \in {"none", "accept"}
    PROVE  SinkInv'
<1>1. SinkTypes' /\ SentInForm' /\ TokensAreOwn' BY DEF SinkInv, SinkTypes, SentInForm, TokensAreOwn
<1>a. peer' = peer /\ shaken' = shaken /\ sent' = sent /\ unread' = unread /\ out' = out OBVIOUS
<1>b. \A c \in Call : Taken(c)' = Taken(c) BY <1>a DEF Taken
<1>2. OnePeer' BY <1>a DEF SinkInv, OnePeer
<1>3. UnreadIsRest'
  <2> SUFFICES ASSUME NEW c \in Call, reader'[c] = "read"
               PROVE  /\ peer'[c] \in Call
                      /\ Len(unread'[c]) <= Len(sent'[peer'[c]])
                      /\ \A i \in DOMAIN unread'[c] : unread'[c][i] = sent'[peer'[c]][Taken(c)' + i]
    BY DEF UnreadIsRest
  <2>1. reader[c] = "read" OBVIOUS
  <2> QED BY <1>a, <1>b, <2>1 DEF SinkInv, UnreadIsRest
<1>4. ForwardedAfterHandshake'
  <2> SUFFICES ASSUME NEW c \in Call, reader'[c] = "read", peer[c] = c
               PROVE  /\ \A i \in DOMAIN out[c] : out[c][i].n <= Taken(c)
                      /\ \A m \in 1 .. Taken(c) : sent[c][m].t = "delta" =>
                            \E i \in DOMAIN out[c] : out[c][i].n = m
    BY <1>a, <1>b DEF SinkInv, ForwardedAfterHandshake
  <2> QED BY DEF SinkInv, ForwardedAfterHandshake
<1> QED BY <1>1, <1>2, <1>3, <1>4 DEF SinkInv

\* A connection starts with nothing sent and nothing taken.
LEMMA SinkConnect ==
    ASSUME SinkInv, NEW p \in Call, NEW c \in Call, Connect(p, c)
    PROVE  SinkInv'
<1>1. /\ UNCHANGED <<call, shaken, sent, unread, out>>
      /\ reader[c] = "accept" /\ reader' = [reader EXCEPT ![c] = "read"]
      /\ peer' = [peer EXCEPT ![c] = p]
      /\ \A d \in Call : peer[d] # p BY DEF Connect
<1>2. SinkTypes BY DEF SinkInv
<1>3. sent[p] = <<>> /\ unread[c] = <<>> /\ ~ shaken[c] /\ peer[c] = Free /\ out[c] = <<>>
  BY <1>1 DEF SinkInv, OnePeer, ForwardedAfterHandshake
<1>4. /\ reader'[c] = "read" /\ peer'[c] = p
      /\ \A d \in Call : d # c => reader'[d] = reader[d] /\ peer'[d] = peer[d] BY <1>1, <1>2 DEF SinkTypes
<1>5. SinkTypes' /\ SentInForm' /\ TokensAreOwn' BY <1>1 DEF SinkInv, SinkTypes, SentInForm, TokensAreOwn
<1>6. OnePeer'
  <2>1. \A d, e \in Call : peer'[d] = peer'[e] /\ peer'[d] \in Call => d = e
    BY <1>1, <1>4 DEF SinkInv, OnePeer
  <2>2. \A d \in Call : call'[d] = "new" => reader'[d] = "none" BY <1>1, <1>4 DEF SinkInv, OnePeer
  <2>3. \A d \in Call : reader'[d] \in {"none", "accept"} =>
            peer'[d] = Free /\ ~ shaken'[d] /\ unread'[d] = <<>> BY <1>1, <1>4 DEF SinkInv, OnePeer
  <2>4. ASSUME NEW q \in Call, \A d \in Call : peer'[d] # q PROVE sent'[q] = <<>>
    BY <1>4, <2>4, <1>3, SinkAssumption, <1>1 DEF SinkInv, OnePeer
  <2> QED BY <2>1, <2>2, <2>3, <2>4 DEF OnePeer
<1>7. UnreadIsRest'
  <2> SUFFICES ASSUME NEW d \in Call, reader'[d] = "read"
               PROVE  /\ peer'[d] \in Call
                      /\ Len(unread'[d]) <= Len(sent'[peer'[d]])
                      /\ \A i \in DOMAIN unread'[d] : unread'[d][i] = sent'[peer'[d]][Taken(d)' + i]
    BY DEF UnreadIsRest
  <2>1. CASE d = c BY <1>1, <1>3, <2>1, <1>4
  <2>2. CASE d # c
    <3>1. Taken(d)' = Taken(d) /\ peer'[d] = peer[d] /\ reader[d] = "read" BY <1>1, <1>4, <2>2 DEF Taken
    <3> QED BY <1>1, <3>1 DEF SinkInv, UnreadIsRest
  <2> QED BY <2>1, <2>2
<1>8. ForwardedAfterHandshake'
  <2> SUFFICES ASSUME NEW d \in Call
               PROVE  /\ shaken'[d] => peer'[d] = d
                      /\ out'[d] # <<>> => shaken'[d]
                      /\ reader'[d] = "read" /\ peer'[d] = d =>
                          /\ \A i \in DOMAIN out'[d] : out'[d][i].n <= Taken(d)'
                          /\ \A m \in 1 .. Taken(d)' : sent'[d][m].t = "delta" =>
                                \E i \in DOMAIN out'[d] : out'[d][i].n = m BY DEF ForwardedAfterHandshake
  <2>1. CASE d = c
    <3>1. DOMAIN out'[d] = {} /\ Len(unread'[d]) = 0 /\ Len(sent'[p]) = 0 BY <1>1, <1>3, <2>1
    <3>2. Taken(d)' = 0 BY <1>4, <2>1, <3>1 DEF Taken
    <3> QED BY <1>1, <1>3, <1>4, <2>1, <3>1, <3>2
  <2>2. CASE d # c
    <3>1. Taken(d)' = Taken(d) /\ peer'[d] = peer[d] /\ reader'[d] = reader[d] BY <1>1, <1>4, <2>2 DEF Taken
    <3> QED BY <1>1, <3>1 DEF SinkInv, ForwardedAfterHandshake
  <2> QED BY <2>1, <2>2
<1> QED BY <1>5, <1>6, <1>7, <1>8 DEF SinkInv

\* What Append does to positions.
LEMMA AppendAt ==
    ASSUME NEW S, NEW s \in Seq(S), NEW x \in S
    PROVE  /\ Append(s, x) \in Seq(S) /\ Len(Append(s, x)) = Len(s) + 1 /\ Len(s) \in Nat
           /\ DOMAIN s = 1 .. Len(s) /\ DOMAIN Append(s, x) = 1 .. Len(s) + 1
           /\ Append(s, x)[Len(s) + 1] = x
           /\ \A i \in 1 .. Len(s) : Append(s, x)[i] = s[i]
OBVIOUS

\* What Head and Tail do to positions.
LEMMA TailAt ==
    ASSUME NEW S, NEW s \in Seq(S), s # <<>>
    PROVE  /\ Tail(s) \in Seq(S) /\ Len(Tail(s)) = Len(s) - 1 /\ Len(s) \in Nat \ {0}
           /\ DOMAIN s = 1 .. Len(s) /\ DOMAIN Tail(s) = 1 .. Len(s) - 1
           /\ Head(s) = s[1] /\ Head(s) \in S
           /\ \A i \in 1 .. Len(s) - 1 : Tail(s)[i] = s[i + 1]
OBVIOUS

\* Where the end of a sequence of a elements that has b elements stands.
LEMMA SuffixAt ==
    ASSUME NEW a \in Nat, NEW b \in Nat, NEW k, k = a - b, b <= a
    PROVE  /\ k \in Nat /\ k <= a /\ k + (b + 1) = a + 1 /\ a - (b - 1) = k + 1
           /\ \A i \in 1 .. b : k + i \in 1 .. a
           /\ b # 0 => k + 1 \in 1 .. a
OBVIOUS

\* The first ones of a list without its end.
LEMMA FirstOnes ==
    ASSUME NEW n \in Nat, NEW k \in Nat, NEW t, t = n - k, NEW m \in 1 .. t
    PROVE  m \in 1 .. n
<1>1. m \in Int /\ 1 <= m /\ m <= n - k OBVIOUS
<1> QED BY <1>1

\* A frame that is sent is the last one sent and the last one to be read.
LEMMA SinkSend ==
    ASSUME SinkInv, NEW p \in Call, Send(p)
    PROVE  SinkInv'
<1>1. PICK f \in Frames(p) :
        /\ sent' = [sent EXCEPT ![p] = Append(@, f)]
        /\ unread' = [c \in Call |-> IF peer[c] = p /\ reader[c] = "read"
                                     THEN Append(unread[c], f) ELSE unread[c]] BY DEF Send
<1>2. UNCHANGED <<call, reader, peer, shaken, out>> BY DEF Send
<1>3. SinkTypes BY DEF SinkInv
<1>4. \E c \in Call : peer[c] = p BY DEF Send
<1>5. /\ f \in Frame
      /\ f.t = "delta" => f.n = Len(sent[p]) + 1
      /\ f.t = "key" => f.of = p BY <1>3, SinkAssumption DEF SinkTypes, Frames, Frame, Delta, KeyOf, Garbage
<1>6. /\ \A q \in Call : q # p => sent'[q] = sent[q]
      /\ sent'[p] = Append(sent[p], f) BY <1>1, <1>3 DEF SinkTypes
<1>7. /\ sent'[p] \in Seq(Frame) /\ Len(sent'[p]) = Len(sent[p]) + 1 /\ Len(sent[p]) \in Nat
      /\ DOMAIN sent[p] = 1 .. Len(sent[p]) /\ DOMAIN sent'[p] = 1 .. Len(sent[p]) + 1
      /\ sent'[p][Len(sent[p]) + 1] = f
      /\ \A i \in 1 .. Len(sent[p]) : sent'[p][i] = sent[p][i] BY <1>3, <1>5, <1>6, AppendAt DEF SinkTypes
<1>8. ASSUME NEW c \in Call, peer[c] = p, reader[c] = "read"
      PROVE  /\ unread'[c] \in Seq(Frame) /\ Len(unread'[c]) = Len(unread[c]) + 1
             /\ Len(unread[c]) \in Nat
             /\ DOMAIN unread[c] = 1 .. Len(unread[c]) /\ DOMAIN unread'[c] = 1 .. Len(unread[c]) + 1
             /\ unread'[c][Len(unread[c]) + 1] = f
             /\ \A i \in 1 .. Len(unread[c]) : unread'[c][i] = unread[c][i]
  BY <1>1, <1>3, <1>8, <1>5, AppendAt DEF SinkTypes
<1>9. \A c \in Call : ~ (peer[c] = p /\ reader[c] = "read") => unread'[c] = unread[c] BY <1>1
<1>10. ASSUME NEW c \in Call, reader[c] = "read" PROVE Taken(c)' = Taken(c)
  <2>1. CASE peer[c] = p
    <3>1. /\ Len(unread'[c]) = Len(unread[c]) + 1 /\ Len(unread[c]) \in Nat
          /\ Len(sent'[p]) = Len(sent[p]) + 1 /\ Len(sent[p]) \in Nat BY <1>7, <1>8, <1>10, <2>1
    <3>2. Taken(c)' = Len(sent'[p]) - Len(unread'[c]) /\ Taken(c) = Len(sent[p]) - Len(unread[c])
      BY <1>2, <2>1 DEF Taken
    <3> QED BY <3>1, <3>2
  <2>2. CASE peer[c] # p BY <1>10, <1>2, <1>6, <1>9, <2>2 DEF SinkInv, UnreadIsRest, Taken
  <2> QED BY <2>1, <2>2
<1>11. SinkTypes' BY <1>3, <1>6, <1>7, <1>8, <1>9, <1>1, <1>2 DEF SinkTypes
<1>12. SentInForm'
  <2> SUFFICES ASSUME NEW q \in Call, NEW n \in DOMAIN sent'[q]
               PROVE  /\ sent'[q][n].t = "delta" => sent'[q][n].n = n
                      /\ sent'[q][n].t = "key" => sent'[q][n].of = q BY DEF SentInForm
  <2>1. CASE q # p BY <1>6, <2>1 DEF SinkInv, SentInForm
  <2>2. CASE q = p /\ n = Len(sent[p]) + 1 BY <1>5, <1>7, <2>2
  <2>3. CASE q = p /\ n \in 1 .. Len(sent[p]) BY <1>7, <2>3 DEF SinkInv, SentInForm
  <2> QED BY <1>7, <2>1, <2>2, <2>3
<1>13. OnePeer' BY <1>2, <1>4, <1>6, <1>9 DEF SinkInv, OnePeer
<1>14. UnreadIsRest'
  <2> SUFFICES ASSUME NEW c \in Call, reader[c] = "read"
               PROVE  /\ peer[c] \in Call
                      /\ Len(unread'[c]) <= Len(sent'[peer[c]])
                      /\ \A i \in DOMAIN unread'[c] : unread'[c][i] = sent'[peer[c]][Taken(c) + i]
    BY <1>2, <1>10 DEF UnreadIsRest
  <2>1. /\ peer[c] \in Call
        /\ Len(unread[c]) <= Len(sent[peer[c]])
        /\ \A i \in DOMAIN unread[c] : unread[c][i] = sent[peer[c]][Taken(c) + i] BY DEF SinkInv, UnreadIsRest
  <2>2. CASE peer[c] # p BY <1>6, <1>9, <2>1, <2>2
  <2>3. CASE peer[c] = p
    <3>1. /\ Taken(c) = Len(sent[p]) - Len(unread[c])
          /\ Len(sent[p]) \in Nat /\ Len(unread[c]) \in Nat BY <1>7, <1>8, <2>3 DEF Taken
    <3>0. Len(unread[c]) <= Len(sent[p]) BY <2>1, <2>3
    <3>2. /\ \A i \in 1 .. Len(unread[c]) : Taken(c) + i \in 1 .. Len(sent[p])
          /\ Taken(c) + (Len(unread[c]) + 1) = Len(sent[p]) + 1 BY <3>0, <3>1, SuffixAt, ZenonT(60)
    <3>3. ASSUME NEW i \in DOMAIN unread'[c] PROVE unread'[c][i] = sent'[p][Taken(c) + i]
      <4>1. CASE i = Len(unread[c]) + 1 BY <1>7, <1>8, <2>3, <3>2, <4>1
      <4>2. CASE i \in 1 .. Len(unread[c]) BY <1>7, <1>8, <2>1, <2>3, <3>2, <4>2
      <4> QED BY <1>8, <2>3, <4>1, <4>2
    <3>4. Len(unread'[c]) <= Len(sent'[p]) BY <1>7, <1>8, <2>1, <2>3
    <3> QED BY <2>1, <2>3, <3>3, <3>4
  <2> QED BY <2>2, <2>3
<1>15. ForwardedAfterHandshake'
  <2> SUFFICES ASSUME NEW c \in Call, reader[c] = "read", peer[c] = c,
                      NEW m \in 1 .. Taken(c), sent'[c][m].t = "delta"
               PROVE  \E i \in DOMAIN out[c] : out[c][i].n = m
    BY <1>2, <1>10 DEF SinkInv, ForwardedAfterHandshake
  <2>1. sent'[c][m] = sent[c][m]
    <3>1. CASE c = p
      <4>1. Taken(c) = Len(sent[p]) - Len(unread[c]) /\ Len(unread[c]) \in Nat BY <1>8, <3>1 DEF Taken
      <4>2. m \in 1 .. Len(sent[p]) BY <1>7, <4>1, FirstOnes
      <4> QED BY <1>7, <3>1, <4>2
    <3> QED BY <1>6, <3>1
  <2> QED BY <2>1 DEF SinkInv, ForwardedAfterHandshake
<1>16. TokensAreOwn'
  <2> SUFFICES ASSUME NEW c \in Call, NEW i \in DOMAIN out[c]
               PROVE  LET n == out[c][i].n
                      IN  /\ n \in DOMAIN sent'[c] /\ sent'[c][n] = out[c][i] /\ out[c][i].t = "delta"
                          /\ \A j \in 1 .. i - 1 : out[c][j].n < n
                          /\ \A m \in 1 .. n - 1 : sent'[c][m].t = "delta" =>
                                \E j \in 1 .. i - 1 : out[c][j].n = m BY <1>2 DEF TokensAreOwn
  <2> DEFINE n == out[c][i].n
  <2>1. /\ n \in DOMAIN sent[c] /\ sent[c][n] = out[c][i] /\ out[c][i].t = "delta"
        /\ \A j \in 1 .. i - 1 : out[c][j].n < n
        /\ \A m \in 1 .. n - 1 : sent[c][m].t = "delta" =>
               \E j \in 1 .. i - 1 : out[c][j].n = m BY DEF SinkInv, TokensAreOwn
  <2>2. CASE c # p BY <1>6, <2>1, <2>2
  <2>3. CASE c = p
    <3>1. n \in 1 .. Len(sent[p]) BY <1>7, <2>1, <2>3
    <3>2. \A m \in 1 .. n : sent'[p][m] = sent[p][m] BY <1>7, <3>1
    <3>3. \A m \in 1 .. n - 1 : m \in 1 .. n BY <3>1
    <3>4. n \in DOMAIN sent'[p] /\ n \in 1 .. n BY <1>7, <3>1
    <3>5. /\ n \in DOMAIN sent'[c] /\ sent'[c][n] = out[c][i] /\ out[c][i].t = "delta"
          /\ \A j \in 1 .. i - 1 : out[c][j].n < n
          /\ \A m \in 1 .. n - 1 : sent'[c][m].t = "delta" =>
                 \E j \in 1 .. i - 1 : out[c][j].n = m
      <4> HIDE DEF n
      <4> QED BY <2>1, <2>3, <3>2, <3>3, <3>4
    <3> QED BY <3>5
  <2> QED BY <2>2, <2>3
<1> QED BY <1>11, <1>12, <1>13, <1>14, <1>15, <1>16 DEF SinkInv

\* Reading takes the next frame, and forwards it only behind the handshake.
LEMMA SinkRead ==
    ASSUME SinkInv, NEW c \in Call, ReadFrame(c)
    PROVE  SinkInv'
<1> DEFINE q == peer[c]
           f == Head(unread[c])
           what == ClassifyFrame(c, f)
           k == Taken(c)
<1>1. /\ UNCHANGED <<call, peer, sent>> /\ reader[c] = "read" /\ unread[c] # <<>>
      /\ shaken' = [shaken EXCEPT ![c] = @ \/ what = "accept"]
      /\ out' = IF what = "forward" THEN [out EXCEPT ![c] = Append(@, f)] ELSE out
      /\ reader' = IF what = "reject" THEN [reader EXCEPT ![c] = "over"] ELSE reader
      /\ unread' = [unread EXCEPT ![c] = IF reader'[c] = "over" THEN <<>> ELSE Tail(@)] BY DEF ReadFrame
<1>2. SinkTypes BY DEF SinkInv
<1>3. q \in Call /\ unread[c] \in Seq(Frame) /\ sent[q] \in Seq(Frame) /\ out[c] \in Seq(Frame)
  BY <1>1, <1>2 DEF SinkInv, UnreadIsRest, SinkTypes
<1>4. /\ Tail(unread[c]) \in Seq(Frame) /\ Len(Tail(unread[c])) = Len(unread[c]) - 1
      /\ Len(unread[c]) \in Nat \ {0} /\ DOMAIN unread[c] = 1 .. Len(unread[c])
      /\ DOMAIN Tail(unread[c]) = 1 .. Len(unread[c]) - 1
      /\ f = unread[c][1] /\ f \in Frame
      /\ \A i \in 1 .. Len(unread[c]) - 1 : Tail(unread[c])[i] = unread[c][i + 1] BY <1>1, <1>3, TailAt
<1>5. Len(sent[q]) \in Nat /\ DOMAIN sent[q] = 1 .. Len(sent[q]) BY <1>3
<1>6. k = Len(sent[q]) - Len(unread[c]) /\ Len(unread[c]) <= Len(sent[q])
  BY <1>1 DEF SinkInv, UnreadIsRest, Taken
<1>7. k \in Nat /\ k + 1 \in 1 .. Len(sent[q]) BY <1>4, <1>5, <1>6, SuffixAt
<1>8. f = sent[q][k + 1] BY <1>4, <1>1 DEF SinkInv, UnreadIsRest
<1>9. /\ what \in {"ignore", "accept", "reject", "forward"}
      /\ what = "accept" => f.t = "key" /\ f.of = c
      /\ what = "forward" => f.t = "delta" /\ shaken[c]
      /\ what \in {"ignore", "accept"} => f.t # "delta" BY <1>2, <1>4 DEF ClassifyFrame, Frame, SinkTypes
<1>10. what = "accept" => q = c BY <1>3, <1>5, <1>7, <1>8, <1>9 DEF SinkInv, SentInForm
<1>11. f.t = "delta" => f.n = k + 1 BY <1>3, <1>5, <1>7, <1>8 DEF SinkInv, SentInForm
<1> HIDE DEF what, f
<1>12. /\ shaken' \in [Call -> BOOLEAN] /\ shaken'[c] = (shaken[c] \/ what = "accept")
       /\ \A d \in Call : d # c => shaken'[d] = shaken[d] BY <1>1, <1>2 DEF SinkTypes
<1>13. /\ reader' \in [Call -> {"none", "accept", "read", "over"}]
       /\ reader'[c] = (IF what = "reject" THEN "over" ELSE "read")
       /\ \A d \in Call : d # c => reader'[d] = reader[d] BY <1>1, <1>2 DEF SinkTypes
<1>14. /\ unread' \in [Call -> Seq(Frame)]
       /\ unread'[c] = (IF what = "reject" THEN <<>> ELSE Tail(unread[c]))
       /\ \A d \in Call : d # c => unread'[d] = unread[d] BY <1>1, <1>2, <1>4, <1>13 DEF SinkTypes
<1>15. /\ out' \in [Call -> Seq(Frame)]
       /\ out'[c] = (IF what = "forward" THEN Append(out[c], f) ELSE out[c])
       /\ \A d \in Call : d # c => out'[d] = out[d] BY <1>1, <1>2, <1>3, <1>4 DEF SinkTypes
<1>16. \A d \in Call : d # c => Taken(d)' = Taken(d) BY <1>1, <1>14 DEF Taken
<1>17. what # "reject" => Taken(c)' = k + 1
  <2> SUFFICES ASSUME what # "reject" PROVE Taken(c)' = k + 1 OBVIOUS
  <2>1. Taken(c)' = Len(sent[q]) - Len(Tail(unread[c])) BY <1>1, <1>14 DEF Taken
  <2>2. Len(sent[q]) - (Len(unread[c]) - 1) = k + 1 BY <1>4, <1>5, <1>6, SuffixAt
  <2> QED BY <1>4, <2>1, <2>2
<1> HIDE DEF k
<1>18. SinkTypes' /\ SentInForm' BY <1>1, <1>2, <1>12, <1>13, <1>14, <1>15 DEF SinkInv, SinkTypes, SentInForm
<1>19. OnePeer' BY <1>1, <1>13, <1>12, <1>14 DEF SinkInv, OnePeer
<1>20. UnreadIsRest'
  <2> SUFFICES ASSUME NEW d \in Call, reader'[d] = "read"
               PROVE  /\ peer[d] \in Call
                      /\ Len(unread'[d]) <= Len(sent[peer[d]])
                      /\ \A i \in DOMAIN unread'[d] : unread'[d][i] = sent[peer[d]][Taken(d)' + i]
    BY <1>1 DEF UnreadIsRest
  <2>1. CASE d # c
    <3>1. reader[d] = "read" BY <1>13, <2>1
    <3> QED BY <1>14, <1>16, <2>1, <3>1 DEF SinkInv, UnreadIsRest
  <2>2. CASE d = c
    <3>1. /\ unread'[c] = Tail(unread[c]) /\ Taken(c)' = k + 1
          /\ DOMAIN unread'[c] = 1 .. Len(unread[c]) - 1 /\ Len(unread'[c]) = Len(unread[c]) - 1
      BY <1>4, <1>13, <1>14, <1>17, <2>2
    <3>2. ASSUME NEW i \in 1 .. Len(unread[c]) - 1 PROVE unread'[c][i] = sent[q][(k + 1) + i]
      <4>0. Len(unread[c]) \in Nat /\ DOMAIN unread[c] = 1 .. Len(unread[c]) /\ k \in Nat BY <1>4, <1>7
      <4>1. i + 1 \in DOMAIN unread[c] /\ (k + 1) + i = k + (i + 1) BY <4>0
      <4>2. unread[c][i + 1] = sent[q][k + (i + 1)] BY <1>1, <4>1 DEF SinkInv, UnreadIsRest, k
      <4> QED BY <1>4, <3>1, <4>1, <4>2
    <3>3. Len(unread[c]) - 1 <= Len(sent[q]) BY <1>4, <1>5, <1>6
    <3> QED BY <1>3, <2>2, <3>1, <3>2, <3>3
  <2> QED BY <2>1, <2>2
<1>21. shaken'[c] => q = c BY <1>10, <1>12 DEF SinkInv, ForwardedAfterHandshake
<1>22. out'[c] # <<>> => shaken'[c] BY <1>9, <1>12, <1>15 DEF SinkInv, ForwardedAfterHandshake
<1>23. ASSUME q = c
       PROVE  /\ \A i \in DOMAIN out[c] : out[c][i].n <= k
              /\ \A m \in 1 .. k : sent[c][m].t = "delta" =>
                    \E i \in DOMAIN out[c] : out[c][i].n = m
  BY <1>1, <1>23 DEF SinkInv, ForwardedAfterHandshake, k
<1>24. ASSUME what = "forward"
       PROVE  /\ q = c /\ out'[c] = Append(out[c], f) /\ Len(out[c]) \in Nat
              /\ DOMAIN out'[c] = 1 .. Len(out[c]) + 1 /\ DOMAIN out[c] = 1 .. Len(out[c])
              /\ out'[c][Len(out[c]) + 1] = f /\ f.n = k + 1 /\ f.t = "delta"
              /\ \A i \in 1 .. Len(out[c]) : out'[c][i] = out[c][i]
  BY <1>9, <1>11, <1>12, <1>15, <1>21, <1>24, <1>3, <1>4, AppendAt
<1>0. \A i \in DOMAIN out[c] : out[c][i].n \in Nat
  <2>1. \A i \in DOMAIN out[c] : out[c][i] \in Frame BY <1>3
  <2> QED BY <2>1 DEF Frame
<1>25. ASSUME q = c, what # "reject"
       PROVE  /\ \A i \in DOMAIN out'[c] : out'[c][i].n <= k + 1
              /\ \A m \in 1 .. k + 1 : sent[c][m].t = "delta" =>
                    \E i \in DOMAIN out'[c] : out'[c][i].n = m
  <2>1. CASE what = "forward"
    <3>1. \A i \in DOMAIN out'[c] : out'[c][i].n <= k + 1
      <4>1. \A i \in 1 .. Len(out[c]) : out[c][i].n <= k /\ out[c][i].n \in Nat
        BY <1>0, <1>23, <1>24, <1>25, <2>1
      <4>2. \A i \in 1 .. Len(out[c]) : out[c][i].n <= k + 1 BY <1>7, <4>1
      <4> SUFFICES ASSUME NEW i \in DOMAIN out'[c]
                   PROVE  out'[c][i].n <= k + 1 OBVIOUS
      <4>3. i \in 1 .. Len(out[c]) + 1 /\ Len(out[c]) \in Nat BY <1>24, <2>1
      <4>4. CASE i = Len(out[c]) + 1 BY <1>24, <2>1, <4>4, <1>7
      <4>5. CASE i # Len(out[c]) + 1 BY <4>3, <4>5, <1>24, <2>1, <4>2
      <4> QED BY <4>4, <4>5
    <3>2. ASSUME NEW m \in 1 .. k + 1, sent[c][m].t = "delta"
          PROVE  \E i \in DOMAIN out'[c] : out'[c][i].n = m
      <4>1. CASE m = k + 1 BY <1>24, <2>1, <4>1
      <4>2. CASE m # k + 1
        <5>1. m \in 1 .. k BY <1>7, <4>2
        <5>2. PICK i \in DOMAIN out[c] : out[c][i].n = m BY <1>23, <1>25, <3>2, <5>1
        <5>3. i \in DOMAIN out'[c] /\ out'[c][i] = out[c][i] BY <1>24, <2>1, <5>2
        <5> QED BY <5>2, <5>3
      <4> QED BY <4>1, <4>2
    <3> QED BY <3>1, <3>2
  <2>2. CASE what \in {"ignore", "accept"}
    <3>1. out'[c] = out[c] /\ sent[c][k + 1].t # "delta" BY <1>8, <1>9, <1>15, <1>25, <2>2
    <3>2. \A i \in DOMAIN out[c] : out[c][i].n <= k + 1 BY <1>0, <1>7, <1>23, <1>25
    <3>3. \A m \in 1 .. k + 1 : m = k + 1 \/ m \in 1 .. k BY <1>7
    <3> QED BY <1>23, <1>25, <3>1, <3>2, <3>3
  <2> QED BY <1>9, <1>25, <2>1, <2>2
<1>26. ForwardedAfterHandshake'
  <2> SUFFICES ASSUME NEW d \in Call
               PROVE  /\ shaken'[d] => peer[d] = d
                      /\ out'[d] # <<>> => shaken'[d]
                      /\ reader'[d] = "read" /\ peer[d] = d =>
                          /\ \A i \in DOMAIN out'[d] : out'[d][i].n <= Taken(d)'
                          /\ \A m \in 1 .. Taken(d)' : sent[d][m].t = "delta" =>
                                \E i \in DOMAIN out'[d] : out'[d][i].n = m BY <1>1 DEF ForwardedAfterHandshake
  <2>1. CASE d # c
    <3>1. /\ shaken'[d] = shaken[d] /\ reader'[d] = reader[d] /\ out'[d] = out[d]
          /\ Taken(d)' = Taken(d) BY <1>12, <1>13, <1>15, <1>16, <2>1
    <3> QED BY <3>1 DEF SinkInv, ForwardedAfterHandshake
  <2>2. CASE d = c BY <1>13, <1>17, <1>21, <1>22, <1>25, <2>2
  <2> QED BY <2>1, <2>2
<1>27. TokensAreOwn'
  <2> DEFINE Own(d, o, i) ==
               /\ o[i].n \in DOMAIN sent[d] /\ sent[d][o[i].n] = o[i] /\ o[i].t = "delta"
               /\ \A j \in 1 .. i - 1 : o[j].n < o[i].n
               /\ \A m \in 1 .. o[i].n - 1 : sent[d][m].t = "delta" =>
                     \E j \in 1 .. i - 1 : o[j].n = m
  <2> SUFFICES ASSUME NEW d \in Call, NEW i \in DOMAIN out'[d]
               PROVE  Own(d, out'[d], i) BY <1>1 DEF TokensAreOwn
  <2>0. \A e \in Call : \A j \in DOMAIN out[e] : Own(e, out[e], j) BY DEF SinkInv, TokensAreOwn
  <2>1. CASE d # c \/ what # "forward"
    <3>1. out'[d] = out[d] BY <1>15, <2>1
    <3> QED BY <2>0, <3>1
  <2>2. CASE d = c /\ what = "forward" /\ i \in 1 .. Len(out[c])
    <3>1. Own(c, out[c], i) /\ out'[c][i] = out[c][i] BY <1>24, <2>0, <2>2
    <3>2. \A j \in 1 .. i - 1 : out'[c][j] = out[c][j] BY <1>24, <2>2
    <3> QED BY <2>2, <3>1, <3>2
  <2>3. CASE d = c /\ what = "forward" /\ i = Len(out[c]) + 1
    <3>1. out'[c][i] = f /\ f.n = k + 1 /\ f.t = "delta" /\ q = c BY <1>24, <2>3
    <3>2. k + 1 \in DOMAIN sent[c] /\ sent[c][k + 1] = f BY <1>5, <1>7, <1>8, <3>1
    <3>3. \A j \in 1 .. i - 1 : j \in DOMAIN out[c] /\ out'[c][j] = out[c][j] /\ out[c][j].n \in Nat
      BY <1>0, <1>24, <2>3
    <3>4. \A j \in 1 .. i - 1 : out'[c][j].n < k + 1 BY <1>7, <1>23, <3>1, <3>3
    <3>5. ASSUME NEW m \in 1 .. (k + 1) - 1, sent[c][m].t = "delta"
          PROVE  \E j \in 1 .. i - 1 : out'[c][j].n = m
      <4>1. m \in 1 .. k BY <1>7
      <4>2. PICK j \in DOMAIN out[c] : out[c][j].n = m BY <1>23, <3>1, <3>5, <4>1
      <4>3. j \in 1 .. i - 1 BY <1>24, <2>3, <4>2
      <4> QED BY <3>3, <4>2, <4>3
    <3> QED BY <2>3, <3>1, <3>2, <3>4, <3>5
  <2> QED BY <1>24, <2>1, <2>2, <2>3
<1> QED BY <1>18, <1>19, <1>20, <1>26, <1>27 DEF SinkInv

\* Every step of a call, of its plugin and of its reader keeps the invariant.
LEMMA SinkInvStep == SinkInv /\ [SinkNext]_sinkVars => SinkInv'
<1> SUFFICES ASSUME SinkInv, [SinkNext]_sinkVars PROVE SinkInv' OBVIOUS
<1>0. SinkTypes BY DEF SinkInv
<1>1. ASSUME NEW c \in Call, Complete(c) PROVE SinkInv'
  BY <1>1, <1>0, SinkElsewhere DEF Complete, SinkInv, OnePeer, SinkTypes
<1>2. ASSUME NEW c \in Call, InvokeEnds(c) \/ Joined(c) PROVE SinkInv'
  BY <1>2, <1>0, SinkElsewhere DEF InvokeEnds, Joined, SinkTypes
<1>3. ASSUME NEW c \in Call, GiveUp(c) \/ ReadEnds(c) PROVE SinkInv'
  <2>1. UNCHANGED <<call, peer, shaken, sent, unread, out>> BY <1>3 DEF GiveUp, ReadEnds
  <2>2. reader' = [reader EXCEPT ![c] = "over"] /\ call[c] # "new"
    BY <1>3 DEF GiveUp, ReadEnds, SinkInv, OnePeer
  <2> QED BY <1>0, <2>1, <2>2, SinkElsewhere DEF SinkTypes
<1>4. ASSUME NEW c \in Call, Budget(c) \/ Disconnect(c) PROVE SinkInv'
  BY <1>4, <1>0, SinkElsewhere DEF Budget, Disconnect, SinkTypes
<1>5. CASE UNCHANGED sinkVars BY <1>5, <1>0, SinkElsewhere DEF sinkVars, SinkTypes
<1> QED BY <1>1, <1>2, <1>3, <1>4, <1>5, SinkConnect, SinkSend, SinkRead DEF SinkNext, Reader

\* For any number of overlapping completions and connections of any length:
\* what reaches the sink of a completion are the deltas its own plugin sent, in
\* the order in which it sent them, each once and none of them left out.
THEOREM SinkTokensAreOwn == SinkSpec => []TokensAreOwn
<1>1. SinkInit => SinkInv
  <2> SUFFICES ASSUME SinkInit PROVE SinkInv OBVIOUS
  <2>1. SinkTypes BY DEF SinkInit, SinkTypes
  <2>2. SentInForm /\ OnePeer /\ UnreadIsRest /\ ForwardedAfterHandshake /\ TokensAreOwn
    BY SinkAssumption
    DEF SinkInit, SentInForm, OnePeer, UnreadIsRest, ForwardedAfterHandshake, TokensAreOwn
  <2> QED BY <2>1, <2>2 DEF SinkInv
<1>2. SinkInv => TokensAreOwn BY DEF SinkInv
<1> QED BY <1>1, <1>2, SinkInvStep, PTL DEF SinkSpec

-----------------------------------------------------------------------------
(* ModelStream *)

\* A set of numbers that is not empty has a least one.
LEMMA LeastNumber ==
    ASSUME NEW T, T \subseteq Nat, T # {}
    PROVE  \E n \in T : \A m \in T : n <= m
<1>1. PICK n \in T : \A m \in T : <<m, n>> \notin OpToRel(<, Nat) BY NatLessThanWellFounded, WFMin
<1>2. \A m \in T : ~ (m < n) BY <1>1 DEF OpToRel
<1>3. n \in Nat /\ \A m \in T : m \in Nat OBVIOUS
<1>4. \A m \in T : n <= m BY <1>2, <1>3
<1> QED BY <1>4

\* Induction, for a set of numbers.
LEMMA SetInduction ==
    ASSUME NEW P, 0 \in P, \A n \in Nat : n \in P => n + 1 \in P
    PROVE  Nat \subseteq P
<1> DEFINE T == Nat \ P
<1> SUFFICES ASSUME T # {} PROVE FALSE OBVIOUS
<1>1. T \subseteq Nat OBVIOUS
<1> HIDE DEF T
<1>2. PICK n \in T : \A m \in T : n <= m BY <1>1, LeastNumber
<1> USE DEF T
<1>3. n \in Nat \ {0} BY <1>2
<1>4. n - 1 \in Nat /\ n - 1 \in P BY <1>2, <1>3
<1> QED BY <1>2, <1>3, <1>4

-----------------------------------------------------------------------------
\* The table of the text, up to its k-th entry.
Texts(body, k, f) == f = [i \in 0 .. k |-> IF i = 0 THEN <<>> ELSE WithLine(f[i - 1], body, i)]

\* There is such a table.
LEMMA TextTable ==
    ASSUME NEW body, NEW n \in Nat
    PROVE  \E f : Texts(body, n, f)
<1> DEFINE P == {k \in Nat : \E f : Texts(body, k, f)}
<1>1. 0 \in P
  <2>1. Texts(body, 0, [i \in 0 .. 0 |-> <<>>]) BY DEF Texts
  <2> QED BY <2>1
<1>2. ASSUME NEW k \in Nat, k \in P PROVE k + 1 \in P
  <2>1. PICK f : Texts(body, k, f) BY <1>2
  <2> DEFINE last == WithLine(f[k], body, k + 1)
             g == [i \in 0 .. k + 1 |-> IF i = k + 1 THEN last ELSE f[i]]
  <2>2. (\A i \in 0 .. k : g[i] = f[i]) /\ g[k + 1] = last OBVIOUS
  <2>3. ASSUME NEW i \in 0 .. k + 1
        PROVE  g[i] = IF i = 0 THEN <<>> ELSE WithLine(g[i - 1], body, i)
    <3>1. CASE i = k + 1
      <4>1. i - 1 = k /\ k \in 0 .. k /\ i # 0 BY <3>1
      <4> HIDE DEF g
      <4> QED BY <2>2, <3>1, <4>1
    <3>2. CASE i # k + 1
      <4>1. i \in 0 .. k /\ (i # 0 => i - 1 \in 0 .. k) BY <3>2
      <4>2. f[i] = IF i = 0 THEN <<>> ELSE WithLine(f[i - 1], body, i) BY <2>1, <4>1 DEF Texts
      <4> HIDE DEF g
      <4> QED BY <2>2, <4>1, <4>2
    <3> QED BY <3>1, <3>2
  <2>4. g = [i \in 0 .. k + 1 |-> g[i]] OBVIOUS
  <2> HIDE DEF g
  <2>5. Texts(body, k + 1, g) BY <2>3, <2>4 DEF Texts
  <2> QED BY <2>5
<1> HIDE DEF P
<1>3. Nat \subseteq P BY <1>1, <1>2, SetInduction
<1> QED BY <1>3 DEF P

\* TextUpTo is the last entry of the table.
LEMMA TextFromTable ==
    ASSUME NEW body, NEW n \in Nat
    PROVE  \E f : Texts(body, n, f) /\ TextUpTo(body, n) = f[n]
<1>1. PICK g : Texts(body, n, g) BY TextTable
<1>2. g = [i \in 0 .. n |-> IF i = 0 THEN <<>> ELSE WithLine(g[i - 1], body, i)] BY <1>1 DEF Texts
<1> QED BY <1>2, Zenon DEF TextUpTo, Texts

\* Two tables agree as far as they go.
LEMMA TextsAgree ==
    ASSUME NEW body, NEW n \in Nat, NEW m \in Nat, n <= m,
           NEW f, NEW g, Texts(body, n, f), Texts(body, m, g)
    PROVE  f[n] = g[n]
<1> DEFINE P == {i \in Nat : i <= n => f[i] = g[i]}
<1>1. 0 \in P BY DEF Texts
<1>2. ASSUME NEW i \in Nat, i \in P PROVE i + 1 \in P
  <2> SUFFICES ASSUME i + 1 <= n PROVE f[i + 1] = g[i + 1] OBVIOUS
  <2>1. f[i] = g[i] /\ i + 1 \in 0 .. n /\ i + 1 \in 0 .. m /\ i + 1 # 0 /\ (i + 1) - 1 = i BY <1>2
  <2>2. f[i + 1] = WithLine(f[i], body, i + 1) BY <2>1 DEF Texts
  <2>3. g[i + 1] = WithLine(g[i], body, i + 1) BY <2>1 DEF Texts
  <2> QED BY <2>1, <2>2, <2>3
<1> HIDE DEF P
<1>3. n \in P BY <1>1, <1>2, SetInduction
<1> QED BY <1>3 DEF P

\* The text of the first lines, line by line.
LEMMA TextGrows ==
    ASSUME NEW body
    PROVE  /\ TextUpTo(body, 0) = <<>>
           /\ \A n \in Nat : TextUpTo(body, n + 1) = WithLine(TextUpTo(body, n), body, n + 1)
<1>1. TextUpTo(body, 0) = <<>>
  <2>1. PICK f : Texts(body, 0, f) /\ TextUpTo(body, 0) = f[0] BY TextFromTable
  <2> QED BY <2>1 DEF Texts
<1>2. ASSUME NEW n \in Nat
      PROVE  TextUpTo(body, n + 1) = WithLine(TextUpTo(body, n), body, n + 1)
  <2>1. PICK f : Texts(body, n, f) /\ TextUpTo(body, n) = f[n] BY TextFromTable
  <2>2. PICK g : Texts(body, n + 1, g) /\ TextUpTo(body, n + 1) = g[n + 1] BY TextFromTable
  <2>3. f[n] = g[n] BY <2>1, <2>2, TextsAgree
  <2>4. n + 1 \in 0 .. n + 1 /\ n + 1 # 0 /\ (n + 1) - 1 = n OBVIOUS
  <2>5. g[n + 1] = WithLine(g[n], body, n + 1) BY <2>2, <2>4 DEF Texts
  <2> QED BY <2>1, <2>2, <2>3, <2>5
<1> QED BY <1>1, <1>2

\* A line that counts and has text.
Speaks(body, i) == Counts(body, i) /\ body[i].t = "delta"

\* Bodies with the same lines up to n have the same text up to there.
LEMMA TextSame ==
    ASSUME NEW b, NEW c, NEW n \in Nat,
           \A i \in 1 .. n : (Speaks(b, i) <=> Speaks(c, i)) /\ b[i] = c[i]
    PROVE  TextUpTo(b, n) = TextUpTo(c, n)
<1> DEFINE P == {i \in Nat : i <= n => TextUpTo(b, i) = TextUpTo(c, i)}
<1>1. 0 \in P BY TextGrows
<1>2. ASSUME NEW i \in Nat, i \in P PROVE i + 1 \in P
  <2> SUFFICES ASSUME i + 1 <= n PROVE TextUpTo(b, i + 1) = TextUpTo(c, i + 1) OBVIOUS
  <2>1. TextUpTo(b, i) = TextUpTo(c, i) /\ i + 1 \in 1 .. n BY <1>2
  <2>2. WithLine(TextUpTo(b, i), b, i + 1) = WithLine(TextUpTo(c, i), c, i + 1) BY <2>1 DEF WithLine, Speaks
  <2> QED BY <2>2, TextGrows
<1> HIDE DEF P
<1>3. n \in P BY <1>1, <1>2, SetInduction
<1> QED BY <1>3 DEF P

\* Lines that say nothing add nothing.
LEMMA TextSkips ==
    ASSUME NEW b, NEW e \in Nat, NEW n \in Nat, e <= n,
           \A i \in e + 1 .. n : ~ Speaks(b, i)
    PROVE  TextUpTo(b, n) = TextUpTo(b, e)
<1> DEFINE P == {i \in Nat : e + i <= n => TextUpTo(b, e + i) = TextUpTo(b, e)}
<1>1. 0 \in P OBVIOUS
<1>2. ASSUME NEW i \in Nat, i \in P PROVE i + 1 \in P
  <2> SUFFICES ASSUME e + (i + 1) <= n PROVE TextUpTo(b, e + (i + 1)) = TextUpTo(b, e) OBVIOUS
  <2>1. TextUpTo(b, e + i) = TextUpTo(b, e) /\ e + i \in Nat /\ e + (i + 1) = (e + i) + 1
        /\ (e + i) + 1 \in e + 1 .. n BY <1>2
  <2>2. TextUpTo(b, (e + i) + 1) = WithLine(TextUpTo(b, e + i), b, (e + i) + 1) BY <2>1, TextGrows
  <2>3. WithLine(TextUpTo(b, e + i), b, (e + i) + 1) = TextUpTo(b, e + i) BY <2>1 DEF WithLine, Speaks
  <2> QED BY <2>1, <2>2, <2>3
<1> HIDE DEF P
<1>3. n - e \in Nat /\ e + (n - e) = n OBVIOUS
<1>4. n - e \in P BY <1>1, <1>2, <1>3, SetInduction
<1> QED BY <1>3, <1>4 DEF P

\* One line that says something adds it.
LEMMA TextAdds ==
    ASSUME NEW b, NEW e \in Nat, NEW n \in Nat, NEW i \in e + 1 .. n, Speaks(b, i),
           \A j \in e + 1 .. n : Speaks(b, j) => j = i
    PROVE  TextUpTo(b, n) = Append(TextUpTo(b, e), b[i].text)
<1>1. i - 1 \in Nat /\ e <= i - 1 /\ (i - 1) + 1 = i /\ i \in Nat /\ i <= n OBVIOUS
<1>2. TextUpTo(b, i - 1) = TextUpTo(b, e) BY <1>1, TextSkips
<1>3. TextUpTo(b, i) = WithLine(TextUpTo(b, i - 1), b, i) BY <1>1, TextGrows
<1>4. TextUpTo(b, n) = TextUpTo(b, i) BY <1>1, TextSkips
<1> QED BY <1>2, <1>3, <1>4 DEF WithLine, Speaks
-----------------------------------------------------------------------------
\* Kinds of symbols.
LEMMA SymbolKinds ==
    ASSUME NEW x \in Symbol
    PROVE  /\ x.t \in {"newline", "done", "malformed", "comment", "delta", "tool"}
           /\ x = NL <=> x.t = "newline"
           /\ x = Done <=> x.t = "done"
           /\ x = Malformed <=> x.t = "malformed"
           /\ x = Comment <=> x.t = "comment"
           /\ x.t = "delta" => x.text \in Words
           /\ x.t = "tool" => x.at \in 0 .. 1 /\ x.has \in SUBSET ToolFields
BY DEF Symbol, NL, Done, Malformed, Comment, Text, Tool

\* A body, and a data line of it.
Body == {b \in Seq(Symbol) : InLines(b)}
DataLine(b, i) == Terminated(b, i) /\ b[i] # Comment

\* What the lines before e come to: nothing wrong, and no end.
Clean(b, e) ==
    /\ e = 0 \/ b[e] = NL
    /\ \A i \in 1 .. e : Terminated(b, i) => b[i] \notin {Done, Malformed}
    /\ \A i, j \in 1 .. e : i < j /\ DataLine(b, i) /\ DataLine(b, j) =>
          \E k \in i + 1 .. j : Blank(b, k)

\* The parts of tool calls in the lines before e.
PartsTo(b, e, k) ==
    UNION {b[i].has : i \in {j \in 1 .. e : Terminated(b, j) /\ b[j].t = "tool" /\ b[j].at = k}}

\* What read_chat_stream has of the events before e.
Built(b, e, s) ==
    /\ s.content = TextUpTo(b, e) /\ s.content \in Seq(Words)
    /\ s.tools = [k \in 0 .. 1 |-> PartsTo(b, e, k)]

\* Its data lines of the event that began after e, of the first n symbols.
Collected(b, e, n, lines) ==
    \/ lines = <<>> /\ \A i \in e + 1 .. n - 1 : ~ DataLine(b, i)
    \/ \E i \in e + 1 .. n - 1 :
          lines = <<b[i]>> /\ \A j \in e + 1 .. n - 1 : DataLine(b, j) <=> j = i
    \/ /\ lines \in Seq(Symbol) /\ Len(lines) > 1
       /\ \E i, j \in e + 1 .. n - 1 :
             /\ i < j /\ DataLine(b, i) /\ DataLine(b, j)
             /\ \A k \in e + 1 .. i - 1 : ~ DataLine(b, k)

\* The locals in between two symbols, while the stream goes on.
Between(b, e, n, s) ==
    /\ e = 0 \/ Blank(b, e)
    /\ \A k \in e + 1 .. n : ~ Blank(b, k)
    /\ s.buf = IF n = e \/ b[n] = NL THEN <<>> ELSE <<b[n]>>
    /\ Collected(b, e, n, s.pending)

StreamState == [buf : Seq(Symbol), pending : Seq(Symbol), content : Seq(Words),
                tools : [0 .. 1 -> SUBSET ToolFields], flushed : Nat,
                done : BOOLEAN, bad : BOOLEAN]

Going(b, n, s) ==
    /\ s \in StreamState /\ ~ s.done /\ ~ s.bad /\ s.flushed = Len(s.content)
    /\ \E e \in 0 .. n : Clean(b, e) /\ Built(b, e, s) /\ Between(b, e, n, s)

\* A clean part and one more event without an end or an error.
LEMMA CleanGrows ==
    ASSUME NEW b \in Body, NEW e \in Nat, NEW m \in 1 .. Len(b), e < m, b[m] = NL,
           Clean(b, e), e = 0 \/ Blank(b, e),
           \A i, j \in e + 1 .. m - 1 : DataLine(b, i) /\ DataLine(b, j) => i = j,
           \A i \in e + 1 .. m - 1 : DataLine(b, i) => b[i] \notin {Done, Malformed}
    PROVE  Clean(b, m)
<1>1. ~ Terminated(b, m) /\ m # 0 /\ (e # 0 => e \in 1 .. m /\ b[e] = NL) BY DEF Terminated, Clean
<1>2. ASSUME NEW i \in 1 .. m, Terminated(b, i) PROVE b[i] \notin {Done, Malformed}
  <2>1. CASE i <= e BY <1>2, <2>1 DEF Clean
  <2>2. CASE i > e /\ i # m BY <2>2, <1>2 DEF Comment, Done, Malformed, DataLine
  <2> QED BY <1>1, <1>2, <2>1, <2>2
<1>3. ASSUME NEW i \in 1 .. m, NEW j \in 1 .. m, i < j, DataLine(b, i), DataLine(b, j)
      PROVE  \E k \in i + 1 .. j : Blank(b, k)
  <2>1. i # m /\ j # m BY <1>1, <1>3 DEF DataLine
  <2>2. CASE j <= e BY <1>3, <2>2 DEF Clean
  <2>3. CASE i <= e /\ e < j BY <1>1, <2>3, <1>3 DEF DataLine, Terminated
  <2>4. CASE e < i BY <1>3, <2>1, <2>4
  <2> QED BY <1>3, <2>2, <2>3, <2>4
<1> QED BY <1>2, <1>3 DEF Clean

\* In a clean part every terminated line counts, and so does the first data line after it.
LEMMA CleanCounts ==
    ASSUME NEW b \in Body, NEW e \in 0 .. Len(b), Clean(b, e)
    PROVE  /\ \A i \in 1 .. e : Counts(b, i) <=> Terminated(b, i)
           /\ \A i \in e + 1 .. Len(b) :
                 DataLine(b, i) /\ (\A j \in e + 1 .. i - 1 : ~ DataLine(b, j)) => Counts(b, i)
<1>0. Done # Comment BY DEF Done, Comment
<1>1. ASSUME NEW i \in 1 .. e PROVE Counts(b, i) <=> Terminated(b, i) BY DEF Counts, Clean
<1>2. ASSUME NEW i \in e + 1 .. Len(b), DataLine(b, i), \A j \in e + 1 .. i - 1 : ~ DataLine(b, j)
      PROVE  Counts(b, i) BY <1>0, <1>2 DEF Counts, Clean, DataLine
<1> QED BY <1>1, <1>2

\* An event without data adds nothing.
LEMMA BuiltSkips ==
    ASSUME NEW b \in Body, NEW e \in Nat, NEW m \in 1 .. Len(b), e < m, b[m] = NL,
           NEW s, NEW s1, Built(b, e, s), s1.content = s.content, s1.tools = s.tools,
           \A i \in e + 1 .. m - 1 : ~ DataLine(b, i)
    PROVE  Built(b, m, s1)
<1>1. \A i \in e + 1 .. m : ~ DataLine(b, i) BY DEF DataLine, Terminated
<1>2. \A i \in e + 1 .. m : Terminated(b, i) => b[i].t = "comment" BY <1>1 DEF DataLine, Comment
<1>3. TextUpTo(b, m) = TextUpTo(b, e) BY <1>2, TextSkips DEF Speaks, Counts
<1>4. ASSUME NEW k \in 0 .. 1 PROVE PartsTo(b, m, k) = PartsTo(b, e, k)
  <2>1. {j \in 1 .. m : Terminated(b, j) /\ b[j].t = "tool" /\ b[j].at = k} =
        {j \in 1 .. e : Terminated(b, j) /\ b[j].t = "tool" /\ b[j].at = k} BY <1>2
  <2> QED BY <2>1 DEF PartsTo
<1> QED BY <1>3, <1>4 DEF Built

\* apply_chunk on the locals.
LEMMA AppliesText ==
    ASSUME NEW s \in StreamState, NEW x, x.t = "delta", x.text \in Words
    PROVE  /\ ApplyChunk(s, x) \in StreamState /\ ApplyChunk(s, x).content = Append(s.content, x.text)
           /\ ApplyChunk(s, x).tools = s.tools
<1> DEFINE c == Append(s.content, x.text)
           u == [s EXCEPT !.content = c]
<1>1. s.content \in Seq(Words) BY DEF StreamState
<1>2. c \in Seq(Words) BY <1>1
<1>3. ApplyChunk(s, x) = u BY DEF ApplyChunk
<1> HIDE DEF c
<1>4. u \in StreamState /\ u.content = c /\ u.tools = s.tools BY <1>2 DEF StreamState
<1> QED BY <1>3, <1>4 DEF c

\* A part of a tool call joins the parts of the same index.
LEMMA AppliesPart ==
    ASSUME NEW s \in StreamState, NEW x, x.t = "tool", x.at \in 0 .. 1, x.has \in SUBSET ToolFields
    PROVE  /\ ApplyChunk(s, x) \in StreamState /\ ApplyChunk(s, x).content = s.content
           /\ ApplyChunk(s, x).tools =
                [k \in 0 .. 1 |-> IF k = x.at THEN s.tools[k] \cup x.has ELSE s.tools[k]]
<1> DEFINE c == [s.tools EXCEPT ![x.at] = s.tools[x.at] \cup x.has]
           u == [s EXCEPT !.tools = c]
<1>1. s.tools \in [0 .. 1 -> SUBSET ToolFields] BY DEF StreamState
<1>2. /\ c \in [0 .. 1 -> SUBSET ToolFields]
      /\ c = [k \in 0 .. 1 |-> IF k = x.at THEN s.tools[k] \cup x.has ELSE s.tools[k]] BY <1>1
<1>3. ApplyChunk(s, x) = u BY DEF ApplyChunk
<1> HIDE DEF c
<1>4. u \in StreamState /\ u.content = s.content /\ u.tools = c BY <1>2 DEF StreamState
<1> QED BY <1>2, <1>3, <1>4

\* An event with one chunk is built.
LEMMA BuiltAdds ==
    ASSUME NEW b \in Body, NEW e \in Nat, NEW m \in 1 .. Len(b), e < m, b[m] = NL, Clean(b, e),
           NEW i \in e + 1 .. m - 1, \A j \in e + 1 .. m - 1 : DataLine(b, j) <=> j = i,
           b[i].t \in {"delta", "tool"},
           NEW s \in StreamState, Built(b, e, s)
    PROVE  Built(b, m, ApplyChunk(s, b[i])) /\ ApplyChunk(s, b[i]) \in StreamState
<1> DEFINE x == b[i]
           s1 == ApplyChunk(s, x)
<1>0. x \in Symbol /\ i \in 1 .. Len(b) /\ e \in 0 .. Len(b) /\ \A j \in 1 .. Len(b) : b[j] \in Symbol
  BY DEF Body
<1>1. \A j \in e + 1 .. m : Terminated(b, j) => j = i \/ b[j].t = "comment"
  BY DEF DataLine, Terminated, Comment
<1>2. Counts(b, i) /\ Terminated(b, i) BY <1>0, CleanCounts DEF DataLine
<1>3. s.content = TextUpTo(b, e) /\ s.content \in Seq(Words) /\ s.tools = [k \in 0 .. 1 |-> PartsTo(b, e, k)]
  BY DEF Built
<1>4. \A j \in 1 .. m : j \in 1 .. e \/ j \in e + 1 .. m OBVIOUS
<1>5. i \in e + 1 .. m /\ i \in 1 .. m /\ i \notin 1 .. e /\ \A j \in 1 .. e : j \in 1 .. m OBVIOUS
<1>6. CASE x.t = "delta"
  <2>1. x.text \in Words BY <1>0, <1>6, SymbolKinds
  <2>3. s1 \in StreamState /\ s1.content = Append(s.content, x.text) /\ s1.tools = s.tools
    BY <1>6, <2>1, AppliesText
  <2>4. TextUpTo(b, m) = Append(TextUpTo(b, e), x.text)
    <3>1. Speaks(b, i) /\ \A j \in e + 1 .. m : Speaks(b, j) => j = i BY <1>1, <1>2, <1>6 DEF Speaks, Counts
    <3> QED BY <1>5, <3>1, TextAdds
  <2>5. ASSUME NEW k \in 0 .. 1 PROVE PartsTo(b, m, k) = PartsTo(b, e, k)
    BY <1>1, <1>4, <1>5, <1>6 DEF PartsTo
  <2>6. Append(s.content, x.text) \in Seq(Words) BY <1>3, <2>1
  <2> HIDE DEF s1, x
  <2>7. Built(b, m, s1) BY <1>3, <2>3, <2>4, <2>5, <2>6 DEF Built
  <2> QED BY <2>3, <2>7 DEF s1, x
<1>7. CASE x.t = "tool"
  <2>1. x.at \in 0 .. 1 /\ x.has \in SUBSET ToolFields BY <1>0, <1>7, SymbolKinds
  <2>3. /\ s1 \in StreamState /\ s1.content = s.content
        /\ s1.tools = [k \in 0 .. 1 |-> IF k = x.at THEN s.tools[k] \cup x.has ELSE s.tools[k]]
    BY <1>7, <2>1, AppliesPart
  <2>4. TextUpTo(b, m) = TextUpTo(b, e) BY <1>1, <1>7, TextSkips DEF Speaks, Counts
  <2>5. ASSUME NEW k \in 0 .. 1
        PROVE  PartsTo(b, m, k) = IF k = x.at THEN PartsTo(b, e, k) \cup x.has ELSE PartsTo(b, e, k)
    <3> DEFINE M == {j \in 1 .. m : Terminated(b, j) /\ b[j].t = "tool" /\ b[j].at = k}
               E == {j \in 1 .. e : Terminated(b, j) /\ b[j].t = "tool" /\ b[j].at = k}
    <3>1. M = IF k = x.at THEN E \cup {i} ELSE E BY <1>1, <1>2, <1>4, <1>5, <1>7
    <3>2. PartsTo(b, m, k) = UNION {b[j].has : j \in M} /\ PartsTo(b, e, k) = UNION {b[j].has : j \in E}
      BY DEF PartsTo
    <3> HIDE DEF M, E
    <3> QED BY <3>1, <3>2
  <2>6. s1.tools = [k \in 0 .. 1 |-> PartsTo(b, m, k)]
    <3> HIDE DEF s1, x
    <3>1. \A k \in 0 .. 1 : s.tools[k] = PartsTo(b, e, k) BY <1>3
    <3>2. \A k \in 0 .. 1 : (IF k = x.at THEN s.tools[k] \cup x.has ELSE s.tools[k]) = PartsTo(b, m, k)
      BY <2>5, <3>1
    <3> QED BY <2>3, <3>2
  <2> HIDE DEF s1, x
  <2>7. Built(b, m, s1) BY <1>3, <2>3, <2>4, <2>6 DEF Built
  <2> QED BY <2>3, <2>7 DEF s1, x
<1> QED BY <1>6, <1>7

-----------------------------------------------------------------------------
\* [DONE] arrived, as the one line of its event.
Stopped(b, n, s) ==
    /\ s \in StreamState /\ s.done /\ ~ s.bad /\ s.flushed = Len(s.content)
    /\ \E e \in 0 .. n : \E d, c \in e + 1 .. n :
          /\ Clean(b, e) /\ Built(b, e, s) /\ (e = 0 \/ Blank(b, e))
          /\ d < c /\ b[d] = Done /\ Blank(b, c)
          /\ \A j \in e + 1 .. c - 1 : DataLine(b, j) <=> j = d

\* The first data line of an event does not parse, or is not alone.
Odd(b, e, n) ==
    \E i \in e + 1 .. n - 1 :
        /\ DataLine(b, i) /\ \A k \in e + 1 .. i - 1 : ~ DataLine(b, k)
        /\ \/ b[i] = Malformed
           \/ \E j \in i + 1 .. n - 1 : DataLine(b, j) /\ \A k \in i + 1 .. j : ~ Blank(b, k)

Spoilt(b, n, s) ==
    /\ s \in StreamState /\ s.bad /\ ~ s.done
    /\ \E e \in 0 .. n : Clean(b, e) /\ Odd(b, e, n)

\* Lists that grow.
LEMMA ListGrows ==
    ASSUME NEW S, NEW q \in Seq(S), NEW x \in S
    PROVE  /\ Append(q, x) \in Seq(S) /\ Len(Append(q, x)) = Len(q) + 1 /\ Len(q) \in Nat
           /\ <<x>> \in Seq(S) /\ Append(q, x) = q \o <<x>> /\ q \o <<>> = q
<1>1. Append(q, x) \in Seq(S) /\ Len(Append(q, x)) = Len(q) + 1 /\ Len(q) \in Nat /\ q \o <<>> = q OBVIOUS
<1>2. <<x>> \in Seq(S) /\ Len(<<x>>) = 1 /\ <<x>>[1] = x OBVIOUS
<1>3. Append(q, x) = q \o <<x>> BY <1>1, <1>2
<1> QED BY <1>1, <1>2, <1>3

\* Lists in a row.
LEMMA ListsJoin ==
    ASSUME NEW S, NEW a \in Seq(S), NEW b \in Seq(S), NEW c \in Seq(S)
    PROVE  a \o b \in Seq(S) /\ (a \o b) \o c = a \o (b \o c)
<1> DEFINE l == (a \o b) \o c
           r == a \o (b \o c)
<1>1. a \o b \in Seq(S) /\ b \o c \in Seq(S) /\ Len(a \o b) = Len(a) + Len(b) /\ Len(b \o c) = Len(b) + Len(c)
  OBVIOUS
<1>2. /\ l \in Seq(S) /\ Len(l) = Len(a) + Len(b) + Len(c)
      /\ r \in Seq(S) /\ Len(r) = Len(a) + Len(b) + Len(c) BY <1>1
<1>3. \A i \in 1 .. Len(a) + Len(b) + Len(c) : l[i] = r[i]
  <2> TAKE i \in 1 .. Len(a) + Len(b) + Len(c)
  <2>1. CASE i <= Len(a) BY <1>1, <2>1
  <2>2. CASE Len(a) < i /\ i <= Len(a) + Len(b) BY <1>1, <2>2
  <2>3. CASE Len(a) + Len(b) < i BY <1>1, <2>3
  <2> QED BY <2>1, <2>2, <2>3
<1> HIDE DEF l, r
<1>4. l = r BY <1>2, <1>3
<1> QED BY <1>1, <1>4 DEF l, r

\* What was appended is the end of the whole.
LEMMA ListEnds ==
    ASSUME NEW S, NEW c \in Seq(S), NEW m \in Seq(S)
    PROVE  SubSeq(c \o m, Len(c) + 1, Len(c) + Len(m)) = m
<1> DEFINE q == SubSeq(c \o m, Len(c) + 1, Len(c) + Len(m))
<1>1. c \o m \in Seq(S) /\ Len(c \o m) = Len(c) + Len(m) OBVIOUS
<1>2. q \in Seq(S) /\ Len(q) = Len(m) BY <1>1
<1>3. \A i \in 1 .. Len(m) : q[i] = m[i] BY <1>1
<1> HIDE DEF q
<1>4. q = m BY <1>2, <1>3
<1> QED BY <1>4 DEF q

\* The text of a line arrives.
LEMMA TextArrives ==
    ASSUME NEW b \in Body, NEW n \in 0 .. Len(b) - 1, NEW s, Going(b, n, s), b[n + 1] # NL
    PROVE  Going(b, n + 1, [s EXCEPT !.buf = Append(@, b[n + 1])])
<1> DEFINE x == b[n + 1]
           s1 == [s EXCEPT !.buf = <<x>>]
<1>0. x \in Symbol /\ b \in Seq(Symbol) /\ n \in Nat /\ Len(b) \in Nat BY DEF Body
<1>1. PICK e \in 0 .. n : Clean(b, e) /\ Built(b, e, s) /\ Between(b, e, n, s) BY DEF Going
<1>2. n = e \/ b[n] = NL
  <2> SUFFICES ASSUME n # e PROVE b[n] = NL OBVIOUS
  <2>1. n \in 1 .. Len(b) - 1 BY <1>0
  <2> QED BY <2>1 DEF Body, InLines
<1>3. s.buf = <<>> BY <1>1, <1>2 DEF Between
<1>4. [s EXCEPT !.buf = Append(@, b[n + 1])] = s1 BY <1>3
<1>5. /\ s1 \in StreamState /\ s1.buf = <<x>> /\ s1.pending = s.pending /\ s1.content = s.content
      /\ s1.tools = s.tools /\ s1.flushed = s.flushed /\ s1.done = s.done /\ s1.bad = s.bad
  <2>1. s \in StreamState /\ <<x>> \in Seq(Symbol) BY <1>0 DEF Going
  <2> HIDE DEF x
  <2> QED BY <2>1 DEF StreamState
<1> HIDE DEF s1
<1>6. ~ Blank(b, n + 1) /\ n + 1 # e BY DEF Blank
<1>7. \A k \in e + 1 .. n + 1 : ~ Blank(b, k) BY <1>1, <1>6 DEF Between
<1>8. Collected(b, e, n + 1, s1.pending)
  <2>1. Collected(b, e, n, s.pending) BY <1>1 DEF Between
  <2>2. n > e => ~ DataLine(b, n) BY <1>2 DEF DataLine, Terminated
  <2>3. \A k \in e + 1 .. n : k \in e + 1 .. n - 1 \/ (k = n /\ n > e) OBVIOUS
  <2>4. \A k \in e + 1 .. n - 1 : k \in e + 1 .. n OBVIOUS
  <2>5. (n + 1) - 1 = n OBVIOUS
  <2>6. CASE s.pending = <<>> /\ \A i \in e + 1 .. n - 1 : ~ DataLine(b, i)
    BY <1>5, <2>2, <2>3, <2>5, <2>6 DEF Collected
  <2>7. ASSUME NEW i \in e + 1 .. n - 1, s.pending = <<b[i]>>,
               \A j \in e + 1 .. n - 1 : DataLine(b, j) <=> j = i
        PROVE  Collected(b, e, n + 1, s1.pending) BY <2>2, <2>3, <2>7, <1>5, <2>4, <2>5 DEF Collected
  <2>8. ASSUME s.pending \in Seq(Symbol), Len(s.pending) > 1,
               NEW i \in e + 1 .. n - 1, NEW j \in e + 1 .. n - 1, i < j, DataLine(b, i), DataLine(b, j),
               \A k \in e + 1 .. i - 1 : ~ DataLine(b, k)
        PROVE  Collected(b, e, n + 1, s1.pending) BY <1>5, <2>4, <2>5, <2>8 DEF Collected
  <2> QED BY <2>1, <2>6, <2>7, <2>8 DEF Collected
<1>9. Between(b, e, n + 1, s1) BY <1>1, <1>5, <1>6, <1>7, <1>8 DEF Between
<1>10. Built(b, e, s1) /\ e \in 0 .. n + 1 BY <1>1, <1>5 DEF Built
<1>11. Going(b, n + 1, s1) BY <1>1, <1>5, <1>9, <1>10 DEF Going
<1> QED BY <1>4, <1>11

\* A line that is not empty ends.
LEMMA LineArrives ==
    ASSUME NEW b \in Body, NEW n \in 0 .. Len(b) - 1, NEW s, Going(b, n, s), b[n + 1] = NL,
           s.buf # <<>>,
           NEW s1 \in StreamState, s1.buf = <<>>,
           s1.pending = IF s.buf[1] = Comment THEN s.pending ELSE Append(s.pending, s.buf[1]),
           s1.content = s.content, s1.tools = s.tools, s1.flushed = s.flushed,
           ~ s1.done, ~ s1.bad
    PROVE  Going(b, n + 1, s1)
<1>0. b \in Seq(Symbol) /\ n \in Nat /\ Len(b) \in Nat /\ s \in StreamState BY DEF Body, Going
<1>1. PICK e \in 0 .. n : Clean(b, e) /\ Built(b, e, s) /\ Between(b, e, n, s) BY DEF Going
<1>2. n # e /\ b[n] # NL /\ s.buf = <<b[n]>> BY <1>1 DEF Between
<1>3. Terminated(b, n) /\ n \in 1 .. Len(b) /\ b[n] \in Symbol /\ n \in e + 1 .. n
  BY <1>0, <1>2 DEF Terminated
<1>4. ~ Blank(b, n + 1) BY <1>0, <1>2 DEF Blank
<1>5. \A k \in e + 1 .. n + 1 : ~ Blank(b, k) BY <1>1, <1>4 DEF Between
<1>6. Collected(b, e, n + 1, s1.pending)
  <2>1. Collected(b, e, n, s.pending) BY <1>1 DEF Between
  <2>2. DataLine(b, n) <=> b[n] # Comment BY <1>3 DEF DataLine
  <2>3. \A k \in e + 1 .. n : k \in e + 1 .. n - 1 \/ k = n OBVIOUS
  <2>4. \A k \in e + 1 .. n - 1 : k \in e + 1 .. n /\ k # n /\ k < n OBVIOUS
  <2>5. (n + 1) - 1 = n OBVIOUS
  <2>6. ASSUME b[n] = Comment PROVE s1.pending = s.pending /\ ~ DataLine(b, n) BY <1>2, <2>2, <2>6
  <2>7. ASSUME b[n] # Comment PROVE s1.pending = Append(s.pending, b[n]) /\ DataLine(b, n) BY <1>2, <2>2, <2>7
  <2>8. CASE s.pending = <<>> /\ \A i \in e + 1 .. n - 1 : ~ DataLine(b, i)
    <3>1. CASE b[n] = Comment BY <2>3, <2>5, <2>6, <2>8, <3>1 DEF Collected
    <3>2. CASE b[n] # Comment BY <2>7, <2>8, <3>2, <2>3, <1>3, <2>5 DEF Collected
    <3> QED BY <3>1, <3>2
  <2>9. ASSUME NEW i \in e + 1 .. n - 1, s.pending = <<b[i]>>,
               \A j \in e + 1 .. n - 1 : DataLine(b, j) <=> j = i
        PROVE  Collected(b, e, n + 1, s1.pending)
    <3>1. CASE b[n] = Comment
      <4>1. \A j \in e + 1 .. n : DataLine(b, j) <=> j = i BY <2>3, <2>4, <2>6, <2>9, <3>1
      <4> QED BY <2>4, <2>5, <2>6, <2>9, <3>1, <4>1 DEF Collected
    <3>2. CASE b[n] # Comment
      <4>0. s.pending \in Seq(Symbol) /\ Len(s.pending) = 1 /\ s1.pending = Append(s.pending, b[n])
        BY <2>9, <1>0, <2>7, <3>2 DEF StreamState
      <4>1. s1.pending \in Seq(Symbol) /\ Len(s1.pending) > 1
        <5> DEFINE q == s.pending
                   y == b[n]
        <5>1. q \in Seq(Symbol) /\ y \in Symbol /\ Len(q) = 1 /\ s1.pending = Append(q, y) BY <1>3, <4>0
        <5> HIDE DEF q, y
        <5>2. Append(q, y) \in Seq(Symbol) /\ Len(Append(q, y)) = Len(q) + 1 BY <5>1, ListGrows
        <5>3. Len(Append(q, y)) > 1 BY <5>1, <5>2
        <5> QED BY <5>1, <5>2, <5>3
      <4>2. i \in e + 1 .. n /\ i < n /\ DataLine(b, i) /\ \A k \in e + 1 .. i - 1 : ~ DataLine(b, k)
        BY <2>4, <2>9
      <4> QED BY <1>3, <2>5, <2>7, <3>2, <4>1, <4>2 DEF Collected
    <3> QED BY <3>1, <3>2
  <2>10. ASSUME s.pending \in Seq(Symbol), Len(s.pending) > 1,
               NEW i \in e + 1 .. n - 1, NEW j \in e + 1 .. n - 1, i < j, DataLine(b, i), DataLine(b, j),
               \A k \in e + 1 .. i - 1 : ~ DataLine(b, k)
        PROVE  Collected(b, e, n + 1, s1.pending)
    <3>1. s1.pending \in Seq(Symbol) /\ Len(s1.pending) > 1
      <4>1. CASE b[n] = Comment BY <2>6, <2>10, <4>1
      <4>2. CASE b[n] # Comment BY <1>3, <2>10, <2>7, <4>2
      <4> QED BY <4>1, <4>2
    <3> QED BY <2>4, <2>5, <2>10, <3>1 DEF Collected
  <2> QED BY <2>1, <2>8, <2>9, <2>10 DEF Collected
<1>7. Between(b, e, n + 1, s1) BY <1>1, <1>5, <1>6 DEF Between
<1>8. Built(b, e, s1) /\ e \in 0 .. n + 1 BY <1>1 DEF Built
<1>9. s1.flushed = Len(s1.content) BY DEF Going
<1> QED BY <1>1, <1>7, <1>8, <1>9 DEF Going

\* What process_stream_event makes of the lines of an event.
LEMMA EventOfOne ==
    ASSUME NEW s \in StreamState, NEW x \in Symbol, x # NL, x # Comment, ~ s.done, ~ s.bad
    PROVE  /\ x = Malformed => ProcessEvent(s, <<x>>) = [s EXCEPT !.bad = TRUE]
           /\ x = Done => ProcessEvent(s, <<x>>) = [s EXCEPT !.done = TRUE]
           /\ x \notin {Malformed, Done} =>
                /\ ProcessEvent(s, <<x>>) = ApplyChunk(s, x)
                /\ x.t \in {"delta", "tool"}
<1>1. Len(<<x>>) = 1 /\ <<x>>[1] = x /\ Done # Malformed BY DEF Done, Malformed
<1>2. x \notin {Malformed, Done} => x.t \in {"delta", "tool"} BY SymbolKinds
<1> QED BY <1>1, <1>2 DEF ProcessEvent

\* process_stream_event, of more than one data line.
LEMMA EventOfMany ==
    ASSUME NEW s \in StreamState, NEW lines \in Seq(Symbol), Len(lines) > 1
    PROVE  ProcessEvent(s, lines) = [s EXCEPT !.bad = TRUE]
BY DEF ProcessEvent

\* Marks of the locals.
LEMMA MarksDone ==
    ASSUME NEW s \in StreamState, ~ s.bad, NEW d, d = [s EXCEPT !.done = TRUE]
    PROVE  /\ d \in StreamState /\ d.done /\ ~ d.bad /\ d.content = s.content
           /\ d.tools = s.tools /\ d.flushed = s.flushed
BY DEF StreamState

\* An error in a chunk.
LEMMA MarksBad ==
    ASSUME NEW s \in StreamState, ~ s.done, NEW d, d = [s EXCEPT !.bad = TRUE]
    PROVE  d \in StreamState /\ d.bad /\ ~ d.done
BY DEF StreamState

\* Text that was pushed.
LEMMA MarksFlushed ==
    ASSUME NEW s \in StreamState, NEW f, f = Flushed(s)
    PROVE  /\ f \in StreamState /\ f.buf = s.buf /\ f.pending = s.pending /\ f.content = s.content
           /\ f.tools = s.tools /\ f.flushed = Len(s.content)
           /\ (~ s.done => ~ f.done) /\ (~ s.bad => ~ f.bad)
<1>1. Len(s.content) \in Nat BY DEF StreamState
<1> QED BY <1>1 DEF Flushed, StreamState

\* A chunk leaves the other locals alone.
LEMMA AppliesMore ==
    ASSUME NEW s \in StreamState, NEW x \in Symbol, x.t \in {"delta", "tool"}
    PROVE  LET u == ApplyChunk(s, x)
           IN  u.buf = s.buf /\ u.pending = s.pending /\ u.flushed = s.flushed
               /\ (~ s.done => ~ u.done) /\ (~ s.bad => ~ u.bad)
<1>1. CASE x.t = "delta"
  <2> DEFINE c == Append(s.content, x.text)
             u == [s EXCEPT !.content = c]
  <2>1. ApplyChunk(s, x) = u BY <1>1 DEF ApplyChunk
  <2> HIDE DEF c
  <2>2. u.buf = s.buf /\ u.pending = s.pending /\ u.flushed = s.flushed
        /\ (~ s.done => ~ u.done) /\ (~ s.bad => ~ u.bad) BY DEF StreamState
  <2> QED BY <2>1, <2>2
<1>2. CASE x.t = "tool"
  <2> DEFINE c == [s.tools EXCEPT ![x.at] = s.tools[x.at] \cup x.has]
             u == [s EXCEPT !.tools = c]
  <2>1. ApplyChunk(s, x) = u BY <1>2 DEF ApplyChunk
  <2> HIDE DEF c
  <2>2. u.buf = s.buf /\ u.pending = s.pending /\ u.flushed = s.flushed
        /\ (~ s.done => ~ u.done) /\ (~ s.bad => ~ u.bad) BY DEF StreamState
  <2> QED BY <2>1, <2>2
<1> QED BY <1>1, <1>2

\* The text that is new after an event.
LEMMA TextIsNew ==
    ASSUME NEW s \in StreamState, NEW u \in StreamState, s.flushed = Len(s.content),
           u.flushed = s.flushed, NEW more \in Seq(Words), u.content = s.content \o more
    PROVE  NewText(u) = more
<1>1. s.content \in Seq(Words) /\ Len(u.content) = Len(s.content) + Len(more) BY DEF StreamState
<1>2. SubSeq(s.content \o more, Len(s.content) + 1, Len(s.content) + Len(more)) = more BY <1>1, ListEnds
<1> QED BY <1>1, <1>2 DEF NewText

\* What a chunk adds is what is new to the sink.
LEMMA AppliesNew ==
    ASSUME NEW s \in StreamState, NEW x \in Symbol, x.t \in {"delta", "tool"}, s.flushed = Len(s.content)
    PROVE  LET u == ApplyChunk(s, x)
           IN  NewText(u) \in Seq(Words) /\ u.content = s.content \o NewText(u)
<1> DEFINE u == ApplyChunk(s, x)
<1>0. s.content \in Seq(Words) BY DEF StreamState
<1>1. u \in StreamState /\ \E more \in Seq(Words) : u.content = s.content \o more
  <2>1. CASE x.t = "delta"
    <3>1. x.text \in Words BY <2>1, SymbolKinds
    <3>2. u.content = Append(s.content, x.text) /\ u \in StreamState BY <2>1, <3>1, AppliesText
    <3>3. Append(s.content, x.text) = s.content \o <<x.text>> /\ <<x.text>> \in Seq(Words)
      BY <1>0, <3>1, ListGrows
    <3> QED BY <3>2, <3>3
  <2>2. CASE x.t = "tool"
    <3>1. x.at \in 0 .. 1 /\ x.has \in SUBSET ToolFields BY <2>2, SymbolKinds
    <3>2. u.content = s.content /\ u \in StreamState BY <2>2, <3>1, AppliesPart
    <3>3. s.content = s.content \o <<>> /\ <<>> \in Seq(Words) BY <1>0
    <3> QED BY <3>2, <3>3
  <2> QED BY <2>1, <2>2
<1>2. u.flushed = s.flushed BY AppliesMore
<1> QED BY <1>1, <1>2, TextIsNew

\* An event is closed by an empty line.
LEMMA EventEnds ==
    ASSUME NEW b \in Body, NEW n \in 0 .. Len(b) - 1, NEW e \in 0 .. n, b[n + 1] = NL,
           NEW s \in StreamState, ~ s.done, ~ s.bad, s.flushed = Len(s.content),
           Clean(b, e), Built(b, e, s), e = 0 \/ Blank(b, e),
           \A k \in e + 1 .. n : ~ Blank(b, k), Blank(b, n + 1),
           NEW i \in e + 1 .. n - 1, \A j \in e + 1 .. n - 1 : DataLine(b, j) <=> j = i,
           b[i] \notin {Malformed, Done},
           NEW s1, s1 = Flushed(ApplyChunk(s, b[i])), s.buf = <<>>, s.pending = <<>>
    PROVE  /\ Going(b, n + 1, s1) /\ NewText(ApplyChunk(s, b[i])) \in Seq(Words)
           /\ s1.content = s.content \o NewText(ApplyChunk(s, b[i]))
           /\ ~ ApplyChunk(s, b[i]).done /\ ~ ApplyChunk(s, b[i]).bad
<1> DEFINE u == ApplyChunk(s, b[i])
<1>0. b \in Seq(Symbol) /\ n \in Nat /\ Len(b) \in Nat /\ i \in 1 .. Len(b) /\ b[i] \in Symbol BY DEF Body
<1>1. DataLine(b, i) /\ b[i] # NL /\ b[i] # Comment BY DEF DataLine, Terminated
<1>2. b[i].t \in {"delta", "tool"} BY <1>0, <1>1, SymbolKinds
<1>3. n + 1 \in 1 .. Len(b) /\ e < n + 1 /\ e \in Nat /\ i \in e + 1 .. (n + 1) - 1 BY <1>0
<1>4. b[n] # NL => n = 0 BY <1>0 DEF Blank
<1>5. \A j \in e + 1 .. (n + 1) - 1 : DataLine(b, j) <=> j = i BY <1>0, <1>4 DEF DataLine, Terminated
<1>6. Built(b, n + 1, u) /\ u \in StreamState BY <1>2, <1>3, <1>5, BuiltAdds
<1>7. Clean(b, n + 1) BY <1>5, <1>3, CleanGrows
<1>8. u.buf = <<>> /\ u.pending = <<>> /\ u.flushed = s.flushed /\ ~ u.done /\ ~ u.bad
  BY <1>0, <1>2, AppliesMore
<1>10. NewText(u) \in Seq(Words) /\ u.content = s.content \o NewText(u) BY <1>0, <1>2, AppliesNew
<1>a. s1 = Flushed(u) OBVIOUS
<1> HIDE DEF u
<1>11. /\ s1 \in StreamState /\ s1.buf = <<>> /\ s1.pending = <<>> /\ s1.content = u.content
       /\ s1.tools = u.tools /\ s1.flushed = Len(s1.content) /\ ~ s1.done /\ ~ s1.bad
  BY <1>6, <1>8, <1>a, MarksFlushed
<1>12. Built(b, n + 1, s1) BY <1>6, <1>11 DEF Built
<1>13. Between(b, n + 1, n + 1, s1)
  <2>1. \A k \in (n + 1) + 1 .. n + 1 : ~ Blank(b, k) OBVIOUS
  <2>2. Collected(b, n + 1, n + 1, s1.pending) BY <1>11 DEF Collected
  <2> QED BY <1>11, <2>1, <2>2 DEF Between
<1>14. Going(b, n + 1, s1) BY <1>7, <1>11, <1>12, <1>13 DEF Going
<1> QED BY <1>8, <1>10, <1>11, <1>14 DEF u

\* An empty line ends an event, or follows one.
LEMMA BlankArrives ==
    ASSUME NEW b \in Body, NEW n \in 0 .. Len(b) - 1, NEW s, Going(b, n, s), b[n + 1] = NL,
           s.buf = <<>>,
           NEW s0 \in StreamState, s0.buf = <<>>, s0.pending = <<>>,
           s0.content = s.content, s0.tools = s.tools, s0.flushed = s.flushed, ~ s0.done, ~ s0.bad
    PROVE  /\ s.pending = <<>> => Going(b, n + 1, s0)
           /\ s.pending # <<>> =>
                LET u == ProcessEvent(s0, s.pending)
                IN  \/ Stopped(b, n + 1, u) /\ u.content = s.content
                    \/ Spoilt(b, n + 1, u)
                    \/ /\ ~ u.done /\ ~ u.bad /\ Going(b, n + 1, Flushed(u))
                       /\ NewText(u) \in Seq(Words)
                       /\ Flushed(u).content = s.content \o NewText(u)
<1>0. b \in Seq(Symbol) /\ n \in Nat /\ Len(b) \in Nat /\ s \in StreamState /\ s.flushed = Len(s.content)
  BY DEF Body, Going
<1>1. PICK e \in 0 .. n : Clean(b, e) /\ Built(b, e, s) /\ Between(b, e, n, s) BY DEF Going
<1>2. n = e \/ b[n] = NL
  <2>1. <<b[n]>> # <<>> OBVIOUS
  <2>2. s.buf = IF n = e \/ b[n] = NL THEN <<>> ELSE <<b[n]>> BY <1>1 DEF Between
  <2> QED BY <2>1, <2>2
<1>3. /\ e = 0 \/ Blank(b, e)
      /\ \A k \in e + 1 .. n : ~ Blank(b, k)
      /\ Collected(b, e, n, s.pending) BY <1>1 DEF Between
<1>4. Blank(b, n + 1) BY <1>2, <1>3, <1>0 DEF Blank
<1>5. n + 1 \in 1 .. Len(b) /\ e < n + 1 /\ e \in Nat /\ (n + 1) - 1 = n BY <1>0
<1>6. \A j \in e + 1 .. n : j \in e + 1 .. n - 1 \/ ~ DataLine(b, j) BY <1>2 DEF DataLine, Terminated
<1>7. Built(b, e, s0) /\ s0.flushed = Len(s0.content) BY <1>0, <1>1 DEF Built
<1>8. CASE s.pending = <<>> /\ \A i \in e + 1 .. n - 1 : ~ DataLine(b, i)
  <2>1. \A i \in e + 1 .. (n + 1) - 1 : ~ DataLine(b, i) BY <1>5, <1>6, <1>8
  <2>2. Built(b, n + 1, s0) BY <1>5, <1>7, <2>1, BuiltSkips
  <2>3. Clean(b, n + 1) BY <1>1, <1>3, <1>5, <2>1, CleanGrows
  <2>4. Between(b, n + 1, n + 1, s0)
    <3>1. \A k \in (n + 1) + 1 .. n + 1 : ~ Blank(b, k) OBVIOUS
    <3>2. Collected(b, n + 1, n + 1, s0.pending) BY DEF Collected
    <3> QED BY <1>4, <3>1, <3>2 DEF Between
  <2>5. n + 1 \in 0 .. n + 1 BY <1>0
  <2>6. Going(b, n + 1, s0) BY <1>7, <2>2, <2>3, <2>4, <2>5 DEF Going
  <2> QED BY <1>8, <2>6
<1>9. ASSUME NEW i \in e + 1 .. n - 1, s.pending = <<b[i]>>,
             \A j \in e + 1 .. n - 1 : DataLine(b, j) <=> j = i
      PROVE  LET u == ProcessEvent(s0, s.pending)
             IN  \/ Stopped(b, n + 1, u) /\ u.content = s.content
                 \/ Spoilt(b, n + 1, u)
                 \/ /\ ~ u.done /\ ~ u.bad /\ Going(b, n + 1, Flushed(u))
                    /\ NewText(u) \in Seq(Words)
                    /\ Flushed(u).content = s.content \o NewText(u)
  <2> DEFINE x == b[i]
             u == ProcessEvent(s0, <<x>>)
  <2>1. x \in Symbol /\ x # NL /\ x # Comment /\ DataLine(b, i) /\ i \in e + 1 .. n
    BY <1>0, <1>9 DEF DataLine, Terminated
  <2>2. /\ x = Malformed => u = [s0 EXCEPT !.bad = TRUE]
        /\ x = Done => u = [s0 EXCEPT !.done = TRUE]
        /\ x \notin {Malformed, Done} => u = ApplyChunk(s0, x) BY <2>1, EventOfOne
  <2>3. \A j \in e + 1 .. n : DataLine(b, j) <=> j = i BY <1>6, <1>9, <2>1
  <2>4. CASE x = Malformed
    <3> HIDE DEF u
    <3>1. u \in StreamState /\ u.bad /\ ~ u.done BY <2>2, <2>4, MarksBad
    <3>2. Odd(b, e, n + 1) BY <1>9, <1>5, <2>1, <2>4 DEF Odd
    <3>3. Spoilt(b, n + 1, u) BY <1>1, <3>1, <3>2 DEF Spoilt
    <3> QED BY <1>9, <3>3 DEF u
  <2>5. CASE x = Done
    <3> HIDE DEF u
    <3>1. /\ u \in StreamState /\ u.done /\ ~ u.bad /\ u.content = s0.content
          /\ u.tools = s0.tools /\ u.flushed = s0.flushed BY <2>2, <2>5, MarksDone
    <3>2. Built(b, e, u) /\ u.flushed = Len(u.content) BY <1>7, <3>1 DEF Built
    <3>3. e \in 0 .. n + 1 /\ i \in e + 1 .. n + 1 /\ n + 1 \in e + 1 .. n + 1 /\ i < n + 1 BY <1>0
    <3>4. \A j \in e + 1 .. (n + 1) - 1 : DataLine(b, j) <=> j = i BY <1>5, <2>3
    <3>5. Stopped(b, n + 1, u) BY <1>1, <1>3, <1>4, <2>5, <3>1, <3>2, <3>3, <3>4 DEF Stopped
    <3> QED BY <1>9, <3>1, <3>5 DEF u
  <2>6. CASE x \notin {Malformed, Done}
    <3>1. u = ApplyChunk(s0, x) BY <2>2, <2>6
    <3> DEFINE f == Flushed(u)
    <3>2. f = Flushed(ApplyChunk(s0, b[i])) BY <3>1
    <3> HIDE DEF f, u
    <3>3. /\ Going(b, n + 1, f) /\ NewText(ApplyChunk(s0, b[i])) \in Seq(Words)
          /\ f.content = s0.content \o NewText(ApplyChunk(s0, b[i]))
          /\ ~ ApplyChunk(s0, b[i]).done /\ ~ ApplyChunk(s0, b[i]).bad
      <4>1. /\ Clean(b, e) /\ Built(b, e, s0) /\ (e = 0 \/ Blank(b, e)) /\ Blank(b, n + 1)
            /\ s0.flushed = Len(s0.content) /\ b[i] \notin {Malformed, Done} BY <1>1, <1>3, <1>4, <1>7, <2>6
      <4>2. \A k \in e + 1 .. n : ~ Blank(b, k) BY <1>3
      <4>3. \A j \in e + 1 .. n - 1 : DataLine(b, j) <=> j = i BY <1>9
      <4> HIDE <1>9
      <4> QED BY <3>2, <4>1, <4>2, <4>3, EventEnds, ZenonT(60)
    <3> QED BY <1>9, <3>1, <3>3 DEF f, u
  <2> QED BY <2>4, <2>5, <2>6
<1>10. ASSUME s.pending \in Seq(Symbol), Len(s.pending) > 1,
             NEW i \in e + 1 .. n - 1, NEW j \in e + 1 .. n - 1, i < j, DataLine(b, i), DataLine(b, j),
             \A k \in e + 1 .. i - 1 : ~ DataLine(b, k)
       PROVE  Spoilt(b, n + 1, ProcessEvent(s0, s.pending))
  <2> DEFINE u == ProcessEvent(s0, s.pending)
  <2>1. u = [s0 EXCEPT !.bad = TRUE] BY <1>10, EventOfMany
  <2> HIDE DEF u
  <2>2. u \in StreamState /\ u.bad /\ ~ u.done BY <2>1, MarksBad
  <2>3. Odd(b, e, n + 1) BY <1>0, <1>10, <1>3, <1>5 DEF Odd
  <2>4. Spoilt(b, n + 1, u) BY <1>1, <2>2, <2>3 DEF Spoilt
  <2> QED BY <2>4 DEF u
<1>11. s.pending = <<>> \/ s.pending # <<>> OBVIOUS
<1>12. CASE \E i \in e + 1 .. n - 1 :
              s.pending = <<b[i]>> /\ \A j \in e + 1 .. n - 1 : DataLine(b, j) <=> j = i
  <2>1. s.pending # <<>> BY <1>12
  <2> QED BY <1>9, <1>12, <2>1
<1>13. CASE s.pending \in Seq(Symbol) /\ Len(s.pending) > 1 /\
             \E i, j \in e + 1 .. n - 1 : i < j /\ DataLine(b, i) /\ DataLine(b, j)
                                          /\ \A k \in e + 1 .. i - 1 : ~ DataLine(b, k)
  <2>1. s.pending # <<>> BY <1>13
  <2> QED BY <1>10, <1>13, <2>1
<1> QED BY <1>3, <1>8, <1>12, <1>13 DEF Collected

-----------------------------------------------------------------------------
\* What the loop over the symbols has after n of them: the locals, and the text
\* that it has pushed since it had the text base.
TakenTo(b, n, base, p) ==
    /\ p \in [s : StreamState, out : Seq(Words)]
    /\ \/ Going(b, n, p.s) /\ p.s.content = base \o p.out
       \/ Stopped(b, n, p.s) /\ p.s.content = base \o p.out
       \/ Spoilt(b, n, p.s)

\* What has stopped stays so.
LEMMA StaysOver ==
    ASSUME NEW b, NEW n \in Nat, NEW s
    PROVE  /\ Stopped(b, n, s) => Stopped(b, n + 1, s)
           /\ Spoilt(b, n, s) => Spoilt(b, n + 1, s)
<1>1. ASSUME Stopped(b, n, s) PROVE Stopped(b, n + 1, s)
  <2>0. PICK e \in 0 .. n : \E d, c \in e + 1 .. n :
          /\ Clean(b, e) /\ Built(b, e, s) /\ (e = 0 \/ Blank(b, e))
          /\ d < c /\ b[d] = Done /\ Blank(b, c)
          /\ \A j \in e + 1 .. c - 1 : DataLine(b, j) <=> j = d BY <1>1 DEF Stopped
  <2>1. PICK d \in e + 1 .. n, c \in e + 1 .. n :
          /\ Clean(b, e) /\ Built(b, e, s) /\ (e = 0 \/ Blank(b, e))
          /\ d < c /\ b[d] = Done /\ Blank(b, c)
          /\ \A j \in e + 1 .. c - 1 : DataLine(b, j) <=> j = d BY <2>0
  <2>2. e \in 0 .. n + 1 /\ d \in e + 1 .. n + 1 /\ c \in e + 1 .. n + 1 OBVIOUS
  <2> QED BY <1>1, <2>1, <2>2 DEF Stopped
<1>2. ASSUME Spoilt(b, n, s) PROVE Spoilt(b, n + 1, s)
  <2>1. PICK e \in 0 .. n : Clean(b, e) /\ Odd(b, e, n) BY <1>2 DEF Spoilt
  <2>2. PICK i \in e + 1 .. n - 1 :
          /\ DataLine(b, i) /\ \A k \in e + 1 .. i - 1 : ~ DataLine(b, k)
          /\ \/ b[i] = Malformed
             \/ \E j \in i + 1 .. n - 1 : DataLine(b, j) /\ \A k \in i + 1 .. j : ~ Blank(b, k)
    BY <2>1 DEF Odd
  <2>3. i \in e + 1 .. (n + 1) - 1 /\ (\A j \in i + 1 .. n - 1 : j \in i + 1 .. (n + 1) - 1) /\ e \in 0 .. n + 1
    OBVIOUS
  <2>4. Odd(b, e, n + 1) BY <2>2, <2>3 DEF Odd
  <2> QED BY <1>2, <2>1, <2>3, <2>4 DEF Spoilt
<1> QED BY <1>1, <1>2

\* Every symbol is taken as it should be.
LEMMA SymbolTaken ==
    ASSUME NEW b \in Body, NEW n \in 0 .. Len(b) - 1, NEW base \in Seq(Words), NEW p, TakenTo(b, n, base, p)
    PROVE  TakenTo(b, n + 1, base, TakeSymbol(p, b[n + 1]))
<1> DEFINE x == b[n + 1]
           r == TakeSymbol(p, x)
           s == p.s
           R == [s : StreamState, out : Seq(Words)]
<1>0. n \in Nat /\ x \in Symbol /\ p \in R /\ s \in StreamState /\ p.out \in Seq(Words) BY DEF Body, TakenTo
<1>1. CASE s.done \/ s.bad BY <1>1, <1>0, StaysOver DEF TakeSymbol, Going, TakenTo
<1>2. CASE ~ s.done /\ ~ s.bad
  <2>1. Going(b, n, s) /\ s.content = base \o p.out BY <1>2 DEF TakenTo, Stopped, Spoilt
  <2>2. CASE x # NL
    <3> DEFINE q == [s EXCEPT !.buf = Append(@, x)]
    <3>1. Going(b, n + 1, q) BY <2>1, <2>2, TextArrives
    <3>2. q.content = s.content BY <1>0 DEF StreamState
    <3>3. r = [p EXCEPT !.s = q] BY <1>2, <2>2 DEF TakeSymbol
    <3> HIDE DEF q
    <3>4. q \in StreamState BY <3>1 DEF Going
    <3> HIDE DEF r, s
    <3>5. r \in R /\ r.s = q /\ r.out = p.out BY <1>0, <3>3, <3>4
    <3>6. TakenTo(b, n + 1, base, r) BY <2>1, <3>1, <3>2, <3>5 DEF TakenTo
    <3> QED BY <3>6 DEF r
  <2>3. CASE x = NL
    <3> DEFINE s0 == [s EXCEPT !.buf = <<>>]
    <3>0. r = LineEnds(p) BY <1>2, <2>3 DEF TakeSymbol
    <3>1. /\ s0 \in StreamState /\ s0.buf = <<>> /\ s0.pending = s.pending /\ s0.content = s.content
          /\ s0.tools = s.tools /\ s0.flushed = s.flushed /\ ~ s0.done /\ ~ s0.bad
      <4> HIDE DEF s
      <4>1. <<>> \in Seq(Symbol) OBVIOUS
      <4> QED BY <1>0, <1>2, <4>1 DEF StreamState
    <3>2. CASE s.buf # <<>>
      <4> DEFINE line == s.buf
                 s1 == IF line[1] = Comment THEN s0 ELSE [s0 EXCEPT !.pending = Append(@, line[1])]
      <4>1. r = [p EXCEPT !.s = s1] BY <3>0, <3>2 DEF LineEnds
      <4>2. line[1] \in Symbol BY <1>0, <3>2 DEF StreamState
      <4>3. /\ s1 \in StreamState /\ s1.buf = <<>> /\ s1.content = s.content
            /\ s1.tools = s.tools /\ s1.flushed = s.flushed /\ ~ s1.done /\ ~ s1.bad
            /\ s1.pending = IF line[1] = Comment THEN s.pending ELSE Append(s.pending, line[1])
        <5> DEFINE y == line[1]
                   q == Append(s0.pending, y)
        <5>1. q \in Seq(Symbol) BY <3>1, <4>2, ListGrows DEF StreamState
        <5>2. q = Append(s.pending, y) BY <3>1
        <5>3. CASE y = Comment
          <6>1. s1 = s0 BY <5>3
          <6> HIDE DEF s1, s0, q
          <6> QED BY <3>1, <5>3, <6>1
        <5>4. CASE y # Comment
          <6>1. s1 = [s0 EXCEPT !.pending = q] BY <5>4
          <6> HIDE DEF s1, s0, q, s, y
          <6>2. /\ s1 \in StreamState /\ s1.buf = s0.buf /\ s1.content = s0.content
                /\ s1.tools = s0.tools /\ s1.flushed = s0.flushed /\ ~ s1.done /\ ~ s1.bad /\ s1.pending = q
            BY <3>1, <5>1, <6>1 DEF StreamState
          <6> QED BY <3>1, <5>2, <5>4, <6>2 DEF y
        <5> QED BY <5>3, <5>4
      <4> HIDE DEF s1, s0
      <4>4. Going(b, n + 1, s1) BY <2>1, <2>3, <3>2, <4>3, LineArrives
      <4> HIDE DEF r, s
      <4>5. r \in R /\ r.s = s1 /\ r.out = p.out BY <1>0, <4>1, <4>3
      <4>6. TakenTo(b, n + 1, base, r) BY <2>1, <4>3, <4>4, <4>5 DEF TakenTo
      <4> QED BY <4>6 DEF r
    <3>3. CASE s.buf = <<>> /\ s.pending = <<>>
      <4>1. r = [p EXCEPT !.s = s0] BY <3>0, <3>1, <3>3 DEF LineEnds
      <4> HIDE DEF s0, r
      <4>2. Going(b, n + 1, s0) BY <2>1, <2>3, <3>1, <3>3, BlankArrives
      <4> HIDE DEF s
      <4>3. r \in R /\ r.s = s0 /\ r.out = p.out BY <1>0, <3>1, <4>1
      <4>4. TakenTo(b, n + 1, base, r) BY <2>1, <3>1, <4>2, <4>3 DEF TakenTo
      <4> QED BY <4>4 DEF r
    <3>4. CASE s.buf = <<>> /\ s.pending # <<>>
      <4> DEFINE z == [s0 EXCEPT !.pending = <<>>]
                 u == ProcessEvent(z, s.pending)
      <4>1. r = IF u.done \/ u.bad THEN [p EXCEPT !.s = u]
                ELSE [s |-> Flushed(u), out |-> p.out \o NewText(u)] BY <3>0, <3>1, <3>4 DEF LineEnds
      <4>2. /\ z \in StreamState /\ z.buf = <<>> /\ z.pending = <<>> /\ z.content = s.content
            /\ z.tools = s.tools /\ z.flushed = s.flushed /\ ~ z.done /\ ~ z.bad
        <5> HIDE DEF s0, s
        <5>1. <<>> \in Seq(Symbol) OBVIOUS
        <5> QED BY <3>1, <5>1 DEF StreamState
      <4> HIDE DEF z, s0
      <4>3. \/ Stopped(b, n + 1, u) /\ u.content = s.content
            \/ Spoilt(b, n + 1, u)
            \/ /\ ~ u.done /\ ~ u.bad /\ Going(b, n + 1, Flushed(u))
               /\ NewText(u) \in Seq(Words)
               /\ Flushed(u).content = s.content \o NewText(u) BY <2>1, <2>3, <3>4, <4>2, BlankArrives
      <4> HIDE DEF u, r, s
      <4>4. CASE (Stopped(b, n + 1, u) /\ u.content = s.content) \/ Spoilt(b, n + 1, u)
        BY <4>4, <4>1, <1>0, <2>1 DEF Stopped, Spoilt, TakenTo, r
      <4>5. CASE /\ ~ u.done /\ ~ u.bad /\ Going(b, n + 1, Flushed(u))
                 /\ NewText(u) \in Seq(Words)
                 /\ Flushed(u).content = s.content \o NewText(u)
        <5> DEFINE f == Flushed(u)
                   new == NewText(u)
        <5>1. r = [s |-> f, out |-> p.out \o new] BY <4>1, <4>5
        <5>2. f \in StreamState /\ new \in Seq(Words) /\ Going(b, n + 1, f) /\ f.content = s.content \o new
          BY <4>5 DEF Going
        <5> HIDE DEF f, new
        <5>3. p.out \o new \in Seq(Words) /\ (base \o p.out) \o new = base \o (p.out \o new)
          BY <1>0, <5>2, ListsJoin, SMTT(30)
        <5>4. r \in R /\ r.s = f /\ r.out = p.out \o new BY <5>1, <5>2, <5>3
        <5>5. TakenTo(b, n + 1, base, r) BY <2>1, <5>2, <5>3, <5>4 DEF TakenTo
        <5> QED BY <5>5 DEF r
      <4> QED BY <4>3, <4>4, <4>5
    <3> QED BY <3>2, <3>3, <3>4
  <2> QED BY <2>2, <2>3
<1>3. s.done \/ s.bad \/ (~ s.done /\ ~ s.bad) OBVIOUS
<1> QED BY <1>1, <1>2

-----------------------------------------------------------------------------
\* The table of the loop over a chunk, up to its k-th entry.
Takes(p, chunk, k, f) ==
    f = [i \in 0 .. k |-> IF i = 0 THEN p ELSE TakeSymbol(f[i - 1], chunk[i])]

\* There is such a table.
LEMMA TakeTable ==
    ASSUME NEW p, NEW chunk, NEW n \in Nat
    PROVE  \E f : Takes(p, chunk, n, f)
<1> DEFINE P == {k \in Nat : \E f : Takes(p, chunk, k, f)}
<1>1. 0 \in P
  <2>1. Takes(p, chunk, 0, [i \in 0 .. 0 |-> p]) BY DEF Takes
  <2> QED BY <2>1
<1>2. ASSUME NEW k \in Nat, k \in P PROVE k + 1 \in P
  <2>1. PICK f : Takes(p, chunk, k, f) BY <1>2
  <2> DEFINE last == TakeSymbol(f[k], chunk[k + 1])
             g == [i \in 0 .. k + 1 |-> IF i = k + 1 THEN last ELSE f[i]]
  <2>2. (\A i \in 0 .. k : g[i] = f[i]) /\ g[k + 1] = last OBVIOUS
  <2>3. ASSUME NEW i \in 0 .. k + 1
        PROVE  g[i] = IF i = 0 THEN p ELSE TakeSymbol(g[i - 1], chunk[i])
    <3>1. CASE i = k + 1
      <4>1. i - 1 = k /\ k \in 0 .. k /\ i # 0 BY <3>1
      <4> HIDE DEF g
      <4> QED BY <2>2, <3>1, <4>1
    <3>2. CASE i # k + 1
      <4>1. i \in 0 .. k /\ (i # 0 => i - 1 \in 0 .. k) BY <3>2
      <4>2. f[i] = IF i = 0 THEN p ELSE TakeSymbol(f[i - 1], chunk[i]) BY <2>1, <4>1 DEF Takes
      <4> HIDE DEF g
      <4> QED BY <2>2, <4>1, <4>2
    <3> QED BY <3>1, <3>2
  <2>4. g = [i \in 0 .. k + 1 |-> g[i]] OBVIOUS
  <2> HIDE DEF g
  <2>5. Takes(p, chunk, k + 1, g) BY <2>3, <2>4 DEF Takes
  <2> QED BY <2>5
<1> HIDE DEF P
<1>3. Nat \subseteq P BY <1>1, <1>2, SetInduction
<1> QED BY <1>3 DEF P

\* A chunk of the body, symbol by symbol.
LEMMA ChunkTaken ==
    ASSUME NEW b \in Body, NEW n \in 0 .. Len(b), NEW m \in n .. Len(b), Going(b, n, stream)
    PROVE  TakenTo(b, m, stream.content, TakeChunk(SubSeq(b, n + 1, m)))
<1> DEFINE chunk == SubSeq(b, n + 1, m)
           p == [s |-> stream, out |-> <<>>]
           base == stream.content
<1>0. b \in Seq(Symbol) /\ n \in Nat /\ m \in Nat /\ Len(b) \in Nat /\ stream \in StreamState
  BY DEF Going, Body
<1>1. Len(chunk) = m - n /\ m - n \in Nat /\ \A i \in 1 .. m - n : chunk[i] = b[n + i] BY <1>0
<1> HIDE DEF chunk
<1>2. \E f : Takes(p, chunk, Len(chunk), f) /\ TakeChunk(chunk) = f[Len(chunk)]
  <2>1. PICK g : Takes(p, chunk, Len(chunk), g) BY <1>1, TakeTable
  <2>2. g = [i \in 0 .. Len(chunk) |-> IF i = 0 THEN [s |-> stream, out |-> <<>>]
                                      ELSE TakeSymbol(g[i - 1], chunk[i])] BY <2>1 DEF Takes
  <2> QED BY <2>2, Zenon DEF TakeChunk, Takes
<1>3. PICK f : Takes(p, chunk, Len(chunk), f) /\ TakeChunk(chunk) = f[Len(chunk)] BY <1>2
<1> DEFINE P == {i \in Nat : i <= m - n => TakenTo(b, n + i, base, f[i])}
<1>4. base \in Seq(Words) BY <1>0 DEF StreamState
<1>5. 0 \in P BY <1>1, <1>3, <1>0, <1>4 DEF Takes, TakenTo
<1>6. ASSUME NEW i \in Nat, i \in P PROVE i + 1 \in P
  <2> SUFFICES ASSUME i + 1 <= m - n PROVE TakenTo(b, n + (i + 1), base, f[i + 1]) OBVIOUS
  <2>1. TakenTo(b, n + i, base, f[i]) BY <1>0, <1>6
  <2>2. /\ i + 1 \in 0 .. Len(chunk) /\ i + 1 # 0 /\ (i + 1) - 1 = i /\ i + 1 \in 1 .. m - n
        /\ n + i \in 0 .. Len(b) - 1 /\ n + (i + 1) = (n + i) + 1 BY <1>0, <1>1
  <2>3. f[i + 1] = TakeSymbol(f[i], chunk[i + 1]) BY <1>3, <2>2 DEF Takes
  <2>4. chunk[i + 1] = b[(n + i) + 1] BY <1>1, <2>2
  <2>5. TakenTo(b, (n + i) + 1, base, TakeSymbol(f[i], b[(n + i) + 1])) BY <1>4, <2>1, <2>2, SymbolTaken
  <2> QED BY <2>2, <2>3, <2>4, <2>5
<1> HIDE DEF P
<1>7. m - n \in P BY <1>1, <1>5, <1>6, SetInduction
<1>8. TakenTo(b, m, base, f[m - n]) BY <1>0, <1>1, <1>7 DEF P
<1> QED BY <1>1, <1>3, <1>8 DEF chunk

-----------------------------------------------------------------------------
\* What arrived is the beginning of a body.
LEMMA Arrived ==
    ASSUME NEW b \in Body, NEW n \in 0 .. Len(b), NEW r, r = SubSeq(b, 1, n)
    PROVE  /\ r \in Seq(Symbol) /\ Len(r) = n /\ DOMAIN r = 1 .. n
           /\ \A i \in 1 .. n : r[i] = b[i] /\ (Blank(r, i) <=> Blank(b, i))
           /\ \A i \in 1 .. n : Terminated(r, i) <=> Terminated(b, i) /\ i < n
<1>0. b \in Seq(Symbol) /\ n \in Nat /\ Len(b) \in Nat BY DEF Body
<1>1. r \in Seq(Symbol) /\ Len(r) = n /\ DOMAIN r = 1 .. n /\ \A i \in 1 .. n : r[i] = b[i] BY <1>0
<1>2. ASSUME NEW i \in 1 .. n PROVE Blank(r, i) <=> Blank(b, i) BY <1>1 DEF Blank
<1>3. ASSUME NEW i \in 1 .. n PROVE Terminated(r, i) <=> Terminated(b, i) /\ i < n
  BY <1>0, <1>1 DEF Terminated
<1> QED BY <1>1, <1>2, <1>3

\* What does not parse is seen in what arrived.
LEMMA OddSeen ==
    ASSUME NEW b \in Body, NEW n \in 0 .. Len(b), NEW r, r = SubSeq(b, 1, n),
           NEW e \in 0 .. n, Clean(b, e), Odd(b, e, n)
    PROVE  Unparsable(r)
<1>1. PICK i \in e + 1 .. n - 1 :
        /\ DataLine(b, i) /\ \A k \in e + 1 .. i - 1 : ~ DataLine(b, k)
        /\ \/ b[i] = Malformed
           \/ \E j \in i + 1 .. n - 1 : DataLine(b, j) /\ \A k \in i + 1 .. j : ~ Blank(b, k) BY DEF Odd
<1>2. /\ DOMAIN r = 1 .. n /\ Len(r) = n
      /\ \A k \in 1 .. n : r[k] = b[k] /\ (Blank(r, k) <=> Blank(b, k))
      /\ \A k \in 1 .. n : Terminated(r, k) <=> Terminated(b, k) /\ k < n BY Arrived
<1>3. i \in 1 .. n /\ i < n /\ Terminated(r, i) /\ r[i] # Comment /\ r[i] = b[i] BY <1>1, <1>2 DEF DataLine
<1>4. Counts(r, i)
  <2>0. Done # Comment BY DEF Done, Comment
  <2>1. ASSUME NEW j \in 1 .. i - 1, r[j] = Done, Terminated(r, j) PROVE FALSE
    BY <1>3, <1>2, <2>1, <1>1, <2>0 DEF Clean, DataLine
  <2> QED BY <1>3, <2>1 DEF Counts
<1>5. CASE b[i] = Malformed BY <1>2, <1>3, <1>4, <1>5 DEF Unparsable
<1>6. ASSUME NEW j \in i + 1 .. n - 1, DataLine(b, j), \A k \in i + 1 .. j : ~ Blank(b, k)
      PROVE  Unparsable(r) BY <1>2, <1>3, <1>6, <1>4 DEF DataLine, Unparsable
<1> QED BY <1>1, <1>5, <1>6

\* What follows the events that are built: nothing, or [DONE] alone in its event.
Over(b, e, n) ==
    \/ \A i \in e + 1 .. n - 1 : ~ DataLine(b, i)
    \/ /\ e = 0 \/ Blank(b, e)
       /\ \E d \in e + 1 .. n - 1 :
             /\ b[d] = Done /\ Terminated(b, d) /\ \A i \in e + 1 .. d - 1 : ~ DataLine(b, i)
             /\ \A j \in d + 1 .. n - 1 : DataLine(b, j) => \E k \in d + 1 .. j : Blank(b, k)

\* The answer, in terms of what arrived.
Answers(r, s) ==
    /\ s.content = TextOf(r) /\ ~ Unparsable(r)
    /\ \A k \in 0 .. 1 : PartsOf(r, k) = s.tools[k]

\* Then what is built is what arrived.
LEMMA AnswerHolds ==
    ASSUME NEW b \in Body, NEW n \in 0 .. Len(b), NEW r, r = SubSeq(b, 1, n),
           NEW e \in 0 .. n, Clean(b, e), NEW s, Built(b, e, s), Over(b, e, n)
    PROVE  Answers(r, s)
<1>0. b \in Seq(Symbol) /\ n \in Nat /\ Len(b) \in Nat /\ e \in Nat /\ e \in 0 .. Len(b) BY DEF Body
<1>1. /\ r \in Seq(Symbol) /\ DOMAIN r = 1 .. n /\ Len(r) = n
      /\ \A k \in 1 .. n : r[k] = b[k] /\ (Blank(r, k) <=> Blank(b, k))
      /\ \A k \in 1 .. n : Terminated(r, k) <=> Terminated(b, k) /\ k < n BY Arrived
<1>2. \A i \in 1 .. e : i \in 1 .. n /\ (Terminated(b, i) => i < e /\ i < n)
  <2>1. ASSUME NEW i \in 1 .. e, Terminated(b, i) PROVE i < e BY <2>1 DEF Clean, Terminated
  <2> QED BY <1>0, <2>1
<1>3. \A i \in 1 .. e : Counts(r, i) <=> Terminated(b, i)
  <2>1. ASSUME NEW i \in 1 .. e, Terminated(b, i) PROVE Counts(r, i)
    BY <1>0, <1>1, <1>2, <2>1 DEF Clean, Counts
  <2>2. ASSUME NEW i \in 1 .. e, Counts(r, i) PROVE Terminated(b, i) BY <1>1, <1>2, <2>2 DEF Counts
  <2> QED BY <2>1, <2>2
<1>4. ASSUME NEW i \in e + 1 .. n, Counts(r, i), b[i] # Comment
      PROVE  /\ b[i] = Done /\ (e = 0 \/ Blank(b, e))
             /\ \A j \in i + 1 .. n - 1 : DataLine(b, j) => \E k \in i + 1 .. j : Blank(b, k)
  <2>1. i \in 1 .. n BY <1>0
  <2>2. DataLine(b, i) /\ i < n /\ i \in e + 1 .. n - 1 BY <1>0, <1>1, <1>4, <2>1 DEF Counts, DataLine
  <2>3. (e = 0 \/ Blank(b, e)) /\ \E d \in e + 1 .. n - 1 :
             /\ b[d] = Done /\ Terminated(b, d) /\ \A k \in e + 1 .. d - 1 : ~ DataLine(b, k)
             /\ \A j \in d + 1 .. n - 1 : DataLine(b, j) => \E k \in d + 1 .. j : Blank(b, k) BY <2>2 DEF Over
  <2>4. PICK d \in e + 1 .. n - 1 :
             /\ b[d] = Done /\ Terminated(b, d) /\ \A k \in e + 1 .. d - 1 : ~ DataLine(b, k)
             /\ \A j \in d + 1 .. n - 1 : DataLine(b, j) => \E k \in d + 1 .. j : Blank(b, k) BY <2>3
  <2>5. ~ (i < d) BY <1>0, <2>2, <2>4
  <2>6. ~ (d < i)
    <3> SUFFICES ASSUME d < i PROVE FALSE OBVIOUS
    <3>1. d \in 1 .. i - 1 /\ d \in 1 .. n /\ d < n BY <1>0
    <3>2. r[d] = Done /\ Terminated(r, d) BY <1>1, <2>4, <3>1
    <3> QED BY <1>4, <3>1, <3>2 DEF Counts
  <2>7. i = d BY <1>0, <2>5, <2>6
  <2> QED BY <2>3, <2>4, <2>7
<1>5. \A i \in 1 .. n : i \in 1 .. e \/ i \in e + 1 .. n BY <1>0
<1>6. s.content = TextOf(r)
  <2>1. \A i \in e + 1 .. n : ~ Speaks(r, i)
    <3> SUFFICES ASSUME NEW i \in e + 1 .. n, Speaks(r, i) PROVE FALSE OBVIOUS
    <3>1. i \in 1 .. n /\ Counts(r, i) /\ b[i].t = "delta" BY <1>0, <1>1 DEF Speaks
    <3>2. b[i] # Comment /\ b[i] # Done BY <3>1 DEF Comment, Done
    <3> QED BY <1>4, <3>1, <3>2
  <2>2. TextUpTo(r, n) = TextUpTo(r, e) BY <1>0, <2>1, TextSkips
  <2>3. \A i \in 1 .. e : (Speaks(r, i) <=> Speaks(b, i)) /\ r[i] = b[i]
    BY <1>0, CleanCounts, <1>1, <1>2, <1>3 DEF Speaks
  <2>4. TextUpTo(r, e) = TextUpTo(b, e) BY <1>0, <2>3, TextSame
  <2> QED BY <1>1, <2>2, <2>4 DEF Built, TextOf
<1>7. ~ Unparsable(r)
  <2> SUFFICES ASSUME NEW i \in 1 .. n, Counts(r, i), r[i] # Comment
               PROVE  /\ r[i] # Malformed
                      /\ \A j \in i + 1 .. Len(r) : Terminated(r, j) /\ r[j] # Comment =>
                            \E k \in i + 1 .. j : Blank(r, k) BY <1>1 DEF Unparsable
  <2>1. \A j \in i + 1 .. Len(r) : j \in 1 .. n /\ \A k \in i + 1 .. j : k \in 1 .. n BY <1>0, <1>1
  <2>2. b[i] = r[i] /\ Terminated(b, i) /\ DataLine(b, i) BY <1>1 DEF Counts, DataLine
  <2>3. CASE i \in 1 .. e
    <3>1. r[i] # Malformed BY <2>2, <2>3 DEF Clean
    <3>2. ASSUME NEW j \in i + 1 .. Len(r), Terminated(r, j), r[j] # Comment
          PROVE  \E k \in i + 1 .. j : Blank(r, k)
      <4>1. DataLine(b, j) /\ j < n /\ i < j /\ j \in 1 .. n BY <1>0, <1>1, <2>1, <3>2 DEF DataLine
      <4>2. CASE j <= e BY <1>0, <4>1, <4>2, <2>2, <2>3, <1>1, <2>1 DEF Clean
      <4>3. CASE e < j BY <1>0, <2>3, <4>1, <4>3, <1>2, <2>2, <1>1, <2>1 DEF Over
      <4> QED BY <1>0, <4>1, <4>2, <4>3
    <3> QED BY <3>1, <3>2
  <2>4. CASE i \in e + 1 .. n
    <3>1. b[i] = Done /\ \A j \in i + 1 .. n - 1 : DataLine(b, j) => \E k \in i + 1 .. j : Blank(b, k)
      BY <1>4, <2>2, <2>4
    <3>2. r[i] # Malformed BY <2>2, <3>1 DEF Done, Malformed
    <3>3. ASSUME NEW j \in i + 1 .. Len(r), Terminated(r, j), r[j] # Comment
          PROVE  \E k \in i + 1 .. j : Blank(r, k) BY <1>0, <1>1, <2>1, <3>3, <3>1 DEF DataLine
    <3> QED BY <3>2, <3>3
  <2> QED BY <1>5, <2>3, <2>4
<1>8. ASSUME NEW k \in 0 .. 1 PROVE PartsOf(r, k) = s.tools[k]
  <2> DEFINE M == {j \in DOMAIN r : Counts(r, j) /\ r[j].t = "tool" /\ r[j].at = k}
             E == {j \in 1 .. e : Terminated(b, j) /\ b[j].t = "tool" /\ b[j].at = k}
  <2>1. ASSUME NEW j \in M PROVE j \in E BY <1>1, <1>4, <1>5, <1>3 DEF Comment, Done
  <2>2. ASSUME NEW j \in E PROVE j \in M BY <1>1, <1>2, <1>3
  <2>3. M = E /\ \A j \in E : r[j].has = b[j].has BY <1>1, <1>2, <2>1, <2>2
  <2>4. PartsOf(r, k) = UNION {r[j].has : j \in M} /\ PartsTo(b, e, k) = UNION {b[j].has : j \in E}
    BY DEF PartsOf, PartsTo
  <2> HIDE DEF M, E
  <2>5. {r[j].has : j \in M} = {b[j].has : j \in E} BY <2>3
  <2>6. s.tools[k] = PartsTo(b, e, k) BY DEF Built
  <2> QED BY <2>4, <2>5, <2>6
<1> QED BY <1>6, <1>7, <1>8 DEF Answers

\* [DONE] ends the answer, whatever follows it.
LEMMA StoppedOver ==
    ASSUME NEW b \in Body, NEW n \in 0 .. Len(b), NEW s, Stopped(b, n, s)
    PROVE  \E e \in 0 .. n : Clean(b, e) /\ Built(b, e, s) /\ Over(b, e, n)
<1>0. n \in Nat BY DEF Body
<1>1. PICK e \in 0 .. n : \E d, c \in e + 1 .. n :
        /\ Clean(b, e) /\ Built(b, e, s) /\ (e = 0 \/ Blank(b, e))
        /\ d < c /\ b[d] = Done /\ Blank(b, c)
        /\ \A j \in e + 1 .. c - 1 : DataLine(b, j) <=> j = d BY DEF Stopped
<1>2. PICK d \in e + 1 .. n, c \in e + 1 .. n :
        /\ Clean(b, e) /\ Built(b, e, s) /\ (e = 0 \/ Blank(b, e))
        /\ d < c /\ b[d] = Done /\ Blank(b, c)
        /\ \A j \in e + 1 .. c - 1 : DataLine(b, j) <=> j = d BY <1>1
<1>3. d \in e + 1 .. n - 1 /\ d \in e + 1 .. c - 1 /\ \A i \in e + 1 .. d - 1 : i \in e + 1 .. c - 1 /\ i # d
  BY <1>0, <1>2
<1>4. Terminated(b, d) /\ \A i \in e + 1 .. d - 1 : ~ DataLine(b, i) BY <1>2, <1>3 DEF DataLine
<1>5. ASSUME NEW j \in d + 1 .. n - 1, DataLine(b, j) PROVE \E k \in d + 1 .. j : Blank(b, k)
  <2>1. j # c BY <1>2, <1>5 DEF DataLine, Terminated, Blank
  <2>2. ~ (j < c)
    <3> SUFFICES ASSUME j < c PROVE FALSE OBVIOUS
    <3>1. j \in e + 1 .. c - 1 /\ j # d BY <1>0
    <3> QED BY <1>2, <1>5, <3>1
  <2>3. c \in d + 1 .. j BY <1>0, <1>2, <2>1, <2>2
  <2> QED BY <1>2, <2>3
<1> QED BY <1>2, <1>3, <1>4, <1>5 DEF Over

\* The body ends: the event that is open counts.
LEMMA EndArrives ==
    ASSUME NEW b \in Body, NEW n \in 0 .. Len(b), NEW s, Going(b, n, s), NEW r, r = SubSeq(b, 1, n),
           NEW u, s.pending = <<>> => u = s, s.pending # <<>> => u = ProcessEvent(s, s.pending)
    PROVE  /\ u \in StreamState
           /\ u.bad => Unparsable(r)
           /\ ~ u.bad => /\ Answers(r, u) /\ NewText(u) \in Seq(Words)
                         /\ u.content = s.content \o NewText(u)
<1>0. /\ b \in Seq(Symbol) /\ n \in Nat /\ Len(b) \in Nat
      /\ s \in StreamState /\ s.flushed = Len(s.content) /\ ~ s.done /\ ~ s.bad
      /\ s.content \in Seq(Words) BY DEF Going, Body, StreamState
<1>1. PICK e \in 0 .. n : Clean(b, e) /\ Built(b, e, s) /\ Between(b, e, n, s) BY DEF Going
<1>2. /\ e = 0 \/ Blank(b, e)
      /\ \A k \in e + 1 .. n : ~ Blank(b, k)
      /\ Collected(b, e, n, s.pending) BY <1>1 DEF Between
<1>3. <<>> \in Seq(Words) /\ s.content \o <<>> = s.content BY <1>0
<1>4. CASE s.pending = <<>> /\ \A i \in e + 1 .. n - 1 : ~ DataLine(b, i)
  <2>1. u = s BY <1>4
  <2>2. Answers(r, s) BY <1>4, <1>1, AnswerHolds DEF Over
  <2>3. NewText(s) = <<>> BY <1>0, <1>3, TextIsNew
  <2> QED BY <1>0, <1>3, <2>1, <2>2, <2>3
<1>5. ASSUME NEW i \in e + 1 .. n - 1, s.pending = <<b[i]>>,
             \A j \in e + 1 .. n - 1 : DataLine(b, j) <=> j = i
      PROVE  /\ u \in StreamState
             /\ u.bad => Unparsable(r)
             /\ ~ u.bad => /\ Answers(r, u) /\ NewText(u) \in Seq(Words)
                           /\ u.content = s.content \o NewText(u)
  <2> DEFINE x == b[i]
  <2>1. x \in Symbol /\ x # NL /\ x # Comment /\ DataLine(b, i) /\ Terminated(b, i) /\ i \in 1 .. Len(b)
    BY <1>0, <1>5 DEF DataLine, Terminated
  <2>2. u = ProcessEvent(s, <<x>>) BY <1>5
  <2>3. /\ x = Malformed => u = [s EXCEPT !.bad = TRUE]
        /\ x = Done => u = [s EXCEPT !.done = TRUE]
        /\ x \notin {Malformed, Done} => u = ApplyChunk(s, x) /\ x.t \in {"delta", "tool"}
    BY <1>0, <2>1, <2>2, EventOfOne
  <2>4. CASE x = Malformed
    <3>1. u \in StreamState /\ u.bad BY <1>0, <2>3, <2>4, MarksBad
    <3>2. Odd(b, e, n) BY <1>5, <2>1, <2>4 DEF Odd
    <3> QED BY <1>1, <3>1, <3>2, OddSeen
  <2>5. CASE x = Done
    <3>1. /\ u \in StreamState /\ u.done /\ ~ u.bad /\ u.content = s.content
          /\ u.tools = s.tools /\ u.flushed = s.flushed BY <1>0, <2>3, <2>5, MarksDone
    <3>2. Built(b, e, u) BY <1>1, <3>1 DEF Built
    <3>3. Over(b, e, n)
      <4>1. \A k \in e + 1 .. i - 1 : ~ DataLine(b, k) BY <1>5
      <4>2. \A j \in i + 1 .. n - 1 : ~ DataLine(b, j) BY <1>5
      <4> QED BY <1>2, <2>1, <2>5, <4>1, <4>2 DEF Over
    <3>4. Answers(r, u) BY <1>1, <3>2, <3>3, AnswerHolds
    <3>5. NewText(u) = <<>> BY <1>0, <1>3, <3>1, TextIsNew
    <3> QED BY <1>3, <3>1, <3>4, <3>5
  <2>6. CASE x \notin {Malformed, Done}
    <3>1. u = ApplyChunk(s, x) /\ x.t \in {"delta", "tool"} BY <2>3, <2>6
    <3>2. /\ i + 1 \in 1 .. Len(b) /\ e < i + 1 /\ e \in Nat /\ i \in e + 1 .. (i + 1) - 1
          /\ i + 1 \in 0 .. n BY <1>0
    <3>3. b[i + 1] = NL BY <2>1 DEF Terminated
    <3>4. \A j \in e + 1 .. (i + 1) - 1 : DataLine(b, j) <=> j = i BY <1>0, <1>5
    <3>5. Built(b, i + 1, u) /\ u \in StreamState BY <1>0, <1>1, <3>1, <3>2, <3>3, <3>4, BuiltAdds
    <3>6. Clean(b, i + 1) BY <3>4, <2>6, <1>1, <1>2, <3>2, <3>3, CleanGrows
    <3>7. Over(b, i + 1, n) BY <1>5 DEF Over
    <3>8. Answers(r, u) BY <3>2, <3>5, <3>6, <3>7, AnswerHolds
    <3>9. ~ u.bad /\ NewText(u) \in Seq(Words) /\ u.content = s.content \o NewText(u)
      BY <1>0, <2>1, <3>1, AppliesMore, AppliesNew
    <3> QED BY <3>5, <3>8, <3>9
  <2> QED BY <2>4, <2>5, <2>6
<1>6. ASSUME s.pending \in Seq(Symbol), Len(s.pending) > 1,
             NEW i \in e + 1 .. n - 1, NEW j \in e + 1 .. n - 1, i < j, DataLine(b, i), DataLine(b, j),
             \A k \in e + 1 .. i - 1 : ~ DataLine(b, k)
      PROVE  u \in StreamState /\ u.bad /\ Unparsable(r)
  <2>1. u = [s EXCEPT !.bad = TRUE] BY <1>6, <1>0, EventOfMany
  <2>2. u \in StreamState /\ u.bad BY <1>0, <2>1, MarksBad
  <2>3. Odd(b, e, n)
    <3>1. j \in i + 1 .. n - 1 /\ \A k \in i + 1 .. j : ~ Blank(b, k) BY <1>0, <1>2, <1>6
    <3> QED BY <1>6, <3>1 DEF Odd
  <2> QED BY <1>1, <2>2, <2>3, OddSeen
<1> QED BY <1>2, <1>4, <1>5, <1>6 DEF Collected

\* finish tells a whole answer from a broken one.
LEMMA FinishTells ==
    ASSUME NEW r, NEW s \in StreamState, Answers(r, s)
    PROVE  Broken(r) <=> Incomplete(s)
<1>1. DOMAIN s.tools = 0 .. 1 BY DEF StreamState
<1> QED BY <1>1 DEF Answers, Broken, Incomplete

-----------------------------------------------------------------------------
\* Where the chunks on their way are in the body: the i-th one of the channel is
\* what lies after its first o[i] symbols, and the reader is at the end of them.
Chunk == Seq(Symbol) \cup {IoError}
CutAt(b, o) ==
    /\ o \in Seq(0 .. Len(b)) /\ Len(o) = Len(channel) + 1
    /\ \A i \in 1 .. Len(channel) :
          /\ o[i] <= o[i + 1]
          /\ channel[i] = IoError \/ channel[i] = SubSeq(b, o[i] + 1, o[i + 1])
    /\ received = SubSeq(b, 1, o[1])
    /\ bodyReader[attempt] = "read" => wire = SubSeq(b, o[Len(o)] + 1, Len(b))
    /\ bodyReader[attempt] = "put" =>
          \/ holds = IoError
          \/ \E m \in o[Len(o)] .. Len(b) :
                holds = SubSeq(b, o[Len(o)] + 1, m) /\ wire = SubSeq(b, m + 1, Len(b))

\* What went to the sink is what failed attempts pushed and then the text so far.
PushedSo(text) == \E pre \in Seq(Words) : Len(pre) = failed /\ pushed = pre \o text

StreamTypes ==
    /\ attempt \in Attempt
    /\ ask \in {"send", "stream", "ok", "error", "invalid"}
    /\ bodyReader \in [Attempt -> {"none", "read", "put", "over"}]
    /\ channel \in Seq(Chunk) /\ Len(channel) <= Room /\ holds \in Chunk
    /\ pushed \in Seq(Words) /\ failed \in 0 .. Len(pushed)

StreamGoes == \E b \in Body : \E o : CutAt(b, o) /\ Going(b, o[1], stream)

StreamInv ==
    /\ StreamTypes
    /\ ask = "send" => failed = Len(pushed)
    /\ ask = "stream" => StreamGoes
    /\ ask = "ok" => stream.content = TextOf(received) /\ ~ Broken(received)
    /\ ask \in {"stream", "ok"} => stream.content \in Seq(Words) /\ PushedSo(stream.content)
    /\ ask = "invalid" => Broken(received)

\* A request that was not sent yet.
LEMMA StreamBegins == StreamInit => StreamInv
<1> SUFFICES ASSUME StreamInit PROVE StreamInv OBVIOUS
<1>1. StreamTypes BY StreamAssumption DEF StreamInit, StreamTypes, Attempt, Chunk
<1> QED BY <1>1 DEF StreamInit, StreamInv

\* The locals at the start of a stream.
LEMMA FreshGoes ==
    ASSUME NEW b \in Body
    PROVE  Going(b, 0, Fresh) /\ Fresh.content = <<>>
<1>1. /\ Fresh \in StreamState /\ ~ Fresh.done /\ ~ Fresh.bad /\ Fresh.flushed = 0 /\ Fresh.content = <<>>
      /\ Fresh.buf = <<>> /\ Fresh.pending = <<>> /\ Fresh.tools = [i \in 0 .. 1 |-> {}]
  BY DEF Fresh, NoTools, StreamState
<1> HIDE DEF Fresh
<1>2. Clean(b, 0) BY DEF Clean
<1>3. Built(b, 0, Fresh)
  <2>1. \A k \in 0 .. 1 : PartsTo(b, 0, k) = {} BY DEF PartsTo
  <2>2. TextUpTo(b, 0) = <<>> /\ <<>> \in Seq(Words) BY TextGrows
  <2> QED BY <1>1, <2>1, <2>2 DEF Built
<1>4. Between(b, 0, 0, Fresh) BY <1>1 DEF Between, Collected
<1>5. Len(<<>>) = 0 OBVIOUS
<1>6. Going(b, 0, Fresh) BY <1>1, <1>2, <1>3, <1>4, <1>5 DEF Going
<1> QED BY <1>1, <1>6

\* A failed attempt, whoever notices.
LEMMA RetryKeeps ==
    ASSUME StreamInv, Retry, UNCHANGED <<bodyReader, pushed>>
    PROVE  StreamInv'
<1>1. attempt \in Attempt /\ attempt \in Nat /\ MaxAttempts \in Nat /\ pushed \in Seq(Words) /\ failed \in 0 .. Len(pushed)
  BY StreamAssumption DEF StreamInv, StreamTypes, Attempt
<1>2. attempt' \in Attempt /\ ask' \in {"send", "error"} /\ failed' \in 0 .. Len(pushed')
      /\ (ask' = "send" => failed' = Len(pushed'))
  <2>1. CASE attempt < MaxAttempts BY <1>1, <2>1 DEF Retry, Attempt
  <2>2. CASE ~ (attempt < MaxAttempts) BY <1>1, <2>2 DEF Retry, Attempt
  <2> QED BY <2>1, <2>2
<1>3. channel' = <<>> /\ holds' = <<>> BY DEF Retry
<1>4. StreamTypes' BY StreamAssumption, <1>2, <1>3 DEF Chunk, StreamTypes, StreamInv
<1> QED BY <1>2, <1>4 DEF StreamInv

\* A body that was cut short is still a body.
LEMMA BodyPrefix ==
    ASSUME NEW body \in Bodies, NEW n \in 0 .. Len(body), NEW b, b = SubSeq(body, 1, n)
    PROVE  b \in Body
<1>1. body \in Seq(Symbol) /\ InLines(body) BY StreamAssumption
<1>2. b \in Seq(Symbol) /\ Len(b) = n /\ \A i \in 1 .. n : b[i] = body[i] BY <1>1
<1>3. InLines(b)
  <2> SUFFICES ASSUME NEW i \in 1 .. Len(b) - 1 PROVE b[i] = NL \/ b[i + 1] = NL BY DEF InLines
  <2>1. i \in 1 .. n /\ i + 1 \in 1 .. n /\ i \in 1 .. Len(body) - 1 BY <1>1, <1>2
  <2> QED BY <1>1, <1>2, <2>1 DEF InLines
<1> QED BY <1>2, <1>3 DEF Body

\* A stream starts: nothing has arrived, and all of the body is on the wire.
LEMMA AnsweredKeeps ==
    ASSUME StreamInv, Answered
    PROVE  StreamInv'
<1>1. PICK b : b = wire' OBVIOUS
<1>2. b \in Body
  <2>1. PICK body \in Bodies : \E n \in 0 .. Len(body) : wire' = SubSeq(body, 1, n) BY DEF Answered
  <2> QED BY <1>1, <2>1, BodyPrefix
<1>3. /\ channel' = <<>> /\ received' = <<>> /\ stream' = Fresh /\ ask' = "stream"
      /\ bodyReader' = [bodyReader EXCEPT ![attempt] = "read"]
      /\ UNCHANGED <<attempt, holds, pushed, failed>> /\ ask = "send" BY DEF Answered
<1>4. StreamTypes' BY StreamAssumption, <1>3 DEF StreamTypes, StreamInv
<1>5. StreamGoes'
  <2> DEFINE o == <<0>>
  <2>0. Len(b) \in Nat /\ b \in Seq(Symbol) BY <1>2 DEF Body
  <2>1. o \in Seq(0 .. Len(b)) /\ Len(o) = 1 /\ o[1] = 0 /\ o[Len(o)] = 0 BY <2>0
  <2>2. SubSeq(b, 1, 0) = <<>> /\ SubSeq(b, 0 + 1, Len(b)) = b BY <2>0
  <2>3. Len(channel') = 0 /\ (bodyReader')[attempt'] = "read" BY <1>3 DEF StreamInv, StreamTypes
  <2> HIDE DEF o
  <2>4. CutAt(b, o)' BY <1>1, <1>3, <2>0, <2>1, <2>2, <2>3 DEF CutAt
  <2>5. Going(b, o[1], Fresh) BY <1>2, <2>1, FreshGoes
  <2> QED BY <1>2, <1>3, <2>4, <2>5 DEF StreamGoes
<1>6. PushedSo(stream.content)' /\ stream'.content \in Seq(Words)
  <2>1. stream'.content = <<>> BY <1>2, <1>3, FreshGoes
  <2>2. failed = Len(pushed) /\ pushed \in Seq(Words) /\ <<>> \in Seq(Words)
    BY <1>3 DEF StreamInv, StreamTypes
  <2>3. pushed \o <<>> = pushed BY <2>2
  <2> QED BY <1>3, <2>1, <2>2, <2>3 DEF PushedSo
<1> QED BY <1>3, <1>4, <1>5, <1>6 DEF StreamInv

\* The length of two lists in a row.
LEMMA JoinedLength ==
    ASSUME NEW S, NEW p \in Seq(S), NEW q \in Seq(S)
    PROVE  Len(p \o q) = Len(p) + Len(q)
OBVIOUS

\* A part of a list.
LEMMA ListPart ==
    ASSUME NEW S, NEW s \in Seq(S), NEW i \in Nat, NEW j \in Nat, i <= j, j <= Len(s)
    PROVE  /\ SubSeq(s, i + 1, j) \in Seq(S) /\ Len(SubSeq(s, i + 1, j)) = j - i
           /\ \A k \in 1 .. j - i : SubSeq(s, i + 1, j)[k] = s[i + k]
<1> DEFINE q == SubSeq(s, i + 1, j)
<1>1. q = [k \in 1 .. j - i |-> s[i + k]] OBVIOUS
<1>2. \A k \in 1 .. j - i : s[i + k] \in S
  <2> TAKE k \in 1 .. j - i
  <2>1. i + k \in 1 .. Len(s) OBVIOUS
  <2> QED BY <2>1
<1>3. j - i \in Nat OBVIOUS
<1> HIDE DEF q
<1>4. q \in Seq(S) /\ Len(q) = j - i /\ \A k \in 1 .. j - i : q[k] = s[i + k] BY <1>1, <1>2, <1>3
<1> QED BY <1>4 DEF q

\* Lists of the same length and with the same elements.
LEMMA ListsEqual ==
    ASSUME NEW S, NEW p \in Seq(S), NEW q \in Seq(S), Len(p) = Len(q),
           \A k \in 1 .. Len(p) : p[k] = q[k]
    PROVE  p = q
OBVIOUS

\* A part of a part of a list.
LEMMA PartOfPart ==
    ASSUME NEW S, NEW s \in Seq(S), NEW e \in Nat, e <= Len(s), NEW w, w = SubSeq(s, e + 1, Len(s)),
           NEW i \in Nat, NEW j \in Nat, i <= j, j <= Len(w)
    PROVE  /\ SubSeq(w, i + 1, j) = SubSeq(s, e + i + 1, e + j)
           /\ w \in Seq(S) /\ Len(w) = Len(s) - e
<1>0. Len(s) \in Nat OBVIOUS
<1>1. w \in Seq(S) /\ Len(w) = Len(s) - e /\ \A k \in 1 .. Len(s) - e : w[k] = s[e + k] BY <1>0, ListPart
<1> DEFINE l == SubSeq(w, i + 1, j)
           r == SubSeq(s, e + i + 1, e + j)
<1>2. l \in Seq(S) /\ Len(l) = j - i /\ \A k \in 1 .. j - i : l[k] = w[i + k] BY <1>1, ListPart
<1>3. r \in Seq(S) /\ Len(r) = j - i /\ \A k \in 1 .. j - i : r[k] = s[e + i + k]
  <2>1. e + i \in Nat /\ e + j \in Nat /\ e + i <= e + j /\ e + j <= Len(s) /\ (e + j) - (e + i) = j - i
    BY <1>0, <1>1
  <2> QED BY <2>1, ListPart
<1>4. \A k \in 1 .. j - i : l[k] = r[k]
  <2> TAKE k \in 1 .. j - i
  <2>1. i + k \in 1 .. Len(s) - e /\ e + (i + k) = e + i + k BY <1>0, <1>1
  <2> QED BY <1>1, <1>2, <1>3, <2>1
<1> HIDE DEF l, r
<1>5. l = r BY <1>2, <1>3, <1>4, ListsEqual
<1> QED BY <1>1, <1>5 DEF l, r

\* A part of a list and the part after it.
LEMMA PartsJoin ==
    ASSUME NEW S, NEW s \in Seq(S), NEW i \in Nat, NEW j \in Nat, i <= j, j <= Len(s)
    PROVE  SubSeq(s, 1, i) \o SubSeq(s, i + 1, j) = SubSeq(s, 1, j)
<1> DEFINE p == SubSeq(s, 1, i)
           q == SubSeq(s, i + 1, j)
           r == SubSeq(s, 1, j)
<1>0. Len(s) \in Nat /\ 0 \in Nat /\ 0 <= i /\ 0 <= j /\ i <= Len(s) /\ 0 + 1 = 1 /\ i - 0 = i /\ j - 0 = j
  OBVIOUS
<1>1. p \in Seq(S) /\ Len(p) = i /\ \A k \in 1 .. i : p[k] = s[k] BY <1>0, ListPart
<1>2. q \in Seq(S) /\ Len(q) = j - i /\ \A k \in 1 .. j - i : q[k] = s[i + k] BY ListPart
<1>3. r \in Seq(S) /\ Len(r) = j /\ \A k \in 1 .. j : r[k] = s[k] BY <1>0, ListPart
<1> HIDE DEF p, q, r
<1> DEFINE t == p \o q
<1>4. t \in Seq(S) /\ Len(t) = j
  <2>1. t \in Seq(S) BY <1>1, <1>2, ListsJoin
  <2>2. Len(t) = Len(p) + Len(q) BY <1>1, <1>2, JoinedLength
  <2>3. i + (j - i) = j OBVIOUS
  <2> QED BY <1>1, <1>2, <2>1, <2>2, <2>3
<1>5. \A k \in 1 .. j : t[k] = IF k <= i THEN p[k] ELSE q[k - i] BY <1>1, <1>2
<1>6. \A k \in 1 .. j : t[k] = r[k]
  <2> TAKE k \in 1 .. j
  <2>1. CASE k <= i BY <1>1, <1>3, <1>5, <2>1
  <2>2. CASE ~ (k <= i)
    <3>1. k - i \in 1 .. j - i /\ i + (k - i) = k BY <2>2
    <3> QED BY <1>2, <1>3, <1>5, <2>2, <3>1
  <2> QED BY <2>1, <2>2
<1> HIDE DEF t
<1>7. t = r BY <1>3, <1>4, <1>6, ListsEqual
<1> QED BY <1>7 DEF p, q, r, t

\* The reader takes the next part of the body, its end, or an error.
LEMMA ReadKeeps ==
    ASSUME StreamInv, NEW a \in Attempt, Read(a)
    PROVE  StreamInv'
<1>0. /\ a = attempt /\ ask = "stream" /\ bodyReader[attempt] = "read"
      /\ bodyReader' = [bodyReader EXCEPT ![attempt] = "put"]
      /\ UNCHANGED <<attempt, ask, channel, stream, pushed, received, failed>> BY DEF Read, Listening
<1>1. StreamTypes /\ StreamGoes /\ stream.content \in Seq(Words) /\ PushedSo(stream.content)
  BY <1>0 DEF StreamInv
<1>2. PICK b \in Body : \E o : CutAt(b, o) /\ Going(b, o[1], stream) BY <1>1 DEF StreamGoes
<1>3. PICK o : CutAt(b, o) /\ Going(b, o[1], stream) BY <1>2
<1>4. b \in Seq(Symbol) /\ Len(b) \in Nat BY DEF Body
<1> DEFINE e == o[Len(o)]
<1>5. /\ o \in Seq(0 .. Len(b)) /\ Len(o) = Len(channel) + 1 /\ Len(channel) \in Nat
      /\ e \in 0 .. Len(b) /\ wire = SubSeq(b, e + 1, Len(b))
  <2>1. o \in Seq(0 .. Len(b)) /\ Len(o) = Len(channel) + 1 /\ wire = SubSeq(b, e + 1, Len(b))
    BY <1>0, <1>3 DEF CutAt
  <2>2. Len(channel) \in Nat BY <1>1 DEF StreamTypes
  <2> QED BY <2>1, <2>2
<1> HIDE DEF e
<1>6. e \in Nat /\ e <= Len(b) /\ wire \in Seq(Symbol) /\ Len(wire) = Len(b) - e
  <2>1. e \in Nat /\ e <= Len(b) BY <1>4, <1>5
  <2>2. wire \in Seq(Symbol) /\ Len(wire) = Len(b) - e BY <1>4, <1>5, <2>1, ListPart
  <2> QED BY <2>1, <2>2
<1>7. holds' \in Chunk /\ (holds' = IoError \/ \E m \in e .. Len(b) :
                              holds' = SubSeq(b, e + 1, m) /\ wire' = SubSeq(b, m + 1, Len(b)))
  <2>1. ASSUME NEW n \in 1 .. MaxChunk, n <= Len(wire), holds' = SubSeq(wire, 1, n),
               wire' = SubSeq(wire, n + 1, Len(wire))
        PROVE  \E m \in e .. Len(b) : /\ holds' = SubSeq(b, e + 1, m) /\ wire' = SubSeq(b, m + 1, Len(b))
                                      /\ holds' \in Seq(Symbol)
    <3> DEFINE m == e + n
    <3>0. n \in Nat /\ m \in Nat /\ m \in e .. Len(b) /\ Len(wire) \in Nat /\ e + Len(wire) = Len(b)
      BY <1>4, <1>6, <2>1, StreamAssumption
    <3>1. SubSeq(wire, 1, n) = SubSeq(b, e + 1, m) /\ SubSeq(wire, 1, n) \in Seq(Symbol)
      <4>1. SubSeq(wire, 0 + 1, n) = SubSeq(b, e + 0 + 1, e + n) BY <1>4, <1>5, <1>6, <2>1, <3>0, PartOfPart
      <4>2. SubSeq(wire, 0 + 1, n) \in Seq(Symbol) BY <1>6, <2>1, <3>0, ListPart
      <4>3. 0 + 1 = 1 /\ e + 0 + 1 = e + 1 BY <1>6
      <4> QED BY <4>1, <4>2, <4>3
    <3>2. SubSeq(wire, n + 1, Len(wire)) = SubSeq(b, m + 1, Len(b))
      <4>1. SubSeq(wire, n + 1, Len(wire)) = SubSeq(b, e + n + 1, e + Len(wire))
        BY <1>4, <1>5, <1>6, <2>1, <3>0, PartOfPart, SMTT(30)
      <4> QED BY <3>0, <4>1
    <3> HIDE DEF m
    <3> QED BY <2>1, <3>0, <3>1, <3>2
  <2>2. CASE wire = <<>> /\ holds' = Eof /\ UNCHANGED wire
    <3>1. e = Len(b) BY <2>2, <1>4, <1>6
    <3>2. SubSeq(b, e + 1, e) = <<>> /\ SubSeq(b, e + 1, Len(b)) = <<>> /\ e \in e .. Len(b)
      BY <1>4, <1>5, <3>1
    <3>3. <<>> \in Chunk BY DEF Chunk
    <3> QED BY <2>2, <3>2, <3>3 DEF Eof
  <2>3. CASE holds' = IoError BY <2>3 DEF Chunk
  <2>4. \/ \E n \in 1 .. MaxChunk :
             n <= Len(wire) /\ holds' = SubSeq(wire, 1, n) /\ wire' = SubSeq(wire, n + 1, Len(wire))
        \/ wire = <<>> /\ holds' = Eof /\ UNCHANGED wire
        \/ holds' = IoError BY DEF Read
  <2>5. Seq(Symbol) \subseteq Chunk BY DEF Chunk
  <2> QED BY <2>1, <2>2, <2>3, <2>4, <2>5
<1>8. CutAt(b, o)' BY <1>0, <1>1, <1>3, <1>5, <1>7 DEF StreamTypes, CutAt, e
<1>9. StreamGoes' BY <1>0, <1>3, <1>8 DEF StreamGoes
<1>10. StreamTypes' BY <1>0, <1>1, <1>7 DEF StreamTypes
<1> QED BY <1>0, <1>1, <1>9, <1>10 DEF StreamInv, PushedSo

\* A chunk takes its place in the channel.
LEMMA PutKeeps ==
    ASSUME StreamInv, NEW a \in Attempt, Put(a)
    PROVE  StreamInv'
<1>0. /\ a = attempt /\ ask = "stream" /\ bodyReader[attempt] = "put" /\ Len(channel) < Room
      /\ channel' = Append(channel, holds) /\ holds' = <<>>
      /\ bodyReader' = [bodyReader EXCEPT ![attempt] = IF holds \in {Eof, IoError} THEN "over" ELSE "read"]
      /\ UNCHANGED <<attempt, ask, wire, stream, pushed, received, failed>> BY DEF Put, Listening
<1>1. StreamTypes /\ StreamGoes /\ stream.content \in Seq(Words) /\ PushedSo(stream.content)
  BY <1>0 DEF StreamInv
<1>2. PICK b \in Body : \E o : CutAt(b, o) /\ Going(b, o[1], stream) BY <1>1 DEF StreamGoes
<1>3. PICK o : CutAt(b, o) /\ Going(b, o[1], stream) BY <1>2
<1>4. b \in Seq(Symbol) /\ Len(b) \in Nat BY DEF Body
<1> DEFINE c == Len(channel)
<1>5. /\ o \in Seq(0 .. Len(b)) /\ Len(o) = c + 1 /\ c \in Nat /\ channel \in Seq(Chunk) /\ holds \in Chunk
      /\ Room \in Nat BY <1>3, <1>1, StreamAssumption DEF CutAt, StreamTypes
<1> DEFINE e == o[c + 1]
<1>6. e \in 0 .. Len(b) /\ e \in Nat BY <1>4, <1>5
<1>7. \E m \in e .. Len(b) :
         holds = IoError \/ (holds = SubSeq(b, e + 1, m) /\ wire = SubSeq(b, m + 1, Len(b)))
  <2>1. \/ holds = IoError
        \/ \E m \in e .. Len(b) : holds = SubSeq(b, e + 1, m) /\ wire = SubSeq(b, m + 1, Len(b))
    BY <1>0, <1>3, <1>5 DEF CutAt
  <2>2. e \in e .. Len(b) BY <1>4, <1>6
  <2> QED BY <2>1, <2>2
<1>8. PICK m \in e .. Len(b) :
         holds = IoError \/ (holds = SubSeq(b, e + 1, m) /\ wire = SubSeq(b, m + 1, Len(b))) BY <1>7
<1> DEFINE o1 == Append(o, m)
<1>9. /\ m \in 0 .. Len(b) /\ o1 \in Seq(0 .. Len(b)) /\ Len(o1) = c + 2
      /\ (\A i \in 1 .. c + 1 : o1[i] = o[i]) /\ o1[c + 2] = m BY <1>4, <1>6, <1>5
<1>10. Len(channel') = c + 1 /\ channel' \in Seq(Chunk) /\ (\A i \in 1 .. c : channel'[i] = channel[i])
       /\ channel'[c + 1] = holds BY <1>0, <1>5
<1>11. \A i \in 1 .. c : /\ o[i] <= o[i + 1]
                         /\ channel[i] = IoError \/ channel[i] = SubSeq(b, o[i] + 1, o[i + 1])
  BY <1>3 DEF CutAt
<1> HIDE DEF e, o1
<1>12. ASSUME NEW i \in 1 .. c + 1
       PROVE  /\ o1[i] <= o1[i + 1]
              /\ channel'[i] = IoError \/ channel'[i] = SubSeq(b, o1[i] + 1, o1[i + 1])
  <2>1. CASE i = c + 1
    <3>1. o1[i] = e /\ o1[i + 1] = m /\ e <= m BY <1>5, <1>6, <1>8, <1>9, <2>1 DEF e
    <3> QED BY <1>8, <1>10, <2>1, <3>1
  <2>2. CASE i # c + 1
    <3>1. i \in 1 .. c /\ i \in 1 .. c + 1 /\ i + 1 \in 1 .. c + 1 BY <1>5, <2>2
    <3> QED BY <1>9, <1>10, <1>11, <3>1
  <2> QED BY <2>1, <2>2
<1>13. o1[1] = o[1] /\ received' = SubSeq(b, 1, o1[1])
  <2>1. 1 \in 1 .. c + 1 /\ received = SubSeq(b, 1, o[1]) BY <1>3, <1>5 DEF CutAt
  <2> QED BY <1>0, <1>9, <2>1
<1>14. /\ bodyReader'[attempt'] \in {"over", "read"}
       /\ bodyReader'[attempt'] = "read" => wire' = SubSeq(b, m + 1, Len(b))
  BY <1>0, <1>1, <1>8 DEF StreamTypes
<1>15. CutAt(b, o1)' BY <1>5, <1>9, <1>10, <1>14, <1>12, <1>13 DEF CutAt
<1>16. StreamGoes' BY <1>0, <1>3, <1>13, <1>15 DEF StreamGoes
<1>17. StreamTypes' BY <1>0, <1>5, <1>10, <1>1 DEF Chunk, StreamTypes
<1> QED BY <1>0, <1>1, <1>16, <1>17 DEF StreamInv, PushedSo

\* The reader of an attempt that was given up.
LEMMA AbandonedKeeps ==
    ASSUME StreamInv, NEW a \in Attempt, Abandoned(a)
    PROVE  StreamInv'
<1>1. /\ ~ (a = attempt /\ ask = "stream")
      /\ bodyReader' = [bodyReader EXCEPT ![a] = IF @ = "read" THEN "put" ELSE "over"]
      /\ UNCHANGED <<attempt, ask, wire, holds, channel, stream, pushed, received, failed>>
  BY DEF Abandoned, Listening
<1>2. StreamTypes' BY <1>1 DEF StreamInv, StreamTypes
<1>3. ASSUME ask = "stream" PROVE StreamGoes'
  <2>1. bodyReader'[attempt] = bodyReader[attempt] BY <1>1, <1>3 DEF StreamInv, StreamTypes
  <2>2. PICK b \in Body : \E o : CutAt(b, o) /\ Going(b, o[1], stream) BY <1>3 DEF StreamInv, StreamGoes
  <2>3. PICK o : CutAt(b, o) /\ Going(b, o[1], stream) BY <2>2
  <2>4. CutAt(b, o)' BY <1>1, <2>1, <2>3 DEF CutAt
  <2> QED BY <1>1, <2>3, <2>4 DEF StreamGoes
<1>4. (ask \in {"stream", "ok"} => stream.content \in Seq(Words) /\ PushedSo(stream.content))'
  BY <1>1 DEF StreamInv, PushedSo
<1> QED BY <1>1, <1>2, <1>3, <1>4 DEF StreamInv

\* A request that is not tried again.
LEMMA PermanentKeeps ==
    ASSUME StreamInv, PermanentError
    PROVE  StreamInv'
<1>1. ask' = "error" /\ UNCHANGED <<attempt, bodyReader, wire, holds, channel, stream, pushed, received, failed>>
  BY DEF PermanentError
<1>2. StreamTypes' BY <1>1 DEF StreamInv, StreamTypes
<1> QED BY <1>1, <1>2 DEF StreamInv

\* More of the text goes to the sink.
LEMMA PushedMore ==
    ASSUME StreamTypes, NEW text \in Seq(Words), NEW more \in Seq(Words), PushedSo(text),
           pushed' = pushed \o more, UNCHANGED failed
    PROVE  /\ \E pre \in Seq(Words) : Len(pre) = failed' /\ pushed' = pre \o (text \o more)
           /\ pushed' \in Seq(Words) /\ failed' \in 0 .. Len(pushed')
<1>1. PICK pre \in Seq(Words) : Len(pre) = failed /\ pushed = pre \o text BY DEF PushedSo
<1>2. pushed' = pre \o (text \o more) /\ text \o more \in Seq(Words)
  <2>1. (pre \o text) \o more = pre \o (text \o more) /\ text \o more \in Seq(Words)
    <3>1. (pre \o text) \o more = pre \o (text \o more) BY ListsJoin, SMTT(30)
    <3>2. text \o more \in Seq(Words) OBVIOUS
    <3> QED BY <3>1, <3>2
  <2> QED BY <1>1, <2>1
<1>3. pushed' \in Seq(Words) BY <1>2, ListsJoin
<1>4. failed \in 0 .. Len(pushed') BY <1>2, JoinedLength, <1>1
<1> QED BY <1>1, <1>2, <1>3, <1>4

\* finish, with locals that answer what arrived.
LEMMA FinishKeeps ==
    ASSUME StreamInv, ask = "stream", NEW s \in StreamState, NEW rest \in Seq(Words), Finish(s, rest),
           Answers(received', s), NewText(s) \in Seq(Words), s.content = stream.content \o (rest \o NewText(s)),
           channel' \in Seq(Chunk), Len(channel') <= Room, UNCHANGED <<attempt, bodyReader, holds, failed>>
    PROVE  StreamInv'
<1>0. StreamTypes /\ stream.content \in Seq(Words) /\ PushedSo(stream.content) BY DEF StreamInv
<1>1. /\ stream'.content = s.content /\ pushed' = pushed \o rest \o NewText(s)
      /\ ask' = IF Incomplete(s) THEN "invalid" ELSE "ok" BY MarksFlushed DEF Finish
<1>2. rest \o NewText(s) \in Seq(Words) /\ pushed' = pushed \o (rest \o NewText(s))
  <2>1. pushed \in Seq(Words) BY <1>0 DEF StreamTypes
  <2>2. (pushed \o rest) \o NewText(s) = pushed \o (rest \o NewText(s)) /\ rest \o NewText(s) \in Seq(Words)
    BY <2>1, ListsJoin
  <2> QED BY <1>1, <2>2
<1>3. PushedSo(stream.content)' /\ pushed' \in Seq(Words) /\ failed' \in 0 .. Len(pushed')
  <2>1. /\ \E pre \in Seq(Words) : Len(pre) = failed' /\ pushed' = pre \o (stream.content \o (rest \o NewText(s)))
        /\ pushed' \in Seq(Words) /\ failed' \in 0 .. Len(pushed') BY <1>0, <1>2, PushedMore
  <2> QED BY <1>1, <2>1 DEF PushedSo
<1>4. s.content \in Seq(Words) BY DEF StreamState
<1>5. Broken(received') <=> Incomplete(s) BY FinishTells
<1>6. s.content = TextOf(received') BY DEF Answers
<1>7. StreamTypes' BY <1>0, <1>1, <1>3 DEF StreamTypes
<1> QED BY <1>1, <1>3, <1>4, <1>5, <1>6, <1>7 DEF StreamInv

\* A chunk carries the locals from its first symbol to its last; the end of the
\* body or [DONE] turns them into the answer.
LEMMA ReceiveKeeps ==
    ASSUME StreamInv, Receive
    PROVE  StreamInv'
<1> DEFINE x == Head(channel)
<1>0. ask = "stream" /\ channel # <<>> /\ UNCHANGED bodyReader BY DEF Receive
<1>1. StreamTypes /\ StreamGoes /\ stream.content \in Seq(Words) /\ PushedSo(stream.content)
  BY <1>0 DEF StreamInv
<1>2. PICK b \in Body : \E o : CutAt(b, o) /\ Going(b, o[1], stream) BY <1>1 DEF StreamGoes
<1>3. PICK o : CutAt(b, o) /\ Going(b, o[1], stream) BY <1>2
<1>4. b \in Seq(Symbol) /\ Len(b) \in Nat BY DEF Body
<1>5. channel \in Seq(Chunk) /\ Len(channel) <= Room /\ Room \in Nat BY <1>1, StreamAssumption DEF StreamTypes
<1> DEFINE c == Len(channel)
<1>6. /\ c \in Nat \ {0} /\ x = channel[1] /\ Tail(channel) \in Seq(Chunk) /\ Len(Tail(channel)) = c - 1
      /\ \A i \in 1 .. c - 1 : Tail(channel)[i] = channel[i + 1] BY <1>0, <1>5
<1>7. Len(Tail(channel)) <= Room BY <1>5, <1>6
<1>8. o \in Seq(0 .. Len(b)) /\ Len(o) = c + 1 /\ received = SubSeq(b, 1, o[1]) BY <1>3 DEF CutAt
<1>9. \A i \in 1 .. c : /\ o[i] <= o[i + 1]
                        /\ channel[i] = IoError \/ channel[i] = SubSeq(b, o[i] + 1, o[i + 1])
  BY <1>3 DEF CutAt
<1>10. o[1] \in 0 .. Len(b) /\ o[2] \in 0 .. Len(b) BY <1>6, <1>8
<1>11. 1 \in 1 .. c /\ 1 + 1 = 2 BY <1>6
<1>12. o[1] <= o[2] /\ (x = IoError \/ x = SubSeq(b, o[1] + 1, o[2])) BY <1>6, <1>9, <1>11
<1> HIDE DEF x, c
<1>13. CASE x = IoError /\ Retry /\ UNCHANGED pushed BY <1>0, <1>13, RetryKeeps
<1>14. ASSUME x = Eof, channel' = Tail(channel), UNCHANGED <<attempt, wire, holds, received, failed>>,
              NEW s, s = IF stream.pending = <<>> THEN stream ELSE ProcessEvent(stream, stream.pending),
              IF s.bad THEN ask' = "invalid" /\ stream' = s /\ UNCHANGED pushed ELSE Finish(s, <<>>)
       PROVE  StreamInv'
  <2>1. /\ s \in StreamState /\ (s.bad => Unparsable(received))
        /\ ~ s.bad => /\ Answers(received, s) /\ NewText(s) \in Seq(Words)
                      /\ s.content = stream.content \o NewText(s)
    <3>1. Going(b, o[1], stream) /\ received = SubSeq(b, 1, o[1]) /\ o[1] \in 0 .. Len(b) BY <1>3, <1>8, <1>10
    <3>2. /\ stream.pending = <<>> => s = stream
          /\ stream.pending # <<>> => s = ProcessEvent(stream, stream.pending) BY <1>14
    <3>3. ASSUME NEW n, NEW r, NEW z, n = o[1], r = received, z = stream
          PROVE  /\ s \in StreamState /\ (s.bad => Unparsable(r))
                 /\ ~ s.bad => /\ Answers(r, s) /\ NewText(s) \in Seq(Words)
                               /\ s.content = z.content \o NewText(s)
      <4>1. Going(b, n, z) /\ r = SubSeq(b, 1, n) /\ n \in 0 .. Len(b) BY <3>1, <3>3
      <4>2. (z.pending = <<>> => s = z) /\ (z.pending # <<>> => s = ProcessEvent(z, z.pending)) BY <3>2, <3>3
      <4> HIDE <3>3
      <4> QED BY <4>1, <4>2, EndArrives, ZenonT(60)
    <3> QED BY <3>3
  <2>2. CASE s.bad
    <3>1. Broken(received') BY <1>14, <2>1, <2>2 DEF Broken
    <3>2. StreamTypes' BY <1>0, <1>1, <1>6, <1>7, <1>14, <2>2 DEF StreamTypes
    <3> QED BY <1>14, <2>2, <3>1, <3>2 DEF StreamInv
  <2>3. CASE ~ s.bad
    <3>1. <<>> \in Seq(Words) /\ <<>> \o NewText(s) = NewText(s) BY <2>1, <2>3
    <3> HIDE <1>14
    <3> QED BY <1>0, <1>6, <1>7, <1>14, <2>1, <2>3, <3>1, FinishKeeps
  <2> QED BY <2>2, <2>3
<1>15. ASSUME x \notin {Eof, IoError}, received' = received \o x, channel' = Tail(channel),
              UNCHANGED <<attempt, wire, holds, failed>>,
              NEW p, p = TakeChunk(x),
              IF p.s.done THEN Finish(p.s, p.out)
                          ELSE /\ stream' = p.s /\ pushed' = pushed \o p.out
                               /\ ask' = IF p.s.bad THEN "invalid" ELSE ask
       PROVE  StreamInv'
  <2>1. x = SubSeq(b, o[1] + 1, o[2]) /\ o[2] \in o[1] .. Len(b) BY <1>10, <1>12, <1>15
  <2>2. TakenTo(b, o[2], stream.content, p) BY <1>3, <1>10, <1>15, <2>1, ChunkTaken
  <2>3. received' = SubSeq(b, 1, o[2])
    <3>1. o[1] \in Nat /\ o[2] \in Nat /\ o[1] <= o[2] /\ o[2] <= Len(b) BY <1>4, <1>10, <1>12
    <3>2. SubSeq(b, 1, o[1]) \o SubSeq(b, o[1] + 1, o[2]) = SubSeq(b, 1, o[2]) BY <1>4, <3>1, PartsJoin
    <3> QED BY <1>8, <1>15, <2>1, <3>2
  <2>4. p.s \in StreamState /\ p.out \in Seq(Words) BY <2>2 DEF TakenTo
  <2>5. CASE Stopped(b, o[2], p.s) /\ p.s.content = stream.content \o p.out
    <3>1. p.s.done /\ p.s.flushed = Len(p.s.content) BY <2>5 DEF Stopped
    <3>2. PICK e \in 0 .. o[2] : Clean(b, e) /\ Built(b, e, p.s) /\ Over(b, e, o[2])
      BY <1>10, <2>5, StoppedOver
    <3>3. Answers(received', p.s) BY <1>10, <2>3, <3>2, AnswerHolds
    <3>4. NewText(p.s) = <<>> /\ <<>> \in Seq(Words)
      <4>1. p.s.content \in Seq(Words) /\ <<>> \in Seq(Words) BY <2>4 DEF StreamState
      <4>2. p.s.content = p.s.content \o <<>> BY <4>1
      <4> QED BY <2>4, <3>1, <4>1, <4>2, TextIsNew
    <3>5. p.out \o <<>> = p.out BY <2>4
    <3>6. Finish(p.s, p.out) BY <1>15, <3>1
    <3> QED BY <1>0, <1>6, <1>7, <1>15, <2>4, <2>5, <3>3, <3>4, <3>5, <3>6, FinishKeeps
  <2>6. CASE Spoilt(b, o[2], p.s)
    <3>1. p.s.bad /\ ~ p.s.done /\ \E e \in 0 .. o[2] : Clean(b, e) /\ Odd(b, e, o[2]) BY <2>6 DEF Spoilt
    <3>2. Unparsable(received') BY <1>10, <2>3, <3>1, OddSeen
    <3>3. Broken(received') /\ ask' = "invalid" /\ pushed' = pushed \o p.out BY <1>15, <3>1, <3>2 DEF Broken
    <3>4. pushed' \in Seq(Words) /\ failed' \in 0 .. Len(pushed') BY <1>1, <1>15, <2>4, <3>3, PushedMore
    <3>5. StreamTypes' BY <1>0, <1>1, <1>6, <1>7, <1>15, <3>3, <3>4 DEF StreamTypes
    <3> QED BY <3>3, <3>5 DEF StreamInv
  <2>7. CASE Going(b, o[2], p.s) /\ p.s.content = stream.content \o p.out
    <3>1. ~ p.s.done /\ ~ p.s.bad BY <2>7 DEF Going
    <3>2. stream' = p.s /\ pushed' = pushed \o p.out /\ ask' = "stream" BY <1>0, <1>15, <3>1
    <3>3. PushedSo(stream.content)' /\ pushed' \in Seq(Words) /\ failed' \in 0 .. Len(pushed')
      <4>1. /\ \E pre \in Seq(Words) : Len(pre) = failed' /\ pushed' = pre \o (stream.content \o p.out)
            /\ pushed' \in Seq(Words) /\ failed' \in 0 .. Len(pushed') BY <1>1, <1>15, <2>4, <3>2, PushedMore
      <4> QED BY <2>7, <3>2, <4>1 DEF PushedSo
    <3>4. StreamTypes' BY <1>0, <1>1, <1>6, <1>7, <1>15, <3>2, <3>3 DEF StreamTypes
    <3> DEFINE o1 == Tail(o)
    <3>5. o1 \in Seq(0 .. Len(b)) /\ Len(o1) = c /\ \A i \in 1 .. c : o1[i] = o[i + 1] BY <1>6, <1>8
    <3>6. Len(channel') = c - 1 /\ \A i \in 1 .. c - 1 : channel'[i] = channel[i + 1] BY <1>6, <1>15
    <3> HIDE DEF o1
    <3>7. ASSUME NEW i \in 1 .. c - 1
          PROVE  /\ o1[i] <= o1[i + 1]
                 /\ channel'[i] = IoError \/ channel'[i] = SubSeq(b, o1[i] + 1, o1[i + 1])
      <4>1. i \in 1 .. c /\ i + 1 \in 1 .. c BY <1>6
      <4> QED BY <1>9, <3>5, <3>6, <4>1
    <3>8. o1[1] = o[2] /\ o1[Len(o1)] = o[Len(o)] /\ Len(o1) = Len(channel') + 1
      BY <1>6, <1>8, <1>11, <3>5, <3>6
    <3>9. CutAt(b, o1)' BY <1>3, <1>0, <1>15, <2>3, <3>5, <3>6, <3>7, <3>8 DEF CutAt
    <3>10. StreamGoes' BY <2>7, <3>2, <3>8, <3>9 DEF StreamGoes
    <3>11. p.s.content \in Seq(Words) BY <2>4 DEF StreamState
    <3> QED BY <3>2, <3>3, <3>4, <3>10, <3>11 DEF StreamInv
  <2> QED BY <2>2, <2>5, <2>6, <2>7 DEF TakenTo
<1>16. QED BY <1>0, <1>13, <1>14, <1>15 DEF Receive, x

\* Every action keeps the invariant.
LEMMA StreamStep ==
    ASSUME StreamInv, [StreamNext]_streamVars
    PROVE  StreamInv'
<1>1. CASE SendFails BY <1>1, RetryKeeps DEF SendFails
<1>2. CASE TimesOut BY <1>2, RetryKeeps DEF TimesOut
<1>3. CASE PermanentError BY <1>3, PermanentKeeps
<1>4. CASE Answered BY <1>4, AnsweredKeeps
<1>5. CASE Receive BY <1>5, ReceiveKeeps
<1>6. CASE \E a \in Attempt : Read(a) \/ Put(a) \/ Abandoned(a) BY <1>6, ReadKeeps, PutKeeps, AbandonedKeeps
<1>7. CASE UNCHANGED streamVars BY <1>7, ZenonT(60) DEF streamVars, StreamInv, StreamTypes, StreamGoes, CutAt, PushedSo
<1> QED BY <1>1, <1>2, <1>3, <1>4, <1>5, <1>6, <1>7 DEF StreamNext

\* The invariant at the end of a request.
LEMMA StreamInvTells ==
    ASSUME StreamInv
    PROVE  StreamTypeOK /\ StreamSound
<1>1. StreamTypeOK BY DEF StreamInv, StreamTypes, StreamTypeOK
<1>2. ASSUME ask \in {"stream", "ok"}
      PROVE  SubSeq(pushed, failed + 1, Len(pushed)) = stream.content
  <2>1. stream.content \in Seq(Words) /\ PushedSo(stream.content) BY <1>2 DEF StreamInv
  <2>2. PICK pre \in Seq(Words) : Len(pre) = failed /\ pushed = pre \o stream.content BY <2>1 DEF PushedSo
  <2>3. Len(pushed) = failed + Len(stream.content) BY <2>1, <2>2
  <2>4. SubSeq(pre \o stream.content, Len(pre) + 1, Len(pre) + Len(stream.content)) = stream.content
    BY <2>1, ListEnds
  <2> QED BY <2>2, <2>3, <2>4
<1>3. StreamSound BY <1>2 DEF StreamInv, StreamSound
<1> QED BY <1>1, <1>3

\* For every body of lines, every cut of it into chunks, every speed of the
\* reader and any number of attempts: the answer of a request that succeeds is
\* the text of the lines that arrived up to the first [DONE], the sink got that
\* text once and in order after what failed attempts had pushed, and a stream is
\* refused if and only if an event of it does not parse or a tool call is in parts.
THEOREM StreamIsSound == StreamSpec => [](StreamTypeOK /\ StreamSound)
<1>1. StreamInit => StreamInv BY StreamBegins
<1>2. StreamInv /\ [StreamNext]_streamVars => StreamInv' BY StreamStep
<1>3. StreamInv => StreamTypeOK /\ StreamSound BY StreamInvTells
<1> QED BY <1>1, <1>2, <1>3, PTL DEF StreamSpec
===============================================================================
