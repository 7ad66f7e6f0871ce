---------------------------- MODULE SnapshotProofs ----------------------------
(***************************************************************************)
(* Proofs about SnapshotLifecycle for any number of threads and snapshots: *)
(* the directory of a snapshot in use stays on disk; what is current or    *)
(* staged is not listed for removal; a promotion takes the candidate it    *)
(* expects; and, when one thread at a time replaces the current snapshot,  *)
(* no directory is forgotten.  And about PluginRuntime, for any tree of    *)
(* plugins: what the loader reports, which marks an entry gets, and that   *)
(* the libraries of background threads stay mapped.  And about SnapshotGc, *)
(* for any number of hosts and collectors: a root that nobody has touched  *)
(* since the scan is an orphan when it is removed.                         *)
(***************************************************************************)
EXTENDS SnapshotLifecycle, PluginRuntime, SnapshotGc, WellFoundedInduction, TLAPS

\* A set of numbers has a least one.
LEMMA LeastNumber ==
    ASSUME NEW T, T \subseteq Nat, T # {}
    PROVE  \E n \in T : \A m \in T : n <= m
<1>1. PICK n \in T : \A m \in T : <<m, n>> \notin OpToRel(<, Nat) BY NatLessThanWellFounded, WFMin
<1>2. \A m \in T : ~ (m < n) BY <1>1 DEF OpToRel
<1>3. n \in Nat /\ \A m \in T : m \in Nat OBVIOUS
<1>4. \A m \in T : n <= m BY <1>2, <1>3
<1> QED BY <1>4

\* Induction, for a set of numbers.
LEMMA SetInduction ==
    ASSUME NEW P, 0 \in P, \A n \in Nat : n \in P => n + 1 \in P
    PROVE  Nat \subseteq P
<1> DEFINE T == Nat \ P
<1> SUFFICES ASSUME T # {} PROVE FALSE OBVIOUS
<1>1. T \subseteq Nat OBVIOUS
<1> HIDE DEF T
<1>2. PICK n \in T : \A m \in T : n <= m BY <1>1, LeastNumber
<1> USE DEF T
<1>3. n \in Nat \ {0} BY <1>2
<1>4. n - 1 \in Nat /\ n - 1 \in P BY <1>2, <1>3
<1> QED BY <1>2, <1>3, <1>4

\* The table of Retained, up to its k-th entry.
Sweeps(s, S, k, f) ==
    f = [n \in 0 .. k |-> IF n = 0 THEN <<>>
                          ELSE IF s[n] \in S THEN Append(f[n - 1], s[n]) ELSE f[n - 1]]

\* There is such a table.
LEMMA SweepExists ==
    ASSUME NEW s, NEW S
    PROVE  \A k \in Nat : \E f : Sweeps(s, S, k, f)
<1> DEFINE P == {k \in Nat : \E f : Sweeps(s, S, k, f)}
<1>1. 0 \in P
  <2> DEFINE f == [n \in 0 .. 0 |-> <<>>]
  <2>1. Sweeps(s, S, 0, f) BY DEF Sweeps
  <2> QED BY <2>1
<1>2. ASSUME NEW k \in Nat, k \in P PROVE k + 1 \in P
  <2>1. PICK f : Sweeps(s, S, k, f) BY <1>2
  <2> DEFINE last == IF s[k + 1] \in S THEN Append(f[k], s[k + 1]) ELSE f[k]
             g == [n \in 0 .. k + 1 |-> IF n = k + 1 THEN last ELSE f[n]]
  <2>2. \A n \in 0 .. k : g[n] = f[n] OBVIOUS
  <2>3. g[k + 1] = last OBVIOUS
  <2>4. ASSUME NEW n \in 0 .. k + 1
        PROVE  g[n] = IF n = 0 THEN <<>>
                      ELSE IF s[n] \in S THEN Append(g[n - 1], s[n]) ELSE g[n - 1]
    <3>1. CASE n = k + 1
      <4>1. n - 1 = k /\ k \in 0 .. k /\ n # 0 BY <3>1
      <4> HIDE DEF g
      <4> QED BY <2>2, <2>3, <3>1, <4>1
    <3>2. CASE n # k + 1
      <4>1. n \in 0 .. k /\ (n # 0 => n - 1 \in 0 .. k) BY <3>2
      <4>2. f[n] = IF n = 0 THEN <<>>
                   ELSE IF s[n] \in S THEN Append(f[n - 1], s[n]) ELSE f[n - 1] BY <2>1, <4>1 DEF Sweeps
      <4> HIDE DEF g
      <4> QED BY <2>2, <4>1, <4>2
    <3> QED BY <3>1, <3>2
  <2>5. g = [n \in 0 .. k + 1 |-> g[n]] OBVIOUS
  <2> HIDE DEF g
  <2>6. Sweeps(s, S, k + 1, g) BY <2>4, <2>5 DEF Sweeps
  <2> QED BY <2>6
<1> HIDE DEF P
<1>3. Nat \subseteq P BY <1>1, <1>2, SetInduction
<1> QED BY <1>3 DEF P

\* What Retained is: the last entry of the table.
LEMMA RetainedFromSweep ==
    ASSUME NEW s, NEW S, Len(s) \in Nat
    PROVE  \E f : Sweeps(s, S, Len(s), f) /\ Retained(s, S) = f[Len(s)]
<1>1. PICK g : Sweeps(s, S, Len(s), g) BY SweepExists
<1>2. g = [n \in 0 .. Len(s) |-> IF n = 0 THEN <<>>
                          ELSE IF s[n] \in S THEN Append(g[n - 1], s[n]) ELSE g[n - 1]] BY <1>1 DEF Sweeps
<1> QED BY <1>2, Zenon DEF Retained, Sweeps

\* Retained keeps a sequence a sequence, and of its elements those in S.
LEMMA RetainedElements ==
    ASSUME NEW A, NEW s \in Seq(A), NEW S
    PROVE  Retained(s, S) \in Seq(A) /\ ToSet(Retained(s, S)) = ToSet(s) \cap S
<1>1. Len(s) \in Nat /\ DOMAIN s = 1 .. Len(s) OBVIOUS
<1>2. PICK f : Sweeps(s, S, Len(s), f) /\ Retained(s, S) = f[Len(s)] BY <1>1, RetainedFromSweep
<1>3. \A n \in 0 .. Len(s) : f[n] = IF n = 0 THEN <<>>
                 ELSE IF s[n] \in S THEN Append(f[n - 1], s[n]) ELSE f[n - 1] BY <1>1, <1>2 DEF Sweeps
<1> DEFINE P == {n \in Nat : n <= Len(s) =>
                    f[n] \in Seq(A) /\ ToSet(f[n]) = {s[i] : i \in 1 .. n} \cap S}
<1>4. 0 \in P
  <2>1. f[0] = <<>> BY <1>1, <1>3
  <2>2. ToSet(<<>>) = {} /\ {s[i] : i \in 1 .. 0} = {} BY DEF ToSet
  <2>3. f[0] \in Seq(A) /\ ToSet(f[0]) = {s[i] : i \in 1 .. 0} \cap S BY <2>1, <2>2
  <2> QED BY <2>3
<1>5. ASSUME NEW n \in Nat, n \in P PROVE n + 1 \in P
  <2> SUFFICES ASSUME n + 1 <= Len(s)
               PROVE  f[n + 1] \in Seq(A) /\ ToSet(f[n + 1]) = {s[i] : i \in 1 .. n + 1} \cap S OBVIOUS
  <2>1. f[n] \in Seq(A) /\ ToSet(f[n]) = {s[i] : i \in 1 .. n} \cap S BY <1>1, <1>5
  <2>2. n + 1 \in 1 .. Len(s) /\ n + 1 \in 0 .. Len(s) /\ (n + 1) - 1 = n /\ n + 1 # 0 BY <1>1
  <2>3. f[n + 1] = IF s[n + 1] \in S THEN Append(f[n], s[n + 1]) ELSE f[n] BY <1>3, <2>2
  <2>4. s[n + 1] \in A BY <1>1, <2>2
  <2>5. {s[i] : i \in 1 .. n + 1} = {s[i] : i \in 1 .. n} \cup {s[n + 1]} OBVIOUS
  <2> HIDE DEF P
  <2>6. CASE s[n + 1] \in S
    <3> DEFINE q == f[n]
               x == s[n + 1]
    <3>1. ToSet(Append(q, x)) = ToSet(q) \cup {x}
      <4>0. q \in Seq(A) /\ x \in A BY <2>1, <2>4
      <4> HIDE DEF q, x
      <4>1. /\ DOMAIN Append(q, x) = (1 .. Len(q)) \cup {Len(q) + 1} /\ DOMAIN q = 1 .. Len(q)
            /\ \A i \in 1 .. Len(q) : Append(q, x)[i] = q[i]
            /\ Append(q, x)[Len(q) + 1] = x BY <4>0
      <4> QED BY <4>1 DEF ToSet
    <3>2. Append(q, x) \in Seq(A) BY <2>1, <2>4
    <3> QED BY <2>1, <2>3, <2>5, <2>6, <3>1, <3>2
  <2>7. CASE s[n + 1] \notin S BY <2>1, <2>3, <2>5, <2>7
  <2> QED BY <2>6, <2>7
<1>6. Len(s) \in P
  <2> HIDE DEF P
  <2> QED BY <1>1, <1>4, <1>5, SetInduction
<1>7. f[Len(s)] \in Seq(A) /\ ToSet(f[Len(s)]) = {s[i] : i \in 1 .. Len(s)} \cap S BY <1>1, <1>6
<1>8. ToSet(s) = {s[i] : i \in 1 .. Len(s)} BY <1>1 DEF ToSet
<1> HIDE DEF P
<1> QED BY <1>2, <1>7, <1>8

-----------------------------------------------------------------------------
(* The inductive invariant *)

\* The call of frame f has a snapshot in hand that was not current yet ...
Pending(f) == f.pc \in {"build", "swap", "stage", "promote_swap"}
\* ... and has replaced the one it found.
Replaced(f) == f.pc \in {"take", "retire"}

\* The Arcs a call has at each of its points.
FrameInForm(f) ==
    /\ f.pc = "idle" => f.prev = SnapNone
    /\ f.pc \in {"build", "swap", "take", "stage", "promote_take", "promote_swap", "retire", "work"}
          => f.prev \in Ids
    /\ Pending(f) => f.next \in Ids
    /\ f.pc = "retire_candidate" => f.cand \in Ids
    /\ f.cand # SnapNone => f.pc \in {"retire", "retire_candidate"}
    /\ Pending(f) \/ Replaced(f) \/ f.pc = "promote_take" => f.op # "invoke_candidate"

FramesInForm == \A t \in SnapThreads : FrameInForm(snapTh[t])

\* Somebody uses snapshot i.
InUse(i) == \/ i = snapCurrent \/ i = candidate
            \/ \E t \in SnapThreads : i \in {snapTh[t].prev, snapTh[t].next, snapTh[t].cand}

\* Snapshot i was not current yet, ...
Unborn(i) == i = candidate \/ \E t \in SnapThreads : Pending(snapTh[t]) /\ snapTh[t].next = i
\* ... it was dropped and is or will be listed, ...
Dead(i) ==
    \/ i \in ToSet(retired)
    \/ \E t \in SnapThreads : \/ snapTh[t].cand = i
                              \/ Replaced(snapTh[t]) /\ snapTh[t].prev = i
\* ... or it was current at some time and is still known.
Was(i) == \/ i = snapCurrent \/ Dead(i)
          \/ \E t \in SnapThreads : snapTh[t].op # "invoke_candidate" /\ snapTh[t].prev = i

\* Only what was built is in use.
BuiltOnly == \A i \in Ids : InUse(i) \/ i \in dirs \/ i \in ToSet(retired) => i <= snapBuilt

\* A snapshot goes one way: not current yet, current, and out.
OneWay ==
    /\ \A i \in Ids : Unborn(i) => ~ Was(i)
    /\ \A i \in Ids : Dead(i) => i # snapCurrent

\* A snapshot that is not current yet is in one place, and one that is being
\* built is in nobody else's hands.
OneHolder ==
    \A t \in SnapThreads : Pending(snapTh[t]) =>
        /\ snapTh[t].next # candidate
        /\ \A u \in SnapThreads : u # t /\ Pending(snapTh[u]) => snapTh[u].next # snapTh[t].next
        /\ snapTh[t].pc # "promote_swap" =>
              \A u \in SnapThreads : u # t =>
                  snapTh[t].next \notin {snapTh[u].prev, snapTh[u].next, snapTh[u].cand}

\* What is in use is on disk.
UsedOnDisk == \A i \in Ids : InUse(i) => i \in dirs

\* PinnedDirKept is UsedOnDisk; it needs that nothing in use is ever listed
\* (OneWay), for which a snapshot that is not current yet must be in one place.
SnapSafe == SnapTypeOK /\ FramesInForm /\ BuiltOnly /\ OneWay /\ OneHolder /\ UsedOnDisk

-----------------------------------------------------------------------------
(* One thread that replaces the current snapshot *)

\* Only one thread calls what replaces the current snapshot.
OneSwapper ==
    \A t, u \in SnapThreads :
        SnapOps[t] \cap {"reload", "promote"} # {} /\ SnapOps[u] \cap {"reload", "promote"} # {}
            => t = u

\* Somebody answers for snapshot i.
Anchored(i) == i = snapCurrent \/ Unborn(i) \/ Dead(i)

\* A call does what its thread may do, and one that will replace the current
\* snapshot has it.
SwapperFrame(t, f) ==
    /\ f.op # SnapNone => f.op \in SnapOps[t]
    /\ f.pc \in {"swap", "take"} => f.op = "reload"
    /\ f.pc \in {"promote_take", "promote_swap"} => f.op = "promote"
    /\ f.pc \in {"build", "swap", "promote_take", "promote_swap"} /\ f.op \in {"reload", "promote"}
          => f.prev = snapCurrent
SwapperCurrent == \A t \in SnapThreads : SwapperFrame(t, snapTh[t])

\* NoOrphanDir needs that the snapshot a call replaces is the one it read.
SnapComplete == SnapSafe /\ SwapperCurrent /\ \A i \in dirs : Anchored(i)

-----------------------------------------------------------------------------
(* Steps *)

\* One call moves and its frame becomes this.
Moved(t, pc, op, prev, next, cand) ==
    /\ snapTh' \in [SnapThreads -> SnapFrames]
    /\ /\ snapTh'[t].pc = pc /\ snapTh'[t].op = op /\ snapTh'[t].prev = prev
       /\ snapTh'[t].next = next /\ snapTh'[t].cand = cand
    /\ \A u \in SnapThreads : u # t => snapTh'[u] = snapTh[u]

\* The fields of a frame.
LEMMA FrameFields ==
    ASSUME SnapTypeOK, NEW t \in SnapThreads
    PROVE  /\ snapTh[t] \in SnapFrames
           /\ DOMAIN snapTh[t] = {"pc", "op", "prev", "next", "cand", "want", "mine"}
           /\ snapTh[t].pc \in SnapPoints /\ snapTh[t].op \in SnapOpNames \cup {SnapNone}
           /\ snapTh[t].prev \in Maybe /\ snapTh[t].next \in Maybe /\ snapTh[t].cand \in Maybe
           /\ snapTh[t].mine \in Maybe
           /\ snapCurrent \in Maybe /\ candidate \in Maybe /\ SnapNone \in Maybe
<1>1. snapTh[t] \in SnapFrames BY DEF SnapTypeOK
<1> QED BY <1>1 DEF SnapFrames, SnapTypeOK, Maybe

-----------------------------------------------------------------------------
(* What each step makes of the frame of its call *)

\* A call that returns has nothing any more.
LEMMA Returning ==
    ASSUME SnapTypeOK, NEW t \in SnapThreads, SnapReturns(t)
    PROVE  Moved(t, "idle", SnapNone, SnapNone, SnapNone, SnapNone)
<1>1. Done(snapTh[t]) \in SnapFrames BY FrameFields DEF Done, SnapFrames, SnapPoints
<1> QED BY <1>1, FrameFields DEF SnapReturns, SnapTypeOK, Moved, Done

\* A reload begins with the current snapshot and the next number.
LEMMA BuildBegins ==
    ASSUME SnapTypeOK, NEW t \in SnapThreads, BuildBegin(t)
    PROVE  /\ snapTh[t].pc = "idle" /\ snapBuilt + 1 \in Ids /\ snapBuilt' = snapBuilt + 1
           /\ \E op \in SnapOps[t] \cap {"reload", "reload_candidate"} :
                Moved(t, "build", op, snapCurrent, snapBuilt + 1, snapTh[t].cand)
<1>1. PICK op \in {"reload", "reload_candidate"} :
         /\ SnapCalling(t, op)
         /\ snapTh' = [snapTh EXCEPT ![t].pc = "build", ![t].op = op, ![t].prev = snapCurrent,
                             ![t].next = snapBuilt + 1] BY DEF BuildBegin
<1>2. snapBuilt + 1 \in Ids /\ snapBuilt' = snapBuilt + 1 /\ snapBuilt + 1 \in Maybe
  BY SnapshotAssumption DEF BuildBegin, SnapTypeOK, Ids, Maybe
<1>3. [snapTh[t] EXCEPT !.pc = "build", !.op = op, !.prev = snapCurrent, !.next = snapBuilt + 1]
        \in SnapFrames BY <1>2, FrameFields DEF SnapFrames, SnapPoints, SnapOpNames
<1>4. Moved(t, "build", op, snapCurrent, snapBuilt + 1, snapTh[t].cand)
  BY <1>1, <1>3, FrameFields DEF SnapTypeOK, Moved
<1> QED BY <1>1, <1>2, <1>4 DEF SnapCalling, SnapAt

\* A build that succeeds goes on as its operation asks.
LEMMA BuildSucceeds ==
    ASSUME SnapTypeOK, NEW t \in SnapThreads, snapTh' = [snapTh EXCEPT ![t].pc = IF snapTh[t].op = "reload" THEN "swap" ELSE "stage"]
    PROVE  Moved(t, IF snapTh[t].op = "reload" THEN "swap" ELSE "stage", snapTh[t].op, snapTh[t].prev, snapTh[t].next, snapTh[t].cand)
<1>1. [snapTh[t] EXCEPT !.pc = IF snapTh[t].op = "reload" THEN "swap" ELSE "stage"] \in SnapFrames
  BY FrameFields DEF SnapFrames, SnapPoints, SnapOpNames
<1> QED BY <1>1, FrameFields DEF SnapTypeOK, Moved

\* A reload that has swapped keeps the snapshot it replaced.
LEMMA ReloadSwaps ==
    ASSUME SnapTypeOK, NEW t \in SnapThreads, SnapReloadSwap(t)
    PROVE  Moved(t, "take", snapTh[t].op, snapTh[t].prev, snapTh[t].next, snapTh[t].cand)
<1>1. [snapTh[t] EXCEPT !.pc = "take"] \in SnapFrames BY FrameFields DEF SnapFrames, SnapPoints, SnapOpNames
<1> QED BY <1>1, FrameFields DEF SnapTypeOK, Moved, SnapReloadSwap

\* It takes the candidate, if there is one.
LEMMA ReloadTakes ==
    ASSUME SnapTypeOK, NEW t \in SnapThreads, ReloadTake(t)
    PROVE  Moved(t, "retire", snapTh[t].op, snapTh[t].prev, snapTh[t].next, candidate)
<1>1. [snapTh[t] EXCEPT !.pc = "retire", !.cand = candidate] \in SnapFrames
  BY FrameFields DEF SnapFrames, SnapPoints, SnapOpNames
<1> QED BY <1>1, FrameFields DEF SnapTypeOK, Moved, ReloadTake

\* A staged snapshot is no longer in the hands of its call.
LEMMA Stages ==
    ASSUME SnapTypeOK, NEW t \in SnapThreads, SnapStage(t)
    PROVE  Moved(t, "retain", snapTh[t].op, snapTh[t].prev, SnapNone, snapTh[t].cand)
<1>1. [snapTh[t] EXCEPT !.pc = "retain", !.next = SnapNone, !.mine = snapTh[t].next] \in SnapFrames
  BY FrameFields DEF SnapFrames, SnapPoints, SnapOpNames
<1> QED BY <1>1, FrameFields DEF SnapTypeOK, Moved, SnapStage

\* A promotion begins with the current snapshot.
LEMMA PromoteBegins ==
    ASSUME SnapTypeOK, NEW t \in SnapThreads, PromoteBegin(t)
    PROVE  Moved(t, "promote_take", "promote", snapCurrent, snapTh[t].next, snapTh[t].cand)
<1>1. PICK want \in {SnapNone, snapTh[t].mine} :
         snapTh' = [snapTh EXCEPT ![t].pc = "promote_take", ![t].op = "promote",
                          ![t].prev = snapCurrent, ![t].want = want] BY DEF PromoteBegin
<1>2. [snapTh[t] EXCEPT !.pc = "promote_take", !.op = "promote", !.prev = snapCurrent, !.want = want]
        \in SnapFrames BY FrameFields DEF SnapFrames, SnapPoints, SnapOpNames
<1> QED BY <1>1, <1>2, FrameFields DEF SnapTypeOK, Moved

\* It takes the candidate.
LEMMA PromoteTakes ==
    ASSUME SnapTypeOK, NEW t \in SnapThreads, snapTh' = [snapTh EXCEPT ![t].pc = "promote_swap", ![t].next = candidate]
    PROVE  Moved(t, "promote_swap", snapTh[t].op, snapTh[t].prev, candidate, snapTh[t].cand)
<1>1. [snapTh[t] EXCEPT !.pc = "promote_swap", !.next = candidate] \in SnapFrames
  BY FrameFields DEF SnapFrames, SnapPoints, SnapOpNames
<1> QED BY <1>1, FrameFields DEF SnapTypeOK, Moved

\* A promotion that has swapped keeps the snapshot it replaced.
LEMMA PromoteSwaps ==
    ASSUME SnapTypeOK, NEW t \in SnapThreads, PromoteSwap(t)
    PROVE  Moved(t, "retire", snapTh[t].op, snapTh[t].prev, snapTh[t].next, snapTh[t].cand)
<1>1. [snapTh[t] EXCEPT !.pc = "retire"] \in SnapFrames BY FrameFields DEF SnapFrames, SnapPoints, SnapOpNames
<1> QED BY <1>1, FrameFields DEF SnapTypeOK, Moved, PromoteSwap

\* A rollback begins with nothing in its hands.
LEMMA RollbackChecks ==
    ASSUME SnapTypeOK, NEW t \in SnapThreads, RollbackCheck(t)
    PROVE  Moved(t, "rollback_take", "rollback", snapTh[t].prev, snapTh[t].next, snapTh[t].cand)
<1>1. PICK want \in {SnapNone, snapTh[t].mine} :
         snapTh' = [snapTh EXCEPT ![t].pc = "rollback_take", ![t].op = "rollback",
                             ![t].want = want] BY DEF RollbackCheck
<1>2. [snapTh[t] EXCEPT !.pc = "rollback_take", !.op = "rollback", !.want = want] \in SnapFrames
  BY FrameFields DEF SnapFrames, SnapPoints, SnapOpNames
<1> QED BY <1>1, <1>2, FrameFields DEF SnapTypeOK, Moved

\* It takes the candidate to retire it.
LEMMA RollbackTakes ==
    ASSUME SnapTypeOK, NEW t \in SnapThreads, snapTh' = [snapTh EXCEPT ![t].pc = "retire_candidate", ![t].cand = candidate]
    PROVE  Moved(t, "retire_candidate", snapTh[t].op, snapTh[t].prev, snapTh[t].next, candidate)
<1>1. [snapTh[t] EXCEPT !.pc = "retire_candidate", !.cand = candidate] \in SnapFrames
  BY FrameFields DEF SnapFrames, SnapPoints, SnapOpNames
<1> QED BY <1>1, FrameFields DEF SnapTypeOK, Moved

\* The replaced snapshot leaves the hands of the call.
LEMMA RetiresPrevious ==
    ASSUME SnapTypeOK, NEW t \in SnapThreads, RetirePrevious(t)
    PROVE  Moved(t, IF snapTh[t].cand = SnapNone THEN "retain" ELSE "retire_candidate", snapTh[t].op, SnapNone, snapTh[t].next, snapTh[t].cand)
<1>1. [snapTh[t] EXCEPT !.prev = SnapNone, !.pc = IF snapTh[t].cand = SnapNone THEN "retain" ELSE "retire_candidate"] \in SnapFrames
  BY FrameFields DEF SnapFrames, SnapPoints, SnapOpNames
<1> QED BY <1>1, FrameFields DEF SnapTypeOK, Moved, RetirePrevious

\* So does the candidate it took.
LEMMA RetiresCandidate ==
    ASSUME SnapTypeOK, NEW t \in SnapThreads, RetireCandidate(t)
    PROVE  Moved(t, "retain", snapTh[t].op, snapTh[t].prev, snapTh[t].next, SnapNone)
<1>1. [snapTh[t] EXCEPT !.cand = SnapNone, !.pc = "retain"] \in SnapFrames
  BY FrameFields DEF SnapFrames, SnapPoints, SnapOpNames
<1> QED BY <1>1, FrameFields DEF SnapTypeOK, Moved, RetireCandidate

\* A sweep drops no Arc of its own call.
LEMMA Retains ==
    ASSUME SnapTypeOK, NEW t \in SnapThreads, CleanupRetain(t)
    PROVE  Moved(t, "evict", snapTh[t].op, snapTh[t].prev, snapTh[t].next, snapTh[t].cand)
<1>1. [snapTh[t] EXCEPT !.pc = "evict"] \in SnapFrames BY FrameFields DEF SnapFrames, SnapPoints, SnapOpNames
<1> QED BY <1>1, FrameFields DEF SnapTypeOK, Moved, CleanupRetain

\* An invocation begins with the current snapshot or the candidate.
LEMMA InvokeBegins ==
    ASSUME SnapTypeOK, NEW t \in SnapThreads, SnapInvokeBegin(t)
    PROVE  \E op \in SnapOps[t] \cap {"invoke", "invoke_candidate"}, prev \in Ids :
              /\ Moved(t, "work", op, prev, snapTh[t].next, snapTh[t].cand)
              /\ prev = snapCurrent \/ (prev = candidate /\ op = "invoke_candidate")
<1>1. PICK op \in {"invoke", "invoke_candidate"} :
         /\ SnapCalling(t, op)
         /\ (IF op = "invoke" THEN snapCurrent ELSE candidate) # SnapNone
         /\ snapTh' = [snapTh EXCEPT ![t].pc = "work", ![t].op = op,
                                     ![t].prev = IF op = "invoke" THEN snapCurrent ELSE candidate]
  BY DEF SnapInvokeBegin
<1> DEFINE prev == IF op = "invoke" THEN snapCurrent ELSE candidate
<1>2. prev \in Ids /\ prev \in Maybe /\ (prev = snapCurrent \/ (prev = candidate /\ op = "invoke_candidate"))
  BY <1>1 DEF SnapTypeOK, Maybe
<1>3. snapTh' = [snapTh EXCEPT ![t].pc = "work", ![t].op = op, ![t].prev = prev] BY <1>1
<1> HIDE DEF prev
<1>4. [snapTh[t] EXCEPT !.pc = "work", !.op = op, !.prev = prev] \in SnapFrames
  BY <1>2, FrameFields DEF SnapFrames, SnapPoints, SnapOpNames
<1>5. Moved(t, "work", op, prev, snapTh[t].next, snapTh[t].cand)
  BY <1>3, <1>4, FrameFields DEF SnapTypeOK, Moved
<1> QED BY <1>1, <1>2, <1>5 DEF SnapCalling

\* It keeps it while it works and cleans up.
LEMMA Works ==
    ASSUME SnapTypeOK, NEW t \in SnapThreads, Work(t)
    PROVE  Moved(t, "retain", snapTh[t].op, snapTh[t].prev, snapTh[t].next, snapTh[t].cand)
<1>1. [snapTh[t] EXCEPT !.pc = "retain"] \in SnapFrames BY FrameFields DEF SnapFrames, SnapPoints, SnapOpNames
<1> QED BY <1>1, FrameFields DEF SnapTypeOK, Moved, Work

\* The strong references.
LEMMA StrongInUse ==
    ASSUME SnapTypeOK
    PROVE  \A i : i \in Strong <=> i \in Ids /\ InUse(i)
<1>1. SnapNone \notin Ids BY SnapshotAssumption DEF Ids
<1>2. \A t \in SnapThreads : {snapTh[t].prev, snapTh[t].next, snapTh[t].cand} \subseteq Maybe
  BY DEF SnapTypeOK, SnapFrames
<1>3. \A i : i \in UNION {Held(snapTh[t]) : t \in SnapThreads} <=>
              \E t \in SnapThreads : i \in Held(snapTh[t]) OBVIOUS
<1>4. snapCurrent \in Ids /\ candidate \in Maybe BY DEF SnapTypeOK
<1> QED BY <1>1, <1>2, <1>3, <1>4 DEF Strong, InUse, Held, Maybe

\* A call that has no snapshot in hand that was not current yet, before or
\* after, and drops nothing else.
LEMMA StepAside ==
    ASSUME SnapSafe, NEW t \in SnapThreads,
           NEW pc, NEW op, NEW prev, NEW next, NEW cand, Moved(t, pc, op, prev, next, cand),
           snapLock' \in SnapThreads \cup {SnapNone},
           UNCHANGED <<snapCurrent, candidate, snapBuilt>>,
           retired' \in Seq(Ids), \A i \in ToSet(retired') : Dead(i),
           dirs' \subseteq dirs, \A i \in Ids : InUse(i) /\ i \in dirs => i \in dirs',
           pc \notin {"build", "swap", "stage", "promote_swap", "take", "retire"},
           FrameInForm(snapTh'[t]),
           next \in {SnapNone, snapTh[t].next}, cand \in {SnapNone, snapTh[t].cand},
           \/ prev \in {SnapNone, snapCurrent}
           \/ prev = snapTh[t].prev /\ op = snapTh[t].op
           \/ prev = candidate /\ op = "invoke_candidate"
    PROVE  SnapSafe'
<1>0. SnapNone \notin Ids BY SnapshotAssumption DEF Ids
<1>1. SnapTypeOK' BY DEF SnapSafe, SnapTypeOK, Moved
<1>2. FramesInForm' BY DEF SnapSafe, FramesInForm, Moved
<1>3. \A i \in Ids : InUse(i)' => InUse(i) BY <1>0 DEF Moved, InUse
<1>4. \A i \in Ids : Unborn(i)' => Unborn(i) BY DEF Moved, Unborn, Pending
<1>5. \A i \in Ids : Dead(i)' => Dead(i) BY <1>0 DEF Moved, Dead, Replaced
<1>6. \A i \in Ids : Was(i)' => Was(i) BY <1>0, <1>5 DEF Moved, Was
<1>7. BuiltOnly' BY <1>3 DEF Dead, InUse, SnapSafe, BuiltOnly
<1>8. OneWay' BY <1>4, <1>5, <1>6 DEF SnapSafe, OneWay
<1>9. OneHolder'
  <2> SUFFICES ASSUME NEW u \in SnapThreads, Pending(snapTh'[u])
               PROVE  /\ snapTh'[u].next # candidate
                      /\ \A v \in SnapThreads : v # u /\ Pending(snapTh'[v]) => snapTh'[v].next # snapTh'[u].next
                      /\ snapTh'[u].pc # "promote_swap" =>
                            \A v \in SnapThreads : v # u =>
                                snapTh'[u].next \notin {snapTh'[v].prev, snapTh'[v].next, snapTh'[v].cand}
    BY DEF OneHolder
  <2>1. u # t /\ snapTh'[u] = snapTh[u] /\ Pending(snapTh[u]) BY DEF Moved, Pending
  <2>2. snapTh[u].next \in Ids /\ snapTh[u].next # snapCurrent /\ snapTh[u].next # candidate
    BY <2>1 DEF SnapSafe, FramesInForm, FrameInForm, OneWay, OneHolder, Unborn, Was
  <2>3. \A v \in SnapThreads : v # u /\ Pending(snapTh'[v]) => v # t BY DEF Moved, Pending
  <2>4. ASSUME snapTh[u].pc # "promote_swap"
        PROVE  snapTh[u].next \notin {prev, next, cand} BY <1>0, <2>1, <2>2, <2>4 DEF SnapSafe, OneHolder
  <2> QED BY <2>1, <2>2, <2>3, <2>4 DEF SnapSafe, OneHolder, Moved
<1>10. UsedOnDisk' BY <1>3 DEF SnapSafe, UsedOnDisk
<1> QED BY <1>1, <1>2, <1>7, <1>8, <1>9, <1>10 DEF SnapSafe

\* A snapshot that begins is nobody's.
LEMMA SafeBuildBegin ==
    ASSUME SnapSafe, NEW t \in SnapThreads, BuildBegin(t)
    PROVE  SnapSafe'
<1> DEFINE n == snapBuilt + 1
<1>0. SnapTypeOK /\ SnapNone \notin Ids BY SnapshotAssumption DEF SnapSafe, Ids
<1>1. PICK op \in SnapOps[t] \cap {"reload", "reload_candidate"} :
        Moved(t, "build", op, snapCurrent, n, snapTh[t].cand) BY <1>0, BuildBegins
<1>2. /\ n \in Ids /\ snapBuilt' = n /\ snapTh[t].pc = "idle" /\ dirs' = dirs \cup {n}
      /\ UNCHANGED <<snapCurrent, candidate, retired, snapLock>>
      /\ snapBuilt \in Nat /\ snapCurrent \in Ids
  <2>1. n \in Ids /\ snapBuilt' = n /\ snapTh[t].pc = "idle" BY <1>0, BuildBegins
  <2> QED BY <1>0, <2>1 DEF BuildBegin, SnapTypeOK, Ids
<1>3. \A i \in Ids : InUse(i) \/ i \in dirs \/ i \in ToSet(retired) => i # n
  BY <1>2 DEF SnapSafe, BuiltOnly, Ids
<1>4. snapTh[t].cand = SnapNone BY <1>2 DEF SnapSafe, FramesInForm, FrameInForm
<1> HIDE DEF n
<1>5. SnapTypeOK' BY <1>0, <1>1, <1>2 DEF SnapTypeOK, Moved
<1>6. FramesInForm' BY <1>1, <1>2, <1>4 DEF SnapSafe, FramesInForm, FrameInForm, Moved, Pending, Replaced
<1>7. \A i \in Ids : InUse(i)' => InUse(i) \/ i = n BY <1>1, <1>2, <1>4 DEF Moved, InUse
<1>8. \A i \in Ids : Unborn(i)' => Unborn(i) \/ i = n BY <1>1, <1>2 DEF Moved, Unborn, Pending
<1>9. \A i \in Ids : Dead(i)' => Dead(i) BY <1>0, <1>1, <1>2, <1>4 DEF Moved, Dead, Replaced
<1>10. \A i \in Ids : Was(i)' => Was(i) BY <1>1, <1>2, <1>9 DEF Moved, Was
<1>11. BuiltOnly' BY <1>2, <1>7 DEF SnapSafe, BuiltOnly, n, Ids
<1>12. OneWay'
  <2>1. \A i \in Ids : Was(i) => InUse(i) \/ i \in ToSet(retired) BY DEF Was, Dead, InUse
  <2> QED BY <1>2, <1>3, <1>8, <1>9, <1>10, <2>1 DEF SnapSafe, OneWay
<1>13. OneHolder'
  <2> SUFFICES ASSUME NEW u \in SnapThreads, Pending(snapTh'[u])
               PROVE  /\ snapTh'[u].next # candidate
                      /\ \A v \in SnapThreads : v # u /\ Pending(snapTh'[v]) => snapTh'[v].next # snapTh'[u].next
                      /\ snapTh'[u].pc # "promote_swap" =>
                            \A v \in SnapThreads : v # u =>
                                snapTh'[u].next \notin {snapTh'[v].prev, snapTh'[v].next, snapTh'[v].cand}
    BY <1>2 DEF OneHolder
  <2>1. \A v \in SnapThreads : n \notin {snapTh[v].prev, snapTh[v].next, snapTh[v].cand} /\ n # candidate
    BY <1>2, <1>3 DEF InUse
  <2>2. CASE u = t BY <1>1, <2>1, <2>2 DEF Moved
  <2>3. CASE u # t
    <3>1. snapTh'[u] = snapTh[u] /\ Pending(snapTh[u]) BY <1>1, <2>3 DEF Moved
    <3>2. snapTh[u].next \in Ids /\ snapTh[u].next # snapCurrent /\ snapTh[u].next # n
      BY <2>1, <3>1 DEF SnapSafe, FramesInForm, FrameInForm, OneWay, Unborn, Was
    <3> QED BY <1>0, <1>1, <1>4, <2>3, <3>1, <3>2 DEF SnapSafe, OneHolder, Moved
  <2> QED BY <2>2, <2>3
<1>14. UsedOnDisk' BY <1>2, <1>7 DEF SnapSafe, UsedOnDisk
<1> QED BY <1>5, <1>6, <1>11, <1>12, <1>13, <1>14 DEF SnapSafe

\* A build that succeeds goes on with what it built; one that fails drops what
\* nobody else has.
LEMMA SafeBuild ==
    ASSUME SnapSafe, NEW t \in SnapThreads, Build(t)
    PROVE  SnapSafe'
<1> DEFINE n == snapTh[t].next
<1>0. SnapTypeOK /\ SnapNone \notin Ids BY SnapshotAssumption DEF SnapSafe, Ids
<1>1. /\ UNCHANGED <<snapCurrent, candidate, retired, snapLock, snapBuilt>> /\ snapTh[t].pc = "build"
      /\ \/ /\ snapTh' = [snapTh EXCEPT ![t].pc = IF snapTh[t].op = "reload" THEN "swap" ELSE "stage"]
            /\ UNCHANGED dirs
         \/ dirs' = dirs \ {n} /\ SnapReturns(t) BY DEF Build, SnapAt
<1>2. Pending(snapTh[t]) /\ n \in Ids BY <1>1 DEF SnapSafe, FramesInForm, FrameInForm, Pending
<1>3. CASE /\ snapTh' = [snapTh EXCEPT ![t].pc = IF snapTh[t].op = "reload" THEN "swap" ELSE "stage"]
           /\ UNCHANGED dirs
  <2>0. PICK pc \in {"swap", "stage"} :
          Moved(t, pc, snapTh[t].op, snapTh[t].prev, snapTh[t].next, snapTh[t].cand)
    BY <1>0, <1>3, BuildSucceeds
  <2>1. SnapTypeOK' BY <1>0, <1>1, <1>3, <2>0 DEF SnapTypeOK, Moved
  <2>2. FramesInForm' BY <1>1, <2>0 DEF SnapSafe, FramesInForm, FrameInForm, Moved, Pending, Replaced
  <2>3. \A i \in Ids : InUse(i)' => InUse(i) BY <1>1, <2>0 DEF Moved, InUse
  <2>4. \A i \in Ids : Unborn(i)' => Unborn(i) BY <1>1, <1>2, <2>0 DEF Moved, Unborn, Pending
  <2>5. \A i \in Ids : Dead(i)' => Dead(i) BY <1>1, <2>0 DEF Moved, Dead, Replaced
  <2>6. \A i \in Ids : Was(i)' => Was(i) BY <1>1, <2>0, <2>5 DEF Moved, Was
  <2>7. BuiltOnly' /\ UsedOnDisk' BY <1>1, <1>3, <2>3 DEF SnapSafe, BuiltOnly, UsedOnDisk
  <2>8. OneWay' BY <1>1, <2>4, <2>5, <2>6 DEF SnapSafe, OneWay
  <2>9. OneHolder' BY <1>1, <2>0 DEF Moved, Pending, SnapSafe, OneHolder
  <2> QED BY <2>1, <2>2, <2>7, <2>8, <2>9 DEF SnapSafe
<1>4. CASE dirs' = dirs \ {n} /\ SnapReturns(t)
  <2>0. Moved(t, "idle", SnapNone, SnapNone, SnapNone, SnapNone) BY <1>0, <1>4, Returning
  <2>1. SnapTypeOK' BY <1>0, <1>1, <1>4, <2>0 DEF SnapTypeOK, Moved
  <2>2. FramesInForm' BY <2>0 DEF SnapSafe, FramesInForm, FrameInForm, Moved, Pending, Replaced
  <2>3. \A i \in Ids : InUse(i)' => InUse(i) BY <1>0, <1>1, <2>0 DEF Moved, InUse
  <2>4. \A i \in Ids : Unborn(i)' => Unborn(i) BY <1>1, <2>0 DEF Moved, Unborn, Pending
  <2>5. \A i \in Ids : Dead(i)' => Dead(i) BY <1>0, <1>1, <2>0 DEF Moved, Dead, Replaced
  <2>6. \A i \in Ids : Was(i)' => Was(i) BY <1>0, <1>1, <2>0, <2>5 DEF Moved, Was
  <2>7. BuiltOnly' BY <1>1, <1>4, <2>3 DEF SnapSafe, BuiltOnly
  <2>8. OneWay' BY <1>1, <2>4, <2>5, <2>6 DEF SnapSafe, OneWay
  <2>9. OneHolder'
    <3> SUFFICES ASSUME NEW u \in SnapThreads, Pending(snapTh'[u])
                 PROVE  /\ snapTh'[u].next # candidate
                        /\ \A v \in SnapThreads : v # u /\ Pending(snapTh'[v]) => snapTh'[v].next # snapTh'[u].next
                        /\ snapTh'[u].pc # "promote_swap" =>
                              \A v \in SnapThreads : v # u =>
                                  snapTh'[u].next \notin {snapTh'[v].prev, snapTh'[v].next, snapTh'[v].cand}
      BY <1>1 DEF OneHolder
    <3>1. u # t /\ snapTh'[u] = snapTh[u] /\ \A v \in SnapThreads : Pending(snapTh'[v]) => v # t
      BY <2>0 DEF Moved, Pending
    <3>2. snapTh[u].next \in Ids BY <3>1 DEF SnapSafe, FramesInForm, FrameInForm
    <3> QED BY <1>0, <2>0, <3>1, <3>2 DEF SnapSafe, OneHolder, Moved
  <2>10. UsedOnDisk'
    <3>1. snapCurrent # n /\ candidate # n BY <1>2 DEF SnapSafe, OneWay, OneHolder, Unborn, Was
    <3>2. \A u \in SnapThreads : u # t => n \notin {snapTh[u].prev, snapTh[u].next, snapTh[u].cand}
      BY <1>1, <1>2 DEF SnapSafe, OneHolder
    <3>3. \A i \in Ids : i = n => ~ InUse(i)' BY <1>0, <1>1, <1>2, <2>0, <3>1, <3>2 DEF InUse, Moved
    <3> QED BY <1>4, <2>3, <3>3 DEF SnapSafe, UsedOnDisk
  <2> QED BY <2>1, <2>2, <2>7, <2>8, <2>9, <2>10 DEF SnapSafe
<1> QED BY <1>1, <1>3, <1>4

\* The snapshot in hand becomes current, and the one that was is out.
LEMMA SafeSwap ==
    ASSUME SnapSafe, NEW t \in SnapThreads, SnapReloadSwap(t) \/ PromoteSwap(t)
    PROVE  SnapSafe'
<1> DEFINE n == snapTh[t].next
<1>0. SnapTypeOK /\ SnapNone \notin Ids BY SnapshotAssumption DEF SnapSafe, Ids
<1>1. PICK pc \in {"take", "retire"} :
        Moved(t, pc, snapTh[t].op, snapTh[t].prev, snapTh[t].next, snapTh[t].cand)
  BY <1>0, ReloadSwaps, PromoteSwaps
<1>2. /\ UNCHANGED <<candidate, retired, dirs, snapLock, snapBuilt>> /\ snapCurrent' = n
      /\ snapTh[t].pc \in {"swap", "promote_swap"} BY DEF SnapReloadSwap, PromoteSwap, SnapAt
<1>3. Pending(snapTh[t]) /\ n \in Ids BY <1>2 DEF SnapSafe, FramesInForm, FrameInForm, Pending
<1>4. ~ Was(n) /\ n # candidate /\ Unborn(n) BY <1>3 DEF SnapSafe, OneWay, OneHolder, Unborn
<1>5. SnapTypeOK' BY <1>0, <1>1, <1>2, <1>3 DEF SnapTypeOK, Moved
<1>6. FramesInForm' BY <1>1, <1>2 DEF SnapSafe, FramesInForm, FrameInForm, Moved, Pending, Replaced
<1>7. \A i \in Ids : InUse(i)' => InUse(i) BY <1>1, <1>2 DEF Moved, InUse
<1>8. \A i \in Ids : Unborn(i)' => Unborn(i) /\ i # n
  <2> SUFFICES ASSUME NEW i \in Ids, Unborn(i)' PROVE Unborn(i) /\ i # n OBVIOUS
  <2>1. CASE i = candidate BY <1>4, <2>1 DEF Unborn
  <2>2. CASE i # candidate
    <3>1. PICK u \in SnapThreads : Pending(snapTh'[u]) /\ snapTh'[u].next = i BY <1>2, <2>2 DEF Unborn
    <3>2. u # t /\ snapTh'[u] = snapTh[u] BY <1>1, <3>1 DEF Moved, Pending
    <3> QED BY <1>3, <3>1, <3>2 DEF SnapSafe, OneHolder, Unborn
  <2> QED BY <2>1, <2>2
<1>9. \A i \in Ids : Dead(i)' => Was(i)
  <2>1. snapTh[t].op # "invoke_candidate" BY <1>3 DEF SnapSafe, FramesInForm, FrameInForm
  <2> QED BY <1>1, <1>2, <2>1 DEF Moved, Dead, Was, Replaced
<1>10. \A i \in Ids : Was(i)' => Was(i) \/ i = n BY <1>1, <1>2, <1>9 DEF Moved, Was
<1>11. BuiltOnly' /\ UsedOnDisk' BY <1>2, <1>7 DEF SnapSafe, BuiltOnly, UsedOnDisk
<1>12. OneWay' BY <1>2, <1>4, <1>8, <1>9, <1>10 DEF SnapSafe, OneWay
<1>13. OneHolder'
  <2> SUFFICES ASSUME NEW u \in SnapThreads, Pending(snapTh'[u])
               PROVE  /\ snapTh'[u].next # candidate'
                      /\ \A v \in SnapThreads : v # u /\ Pending(snapTh'[v]) => snapTh'[v].next # snapTh'[u].next
                      /\ snapTh'[u].pc # "promote_swap" =>
                            \A v \in SnapThreads : v # u =>
                                snapTh'[u].next \notin {snapTh'[v].prev, snapTh'[v].next, snapTh'[v].cand}
    BY DEF OneHolder
  <2>1. u # t /\ snapTh'[u] = snapTh[u] /\ \A v \in SnapThreads : Pending(snapTh'[v]) => v # t
    BY <1>1 DEF Moved, Pending
  <2>2. \A v \in SnapThreads : /\ snapTh'[v].next = snapTh[v].next /\ snapTh'[v].prev = snapTh[v].prev
                               /\ snapTh'[v].cand = snapTh[v].cand BY <1>1 DEF Moved
  <2> QED BY <1>1, <1>2, <2>1, <2>2 DEF SnapSafe, OneHolder, Moved
<1> QED BY <1>5, <1>6, <1>11, <1>12, <1>13 DEF SnapSafe

\* The candidate is taken out to be retired.
LEMMA SafeTakeOut ==
    ASSUME SnapSafe, NEW t \in SnapThreads, NEW pc,
           Moved(t, pc, snapTh[t].op, snapTh[t].prev, snapTh[t].next, candidate),
           UNCHANGED <<snapCurrent, retired, dirs, snapLock, snapBuilt>>, candidate' = SnapNone,
           \/ pc = "retire" /\ snapTh[t].pc = "take"
           \/ pc = "retire_candidate" /\ snapTh[t].pc = "rollback_take" /\ candidate # SnapNone
    PROVE  SnapSafe'
<1>0. SnapTypeOK /\ SnapNone \notin Ids /\ candidate \in Maybe
  BY SnapshotAssumption DEF SnapSafe, SnapTypeOK, Ids
<1>1. SnapTypeOK' BY <1>0 DEF SnapTypeOK, Moved, Maybe
<1>2. FramesInForm' BY <1>0 DEF SnapSafe, FramesInForm, FrameInForm, Moved, Pending, Replaced, Maybe
<1>3. \A i \in Ids : InUse(i)' => InUse(i) BY <1>0 DEF Moved, InUse
<1>4. \A i \in Ids : Unborn(i)' => Unborn(i) /\ i # candidate
  BY <1>0 DEF Moved, Unborn, Pending, SnapSafe, OneHolder
<1>5. \A i \in Ids : Dead(i)' => Dead(i) \/ i = candidate BY DEF Moved, Dead, Replaced
<1>6. \A i \in Ids : Was(i)' => Was(i) \/ i = candidate BY <1>5 DEF Moved, Was
<1>7. candidate \in Ids => candidate # snapCurrent BY DEF SnapSafe, OneWay, Unborn, Was
<1>8. BuiltOnly' /\ UsedOnDisk' BY <1>3 DEF SnapSafe, BuiltOnly, UsedOnDisk
<1>9. OneWay' BY <1>4, <1>5, <1>6, <1>7 DEF SnapSafe, OneWay
<1>10. OneHolder'
  <2> SUFFICES ASSUME NEW u \in SnapThreads, Pending(snapTh'[u])
               PROVE  /\ snapTh'[u].next # candidate'
                      /\ \A v \in SnapThreads : v # u /\ Pending(snapTh'[v]) => snapTh'[v].next # snapTh'[u].next
                      /\ snapTh'[u].pc # "promote_swap" =>
                            \A v \in SnapThreads : v # u =>
                                snapTh'[u].next \notin {snapTh'[v].prev, snapTh'[v].next, snapTh'[v].cand}
    BY DEF OneHolder
  <2>1. u # t /\ snapTh'[u] = snapTh[u] /\ \A v \in SnapThreads : Pending(snapTh'[v]) => v # t
    BY DEF Moved, Pending
  <2>2. snapTh[u].next \in Ids /\ snapTh[u].next # candidate
    BY <2>1 DEF SnapSafe, FramesInForm, FrameInForm, OneHolder
  <2>3. snapTh[u].pc # "promote_swap" =>
            snapTh[u].next \notin {snapTh'[t].prev, snapTh'[t].next, snapTh'[t].cand}
    BY <2>1, <2>2 DEF SnapSafe, OneHolder, Moved
  <2> QED BY <1>0, <2>1, <2>2, <2>3 DEF SnapSafe, OneHolder, Moved
<1> QED BY <1>1, <1>2, <1>8, <1>9, <1>10 DEF SnapSafe

\* The candidate is taken to be promoted.
LEMMA SafePromoteTake ==
    ASSUME SnapSafe, NEW t \in SnapThreads, candidate # SnapNone,
           Moved(t, "promote_swap", snapTh[t].op, snapTh[t].prev, candidate, snapTh[t].cand),
           UNCHANGED <<snapCurrent, retired, dirs, snapLock, snapBuilt>>, candidate' = SnapNone,
           snapTh[t].pc = "promote_take"
    PROVE  SnapSafe'
<1>0. SnapTypeOK /\ SnapNone \notin Ids /\ candidate \in Ids
  BY SnapshotAssumption DEF SnapSafe, SnapTypeOK, Ids, Maybe
<1>1. SnapTypeOK' BY <1>0 DEF SnapTypeOK, Moved, Maybe
<1>2. FramesInForm' BY <1>0 DEF SnapSafe, FramesInForm, FrameInForm, Moved, Pending, Replaced
<1>3. \A i \in Ids : InUse(i)' => InUse(i) BY <1>0 DEF Moved, InUse
<1>4. \A i \in Ids : Unborn(i)' => Unborn(i) BY <1>0 DEF Moved, Unborn, Pending
<1>5. \A i \in Ids : Dead(i)' => Dead(i) BY DEF Moved, Dead, Replaced
<1>6. \A i \in Ids : Was(i)' => Was(i) BY <1>5 DEF Moved, Was
<1>7. BuiltOnly' /\ UsedOnDisk' BY <1>3 DEF SnapSafe, BuiltOnly, UsedOnDisk
<1>8. OneWay' BY <1>4, <1>5, <1>6 DEF SnapSafe, OneWay
<1>9. OneHolder'
  <2> SUFFICES ASSUME NEW u \in SnapThreads, Pending(snapTh'[u])
               PROVE  /\ snapTh'[u].next # candidate'
                      /\ \A v \in SnapThreads : v # u /\ Pending(snapTh'[v]) => snapTh'[v].next # snapTh'[u].next
                      /\ snapTh'[u].pc # "promote_swap" =>
                            \A v \in SnapThreads : v # u =>
                                snapTh'[u].next \notin {snapTh'[v].prev, snapTh'[v].next, snapTh'[v].cand}
    BY DEF OneHolder
  <2>0. \A v \in SnapThreads : Pending(snapTh[v]) => snapTh[v].next \in Ids /\ snapTh[v].next # candidate
    BY DEF SnapSafe, FramesInForm, FrameInForm, OneHolder
  <2>1. CASE u = t BY <2>1, <1>0, <2>0 DEF Moved
  <2>2. CASE u # t BY <2>0, <2>2, <1>0 DEF Moved, SnapSafe, OneHolder
  <2> QED BY <2>1, <2>2
<1> QED BY <1>1, <1>2, <1>7, <1>8, <1>9 DEF SnapSafe

\* What Append adds to the elements of a sequence.
LEMMA AppendElements ==
    ASSUME NEW A, NEW q \in Seq(A), NEW x \in A
    PROVE  Append(q, x) \in Seq(A) /\ ToSet(Append(q, x)) = ToSet(q) \cup {x}
<1>1. /\ DOMAIN Append(q, x) = (1 .. Len(q)) \cup {Len(q) + 1} /\ DOMAIN q = 1 .. Len(q)
      /\ \A i \in 1 .. Len(q) : Append(q, x)[i] = q[i]
      /\ Append(q, x)[Len(q) + 1] = x OBVIOUS
<1> QED BY <1>1 DEF ToSet

\* A candidate is staged, and the one it replaces is listed.
LEMMA SafeStage ==
    ASSUME SnapSafe, NEW t \in SnapThreads, SnapStage(t)
    PROVE  SnapSafe'
<1> DEFINE n == snapTh[t].next
<1>0. SnapTypeOK /\ SnapNone \notin Ids /\ candidate \in Maybe /\ retired \in Seq(Ids)
  BY SnapshotAssumption DEF SnapSafe, SnapTypeOK, Ids
<1>1. Moved(t, "retain", snapTh[t].op, snapTh[t].prev, SnapNone, snapTh[t].cand) BY <1>0, Stages
<1>2. /\ UNCHANGED <<snapCurrent, dirs, snapLock, snapBuilt>> /\ snapTh[t].pc = "stage"
      /\ candidate' = n
      /\ retired' = IF candidate = SnapNone THEN retired ELSE Append(retired, candidate)
  BY DEF SnapStage, SnapAt
<1>3. Pending(snapTh[t]) /\ n \in Ids BY <1>2 DEF SnapSafe, FramesInForm, FrameInForm, Pending
<1>4. /\ retired' \in Seq(Ids)
      /\ \A i \in Ids : i \in ToSet(retired') => i \in ToSet(retired) \/ i = candidate
  BY <1>0, <1>2, AppendElements DEF Maybe
<1>5. SnapTypeOK' BY <1>0, <1>1, <1>2, <1>3, <1>4 DEF SnapTypeOK, Moved, Maybe
<1>6. FramesInForm' BY <1>1, <1>2 DEF SnapSafe, FramesInForm, FrameInForm, Moved, Pending, Replaced
<1>7. \A i \in Ids : InUse(i)' => InUse(i) BY <1>0, <1>1, <1>2 DEF Moved, InUse
<1>8. \A i \in Ids : Unborn(i)' => Unborn(i) /\ i # candidate
  BY <1>1, <1>2, <1>3 DEF Moved, Unborn, Pending, SnapSafe, OneHolder
<1>9. \A i \in Ids : Dead(i)' => Dead(i) \/ i = candidate BY <1>1, <1>4 DEF Moved, Dead, Replaced
<1>10. \A i \in Ids : Was(i)' => Was(i) \/ i = candidate BY <1>1, <1>2, <1>9 DEF Moved, Was
<1>11. candidate \in Ids => candidate # snapCurrent /\ InUse(candidate)
  BY DEF SnapSafe, OneWay, Unborn, Was, InUse
<1>12. BuiltOnly' /\ UsedOnDisk' BY <1>2, <1>4, <1>7, <1>11 DEF SnapSafe, BuiltOnly, UsedOnDisk
<1>13. OneWay' BY <1>2, <1>8, <1>9, <1>10, <1>11 DEF SnapSafe, OneWay
<1>14. OneHolder'
  <2> SUFFICES ASSUME NEW u \in SnapThreads, Pending(snapTh'[u])
               PROVE  /\ snapTh'[u].next # candidate'
                      /\ \A v \in SnapThreads : v # u /\ Pending(snapTh'[v]) => snapTh'[v].next # snapTh'[u].next
                      /\ snapTh'[u].pc # "promote_swap" =>
                            \A v \in SnapThreads : v # u =>
                                snapTh'[u].next \notin {snapTh'[v].prev, snapTh'[v].next, snapTh'[v].cand}
    BY DEF OneHolder
  <2>1. u # t /\ snapTh'[u] = snapTh[u] /\ \A v \in SnapThreads : Pending(snapTh'[v]) => v # t
    BY <1>1 DEF Moved, Pending
  <2>2. snapTh[u].next \in Ids /\ snapTh[u].next # n
    BY <1>3, <2>1 DEF SnapSafe, FramesInForm, FrameInForm, OneHolder
  <2>3. snapTh[u].pc # "promote_swap" =>
            snapTh[u].next \notin {snapTh'[t].prev, snapTh'[t].next, snapTh'[t].cand}
    BY <1>0, <1>1, <2>1, <2>2 DEF SnapSafe, OneHolder, Moved
  <2> QED BY <1>1, <1>2, <2>1, <2>2, <2>3 DEF SnapSafe, OneHolder, Moved
<1> QED BY <1>5, <1>6, <1>12, <1>13, <1>14 DEF SnapSafe

\* The first k elements of a sequence, and the rest of it.
LEMMA SplitElements ==
    ASSUME NEW A, NEW q \in Seq(A), NEW k \in 0 .. Len(q)
    PROVE  /\ SubSeq(q, k + 1, Len(q)) \in Seq(A)
           /\ ToSet(SubSeq(q, 1, k)) = {q[i] : i \in 1 .. k}
           /\ ToSet(SubSeq(q, k + 1, Len(q))) = {q[i] : i \in k + 1 .. Len(q)}
           /\ ToSet(q) = ToSet(SubSeq(q, 1, k)) \cup ToSet(SubSeq(q, k + 1, Len(q)))
<1> DEFINE a == SubSeq(q, 1, k)
           b == SubSeq(q, k + 1, Len(q))
<1>0. Len(q) \in Nat /\ DOMAIN q = 1 .. Len(q) /\ k \in Nat OBVIOUS
<1>1. b \in Seq(A) /\ DOMAIN b = 1 .. Len(q) - k /\ \A i \in 1 .. Len(q) - k : b[i] = q[k + i] BY <1>0
<1>2. DOMAIN a = 1 .. k /\ \A i \in 1 .. k : a[i] = q[i] BY <1>0
<1> HIDE DEF a, b
<1>3. ToSet(a) = {q[i] : i \in 1 .. k} BY <1>2 DEF ToSet
<1>4. ToSet(b) = {q[i] : i \in k + 1 .. Len(q)}
  <2>1. \A i \in 1 .. Len(q) - k : k + i \in k + 1 .. Len(q) BY <1>0
  <2>2. \A j \in k + 1 .. Len(q) : j - k \in 1 .. Len(q) - k /\ k + (j - k) = j BY <1>0
  <2>3. ToSet(b) = {b[i] : i \in 1 .. Len(q) - k} BY <1>1 DEF ToSet
  <2>4. ASSUME NEW x \in ToSet(b) PROVE x \in {q[i] : i \in k + 1 .. Len(q)} BY <1>1, <2>1, <2>3
  <2>5. ASSUME NEW j \in k + 1 .. Len(q) PROVE q[j] \in ToSet(b) BY <1>1, <2>2, <2>3
  <2> QED BY <2>4, <2>5
<1>5. ToSet(q) = {q[i] : i \in 1 .. Len(q)} BY <1>0 DEF ToSet
<1>6. 1 .. Len(q) = (1 .. k) \cup (k + 1 .. Len(q)) BY <1>0
<1>7. ToSet(q) = ToSet(a) \cup ToSet(b) BY <1>3, <1>4, <1>5, <1>6
<1> QED BY <1>1, <1>3, <1>4, <1>7 DEF a, b

\* The eviction stops before the first entry that is in use.
LEMMA EvictedUnused ==
    ASSUME SnapTypeOK
    PROVE  Evicted \in 0 .. Len(retired) /\ \A i \in 1 .. Evicted : retired[i] \notin Strong
<1>0. Len(retired) \in Nat BY DEF SnapTypeOK
<1>1. Excess \in Nat /\ Excess <= Len(retired) BY <1>0, SnapshotAssumption DEF Excess
<1> DEFINE T == {k \in 0 .. Excess : k = Excess \/ retired[k + 1] \in Strong}
           StopsAt(k) == /\ \A i \in 1 .. k : retired[i] \notin Strong
                         /\ k < Excess => retired[k + 1] \in Strong
<1>2. Excess \in T /\ T \subseteq Nat BY <1>1
<1>3. PICK k \in T : \A m \in T : k <= m
  <2> HIDE DEF T
  <2>1. T # {} BY <1>2
  <2> QED BY <1>2, <2>1, LeastNumber
<1>4. k \in 0 .. Excess /\ (k < Excess => retired[k + 1] \in Strong) BY <1>1, <1>3
<1>5. ASSUME NEW i \in 1 .. k, retired[i] \in Strong PROVE FALSE BY <1>1, <1>4, <1>5, <1>3
<1>6. \E j \in 0 .. Excess : StopsAt(j) BY <1>4, <1>5
<1>7. Evicted \in 0 .. Excess /\ StopsAt(Evicted)
  <2>1. Evicted = CHOOSE j \in 0 .. Excess : StopsAt(j) BY DEF Evicted
  <2> HIDE DEF StopsAt
  <2> QED BY <1>6, <2>1
<1> QED BY <1>0, <1>1, <1>7

\* The sweep and the eviction drop only what nobody uses, from the list and
\* from the disk.
LEMMA SafeCleanup ==
    ASSUME SnapSafe, NEW t \in SnapThreads, CleanupRetain(t) \/ CleanupEvict(t)
    PROVE  /\ SnapSafe' /\ retired' \in Seq(Ids) /\ ToSet(retired') \subseteq ToSet(retired)
           /\ \A i \in Ids : i \in dirs' /\ i \in ToSet(retired) => i \in ToSet(retired')
           /\ dirs' \subseteq dirs
<1>0. SnapTypeOK /\ retired \in Seq(Ids) /\ dirs \subseteq Ids BY DEF SnapSafe, SnapTypeOK
<1>1. CASE CleanupRetain(t)
  <2>1. Moved(t, "evict", snapTh[t].op, snapTh[t].prev, snapTh[t].next, snapTh[t].cand) BY <1>0, <1>1, Retains
  <2>2. /\ UNCHANGED <<snapCurrent, candidate, snapBuilt>> /\ snapLock' = t
        /\ retired' = Retained(retired, Strong) /\ dirs' = dirs \ (ToSet(retired) \ Strong)
        /\ snapTh[t].pc = "retain" BY <1>1 DEF CleanupRetain, SnapAt
  <2>3. retired' \in Seq(Ids) /\ ToSet(retired') = ToSet(retired) \cap Strong BY <1>0, <2>2, RetainedElements
  <2>4. \A i \in Ids : InUse(i) /\ i \in dirs => i \in dirs' BY <1>0, <2>2, StrongInUse
  <2>5. FrameInForm(snapTh'[t])
    BY <2>1, <2>2 DEF SnapSafe, FramesInForm, FrameInForm, Moved, Pending, Replaced
  <2>6. \A i \in ToSet(retired') : Dead(i) BY <2>3 DEF Dead
  <2>7. SnapSafe' BY <2>1, <2>2, <2>3, <2>4, <2>5, <2>6, StepAside
  <2> QED BY <2>2, <2>3, <2>7
<1>2. CASE CleanupEvict(t)
  <2> DEFINE k == Evicted
  <2>1. Moved(t, "idle", SnapNone, SnapNone, SnapNone, SnapNone) BY <1>0, <1>2, Returning DEF CleanupEvict
  <2>2. /\ UNCHANGED <<snapCurrent, candidate, snapBuilt>> /\ snapLock' = SnapNone
        /\ retired' = SubSeq(retired, k + 1, Len(retired))
        /\ dirs' = dirs \ ToSet(SubSeq(retired, 1, k))
        /\ snapTh[t].pc = "evict" BY <1>2 DEF CleanupEvict, SnapAt
  <2>3. k \in 0 .. Len(retired) /\ \A i \in 1 .. k : retired[i] \notin Strong BY <1>0, EvictedUnused
  <2> HIDE DEF k
  <2>4. /\ retired' \in Seq(Ids) /\ ToSet(SubSeq(retired, 1, k)) = {retired[i] : i \in 1 .. k}
        /\ ToSet(retired) = ToSet(SubSeq(retired, 1, k)) \cup ToSet(retired')
    BY <1>0, <2>2, <2>3, SplitElements
  <2>5. \A i \in Ids : InUse(i) /\ i \in dirs => i \in dirs' BY <1>0, <2>2, <2>3, <2>4, StrongInUse
  <2>6. FrameInForm(snapTh'[t]) BY <2>1 DEF FrameInForm, Moved, Pending, Replaced
  <2>7. \A i \in ToSet(retired') : Dead(i) BY <2>4 DEF Dead
  <2>8. SnapSafe' BY <2>1, <2>2, <2>4, <2>5, <2>6, <2>7, StepAside
  <2> QED BY <2>2, <2>4, <2>8
<1> QED BY <1>1, <1>2

\* Listing what a call has dropped.
LEMMA SafeRetire ==
    ASSUME SnapSafe, NEW t \in SnapThreads, RetirePrevious(t) \/ RetireCandidate(t)
    PROVE  SnapSafe'
<1>0. SnapTypeOK /\ retired \in Seq(Ids) /\ SnapNone \notin Ids
  BY SnapshotAssumption DEF SnapSafe, SnapTypeOK, Ids
<1>1. UNCHANGED <<snapCurrent, candidate, dirs, snapLock, snapBuilt>> BY DEF RetirePrevious, RetireCandidate
<1>2. CASE RetirePrevious(t)
  <2> DEFINE pc == IF snapTh[t].cand = SnapNone THEN "retain" ELSE "retire_candidate"
  <2>1. /\ Moved(t, pc, snapTh[t].op, SnapNone, snapTh[t].next, snapTh[t].cand)
        /\ snapTh[t].pc = "retire" /\ retired' = Append(retired, snapTh[t].prev)
    BY <1>0, <1>2, RetiresPrevious DEF RetirePrevious, SnapAt
  <2>2. snapTh[t].prev \in Ids /\ Dead(snapTh[t].prev)
    BY <2>1 DEF SnapSafe, FramesInForm, FrameInForm, Dead, Replaced
  <2>3. retired' \in Seq(Ids) /\ \A i \in ToSet(retired') : Dead(i)
    BY <1>0, <2>1, <2>2, AppendElements DEF Dead
  <2>4. snapTh[t].cand \in Ids \cup {SnapNone} BY <1>0, FrameFields DEF Maybe
  <2>5. FrameInForm(snapTh'[t]) /\ pc \in {"retain", "retire_candidate"}
    BY <2>1, <2>4 DEF FrameInForm, Moved, Pending, Replaced
  <2> HIDE DEF pc
  <2>6. pc \notin {"build", "swap", "stage", "promote_swap", "take", "retire"} BY <2>5
  <2> QED BY <1>0, <1>1, <2>1, <2>3, <2>5, <2>6, StepAside DEF SnapTypeOK
<1>3. CASE RetireCandidate(t)
  <2>1. /\ Moved(t, "retain", snapTh[t].op, snapTh[t].prev, snapTh[t].next, SnapNone)
        /\ snapTh[t].pc = "retire_candidate" /\ retired' = Append(retired, snapTh[t].cand)
    BY <1>0, <1>3, RetiresCandidate DEF RetireCandidate, SnapAt
  <2>2. snapTh[t].cand \in Ids /\ Dead(snapTh[t].cand) BY <2>1 DEF SnapSafe, FramesInForm, FrameInForm, Dead
  <2>3. retired' \in Seq(Ids) /\ \A i \in ToSet(retired') : Dead(i)
    BY <1>0, <2>1, <2>2, AppendElements DEF Dead
  <2>4. FrameInForm(snapTh'[t]) BY <2>1 DEF FrameInForm, Moved, Pending, Replaced
  <2> QED BY <1>0, <1>1, <2>1, <2>3, <2>4, StepAside DEF SnapTypeOK
<1> QED BY <1>2, <1>3

\* Calls that only begin, work or give up.
LEMMA SafeElsewhere ==
    ASSUME SnapSafe, NEW t \in SnapThreads, NEW pc, NEW op, NEW prev,
           \/ Moved(t, pc, op, prev, snapTh[t].next, snapTh[t].cand)
           \/ Moved(t, pc, op, prev, SnapNone, SnapNone),
           UNCHANGED <<snapCurrent, candidate, retired, dirs, snapLock, snapBuilt>>,
           pc \notin {"build", "swap", "stage", "promote_swap", "take", "retire"},
           FrameInForm(snapTh'[t]),
           \/ prev \in {SnapNone, snapCurrent}
           \/ prev = snapTh[t].prev /\ op = snapTh[t].op
           \/ prev = candidate /\ op = "invoke_candidate"
    PROVE  SnapSafe'
<1>1. snapLock' \in SnapThreads \cup {SnapNone} /\ retired' \in Seq(Ids) BY DEF SnapSafe, SnapTypeOK
<1>2. \A i \in ToSet(retired') : Dead(i) BY DEF Dead
<1> QED BY <1>1, <1>2, StepAside

\* Every step keeps the invariant.
LEMMA SnapSafeStep == SnapSafe /\ [SnapNext]_snapVars => SnapSafe'
<1> SUFFICES ASSUME SnapSafe, [SnapNext]_snapVars PROVE SnapSafe' OBVIOUS
<1>0. SnapTypeOK /\ FramesInForm /\ SnapNone \notin Ids BY SnapshotAssumption DEF SnapSafe, Ids
<1> USE DEF SnapAt
<1>1. ASSUME NEW t \in SnapThreads, ReloadTake(t) PROVE SnapSafe'
  BY <1>0, <1>1, ReloadTakes, SafeTakeOut DEF ReloadTake
<1>2. ASSUME NEW t \in SnapThreads, SnapReturns(t),
             UNCHANGED <<snapCurrent, candidate, retired, dirs, snapLock, snapBuilt>>
      PROVE  SnapSafe' BY <1>0, <1>2, Returning, SafeElsewhere DEF FrameInForm, Moved, Pending, Replaced
<1>3. ASSUME NEW t \in SnapThreads, PromoteBegin(t) PROVE SnapSafe'
  <2>1. Moved(t, "promote_take", "promote", snapCurrent, snapTh[t].next, snapTh[t].cand)
    BY <1>0, <1>3, PromoteBegins
  <2>2. /\ UNCHANGED <<snapCurrent, candidate, retired, dirs, snapLock, snapBuilt>>
        /\ snapTh[t].pc = "idle" BY <1>3 DEF PromoteBegin, SnapCalling
  <2>3. FrameInForm(snapTh'[t])
    BY <1>0, <2>1, <2>2 DEF FramesInForm, FrameInForm, Moved, Pending, Replaced, SnapTypeOK
  <2>4. /\ "promote_take" \notin {"build", "swap", "stage", "promote_swap", "take", "retire"}
        /\ snapCurrent \in {SnapNone, snapCurrent} BY <2>1, <2>3
  <2> QED BY <2>1, <2>2, <2>3, <2>4, SafeElsewhere
<1>4. ASSUME NEW t \in SnapThreads, PromoteTake(t) PROVE SnapSafe'
  <2>1. CASE /\ candidate' = SnapNone /\ candidate # SnapNone
             /\ snapTh' = [snapTh EXCEPT ![t].pc = "promote_swap", ![t].next = candidate]
    BY <1>0, <2>1, PromoteTakes, <1>4, SafePromoteTake DEF PromoteTake
  <2>2. CASE SnapReturns(t) /\ UNCHANGED candidate BY <1>2, <1>4, <2>2 DEF PromoteTake
  <2> QED BY <1>4, <2>1, <2>2 DEF PromoteTake
<1>5. ASSUME NEW t \in SnapThreads, RollbackCheck(t) PROVE SnapSafe'
  <2>1. Moved(t, "rollback_take", "rollback", snapTh[t].prev, snapTh[t].next, snapTh[t].cand)
    BY <1>0, <1>5, RollbackChecks
  <2>2. /\ UNCHANGED <<snapCurrent, candidate, retired, dirs, snapLock, snapBuilt>>
        /\ snapTh[t].pc = "idle" BY <1>5 DEF RollbackCheck, SnapCalling
  <2>3. FrameInForm(snapTh'[t]) /\ snapTh[t].prev = SnapNone
    BY <1>0, <2>1, <2>2 DEF FramesInForm, FrameInForm, Moved, Pending, Replaced
  <2>4. /\ "rollback_take" \notin {"build", "swap", "stage", "promote_swap", "take", "retire"}
        /\ snapTh[t].prev \in {SnapNone, snapCurrent} BY <2>1, <2>3
  <2> QED BY <2>1, <2>2, <2>3, <2>4, SafeElsewhere
<1>6. ASSUME NEW t \in SnapThreads, RollbackTake(t) PROVE SnapSafe'
  <2>1. CASE /\ candidate' = SnapNone /\ candidate # SnapNone
             /\ snapTh' = [snapTh EXCEPT ![t].pc = "retire_candidate", ![t].cand = candidate]
    BY <1>0, <2>1, RollbackTakes, <1>6, SafeTakeOut DEF RollbackTake
  <2>2. CASE SnapReturns(t) /\ UNCHANGED candidate BY <1>2, <1>6, <2>2 DEF RollbackTake
  <2> QED BY <1>6, <2>1, <2>2 DEF RollbackTake
<1>7. ASSUME NEW t \in SnapThreads, SnapInvokeBegin(t) PROVE SnapSafe'
  <2>1. PICK op \in SnapOps[t] \cap {"invoke", "invoke_candidate"}, prev \in Ids :
              /\ Moved(t, "work", op, prev, snapTh[t].next, snapTh[t].cand)
              /\ prev = snapCurrent \/ (prev = candidate /\ op = "invoke_candidate")
    BY <1>0, <1>7, InvokeBegins
  <2>2. /\ UNCHANGED <<snapCurrent, candidate, retired, dirs, snapLock, snapBuilt>>
        /\ snapTh[t].pc = "idle" BY <1>7 DEF SnapInvokeBegin, SnapCalling
  <2>3. FrameInForm(snapTh'[t]) BY <1>0, <2>1, <2>2 DEF FramesInForm, FrameInForm, Moved, Pending, Replaced
  <2>4. /\ "work" \notin {"build", "swap", "stage", "promote_swap", "take", "retire"}
        /\ prev \in {SnapNone, snapCurrent} \/ (prev = candidate /\ op = "invoke_candidate") BY <2>1, <2>3
  <2> QED BY <2>1, <2>2, <2>3, <2>4, SafeElsewhere
<1>8. ASSUME NEW t \in SnapThreads, Work(t) PROVE SnapSafe'
  <2>1. Moved(t, "retain", snapTh[t].op, snapTh[t].prev, snapTh[t].next, snapTh[t].cand) BY <1>0, <1>8, Works
  <2>2. /\ UNCHANGED <<snapCurrent, candidate, retired, dirs, snapLock, snapBuilt>>
        /\ snapTh[t].pc = "work" BY <1>8 DEF Work
  <2>3. FrameInForm(snapTh'[t]) BY <1>0, <2>1, <2>2 DEF FramesInForm, FrameInForm, Moved, Pending, Replaced
  <2>4. "retain" \notin {"build", "swap", "stage", "promote_swap", "take", "retire"} OBVIOUS
  <2> QED BY <2>1, <2>2, <2>3, <2>4, SafeElsewhere
<1>9. CASE UNCHANGED snapVars
  <2>1. UNCHANGED <<snapCurrent, candidate, retired, dirs, snapLock, snapTh, snapBuilt>> BY <1>9 DEF snapVars
  <2>2. \A i \in Ids : /\ InUse(i)' <=> InUse(i) 
                       /\ Unborn(i)' <=> Unborn(i)
                       /\ Dead(i)' <=> Dead(i) BY <2>1 DEF InUse, Unborn, Dead
  <2>3. \A i \in Ids : Was(i)' <=> Was(i) BY <2>1, <2>2 DEF Was
  <2> QED BY <2>1, <2>2, <2>3 DEF SnapSafe, SnapTypeOK, FramesInForm, BuiltOnly, OneWay, OneHolder, UsedOnDisk
<1> QED
  BY <1>1, <1>3, <1>4, <1>5, <1>6, <1>7, <1>8, <1>9, SafeBuildBegin, SafeBuild, SafeSwap,
     SafeStage, SafeRetire, SafeCleanup
  DEF SnapNext, Replace, Decide, Retire, Use

\* The part of the invariant that the runs check.
LEMMA SafeIsSound == SnapSafe => SnapTypeOK /\ PinnedDirKept /\ LiveNotRetired
<1> SUFFICES ASSUME SnapSafe PROVE PinnedDirKept /\ LiveNotRetired BY DEF SnapSafe
<1>1. SnapTypeOK BY DEF SnapSafe
<1>2. PinnedDirKept BY <1>1, StrongInUse DEF PinnedDirKept, SnapSafe, UsedOnDisk
<1>3. LiveNotRetired BY <1>1 DEF LiveNotRetired, SnapSafe, OneWay, Dead, Unborn, Was, SnapTypeOK, Maybe
<1> QED BY <1>2, <1>3

\* It holds at first.
LEMMA SnapSafeInit == SnapInit => SnapSafe
<1> SUFFICES ASSUME SnapInit PROVE SnapSafe OBVIOUS
<1>0. 0 \in Ids /\ SnapNone \notin Ids /\ SnapNone \in Maybe BY SnapshotAssumption DEF Ids, Maybe
<1>1. /\ snapCurrent = 0 /\ candidate = SnapNone /\ retired = <<>> /\ dirs = {0}
      /\ snapLock = SnapNone /\ snapBuilt = 0
      /\ ToSet(retired) = {} /\ retired \in Seq(Ids) BY DEF SnapInit, ToSet
<1>2. snapTh \in [SnapThreads -> SnapFrames] BY <1>0 DEF SnapInit, SnapFrames, SnapPoints
<1>3. \A t \in SnapThreads : /\ snapTh[t].pc = "idle" /\ snapTh[t].prev = SnapNone
                             /\ snapTh[t].next = SnapNone /\ snapTh[t].cand = SnapNone
                             /\ snapTh[t].op = SnapNone BY DEF SnapInit
<1>4. SnapTypeOK BY <1>0, <1>1, <1>2 DEF SnapTypeOK, Maybe
<1>5. FramesInForm /\ OneHolder BY <1>3 DEF FramesInForm, FrameInForm, Pending, Replaced, OneHolder
<1>6. \A i \in Ids : (InUse(i) => i = 0) /\ ~ Unborn(i) /\ ~ Dead(i)
  BY <1>0, <1>1, <1>3 DEF InUse, Unborn, Dead, Pending, Replaced
<1>7. BuiltOnly /\ OneWay /\ UsedOnDisk BY <1>0, <1>1, <1>6 DEF BuiltOnly, OneWay, UsedOnDisk
<1> QED BY <1>4, <1>5, <1>7 DEF SnapSafe

\* For any number of threads that reload, stage, promote, roll back and invoke
\* at once: cleanup_retired_snapshots never removes the directory of a snapshot
\* somebody still uses, and never finds the current one or the staged one on its
\* list.
THEOREM SnapshotsSafe == SnapSpec => [](SnapTypeOK /\ PinnedDirKept /\ LiveNotRetired)
BY SnapSafeInit, SnapSafeStep, SafeIsSound, PTL DEF SnapSpec

-----------------------------------------------------------------------------
(* Nothing is forgotten *)

\* A step of t leaves the anchors of the others.
LEMMA AnchorsKept ==
    ASSUME NEW t \in SnapThreads, NEW pc, NEW op, NEW prev, NEW next, NEW cand,
           Moved(t, pc, op, prev, next, cand), NEW i \in Ids, Anchored(i),
           i = snapCurrent => Anchored(i)', i = candidate => Anchored(i)',
           i \in ToSet(retired) => Anchored(i)',
           Pending(snapTh[t]) /\ snapTh[t].next = i => Anchored(i)',
           snapTh[t].cand = i => Anchored(i)',
           Replaced(snapTh[t]) /\ snapTh[t].prev = i => Anchored(i)'
    PROVE  Anchored(i)'
<1>1. ASSUME NEW u \in SnapThreads, u # t, Pending(snapTh[u]) /\ snapTh[u].next = i
      PROVE  Anchored(i)' BY <1>1 DEF Moved, Anchored, Unborn
<1>2. ASSUME NEW u \in SnapThreads, u # t,
             snapTh[u].cand = i \/ (Replaced(snapTh[u]) /\ snapTh[u].prev = i)
      PROVE  Anchored(i)' BY <1>2 DEF Moved, Anchored, Dead
<1> QED BY <1>1, <1>2 DEF Anchored, Unborn, Dead

\* A call without a snapshot of its own leaves the anchors.
LEMMA AnchorsElsewhere ==
    ASSUME SnapComplete, NEW t \in SnapThreads,
           NEW pc, NEW op, NEW prev, NEW next, NEW cand, Moved(t, pc, op, prev, next, cand),
           UNCHANGED <<snapCurrent, candidate>>,
           \A i \in Ids : i \in dirs' /\ i \in ToSet(retired) => i \in ToSet(retired'),
           ~ Pending(snapTh[t]), ~ Replaced(snapTh[t]), snapTh[t].pc # "retire_candidate",
           NEW i \in dirs', i \in dirs
    PROVE  Anchored(i)'
<1>1. i \in Ids /\ Anchored(i) /\ SnapNone \notin Ids /\ snapTh[t].cand \notin Ids
  BY SnapshotAssumption DEF SnapComplete, SnapSafe, FramesInForm, Ids, SnapTypeOK, FrameInForm, Replaced
<1>2. /\ i = snapCurrent => Anchored(i)'
      /\ i = candidate => Anchored(i)'
      /\ i \in ToSet(retired) => Anchored(i)' BY <1>1 DEF Anchored, Unborn, Dead
<1> QED BY <1>1, <1>2, AnchorsKept

\* The invariant, step by step.
LEMMA SnapCompleteStep ==
    ASSUME OneSwapper, SnapComplete, [SnapNext]_snapVars
    PROVE  SnapComplete'
<1>0. /\ SnapTypeOK /\ SnapNone \notin Ids /\ dirs \subseteq Ids /\ snapCurrent \in Ids
      /\ retired \in Seq(Ids) /\ candidate \in Maybe
      /\ SnapSafe /\ SwapperCurrent /\ \A i \in dirs : Anchored(i)
      /\ \A t \in SnapThreads : FrameInForm(snapTh[t]) /\ SwapperFrame(t, snapTh[t])
  BY SnapshotAssumption DEF SnapComplete, SnapSafe, SnapTypeOK, Ids, FramesInForm, SwapperCurrent
<1>a. SnapSafe' /\ SnapNone \notin SnapOpNames BY <1>0, SnapSafeStep, SnapshotAssumption
<1> SUFFICES SwapperCurrent' /\ \A i \in dirs' : Anchored(i)' BY <1>a DEF SnapComplete
<1> USE DEF SnapAt
<1>1. ASSUME NEW t \in SnapThreads, BuildBegin(t)
      PROVE  SwapperCurrent' /\ \A i \in dirs' : Anchored(i)'
  <2>1. PICK op \in SnapOps[t] \cap {"reload", "reload_candidate"} :
          Moved(t, "build", op, snapCurrent, snapBuilt + 1, snapTh[t].cand) BY <1>0, <1>1, BuildBegins
  <2>2. /\ UNCHANGED <<snapCurrent, candidate, retired>> /\ dirs' = dirs \cup {snapBuilt + 1}
        /\ snapTh[t].pc = "idle" BY <1>0, <1>1, BuildBegins DEF BuildBegin
  <2>3. SwapperCurrent' BY <1>0, <2>1, <2>2 DEF SwapperCurrent, SwapperFrame, Moved
  <2>4. \A i : i = snapBuilt + 1 => Anchored(i)' BY <2>1 DEF Anchored, Unborn, Moved, Pending
  <2>5. ASSUME NEW i \in dirs' , i \in dirs PROVE Anchored(i)'
    BY <2>1, <2>2, <2>5, AnchorsElsewhere DEF Pending, Replaced
  <2> QED BY <2>2, <2>3, <2>4, <2>5
<1>2. ASSUME NEW t \in SnapThreads, Build(t)
      PROVE  SwapperCurrent' /\ \A i \in dirs' : Anchored(i)'
  <2>0. /\ UNCHANGED <<snapCurrent, candidate, retired>> /\ snapTh[t].pc = "build"
        /\ dirs' \subseteq dirs BY <1>2 DEF Build
  <2>1. CASE snapTh' = [snapTh EXCEPT ![t].pc = IF snapTh[t].op = "reload" THEN "swap" ELSE "stage"]
    <3>1. PICK pc \in {"swap", "stage"} :
            /\ Moved(t, pc, snapTh[t].op, snapTh[t].prev, snapTh[t].next, snapTh[t].cand)
            /\ pc = "swap" => snapTh[t].op = "reload" BY <1>0, <2>1, BuildSucceeds
    <3>2. SwapperCurrent' BY <1>0, <2>0, <3>1 DEF SwapperCurrent, SwapperFrame, Moved
    <3>3. ASSUME NEW i \in dirs' PROVE Anchored(i)'
      <4>1. i \in Ids /\ Anchored(i) BY <1>0, <2>0
      <4>2. i = snapTh[t].next => Anchored(i)' BY <3>1 DEF Anchored, Unborn, Moved, Pending
      <4>3. snapTh[t].cand = i => Anchored(i)' BY <3>1 DEF Anchored, Dead, Moved
      <4>4. /\ i = snapCurrent => Anchored(i)'
            /\ i = candidate => Anchored(i)'
            /\ i \in ToSet(retired) => Anchored(i)' BY <2>0 DEF Anchored, Unborn, Dead
      <4>5. ~ Replaced(snapTh[t]) BY <2>0 DEF Replaced
      <4> QED BY <3>1, <4>1, <4>2, <4>3, <4>4, <4>5, AnchorsKept
    <3> QED BY <3>2, <3>3
  <2>2. CASE dirs' = dirs \ {snapTh[t].next} /\ SnapReturns(t)
    <3>1. Moved(t, "idle", SnapNone, SnapNone, SnapNone, SnapNone) BY <1>0, <2>2, Returning
    <3>2. SwapperCurrent' BY <1>0, <2>0, <3>1 DEF SwapperCurrent, SwapperFrame, Moved
    <3>3. ASSUME NEW i \in dirs' PROVE Anchored(i)'
      <4>1. i \in Ids /\ Anchored(i) /\ i # snapTh[t].next BY <1>0, <2>0, <2>2
      <4>2. snapTh[t].cand # i /\ ~ Replaced(snapTh[t]) BY <1>0, <2>0, <4>1 DEF FrameInForm, Replaced
      <4>3. /\ i = snapCurrent => Anchored(i)'
            /\ i = candidate => Anchored(i)'
            /\ i \in ToSet(retired) => Anchored(i)' BY <2>0 DEF Anchored, Unborn, Dead
      <4> QED BY <3>1, <4>1, <4>2, <4>3, AnchorsKept
    <3> QED BY <3>2, <3>3
  <2> QED BY <1>2, <2>1, <2>2 DEF Build
<1>3. ASSUME NEW t \in SnapThreads, SnapReloadSwap(t) \/ PromoteSwap(t)
      PROVE  SwapperCurrent' /\ \A i \in dirs' : Anchored(i)'
  <2>1. PICK pc \in {"take", "retire"} :
          /\ Moved(t, pc, snapTh[t].op, snapTh[t].prev, snapTh[t].next, snapTh[t].cand)
          /\ pc = "take" => snapTh[t].pc = "swap" BY <1>0, <1>3, ReloadSwaps, PromoteSwaps DEF SnapReloadSwap
  <2>2. /\ UNCHANGED <<candidate, retired, dirs>> /\ snapCurrent' = snapTh[t].next
        /\ snapTh[t].pc \in {"swap", "promote_swap"} BY <1>3 DEF SnapReloadSwap, PromoteSwap
  <2>3. /\ snapTh[t].op \in SnapOps[t] /\ snapTh[t].op \in {"reload", "promote"}
        /\ snapTh[t].prev = snapCurrent BY <1>0, <1>a, <2>2 DEF SwapperFrame, SnapOpNames
  <2>4. \A u \in SnapThreads : u # t => snapTh[u].op \notin {"reload", "promote"}
    BY <1>0, <1>a, <2>3 DEF SwapperFrame, OneSwapper, SnapOpNames
  <2>5. SwapperCurrent' BY <1>0, <2>1, <2>2, <2>4 DEF SwapperCurrent, SwapperFrame, Moved
  <2>6. ASSUME NEW i \in dirs' PROVE Anchored(i)'
    <3>1. i \in Ids /\ Anchored(i) BY <1>0, <2>2
    <3>2. /\ i = snapCurrent => Anchored(i)'
          /\ snapTh[t].cand = i => Anchored(i)' BY <2>1, <2>3 DEF Anchored, Dead, Moved, Replaced
    <3>3. /\ i = candidate => Anchored(i)'
          /\ i \in ToSet(retired) => Anchored(i)'
          /\ i = snapTh[t].next => Anchored(i)' BY <2>2 DEF Anchored, Unborn, Dead
    <3>4. ~ Replaced(snapTh[t]) BY <2>2 DEF Replaced
    <3> QED BY <2>1, <3>1, <3>2, <3>3, <3>4, AnchorsKept
  <2> QED BY <2>5, <2>6
<1>4. ASSUME NEW t \in SnapThreads, NEW pc,
             Moved(t, pc, snapTh[t].op, snapTh[t].prev, snapTh[t].next, candidate),
             UNCHANGED <<snapCurrent, retired, dirs>>,
             \/ pc = "retire" /\ snapTh[t].pc = "take"
             \/ pc = "retire_candidate" /\ snapTh[t].pc = "rollback_take"
      PROVE  SwapperCurrent' /\ \A i \in dirs' : Anchored(i)'
  <2>1. SwapperCurrent' BY <1>0, <1>4 DEF SwapperCurrent, SwapperFrame, Moved
  <2>2. ASSUME NEW i \in dirs' PROVE Anchored(i)'
    BY <1>0, <1>4, AnchorsKept DEF Anchored, Dead, Moved, Replaced, Pending, FrameInForm
  <2> QED BY <2>1, <2>2
<1>5. ASSUME NEW t \in SnapThreads, SnapStage(t)
      PROVE  SwapperCurrent' /\ \A i \in dirs' : Anchored(i)'
  <2>1. Moved(t, "retain", snapTh[t].op, snapTh[t].prev, SnapNone, snapTh[t].cand) BY <1>0, <1>5, Stages
  <2>2. /\ UNCHANGED <<snapCurrent, dirs>> /\ snapTh[t].pc = "stage"
        /\ candidate' = snapTh[t].next
        /\ retired' = IF candidate = SnapNone THEN retired ELSE Append(retired, candidate)
    BY <1>5 DEF SnapStage
  <2>3. /\ ToSet(retired) \subseteq ToSet(retired')
        /\ candidate # SnapNone => candidate \in ToSet(retired') BY <1>0, <2>2, AppendElements DEF Maybe
  <2>4. SwapperCurrent' BY <1>0, <2>1, <2>2 DEF SwapperCurrent, SwapperFrame, Moved
  <2>5. ASSUME NEW i \in dirs' PROVE Anchored(i)'
    <3>1. i \in Ids /\ Anchored(i) BY <1>0, <2>2
    <3>2. /\ i = snapCurrent => Anchored(i)'
          /\ i = candidate => Anchored(i)'
          /\ i \in ToSet(retired) => Anchored(i)'
          /\ i = snapTh[t].next => Anchored(i)' BY <1>0, <2>2, <2>3, <3>1 DEF Anchored, Dead, Unborn
    <3>3. snapTh[t].cand # i /\ ~ Replaced(snapTh[t]) BY <1>0, <2>2, <3>1 DEF Replaced, FrameInForm
    <3> QED BY <2>1, <3>1, <3>2, <3>3, AnchorsKept
  <2> QED BY <2>4, <2>5
<1>6. ASSUME NEW t \in SnapThreads, PromoteTake(t), ~ SnapReturns(t)
      PROVE  SwapperCurrent' /\ \A i \in dirs' : Anchored(i)'
  <2>1. /\ UNCHANGED <<snapCurrent, retired, dirs>> /\ snapTh[t].pc = "promote_take"
        /\ snapTh' = [snapTh EXCEPT ![t].pc = "promote_swap", ![t].next = candidate] BY <1>6 DEF PromoteTake
  <2>2. Moved(t, "promote_swap", snapTh[t].op, snapTh[t].prev, candidate, snapTh[t].cand)
    BY <1>0, <2>1, PromoteTakes
  <2>3. SwapperCurrent' BY <1>0, <2>1, <2>2 DEF SwapperCurrent, SwapperFrame, Moved
  <2>4. ASSUME NEW i \in dirs' PROVE Anchored(i)'
    <3>1. i \in Ids /\ Anchored(i) BY <1>0, <2>1
    <3>2. i = candidate => Anchored(i)' BY <2>2 DEF Anchored, Unborn, Moved, Pending
    <3>3. /\ i = snapCurrent => Anchored(i)'
          /\ i \in ToSet(retired) => Anchored(i)' BY <2>1 DEF Anchored, Dead
    <3>4. snapTh[t].cand # i /\ ~ Replaced(snapTh[t]) /\ ~ Pending(snapTh[t])
      BY <1>0, <2>1, <3>1 DEF Replaced, Pending, FrameInForm
    <3> QED BY <2>2, <3>1, <3>2, <3>3, <3>4, AnchorsKept
  <2> QED BY <2>3, <2>4
<1>7. ASSUME NEW t \in SnapThreads, RetirePrevious(t)
      PROVE  SwapperCurrent' /\ \A i \in dirs' : Anchored(i)'
  <2> DEFINE pc == IF snapTh[t].cand = SnapNone THEN "retain" ELSE "retire_candidate"
  <2>1. /\ Moved(t, pc, snapTh[t].op, SnapNone, snapTh[t].next, snapTh[t].cand)
        /\ snapTh[t].pc = "retire" /\ retired' = Append(retired, snapTh[t].prev)
        /\ UNCHANGED <<snapCurrent, candidate, dirs>> BY <1>0, <1>7, RetiresPrevious DEF RetirePrevious
  <2>2. ToSet(retired') = ToSet(retired) \cup {snapTh[t].prev} BY <1>0, <2>1, AppendElements DEF FrameInForm
  <2>3. SwapperCurrent' BY <1>0, <2>1 DEF SwapperCurrent, SwapperFrame, Moved
  <2>4. ASSUME NEW i \in dirs' PROVE Anchored(i)'
    BY <1>0, <2>1, <2>2, AnchorsKept DEF Anchored, Unborn, Dead, Moved, Pending
  <2> QED BY <2>3, <2>4
<1>8. ASSUME NEW t \in SnapThreads, RetireCandidate(t)
      PROVE  SwapperCurrent' /\ \A i \in dirs' : Anchored(i)'
  <2>1. /\ Moved(t, "retain", snapTh[t].op, snapTh[t].prev, snapTh[t].next, SnapNone)
        /\ snapTh[t].pc = "retire_candidate" /\ retired' = Append(retired, snapTh[t].cand)
        /\ UNCHANGED <<snapCurrent, candidate, dirs>> BY <1>0, <1>8, RetiresCandidate DEF RetireCandidate
  <2>2. ToSet(retired') = ToSet(retired) \cup {snapTh[t].cand} BY <1>0, <2>1, AppendElements DEF FrameInForm
  <2>3. SwapperCurrent' BY <1>0, <2>1 DEF SwapperCurrent, SwapperFrame, Moved
  <2>4. ASSUME NEW i \in dirs' PROVE Anchored(i)'
    BY <1>0, <2>1, <2>2, AnchorsKept DEF Anchored, Unborn, Dead, Pending, Replaced
  <2> QED BY <2>3, <2>4
<1>9. ASSUME NEW t \in SnapThreads,
             NEW pc, NEW op, NEW prev, NEW next, NEW cand, Moved(t, pc, op, prev, next, cand),
             UNCHANGED <<snapCurrent, candidate>>, dirs' \subseteq dirs,
             \A i \in Ids : i \in dirs' /\ i \in ToSet(retired) => i \in ToSet(retired'),
             ~ Pending(snapTh[t]), ~ Replaced(snapTh[t]), snapTh[t].pc # "retire_candidate",
             SwapperFrame(t, snapTh'[t])
      PROVE  SwapperCurrent' /\ \A i \in dirs' : Anchored(i)'
  <2>1. SwapperCurrent' BY <1>0, <1>9 DEF SwapperCurrent, SwapperFrame, Moved
  <2>2. ASSUME NEW i \in dirs' PROVE Anchored(i)' BY <1>9, AnchorsElsewhere
  <2> QED BY <2>1, <2>2
<1>10. ASSUME NEW t \in SnapThreads, SnapReturns(t),
              snapTh[t].pc \in {"promote_take", "rollback_take"},
              UNCHANGED <<snapCurrent, candidate, retired, dirs>>
       PROVE  SwapperCurrent' /\ \A i \in dirs' : Anchored(i)'
  BY <1>0, <1>10, Returning, <1>9 DEF SwapperFrame, Moved, Pending, Replaced
<1>11. ASSUME NEW t \in SnapThreads,
              PromoteBegin(t) \/ RollbackCheck(t) \/ SnapInvokeBegin(t) \/ Work(t)
       PROVE  SwapperCurrent' /\ \A i \in dirs' : Anchored(i)'
  <2>1. UNCHANGED <<snapCurrent, candidate, retired, dirs>> /\ snapTh[t].pc \in {"idle", "work"}
    BY <1>11 DEF PromoteBegin, RollbackCheck, SnapInvokeBegin, Work, SnapCalling
  <2>2. ~ Pending(snapTh[t]) /\ ~ Replaced(snapTh[t]) /\ snapTh[t].pc # "retire_candidate"
    BY <2>1 DEF Pending, Replaced
  <2>3. CASE PromoteBegin(t)
    <3>1. /\ Moved(t, "promote_take", "promote", snapCurrent, snapTh[t].next, snapTh[t].cand)
          /\ "promote" \in SnapOps[t] BY <1>0, <2>3, PromoteBegins DEF PromoteBegin, SnapCalling
    <3>2. SwapperFrame(t, snapTh'[t]) BY <3>1 DEF SwapperFrame, Moved
    <3> QED BY <1>9, <2>1, <2>2, <3>1, <3>2
  <2>4. CASE RollbackCheck(t)
    <3>1. /\ Moved(t, "rollback_take", "rollback", snapTh[t].prev, snapTh[t].next, snapTh[t].cand)
          /\ "rollback" \in SnapOps[t] BY <1>0, <2>4, RollbackChecks DEF RollbackCheck, SnapCalling
    <3>2. SwapperFrame(t, snapTh'[t]) BY <3>1 DEF SwapperFrame, Moved
    <3> QED BY <1>9, <2>1, <2>2, <3>1, <3>2
  <2>5. CASE SnapInvokeBegin(t)
    <3>1. PICK op \in SnapOps[t] \cap {"invoke", "invoke_candidate"}, prev \in Ids :
             Moved(t, "work", op, prev, snapTh[t].next, snapTh[t].cand) BY <1>0, <2>5, InvokeBegins
    <3>2. SwapperFrame(t, snapTh'[t]) BY <3>1 DEF SwapperFrame, Moved
    <3> QED BY <1>9, <2>1, <2>2, <3>1, <3>2
  <2>6. CASE Work(t) BY <1>0, <2>6, Works, <1>9, <2>1, <2>2 DEF SwapperFrame, Moved
  <2> QED BY <1>11, <2>3, <2>4, <2>5, <2>6
<1>12. ASSUME NEW t \in SnapThreads, CleanupRetain(t) \/ CleanupEvict(t)
       PROVE  SwapperCurrent' /\ \A i \in dirs' : Anchored(i)'
  <2>1. /\ UNCHANGED <<snapCurrent, candidate>> /\ snapTh[t].pc \in {"retain", "evict"}
        /\ dirs' \subseteq dirs
        /\ \A i \in Ids : i \in dirs' /\ i \in ToSet(retired) => i \in ToSet(retired')
    BY <1>0, <1>12, SafeCleanup DEF CleanupRetain, CleanupEvict
  <2>2. ~ Pending(snapTh[t]) /\ ~ Replaced(snapTh[t]) /\ snapTh[t].pc # "retire_candidate"
    BY <2>1 DEF Pending, Replaced
  <2>3. CASE CleanupRetain(t) BY <1>0, <2>3, Retains, <1>9, <2>1, <2>2 DEF SwapperFrame, Moved
  <2>4. CASE CleanupEvict(t) BY <1>0, <2>4, Returning, <1>9, <2>1, <2>2 DEF CleanupEvict, SwapperFrame, Moved
  <2> QED BY <1>12, <2>3, <2>4
<1>13. ASSUME NEW t \in SnapThreads, ReloadTake(t) \/ (RollbackTake(t) /\ ~ SnapReturns(t))
       PROVE  SwapperCurrent' /\ \A i \in dirs' : Anchored(i)'
  <2>1. CASE ReloadTake(t) BY <1>0, <2>1, ReloadTakes, <1>4 DEF ReloadTake
  <2>2. CASE RollbackTake(t) /\ ~ SnapReturns(t) BY <2>2, <1>0, RollbackTakes, <1>4 DEF RollbackTake
  <2> QED BY <1>13, <2>1, <2>2
<1>14. ASSUME NEW t \in SnapThreads, PromoteTake(t) \/ RollbackTake(t), SnapReturns(t)
       PROVE  SwapperCurrent' /\ \A i \in dirs' : Anchored(i)'
  <2>1. snapTh[t].pc \in {"promote_take", "rollback_take"} /\ UNCHANGED <<snapCurrent, retired, dirs>>
    BY <1>14 DEF PromoteTake, RollbackTake
  <2>2. Moved(t, "idle", SnapNone, SnapNone, SnapNone, SnapNone) BY <1>0, <1>14, Returning
  <2>3. UNCHANGED candidate
    <3>1. SUFFICES ASSUME \/ snapTh' = [snapTh EXCEPT ![t].pc = "promote_swap", ![t].next = candidate]
                          \/ snapTh' = [snapTh EXCEPT ![t].pc = "retire_candidate", ![t].cand = candidate]
                   PROVE  FALSE BY <1>14 DEF PromoteTake, RollbackTake
    <3>2. \E n, c \in Maybe, pc \in {"promote_swap", "retire_candidate"} :
             Moved(t, pc, snapTh[t].op, snapTh[t].prev, n, c)
      BY <1>0, <3>1, PromoteTakes, RollbackTakes, FrameFields
    <3> QED BY <2>2, <3>2 DEF Moved
  <2> QED BY <1>10, <1>14, <2>1, <2>3
<1>15. CASE UNCHANGED snapVars
  BY <1>15, <1>0 DEF snapVars, Anchored, Unborn, Dead, SwapperCurrent, SwapperFrame
<1> QED
  BY <1>1, <1>2, <1>3, <1>5, <1>6, <1>7, <1>8, <1>11, <1>12, <1>13, <1>14, <1>15
  DEF SnapNext, Replace, Decide, Retire, Use

\* The invariant holds at first.
LEMMA SnapCompleteInit == SnapInit => SnapComplete
<1> SUFFICES ASSUME SnapInit PROVE SnapComplete OBVIOUS
<1>1. \A t \in SnapThreads : snapTh[t].pc = "idle" /\ snapTh[t].op = SnapNone BY DEF SnapInit
<1>2. SwapperCurrent BY <1>1 DEF SwapperCurrent, SwapperFrame
<1>3. \A i \in dirs : Anchored(i) BY DEF SnapInit, Anchored
<1> QED BY <1>2, <1>3, SnapSafeInit DEF SnapComplete

\* What is anchored is in use or listed.
LEMMA CompleteIsSound == SnapComplete => SnapshotsSound
<1> SUFFICES ASSUME SnapComplete PROVE NoOrphanDir BY SafeIsSound DEF SnapComplete, SnapshotsSound
<1>1. SnapTypeOK /\ dirs \subseteq Ids /\ \A i \in dirs : Anchored(i)
  BY DEF SnapComplete, SnapSafe, SnapTypeOK
<1>2. \A i \in dirs : InUse(i) \/ i \in ToSet(retired) BY <1>1 DEF Anchored, Unborn, Dead, InUse
<1> QED BY <1>1, <1>2, StrongInUse DEF NoOrphanDir

\* When only one thread calls reload and promote, however many stage, roll back
\* and invoke: each directory also belongs to a snapshot in use or is listed for
\* removal.  Two threads that both found the same snapshot current would retire
\* that one twice and the one between them never.
THEOREM NothingForgotten == OneSwapper /\ SnapSpec => []SnapshotsSound
<1> SUFFICES ASSUME OneSwapper PROVE SnapSpec => []SnapshotsSound OBVIOUS
<1>1. SnapComplete /\ [SnapNext]_snapVars => SnapComplete' BY SnapCompleteStep
<1> QED BY <1>1, SnapCompleteInit, CompleteIsSound, PTL DEF SnapSpec

\* A promotion that has taken its candidate has the one it expects.
TookExpected(f) == f.pc = "promote_swap" /\ f.want # SnapNone => f.next = f.want

\* It still has it after a step, and still expects it.
StillExpects(f, g) == TookExpected(g) /\ (g.pc = "promote_swap" => g.want = f.want)

\* Only the take of a promotion, under its check, leads there.
LEMMA TookExpectedStep ==
    ASSUME SnapTypeOK, \A t \in SnapThreads : TookExpected(snapTh[t]), [SnapNext]_snapVars
    PROVE  \A t \in SnapThreads : StillExpects(snapTh[t], snapTh'[t])
<1> USE DEF SnapAt
<1>1. ASSUME NEW t \in SnapThreads, NEW pc, NEW op, NEW prev, NEW next, NEW cand,
             Moved(t, pc, op, prev, next, cand), pc # "promote_swap"
      PROVE  \A u \in SnapThreads : StillExpects(snapTh[u], snapTh'[u])
  BY <1>1 DEF Moved, TookExpected, StillExpects
<1>2. ASSUME NEW t \in SnapThreads, SnapReturns(t)
      PROVE  \A u \in SnapThreads : StillExpects(snapTh[u], snapTh'[u]) BY <1>2, Returning, <1>1
<1>3. ASSUME NEW t \in SnapThreads, Replace(t)
      PROVE  \A u \in SnapThreads : StillExpects(snapTh[u], snapTh'[u])
  <2>1. CASE BuildBegin(t) BY <1>1, <2>1, BuildBegins
  <2>2. CASE Build(t)
    <3>1. CASE snapTh' = [snapTh EXCEPT ![t].pc = IF snapTh[t].op = "reload" THEN "swap" ELSE "stage"]
      BY <1>1, <3>1, BuildSucceeds
    <3> QED BY <1>2, <2>2, <3>1 DEF Build
  <2>3. CASE SnapReloadSwap(t) BY <1>1, <2>3, ReloadSwaps
  <2>4. CASE ReloadTake(t) BY <1>1, <2>4, ReloadTakes
  <2>5. CASE SnapStage(t) BY <1>1, <2>5, Stages
  <2> QED BY <1>3, <2>1, <2>2, <2>3, <2>4, <2>5 DEF Replace
<1>4. ASSUME NEW t \in SnapThreads, PromoteTake(t)
      PROVE  \A u \in SnapThreads : StillExpects(snapTh[u], snapTh'[u])
  <2>1. CASE /\ candidate # SnapNone /\ (snapTh[t].want # SnapNone => candidate = snapTh[t].want)
             /\ snapTh' = [snapTh EXCEPT ![t].pc = "promote_swap", ![t].next = candidate]
    BY <2>1, FrameFields DEF SnapTypeOK, TookExpected, StillExpects
  <2> QED BY <1>2, <1>4, <2>1 DEF PromoteTake
<1>5. ASSUME NEW t \in SnapThreads, Decide(t), ~ PromoteTake(t)
      PROVE  \A u \in SnapThreads : StillExpects(snapTh[u], snapTh'[u])
  <2>1. CASE PromoteBegin(t) BY <1>1, <2>1, PromoteBegins
  <2>2. CASE PromoteSwap(t) BY <1>1, <2>2, PromoteSwaps
  <2>3. CASE RollbackCheck(t) BY <1>1, <2>3, RollbackChecks
  <2>4. CASE RollbackTake(t)
    <3>1. CASE snapTh' = [snapTh EXCEPT ![t].pc = "retire_candidate", ![t].cand = candidate]
      BY <1>1, <3>1, RollbackTakes
    <3> QED BY <1>2, <2>4, <3>1 DEF RollbackTake
  <2> QED BY <1>5, <2>1, <2>2, <2>3, <2>4 DEF Decide
<1>6. ASSUME NEW t \in SnapThreads, Retire(t) \/ Use(t)
      PROVE  \A u \in SnapThreads : StillExpects(snapTh[u], snapTh'[u])
  <2>1. CASE RetirePrevious(t) BY <1>1, <2>1, RetiresPrevious
  <2>2. CASE RetireCandidate(t) BY <1>1, <2>2, RetiresCandidate
  <2>3. CASE CleanupRetain(t) BY <1>1, <2>3, Retains
  <2>4. CASE CleanupEvict(t) BY <1>2, <2>4 DEF CleanupEvict
  <2>5. CASE SnapInvokeBegin(t) BY <1>1, <2>5, InvokeBegins
  <2>6. CASE Work(t) BY <1>1, <2>6, Works
  <2> QED BY <1>6, <2>1, <2>2, <2>3, <2>4, <2>5, <2>6 DEF Retire, Use
<1>7. CASE UNCHANGED snapVars BY <1>7 DEF snapVars, StillExpects
<1> QED BY <1>3, <1>4, <1>5, <1>6, <1>7 DEF SnapNext

\* For any number of threads: promote_candidate_matching makes current the
\* candidate it was asked for, or none.
THEOREM PromotesExpected == SnapSpec => PromotedIsExpected
<1> DEFINE Took == \A t \in SnapThreads : TookExpected(snapTh[t])
           Expected ==
       \A t \in SnapThreads :
          snapTh[t].op = "promote" /\ snapTh[t].want # SnapNone /\ snapTh'[t].pc = "promote_swap" =>
              snapTh'[t].next = snapTh[t].want
<1>1. SnapSpec => []SnapSafe BY SnapSafeInit, SnapSafeStep, PTL DEF SnapSpec
<1>2. SnapInit => Took BY DEF SnapInit, TookExpected
<1>3. SnapSafe /\ Took /\ [SnapNext]_snapVars => Took' BY TookExpectedStep DEF SnapSafe, StillExpects
<1>4. SnapSafe /\ Took /\ [SnapNext]_snapVars => [Expected]_snapVars
  <2> SUFFICES ASSUME SnapSafe, Took, [SnapNext]_snapVars PROVE Expected OBVIOUS
  <2>1. \A t \in SnapThreads : StillExpects(snapTh[t], snapTh'[t]) BY TookExpectedStep DEF SnapSafe
  <2> QED BY <2>1 DEF TookExpected, StillExpects
<1> QED BY <1>1, <1>2, <1>3, <1>4, PTL DEF SnapSpec, PromotedIsExpected

-----------------------------------------------------------------------------
(* The loader.                                                             *)

\* A plugin has a place in the order of the loop, and its parent an earlier one.
LEMMA PlacesOf ==
    /\ Len(Topo) \in Nat
    /\ \A p \in Plugin : \E k \in 1..Len(Topo) : p = Topo[k]
    /\ \A k \in 1..Len(Topo) : Topo[k] \in Plugin
    /\ \A k \in 1..Len(Topo) : Parent[Topo[k]] # None =>
            \E j \in 1..Len(Topo) : j < k /\ Topo[j] = Parent[Topo[k]]
<1>1. Len(Topo) \in Nat BY TopoAssumption
<1> QED BY <1>1, PluginAssumption DEF Plugin

\* Induction from the parents to the children.
LEMMA PluginInduction ==
    ASSUME NEW G, \A p \in Plugin : (Parent[p] # None => Parent[p] \in G) => p \in G
    PROVE  Plugin \subseteq G
<1> DEFINE T == {k \in 1..Len(Topo) : Topo[k] \notin G}
<1>1. CASE T = {} BY <1>1, PlacesOf
<1>2. CASE T # {}
  <2>1. T \subseteq Nat BY PlacesOf
  <2> HIDE DEF T
  <2>2. PICK k \in T : \A m \in T : k <= m BY <1>2, <2>1, LeastNumber
  <2> USE DEF T
  <2>3. Parent[Topo[k]] # None => Parent[Topo[k]] \in G BY <2>2, PlacesOf
  <2> QED BY <2>2, <2>3, PlacesOf
<1> QED BY <1>1, <1>2

\* The sets that hold the parent of p and go up along required edges; the least one.
Upward(p, R) ==
    /\ Parent[p] # None => Parent[p] \in R
    /\ \A q \in R \cap Required : Parent[q] # None => Parent[q] \in R
Ups(p) == {x \in Plugin : \A R \in SUBSET Plugin : Upward(p, R) => x \in R}

\* It unfolds as the loop of propagate_parent_failure does.
LEMMA UpsUnfold ==
    ASSUME NEW p \in Plugin
    PROVE  Ups(p) = IF Parent[p] = None THEN {}
                    ELSE {Parent[p]} \cup (IF Parent[p] \in Required THEN Ups(Parent[p]) ELSE {})
<1> DEFINE E == IF Parent[p] = None THEN {}
                ELSE {Parent[p]} \cup (IF Parent[p] \in Required THEN Ups(Parent[p]) ELSE {})
<1>0. Parent[p] # None => Parent[p] \in Plugin BY PluginAssumption
<1>1. E \in SUBSET Plugin BY <1>0 DEF Ups
<1>2. Upward(p, E)
  <2>1. Parent[p] # None => Parent[p] \in E OBVIOUS
  <2>2. ASSUME NEW q \in E, q \in Required, Parent[q] # None PROVE Parent[q] \in E
    <3>0. Parent[p] # None /\ q \in Plugin BY <1>1, <2>2
    <3>1. Parent[q] \in Plugin BY <2>2, <3>0, PluginAssumption
    <3>2. CASE q = Parent[p] BY <2>2, <3>1, <3>0, <3>2 DEF Ups, Upward
    <3>3. CASE q # Parent[p] BY <3>0, <3>3, <2>2, <3>1 DEF Ups, Upward
    <3> QED BY <3>2, <3>3
  <2> HIDE DEF E
  <2> QED BY <2>1, <2>2 DEF Upward
<1>3. ASSUME NEW R \in SUBSET Plugin, Upward(p, R) PROVE E \subseteq R
  <2>1. CASE Parent[p] = None BY <2>1
  <2>2. CASE Parent[p] # None
    <3>1. Parent[p] \in R BY <1>3, <2>2 DEF Upward
    <3>2. ASSUME Parent[p] \in Required PROVE Ups(Parent[p]) \subseteq R BY <1>3, <3>1, <3>2 DEF Upward, Ups
    <3> QED BY <2>2, <3>1, <3>2
  <2> QED BY <2>1, <2>2
<1> HIDE DEF E
<1>4. Ups(p) = E BY <1>1, <1>2, <1>3 DEF Ups
<1> QED BY <1>4 DEF E

\* What propagate_parent_failure visits, one step at a time.
LEMMA ChainUnfold ==
    ASSUME NEW p \in Plugin
    PROVE  Chain(p) = IF Parent[p] = None THEN {}
                      ELSE {Parent[p]} \cup (IF Parent[p] \in Required THEN Chain(Parent[p]) ELSE {})
<1> DEFINE Is(f) == f = [q \in Plugin |-> IF Parent[q] = None THEN {}
                         ELSE {Parent[q]} \cup (IF Parent[q] \in Required THEN f[Parent[q]] ELSE {})]
           up == CHOOSE f : Is(f)
           g == [q \in Plugin |-> Ups(q)]
<1>1. Is(g)
  <2>1. ASSUME NEW q \in Plugin
        PROVE  g[q] = IF Parent[q] = None THEN {}
                      ELSE {Parent[q]} \cup (IF Parent[q] \in Required THEN g[Parent[q]] ELSE {})
    <3>1. Parent[q] # None => Parent[q] \in Plugin BY PluginAssumption
    <3>2. g[q] = Ups(q) /\ (Parent[q] # None => g[Parent[q]] = Ups(Parent[q])) BY <3>1
    <3> HIDE DEF g
    <3> QED BY <3>2, UpsUnfold
  <2>2. g = [q \in Plugin |-> g[q]] OBVIOUS
  <2> HIDE DEF g
  <2> QED BY <2>1, <2>2
<1>2. Is(up) BY <1>1
<1>3. \A q : Chain(q) = up[q] BY DEF Chain
<1> HIDE DEF up
<1>4. up[p] = IF Parent[p] = None THEN {}
              ELSE {Parent[p]} \cup (IF Parent[p] \in Required THEN up[Parent[p]] ELSE {}) BY <1>2
<1> QED BY <1>3, <1>4

\* A failure that reaches a plugin over required edges goes on to its parent ...
LEMMA ChainUp ==
    ASSUME NEW p \in Plugin
    PROVE  /\ Chain(p) \subseteq Plugin
           /\ Parent[p] # None => Parent[p] \in Chain(p)
           /\ \A q \in Chain(p) \cap Required : Parent[q] # None => Parent[q] \in Chain(p)
<1> DEFINE G == {p0 \in Plugin : /\ Chain(p0) \subseteq Plugin
                                 /\ \A q \in Chain(p0) \cap Required :
                                        Parent[q] # None => Parent[q] \in Chain(p0)}
<1>1. ASSUME NEW x \in Plugin, Parent[x] # None => Parent[x] \in G PROVE x \in G
  <2>1. CASE Parent[x] = None BY <2>1, ChainUnfold
  <2>2. CASE Parent[x] # None /\ Parent[x] \notin Required BY <1>1, <2>2, ChainUnfold
  <2>3. CASE Parent[x] # None /\ Parent[x] \in Required BY <2>3, ChainUnfold, <1>1
  <2> QED BY <2>1, <2>2, <2>3
<1> HIDE DEF G
<1>2. Plugin \subseteq G BY <1>1, PluginInduction
<1> QED BY <1>2, ChainUnfold DEF G

\* ... and to no plugin outside of a set that is closed under failures.
LEMMA ChainMin ==
    ASSUME NEW idx, NEW art, NEW R \in SUBSET Plugin, Closed(idx, art, R),
           NEW p \in Plugin, p \in R, p \in Required
    PROVE  Chain(p) \subseteq R
<1> DEFINE G == {x \in Plugin : x \in R /\ x \in Required => Chain(x) \subseteq R}
<1>1. ASSUME NEW x \in Plugin, Parent[x] # None => Parent[x] \in G PROVE x \in G
  <2> SUFFICES ASSUME x \in R, x \in Required PROVE Chain(x) \subseteq R OBVIOUS
  <2>1. Parent[x] # None => Parent[x] \in R BY PluginAssumption DEF Closed
  <2> QED BY <1>1, <2>1, ChainUnfold
<1> HIDE DEF G
<1>2. Plugin \subseteq G BY <1>1, PluginInduction
<1> QED BY <1>2 DEF G

\* The registry after no turn of the loop, and the table of Load up to its k-th entry.
NotYet == [p \in Plugin |-> Unavailable("NotLoaded")]
Turns(idx, art, k, f) ==
    f = [n \in 0..k |-> IF n = 0 THEN NotYet ELSE LoadStep(idx, art, f[n - 1], Topo[n])]

\* There is such a table.
LEMMA TurnsExist ==
    ASSUME NEW idx, NEW art
    PROVE  \A k \in Nat : \E f : Turns(idx, art, k, f)
<1> DEFINE P == {k \in Nat : \E f : Turns(idx, art, k, f)}
<1>1. 0 \in P
  <2> DEFINE f == [n \in 0..0 |-> NotYet]
  <2>1. Turns(idx, art, 0, f) BY DEF Turns
  <2> QED BY <2>1
<1>2. ASSUME NEW k \in Nat, k \in P PROVE k + 1 \in P
  <2>1. PICK f : Turns(idx, art, k, f) BY <1>2
  <2> DEFINE last == LoadStep(idx, art, f[k], Topo[k + 1])
             g == [n \in 0..k + 1 |-> IF n = k + 1 THEN last ELSE f[n]]
  <2>2. \A n \in 0..k : g[n] = f[n] OBVIOUS
  <2>3. g[k + 1] = last OBVIOUS
  <2>4. ASSUME NEW n \in 0..k + 1
        PROVE  g[n] = IF n = 0 THEN NotYet ELSE LoadStep(idx, art, g[n - 1], Topo[n])
    <3>1. CASE n = k + 1
      <4>1. n - 1 = k /\ k \in 0..k /\ n # 0 BY <3>1
      <4> HIDE DEF g
      <4> QED BY <2>2, <2>3, <3>1, <4>1
    <3>2. CASE n # k + 1
      <4>1. n \in 0..k /\ (n # 0 => n - 1 \in 0..k) BY <3>2
      <4>2. f[n] = IF n = 0 THEN NotYet ELSE LoadStep(idx, art, f[n - 1], Topo[n]) BY <2>1, <4>1 DEF Turns
      <4> HIDE DEF g
      <4> QED BY <2>2, <4>1, <4>2
    <3> QED BY <3>1, <3>2
  <2>5. g = [n \in 0..k + 1 |-> g[n]] OBVIOUS
  <2> HIDE DEF g
  <2>6. Turns(idx, art, k + 1, g) BY <2>4, <2>5 DEF Turns
  <2> QED BY <2>6
<1> HIDE DEF P
<1>3. Nat \subseteq P BY <1>1, <1>2, SetInduction
<1> QED BY <1>3 DEF P

\* What Load is: the last entry of the table.
LEMMA LoadFromTurns ==
    ASSUME NEW idx, NEW art
    PROVE  \E f : Turns(idx, art, Len(Topo), f) /\ Load(idx, art) = f[Len(Topo)]
<1> DEFINE after == CHOOSE f : Turns(idx, art, Len(Topo), f)
<1>1. Turns(idx, art, Len(Topo), after) BY TurnsExist, PlacesOf
<1>2. Load(idx, art) = after[Len(Topo)] BY DEF Load, Turns, NotYet
<1> QED BY <1>1, <1>2

\* An entry of the loader: the artifact as it is, or the reason why not.
Honest(idx, art, e, p) ==
    \/ e = LoadedEntry(idx, art, p)
    \/ \E why \in {"NotLoaded", "HashMismatch", "SymbolMissing", "InitFailed"} : e = Unavailable(why)
Turned(n) == {Topo[j] : j \in 1..n}
Up(r, p) == r[p].res = "Loaded"

\* The loop over topo_order after n turns.
LoopInv(idx, art, r, n) ==
    /\ r = [p \in Plugin |-> r[p]]
    /\ \A p \in Plugin : Honest(idx, art, r[p], p)
    /\ \A p \in Turned(n) :
        /\ Fault(idx, art, p) # "Loaded" => ~ Up(r, p)
        /\ p \in Required /\ ~ Up(r, p) /\ Parent[p] # None => ~ Up(r, Parent[p])
        /\ ~ Up(r, p) /\ p \notin MustFail(idx, art) => Parent[p] # None /\ ~ Up(r, Parent[p])
        /\ Up(r, p) /\ Parent[p] # None /\ ~ Up(r, Parent[p]) =>
              \E k \in 1..n : /\ \E j \in 1..n : j < k /\ Topo[j] = p
                              /\ Topo[k] \in Required /\ Fault(idx, art, Topo[k]) # "Loaded"
                              /\ Parent[p] \in Chain(Topo[k])

\* The faulty plugins must fail, and with a required one its chain.
LEMMA MustFails ==
    ASSUME NEW idx, NEW art, NEW p \in Plugin, Fault(idx, art, p) # "Loaded"
    PROVE  /\ p \in MustFail(idx, art)
           /\ p \in Required => Chain(p) \subseteq MustFail(idx, art)
<1>1. \A S \in SUBSET Plugin : Closed(idx, art, S) => p \in S BY DEF Closed
<1>2. p \in Required => \A S \in SUBSET Plugin : Closed(idx, art, S) => Chain(p) \subseteq S BY <1>1, ChainMin
<1>3. Chain(p) \subseteq Plugin BY ChainUp
<1> QED BY <1>1, <1>2, <1>3 DEF MustFail

\* The results of the entries a turn makes.
LEMMA EntryResults ==
    ASSUME NEW idx, NEW art, NEW p, NEW why
    PROVE  /\ LoadedEntry(idx, art, p).res = "Loaded"
           /\ Unavailable(why).res = why
           /\ Fault(idx, art, p) \in {"Loaded", "HashMismatch", "SymbolMissing"}
BY DEF LoadedEntry, Unavailable, Fault

\* One turn.
LEMMA LoopTurn ==
    ASSUME NEW idx, NEW art, NEW r, NEW n \in Nat, n + 1 <= Len(Topo), LoopInv(idx, art, r, n)
    PROVE  LoopInv(idx, art, LoadStep(idx, art, r, Topo[n + 1]), n + 1)
<1>0. PICK p : p = Topo[n + 1] OBVIOUS
<1>1. n + 1 \in 1..Len(Topo) /\ p \in Plugin BY <1>0, PlacesOf
<1>2. Turned(n + 1) = Turned(n) \cup {p} /\ p \notin Turned(n) /\ Turned(n) \subseteq Plugin
  <2>1. 1..(n + 1) = 1..n \cup {n + 1} OBVIOUS
  <2>2. Turned(n + 1) = Turned(n) \cup {p} BY <1>0, <2>1 DEF Turned
  <2>3. ASSUME NEW j \in 1..n PROVE Topo[j] # p /\ Topo[j] \in Plugin
    <3>1. j \in 1..Len(Topo) /\ j # n + 1 BY <1>1, PlacesOf
    <3> QED BY <1>0, <1>1, <3>1, TopoAssumption, PlacesOf
  <2> QED BY <2>2, <2>3 DEF Turned
<1>3. ASSUME NEW q \in Turned(n + 1), Parent[q] # None
      PROVE  Parent[q] \in Turned(n) /\ Parent[q] # p /\ Parent[q] \in Plugin
  <2>1. PICK k \in 1..(n + 1) : q = Topo[k] BY DEF Turned
  <2>2. k \in 1..Len(Topo) BY <1>1, PlacesOf
  <2>3. PICK j \in 1..Len(Topo) : j < k /\ Topo[j] = Parent[q] BY <1>3, <2>1, <2>2, PlacesOf
  <2>4. j \in 1..n BY <2>3
  <2> QED BY <1>2, <2>3, <2>4 DEF Turned
<1>4. PICK s : s = LoadStep(idx, art, r, p) OBVIOUS
<1>5. \A q \in Plugin : Honest(idx, art, r[q], q) BY DEF LoopInv
<1>6. r = [q \in Plugin |-> r[q]] /\ DOMAIN r = Plugin BY DEF LoopInv
<1> DEFINE Old(q) ==
        /\ Fault(idx, art, q) # "Loaded" => ~ Up(r, q)
        /\ q \in Required /\ ~ Up(r, q) /\ Parent[q] # None => ~ Up(r, Parent[q])
        /\ ~ Up(r, q) /\ q \notin MustFail(idx, art) => Parent[q] # None /\ ~ Up(r, Parent[q])
        /\ Up(r, q) /\ Parent[q] # None /\ ~ Up(r, Parent[q]) =>
              \E k \in 1..n : /\ \E j \in 1..n : j < k /\ Topo[j] = q
                              /\ Topo[k] \in Required /\ Fault(idx, art, Topo[k]) # "Loaded"
                              /\ Parent[q] \in Chain(Topo[k])
           New(q) ==
        /\ Fault(idx, art, q) # "Loaded" => ~ Up(s, q)
        /\ q \in Required /\ ~ Up(s, q) /\ Parent[q] # None => ~ Up(s, Parent[q])
        /\ ~ Up(s, q) /\ q \notin MustFail(idx, art) => Parent[q] # None /\ ~ Up(s, Parent[q])
        /\ Up(s, q) /\ Parent[q] # None /\ ~ Up(s, Parent[q]) =>
              \E k \in 1..n + 1 : /\ \E j \in 1..n + 1 : j < k /\ Topo[j] = q
                                  /\ Topo[k] \in Required /\ Fault(idx, art, Topo[k]) # "Loaded"
                                  /\ Parent[q] \in Chain(Topo[k])
<1>7. \A q \in Turned(n) : Old(q) BY DEF LoopInv
<1> SUFFICES /\ s = [q \in Plugin |-> s[q]]
             /\ \A q \in Plugin : Honest(idx, art, s[q], q)
             /\ \A q \in Turned(n + 1) : New(q) BY <1>0, <1>4 DEF LoopInv
<1>8. \A q : Old(q) /\ Up(s, q) = Up(r, q) /\ (Parent[q] # None => Up(s, Parent[q]) = Up(r, Parent[q])) => New(q)
  OBVIOUS
<1>9. CASE Orphaned(r, p)
  <2>1. s = [r EXCEPT ![p] = Unavailable("InitFailed")] BY <1>4, <1>9 DEF LoadStep
  <2>2. /\ s[p] = Unavailable("InitFailed") /\ s = [q \in Plugin |-> s[q]]
        /\ \A q \in Plugin \ {p} : s[q] = r[q] BY <1>1, <1>6, <2>1
  <2>3. \A q \in Plugin : Honest(idx, art, s[q], q) BY <1>5, <2>2 DEF Honest
  <2>4. ASSUME NEW q \in Turned(n) PROVE New(q) BY <1>2, <1>3, <2>2, <1>7, <1>8 DEF Up
  <2>5. ~ Up(s, p) BY <2>2, EntryResults DEF Up
  <2>6. Parent[p] # None /\ ~ Up(s, Parent[p]) BY <1>2, <1>3, <1>9, <2>2 DEF Up, Orphaned
  <2>7. New(p) BY <2>5, <2>6
  <2> HIDE DEF New
  <2> QED BY <1>2, <2>2, <2>3, <2>4, <2>7
<1>10. CASE ~ Orphaned(r, p) /\ Fault(idx, art, p) = "Loaded"
  <2>1. s = [r EXCEPT ![p] = LoadedEntry(idx, art, p)] BY <1>4, <1>10 DEF LoadStep
  <2>2. /\ s[p] = LoadedEntry(idx, art, p) /\ s = [q \in Plugin |-> s[q]]
        /\ \A q \in Plugin \ {p} : s[q] = r[q] BY <1>1, <1>6, <2>1
  <2>3. \A q \in Plugin : Honest(idx, art, s[q], q) BY <1>5, <2>2 DEF Honest
  <2>4. ASSUME NEW q \in Turned(n) PROVE New(q) BY <1>2, <1>3, <2>2, <1>7, <1>8 DEF Up
  <2>5. Up(s, p) BY <2>2, EntryResults DEF Up
  <2>6. Parent[p] # None => Up(s, Parent[p]) BY <1>2, <1>3, <1>10, <2>2 DEF Up, Orphaned
  <2>7. New(p) BY <1>10, <2>5, <2>6
  <2> HIDE DEF New
  <2> QED BY <1>2, <2>2, <2>3, <2>4, <2>7
<1>11. CASE ~ Orphaned(r, p) /\ Fault(idx, art, p) # "Loaded"
  <2> DEFINE Hit == {q \in Plugin : q # p /\ p \in Required /\ q \in Chain(p)}
  <2>1. s = [q \in Plugin |-> IF q = p THEN Unavailable(Fault(idx, art, p))
                              ELSE IF p \in Required /\ q \in Chain(p) THEN Unavailable("InitFailed")
                              ELSE r[q]] BY <1>4, <1>11 DEF LoadStep
  <2>2. /\ s = [q \in Plugin |-> s[q]] /\ s[p] = Unavailable(Fault(idx, art, p))
        /\ \A q \in Hit : s[q] = Unavailable("InitFailed")
        /\ \A q \in Plugin \ (Hit \cup {p}) : s[q] = r[q] BY <1>1, <2>1
  <2>3. \A q \in Plugin : Honest(idx, art, s[q], q) BY <1>5, <1>11, <2>2, EntryResults DEF Honest
  <2>4. ~ Up(s, p) /\ \A q \in Hit : ~ Up(s, q) BY <1>11, <2>2, EntryResults DEF Up
  <2>5. \A q \in Plugin \ (Hit \cup {p}) : Up(s, q) = Up(r, q) BY <2>2 DEF Up
  <2>6. \A q \in Plugin : Up(s, q) => Up(r, q) \/ q = p BY <2>4, <2>5
  <2>7. p \in MustFail(idx, art) /\ Hit \subseteq MustFail(idx, art) BY <1>1, <1>11, MustFails
  <2>8. ASSUME NEW q \in Turned(n + 1) PROVE New(q)
    <3>0. q \in Plugin /\ (q # p => Old(q) /\ q \in Turned(n)) BY <1>1, <1>2, <1>7
    <3>1. Fault(idx, art, q) # "Loaded" => ~ Up(s, q) BY <2>4, <2>6, <3>0
    <3>2. ASSUME q \in Required, ~ Up(s, q), Parent[q] # None PROVE ~ Up(s, Parent[q])
      <4>1. Parent[q] \in Plugin /\ Parent[q] # p BY <1>3, <3>2
      <4>2. CASE q \in Hit \/ q = p BY <1>1, <3>2, <4>2, ChainUp, <4>1, <2>4
      <4>3. CASE q \notin Hit /\ q # p BY <2>5, <3>0, <3>2, <4>3, <2>6, <4>1
      <4> QED BY <4>2, <4>3
    <3>3. ASSUME ~ Up(s, q), q \notin MustFail(idx, art)
          PROVE  Parent[q] # None /\ ~ Up(s, Parent[q]) BY <2>7, <3>3, <2>5, <3>0, <1>3, <2>6
    <3>4. ASSUME Up(s, q), Parent[q] # None, ~ Up(s, Parent[q])
          PROVE  \E k \in 1..n + 1 : /\ \E j \in 1..n + 1 : j < k /\ Topo[j] = q
                                     /\ Topo[k] \in Required /\ Fault(idx, art, Topo[k]) # "Loaded"
                                     /\ Parent[q] \in Chain(Topo[k])
      <4>1. q # p /\ Up(r, q) /\ q \in Turned(n) BY <2>4, <2>6, <3>0, <3>4
      <4>2. Parent[q] \in Plugin /\ Parent[q] # p BY <1>3, <3>4
      <4>3. CASE ~ Up(r, Parent[q]) BY <3>0, <3>4, <4>1, <4>3
      <4>4. CASE Up(r, Parent[q])
        <5>1. Parent[q] \in Hit BY <2>5, <3>4, <4>2, <4>4
        <5>2. PICK j \in 1..n : Topo[j] = q BY <4>1 DEF Turned
        <5>3. n + 1 \in 1..n + 1 /\ j \in 1..n + 1 /\ j < n + 1 OBVIOUS
        <5> QED BY <1>0, <1>11, <5>1, <5>2, <5>3
      <4> QED BY <4>3, <4>4
    <3> QED BY <3>1, <3>2, <3>3, <3>4
  <2> HIDE DEF New
  <2> QED BY <2>2, <2>3, <2>8
<1> QED BY <1>9, <1>10, <1>11

\* The whole loop.
LEMMA LoadLoop ==
    ASSUME NEW idx, NEW art
    PROVE  LoopInv(idx, art, Load(idx, art), Len(Topo))
<1>1. PICK f : Turns(idx, art, Len(Topo), f) /\ Load(idx, art) = f[Len(Topo)] BY LoadFromTurns
<1> DEFINE P == {n \in Nat : n <= Len(Topo) => LoopInv(idx, art, f[n], n)}
<1>2. 0 \in P BY <1>1, PlacesOf DEF Turns, Turned, LoopInv, NotYet, Honest
<1>3. ASSUME NEW n \in Nat, n \in P PROVE n + 1 \in P
  <2> SUFFICES ASSUME n + 1 <= Len(Topo) PROVE LoopInv(idx, art, f[n + 1], n + 1) OBVIOUS
  <2>1. n + 1 \in 0..Len(Topo) /\ n + 1 # 0 /\ n + 1 - 1 = n /\ n <= Len(Topo) BY PlacesOf
  <2>2. f[n + 1] = LoadStep(idx, art, f[n], Topo[n + 1]) BY <1>1, <2>1 DEF Turns
  <2> QED BY <1>3, <2>1, <2>2, LoopTurn
<1> HIDE DEF P
<1>4. Nat \subseteq P BY <1>2, <1>3, SetInduction
<1> QED BY <1>1, <1>4, PlacesOf DEF P

\* Whatever the index and the artifacts are.
LEMMA LoadAlwaysPropagates == LoadPropagates
<1>1. PICK r : r = Load(index, disk) OBVIOUS
<1>2. LoopInv(index, disk, r, Len(Topo)) BY <1>1, LoadLoop
<1>3. Turned(Len(Topo)) = Plugin BY DEF Turned, Plugin
<1> DEFINE failed == {p \in Plugin : r[p].res # "Loaded"}
<1>4. Closed(index, disk, failed)
  <2> SUFFICES ASSUME NEW p \in Plugin,
                      Fault(index, disk, p) # "Loaded" \/ \E q \in failed \cap Required : Parent[q] = p
               PROVE  p \in failed BY DEF Closed
  <2> QED BY <1>2, <1>3, TopoAssumption DEF LoopInv, Up
<1>5. MustFail(index, disk) \subseteq failed BY <1>4 DEF MustFail
<1>6. ASSUME NEW p \in failed \ MustFail(index, disk) PROVE Parent[p] \in failed
  BY <1>2, <1>3, PluginAssumption, ZenonT(60) DEF LoopInv, Up
<1>7. ASSUME NEW p \in Plugin \ failed, Parent[p] \in failed
      PROVE  \E q \in Required : /\ Comes(p, q) /\ Fault(index, disk, q) # "Loaded"
                                 /\ Parent[p] \in Chain(q)
  <2>1. Parent[p] # None BY <1>7, TopoAssumption
  <2>2. p \in Turned(Len(Topo)) /\ Up(r, p) /\ ~ Up(r, Parent[p]) BY <1>3, <1>7 DEF Up
  <2>3. PICK k \in 1..Len(Topo) : /\ \E j \in 1..Len(Topo) : j < k /\ Topo[j] = p
                                  /\ Topo[k] \in Required /\ Fault(index, disk, Topo[k]) # "Loaded"
                                  /\ Parent[p] \in Chain(Topo[k]) BY <1>2, <2>1, <2>2 DEF LoopInv
  <2>4. Comes(p, Topo[k]) BY <2>3 DEF Comes
  <2> QED BY <2>3, <2>4
<1> HIDE DEF failed
<1> QED BY <1>1, <1>5, <1>6, <1>7 DEF LoadPropagates, failed

-----------------------------------------------------------------------------
(* The plugins of a running host.                                          *)

IndexEntry == [sha : Artifact, docs : {0, 1}, abi : {0, 1}]
Entry ==
    [res : {"Loaded", "NotLoaded", "HashMismatch", "SymbolMissing", "InitFailed", "AbiMismatch",
            "ContractViolation"},
     docs : {0, 1, None}, abi : {0, 1, None}, art : Artifact \cup {None}]
InCall == {"check", "handle", "keep"}
InReload == {"heal", "swap", "stop", "unregister", "phase1", "phase2"}
ThreadFrame ==
    [pc : {"idle"} \cup InCall \cup InReload, p : Plugin \cup {None}, act : {"call", "start", "stop"},
     epoch : Epochs, entry : Entry \cup {None},
     todo : SUBSET Plugin, targets : SUBSET Plugin, stopped : SUBSET Plugin,
     idx : [Plugin -> IndexEntry] \cup {None},
     next : [Plugin -> Entry] \cup [Plugin -> Artifact] \cup {None}]

RuntimeTypes ==
    /\ disk \in [Plugin -> Artifact] /\ index \in [Plugin -> IndexEntry]
    /\ reg \in [Epochs -> [Plugin -> Entry]]
    /\ current \in Epochs /\ reloads \in Epochs /\ built \in 0..MaxBuilds
    /\ lib \in [Plugin -> Epochs \cup {None}] /\ worker \in [Plugin -> Epochs \cup {None}]
    /\ th \in [Thread -> ThreadFrame] /\ touched \subseteq Epochs \X Plugin

\* A loaded entry tells the docs of the artifact it runs.
TellsDocs(entry) == entry.res = "Loaded" => entry.docs = entry.art.docs

\* What the frame of a thread holds, at each point, after n reloads.
Preparing(f) == f.pc \in {"heal", "swap"}
FrameHolds(f, n) ==
    /\ f.todo \subseteq f.targets /\ f.epoch <= n
    /\ f.pc \in InReload => n > 0
    /\ f.pc \in InCall \cup {"unregister"} => f.p \in Plugin
    /\ f.pc = "check" => f.entry \in Entry
    /\ f.pc = "phase2" => f.next \in [Plugin -> Artifact]
    /\ Preparing(f) => /\ f.idx \in [Plugin -> IndexEntry] /\ f.next \in [Plugin -> Entry]
                       /\ \A p \in Plugin : TellsDocs(f.next[p])
    /\ f.pc = "swap" => Accepted(f.next)
FramesHold == \A t \in Thread : FrameHolds(th[t], reloads)

\* The snapshot a full reload prepares is known to nobody else.
Unseen(f) == f.epoch # 0 /\ f.epoch # current
NextUnseen ==
    \A t \in Thread : Preparing(th[t]) =>
        Unseen(th[t]) /\ \A u \in Thread \ {t} : th[u].epoch # th[t].epoch

\* What an invocation compares is what the registry says, until a subtree reload
\* rewrites the entry; loaded entries tell the docs of their artifact.
Agrees(f) ==
    f.pc = "check" /\ <<f.epoch, f.p>> \notin touched =>
        /\ f.entry.docs = f.entry.art.docs
        /\ f.entry.abi = reg[f.epoch][f.p].abi /\ f.entry.art = reg[f.epoch][f.p].art
ChecksAgree == \A t \in Thread : Agrees(th[t])
EntriesTrue == \A e \in Epochs, p \in Plugin : <<e, p>> \notin touched => TellsDocs(reg[e][p])

WorkersOld == \A p \in Plugin : worker[p] # None => worker[p] <= reloads

RuntimeSafe ==
    /\ RuntimeTypes /\ current <= reloads /\ FramesHold /\ NextUnseen
    /\ ChecksAgree /\ EntriesTrue /\ MarksAreReal
    /\ WorkersOld /\ WorkerMapped

\* The entries of a load are entries of a registry.
LEMMA EntryForms ==
    ASSUME NEW idx \in [Plugin -> IndexEntry], NEW art \in [Plugin -> Artifact]
    PROVE  /\ \A p \in Plugin : LoadedEntry(idx, art, p) \in Entry /\ TellsDocs(LoadedEntry(idx, art, p))
           /\ \A why \in {"NotLoaded", "HashMismatch", "SymbolMissing", "InitFailed"} :
                  Unavailable(why) \in Entry /\ TellsDocs(Unavailable(why))
BY DEF LoadedEntry, Unavailable, Entry, IndexEntry, Artifact, TellsDocs

\* What a load returns is a registry.
LEMMA LoadTyped ==
    ASSUME NEW idx \in [Plugin -> IndexEntry], NEW art \in [Plugin -> Artifact]
    PROVE  /\ Load(idx, art) \in [Plugin -> Entry]
           /\ \A p \in Plugin : TellsDocs(Load(idx, art)[p])
<1>1. PICK r : r = Load(idx, art) OBVIOUS
<1>2. r = [p \in Plugin |-> r[p]] /\ \A p \in Plugin : Honest(idx, art, r[p], p) BY <1>1, LoadLoop DEF LoopInv
<1>3. \A p \in Plugin : r[p] \in Entry /\ TellsDocs(r[p]) BY <1>2, EntryForms DEF Honest
<1> QED BY <1>1, <1>2, <1>3

\* What a check of an invocation can find, and why.
LEMMA VerdictForms ==
    ASSUME NEW entry
    PROVE  /\ Verdict(entry) \in {"SymbolMissing", "AbiMismatch", "ContractViolation", "Loaded"}
           /\ Verdict(entry) = "AbiMismatch" => entry.art.abi # entry.abi
           /\ Verdict(entry) = "ContractViolation" => entry.art.docs # entry.docs
BY DEF Verdict

\* A thread that rests.
LEMMA IdleForm ==
    /\ Idle \in ThreadFrame /\ Idle.pc = "idle" /\ Idle.epoch = 0
    /\ \A n \in Nat : FrameHolds(Idle, n)
<1>1. 0 \in Epochs BY RuntimeBounds DEF Epochs
<1> QED BY <1>1 DEF Idle, ThreadFrame, FrameHolds, Preparing, InCall, InReload

\* The host boots into the invariant.
LEMMA RuntimeSafeInit == RuntimeInit => RuntimeSafe
<1> SUFFICES ASSUME RuntimeInit PROVE RuntimeSafe OBVIOUS
<1> USE DEF RuntimeInit
<1>1. 0 \in Epochs /\ 0 \in Nat BY RuntimeBounds DEF Epochs
<1>2. First \in Artifact /\ 0 \in 0..MaxBuilds BY RuntimeBounds DEF First, Artifact
<1>3. Recorded(First) \in IndexEntry BY <1>2 DEF Recorded, IndexEntry, First
<1>4. disk \in [Plugin -> Artifact] /\ index \in [Plugin -> IndexEntry] BY <1>2, <1>3
<1>5. \A e \in Epochs, p \in Plugin :
        /\ reg[e][p] \in {LoadedEntry(index, disk, p), Unavailable("NotLoaded")}
        /\ reg[e][p].res \in {"Loaded", "NotLoaded"} BY EntryResults
<1>6. \A e \in Epochs, p \in Plugin : reg[e][p] \in Entry /\ TellsDocs(reg[e][p]) BY <1>4, <1>5, EntryForms
<1>7. reg \in [Epochs -> [Plugin -> Entry]] BY <1>6
<1>8. RuntimeTypes BY <1>1, <1>2, <1>4, <1>7, IdleForm DEF RuntimeTypes
<1>9. current <= reloads /\ FramesHold /\ NextUnseen /\ ChecksAgree
  BY <1>1, IdleForm DEF FramesHold, NextUnseen, ChecksAgree, Preparing, Agrees
<1>10. EntriesTrue /\ MarksAreReal BY <1>5, <1>6 DEF EntriesTrue, MarksAreReal
<1>11. WorkersOld /\ WorkerMapped BY DEF WorkersOld, WorkerMapped
<1> QED BY <1>8, <1>9, <1>10, <1>11 DEF RuntimeSafe

-----------------------------------------------------------------------------
\* Thread t moves to frame g.
LEMMA FrameMoves ==
    ASSUME RuntimeSafe, NEW t \in Thread, NEW g \in ThreadFrame, th' = [th EXCEPT ![t] = g],
           reloads' \in Epochs, reloads <= reloads', FrameHolds(g, reloads')
    PROVE  /\ th' \in [Thread -> ThreadFrame] /\ th'[t] = g /\ \A u \in Thread \ {t} : th'[u] = th[u]
           /\ FramesHold'
<1>1. th \in [Thread -> ThreadFrame] /\ reloads \in Epochs BY DEF RuntimeSafe, RuntimeTypes
<1>2. th' \in [Thread -> ThreadFrame] /\ th'[t] = g /\ \A u \in Thread \ {t} : th'[u] = th[u] BY <1>1
<1>3. ASSUME NEW u \in Thread \ {t} PROVE FrameHolds(th[u], reloads')
  BY <1>1, RuntimeBounds DEF RuntimeSafe, FramesHold, ThreadFrame, Epochs, FrameHolds
<1> QED BY <1>2, <1>3 DEF FramesHold

\* The snapshots under preparation stay unseen when t goes on with its epoch, or
\* with that of the current snapshot, or rests.
LEMMA UnseenKept ==
    ASSUME RuntimeSafe, NEW t \in Thread, NEW g, th'[t] = g, \A u \in Thread \ {t} : th'[u] = th[u],
           current' = current,
           Preparing(g) => Preparing(th[t]) /\ g.epoch = th[t].epoch,
           g.epoch \in {0, current, th[t].epoch}
    PROVE  NextUnseen'
BY DEF RuntimeSafe, NextUnseen, Unseen

\* The registries: only results of entries change, to what a check found.
LEMMA MarkKept ==
    ASSUME RuntimeSafe, NEW e \in Epochs, NEW p \in Plugin, NEW entry,
           reg' = [reg EXCEPT ![e][p].res = Verdict(entry)], touched' = touched,
           Verdict(entry) = "Loaded" => reg[e][p].res = "Loaded",
           <<e, p>> \notin touched =>
               /\ entry.docs = entry.art.docs
               /\ entry.abi = reg[e][p].abi /\ entry.art = reg[e][p].art
    PROVE  /\ reg' \in [Epochs -> [Plugin -> Entry]] /\ EntriesTrue' /\ MarksAreReal'
           /\ \A f \in ThreadFrame : FrameHolds(f, reloads) /\ Agrees(f) => Agrees(f)'
<1>1. reg \in [Epochs -> [Plugin -> Entry]] BY DEF RuntimeSafe, RuntimeTypes
<1> DEFINE v == Verdict(entry)
<1>2. v \in {"SymbolMissing", "AbiMismatch", "ContractViolation", "Loaded"} BY VerdictForms
<1>3. reg[e][p] \in Entry BY <1>1
<1> HIDE DEF v
<1>4. /\ [reg[e][p] EXCEPT !.res = v] \in Entry
      /\ [reg[e][p] EXCEPT !.res = v].res = v
      /\ [reg[e][p] EXCEPT !.res = v].docs = reg[e][p].docs
      /\ [reg[e][p] EXCEPT !.res = v].abi = reg[e][p].abi
      /\ [reg[e][p] EXCEPT !.res = v].art = reg[e][p].art BY <1>2, <1>3 DEF Entry
<1>5. /\ reg'[e][p] = [reg[e][p] EXCEPT !.res = v]
      /\ \A e2 \in Epochs, q \in Plugin : <<e2, q>> # <<e, p>> => reg'[e2][q] = reg[e2][q]
      /\ reg' \in [Epochs -> [Plugin -> Entry]] BY <1>1, <1>4 DEF v
<1>6. reg'[e][p].res = v /\ reg'[e][p].docs = reg[e][p].docs /\ reg'[e][p].abi = reg[e][p].abi
        /\ reg'[e][p].art = reg[e][p].art BY <1>4, <1>5
<1>7. <<e, p>> \notin touched =>
        v # "ContractViolation" /\ (v = "AbiMismatch" => reg[e][p].abi # reg[e][p].art.abi)
  BY VerdictForms DEF v
<1>8. EntriesTrue'
  <2> SUFFICES ASSUME NEW e2 \in Epochs, NEW q \in Plugin, <<e2, q>> \notin touched
               PROVE  TellsDocs(reg'[e2][q]) BY DEF EntriesTrue, TellsDocs
  <2>1. TellsDocs(reg[e2][q]) BY DEF RuntimeSafe, EntriesTrue
  <2>2. CASE <<e2, q>> = <<e, p>> BY <2>2, <1>6, <2>1 DEF TellsDocs, v
  <2>3. CASE <<e2, q>> # <<e, p>> BY <1>5, <2>1, <2>3
  <2> QED BY <2>2, <2>3
<1>9. MarksAreReal'
  <2> SUFFICES ASSUME NEW e2 \in Epochs, NEW q \in Plugin, <<e2, q>> \notin touched
               PROVE  /\ reg'[e2][q].res # "ContractViolation"
                      /\ reg'[e2][q].res = "AbiMismatch" => reg'[e2][q].abi # reg'[e2][q].art.abi
    BY DEF MarksAreReal
  <2>2. CASE <<e2, q>> = <<e, p>> BY <1>6, <1>7, <2>2
  <2>3. CASE <<e2, q>> # <<e, p>> BY <1>5, <2>3 DEF RuntimeSafe, MarksAreReal
  <2> QED BY <2>2, <2>3
<1>10. ASSUME NEW f \in ThreadFrame, FrameHolds(f, reloads), Agrees(f) PROVE Agrees(f)'
  BY <1>10, <1>5, <1>6 DEF ThreadFrame, FrameHolds, InCall, Agrees
<1> QED BY <1>5, <1>8, <1>9, <1>10

\* The parts of the invariant that speak of the registries, when these rest and
\* thread t, with frame g now, makes no check or makes one that agrees.
LEMMA RegistriesRest ==
    ASSUME RuntimeSafe, NEW t \in Thread, NEW g, th'[t] = g, \A u \in Thread \ {t} : th'[u] = th[u],
           reg' = reg, touched' = touched, Agrees(g)
    PROVE  reg' \in [Epochs -> [Plugin -> Entry]] /\ EntriesTrue' /\ MarksAreReal' /\ ChecksAgree'
<1>1. reg' \in [Epochs -> [Plugin -> Entry]] BY DEF RuntimeSafe, RuntimeTypes
<1>2. EntriesTrue' BY DEF RuntimeSafe, EntriesTrue
<1>3. MarksAreReal' BY DEF RuntimeSafe, MarksAreReal
<1>4. ChecksAgree' BY DEF RuntimeSafe, ChecksAgree, Agrees
<1> QED BY <1>1, <1>2, <1>3, <1>4

\* The libraries of background threads: nothing about them changes and no call leaves "keep".
LEMMA ImagesRest ==
    ASSUME RuntimeSafe, NEW t \in Thread, NEW g, th'[t] = g, \A u \in Thread \ {t} : th'[u] = th[u],
           lib' = lib, worker' = worker, reloads' = reloads, th[t].pc # "keep"
    PROVE  WorkersOld' /\ WorkerMapped'
<1>1. ASSUME NEW p, Mapped(p) PROVE Mapped(p)' BY <1>1 DEF Mapped, At
<1> QED BY <1>1 DEF RuntimeSafe, WorkersOld, WorkerMapped

\* After a reload has begun only the epochs of the workers matter.
LEMMA ReloadsBegun ==
    ASSUME RuntimeSafe, reloads' \in Epochs, reloads <= reloads', reloads' > 0,
           \A p \in Plugin : worker'[p] \in {worker[p], None}
    PROVE  WorkersOld' /\ WorkerMapped'
<1>1. \A p \in Plugin : worker[p] # None => worker[p] \in Nat /\ worker[p] <= reloads
  BY RuntimeBounds DEF RuntimeSafe, RuntimeTypes, WorkersOld, Epochs
<1>2. reloads \in Nat /\ reloads' \in Nat BY RuntimeBounds DEF RuntimeSafe, RuntimeTypes, Epochs
<1> QED BY <1>1, <1>2 DEF WorkersOld, WorkerMapped

\* The frame of a thread and its fields.
LEMMA FrameFieldsOf ==
    ASSUME RuntimeSafe, NEW t \in Thread
    PROVE  /\ th[t] \in ThreadFrame /\ th[t].epoch \in Epochs /\ FrameHolds(th[t], reloads)
           /\ Agrees(th[t])
           /\ reloads \in Nat /\ reloads \in Epochs /\ current \in Epochs /\ current <= reloads
           /\ Epochs \subseteq Nat
BY RuntimeBounds DEF RuntimeSafe, RuntimeTypes, ThreadFrame, FramesHold, ChecksAgree, Epochs

\* An invocation clones the entry of the current snapshot.
LEMMA SafeInvokeBegin ==
    ASSUME RuntimeSafe, NEW t \in Thread, NEW p \in Plugin, NEW act \in {"call", "start", "stop"},
           InvokeBegin(t, p, act)
    PROVE  RuntimeSafe'
<1>1. PICK g : g = [Idle EXCEPT !.pc = "check", !.p = p, !.act = act, !.epoch = current,
                                 !.entry = reg[current][p]] OBVIOUS
<1>2. th' = [th EXCEPT ![t] = g] BY <1>1 DEF InvokeBegin
<1>3. reg[current][p] \in Entry /\ reg[current][p].res = "Loaded"
  BY DEF RuntimeSafe, RuntimeTypes, InvokeBegin
<1>4. /\ g \in ThreadFrame /\ g.pc = "check" /\ g.epoch = current /\ g.p = p
      /\ g.entry = reg[current][p] /\ g.todo = {} BY <1>1, <1>3, FrameFieldsOf DEF Idle, ThreadFrame, InCall
<1>5. FrameHolds(g, reloads) BY <1>3, <1>4, FrameFieldsOf DEF FrameHolds, Preparing, InReload
<1>6. reloads' = reloads /\ current' = current /\ reg' = reg /\ touched' = touched
        /\ disk' = disk /\ index' = index /\ built' = built /\ lib' = lib /\ worker' = worker
  BY DEF InvokeBegin, store, images
<1>7. reloads' \in Epochs /\ reloads <= reloads' BY <1>6, FrameFieldsOf
<1>8. th' \in [Thread -> ThreadFrame] /\ th'[t] = g /\ (\A u \in Thread \ {t} : th'[u] = th[u]) /\ FramesHold'
  BY <1>2, <1>4, <1>5, <1>6, <1>7, FrameMoves
<1>9. NextUnseen' BY <1>4, <1>6, <1>8, UnseenKept DEF Preparing
<1>10. Agrees(g) BY <1>3, <1>4, FrameFieldsOf, ZenonT(60) DEF Agrees, RuntimeSafe, EntriesTrue, TellsDocs
<1>11. reg' \in [Epochs -> [Plugin -> Entry]] /\ EntriesTrue' /\ MarksAreReal' /\ ChecksAgree'
  BY <1>6, <1>8, <1>10, RegistriesRest
<1>12. WorkersOld' /\ WorkerMapped' BY <1>6, <1>8, ImagesRest DEF InvokeBegin, At
<1> QED BY <1>6, <1>8, <1>9, <1>11, <1>12 DEF RuntimeSafe, RuntimeTypes

\* The checks, and the mark of a failed one.
LEMMA SafeInvokeCheck ==
    ASSUME RuntimeSafe, NEW t \in Thread, InvokeCheck(t)
    PROVE  RuntimeSafe'
<1>1. PICK f : f = th[t] OBVIOUS
<1>2. f \in ThreadFrame /\ f.pc = "check" /\ FrameHolds(f, reloads) /\ f.epoch \in Epochs /\ f.p \in Plugin
        /\ Agrees(f) BY <1>1, FrameFieldsOf DEF InvokeCheck, At, FrameHolds, InCall
<1>3. reloads' = reloads /\ current' = current /\ touched' = touched
        /\ disk' = disk /\ index' = index /\ built' = built /\ lib' = lib /\ worker' = worker
  BY DEF InvokeCheck, store, images
<1>4. reloads' \in Epochs /\ reloads <= reloads' BY <1>3, FrameFieldsOf
<1>5. CASE Verdict(f.entry) = "Loaded"
  <2>1. PICK g : g = [f EXCEPT !.pc = "handle"] OBVIOUS
  <2>2. th' = [th EXCEPT ![t] = g] /\ reg' = reg BY <1>1, <1>5, <2>1 DEF InvokeCheck
  <2>3. /\ g \in ThreadFrame /\ g.pc = "handle" /\ g.epoch = f.epoch /\ g.p = f.p
        /\ g.todo = f.todo /\ g.targets = f.targets BY <1>2, <2>1 DEF ThreadFrame, InCall
  <2>4. FrameHolds(g, reloads) BY <1>2, <2>3 DEF FrameHolds, Preparing, InReload, InCall
  <2>5. th' \in [Thread -> ThreadFrame] /\ th'[t] = g /\ (\A u \in Thread \ {t} : th'[u] = th[u]) /\ FramesHold'
    BY <1>3, <1>4, <2>2, <2>3, <2>4, FrameMoves
  <2>6. NextUnseen' BY <1>1, <1>3, <2>3, <2>5, UnseenKept DEF Preparing
  <2>7. Agrees(g) BY <2>3 DEF Agrees
  <2>8. reg' \in [Epochs -> [Plugin -> Entry]] /\ EntriesTrue' /\ MarksAreReal' /\ ChecksAgree'
    BY <1>3, <2>2, <2>5, <2>7, RegistriesRest
  <2>9. WorkersOld' /\ WorkerMapped' BY <1>1, <1>2, <1>3, <2>5, ImagesRest
  <2> QED BY <1>3, <2>5, <2>6, <2>8, <2>9 DEF RuntimeSafe, RuntimeTypes
<1>6. CASE Verdict(f.entry) # "Loaded"
  <2>1. th' = [th EXCEPT ![t] = Idle] /\ reg' = [reg EXCEPT ![f.epoch][f.p].res = Verdict(f.entry)]
    BY <1>1, <1>6 DEF InvokeCheck, Returns
  <2>2. th' \in [Thread -> ThreadFrame] /\ th'[t] = Idle /\ (\A u \in Thread \ {t} : th'[u] = th[u]) /\ FramesHold'
    BY <1>3, <1>4, <2>1, FrameFieldsOf, IdleForm, FrameMoves
  <2>3. NextUnseen' BY <1>3, <2>2, IdleForm, UnseenKept DEF Preparing
  <2>4. PICK e, p, entry : e = f.epoch /\ p = f.p /\ entry = f.entry OBVIOUS
  <2>5. e \in Epochs /\ p \in Plugin /\ reg' = [reg EXCEPT ![e][p].res = Verdict(entry)]
          /\ Verdict(entry) # "Loaded" BY <1>2, <1>6, <2>1, <2>4
  <2>6. <<e, p>> \notin touched =>
            /\ entry.docs = entry.art.docs
            /\ entry.abi = reg[e][p].abi /\ entry.art = reg[e][p].art BY <1>2, <2>4 DEF Agrees
  <2>7. /\ reg' \in [Epochs -> [Plugin -> Entry]] /\ EntriesTrue' /\ MarksAreReal'
        /\ \A x \in ThreadFrame : FrameHolds(x, reloads) /\ Agrees(x) => Agrees(x)'
    BY <1>3, <2>5, <2>6, MarkKept
  <2>8. ChecksAgree'
    <3> SUFFICES ASSUME NEW u \in Thread, NEW x, x = th'[u] PROVE Agrees(x)' BY DEF ChecksAgree, Agrees
    <3>1. CASE u = t BY <2>2, <3>1, IdleForm DEF Agrees
    <3>2. CASE u # t BY <2>2, <2>7, <3>2, FrameFieldsOf
    <3> QED BY <3>1, <3>2
  <2>9. WorkersOld' /\ WorkerMapped' BY <1>1, <1>2, <1>3, <2>2, ImagesRest
  <2> QED BY <1>3, <2>2, <2>3, <2>7, <2>8, <2>9 DEF RuntimeSafe, RuntimeTypes
<1> QED BY <1>5, <1>6

\* The handler starts or stops a background thread while its library is open.
LEMMA SafeInvokeHandle ==
    ASSUME RuntimeSafe, NEW t \in Thread, NEW ok \in BOOLEAN, InvokeHandle(t, ok)
    PROVE  RuntimeSafe'
<1>1. PICK f : f = th[t] OBVIOUS
<1>2. f \in ThreadFrame /\ f.pc = "handle" /\ FrameHolds(f, reloads) /\ f.epoch \in Epochs /\ f.p \in Plugin
        /\ f.epoch <= reloads BY <1>1, FrameFieldsOf DEF InvokeHandle, At, FrameHolds, InCall
<1>3. reloads' = reloads /\ current' = current /\ touched' = touched /\ reg' = reg
        /\ disk' = disk /\ index' = index /\ built' = built /\ lib' = lib BY DEF InvokeHandle, store
<1>4. PICK g : g = IF ok /\ f.act # "call" THEN [f EXCEPT !.pc = "keep"] ELSE Idle OBVIOUS
<1>5. th' = [th EXCEPT ![t] = g] BY <1>1, <1>4 DEF InvokeHandle, Returns
<1>6. /\ g \in ThreadFrame /\ g.pc \in {"keep", "idle"} /\ g.epoch \in {0, f.epoch} /\ FrameHolds(g, reloads)
      /\ ok /\ f.act # "call" => g.pc = "keep" /\ g.epoch = f.epoch /\ g.p = f.p
  <2>1. CASE ok /\ f.act # "call" BY <1>2, <1>4, <2>1 DEF ThreadFrame, InCall, FrameHolds, Preparing, InReload
  <2>2. CASE ~ (ok /\ f.act # "call") BY <1>4, <2>2, IdleForm, FrameFieldsOf
  <2> QED BY <2>1, <2>2
<1>7. th' \in [Thread -> ThreadFrame] /\ th'[t] = g /\ (\A u \in Thread \ {t} : th'[u] = th[u]) /\ FramesHold'
  <2>1. reloads' \in Epochs /\ reloads <= reloads' /\ FrameHolds(g, reloads') BY <1>3, <1>6, FrameFieldsOf
  <2> QED BY <1>5, <1>6, <2>1, FrameMoves
<1>8. NextUnseen' BY <1>1, <1>3, <1>6, <1>7, UnseenKept DEF Preparing
<1>9. Agrees(g) BY <1>6 DEF Agrees
<1>10. reg' \in [Epochs -> [Plugin -> Entry]] /\ EntriesTrue' /\ MarksAreReal' /\ ChecksAgree'
  BY <1>3, <1>7, <1>9, RegistriesRest
<1>11. worker \in [Plugin -> Epochs \cup {None}] BY DEF RuntimeSafe, RuntimeTypes
<1>12. /\ worker' \in [Plugin -> Epochs \cup {None}]
       /\ \A p \in Plugin : worker'[p] \notin {worker[p], None} =>
                               p = f.p /\ worker'[p] = f.epoch /\ ok /\ f.act # "call"
  BY <1>1, <1>2, <1>11 DEF InvokeHandle, WorkerAfter
<1>13. WorkersOld' BY <1>2, <1>3, <1>12 DEF RuntimeSafe, WorkersOld
<1>14. WorkerMapped'
  <2> SUFFICES ASSUME reloads = 0, NEW p \in Plugin, worker'[p] # None PROVE Mapped(p)'
    BY <1>3 DEF WorkerMapped
  <2>1. CASE worker'[p] = worker[p] BY <2>1, <1>1, <1>2, <1>3, <1>7 DEF RuntimeSafe, WorkerMapped, Mapped, At
  <2>2. CASE worker'[p] # worker[p] BY <1>6, <1>7, <1>12, <2>2 DEF Mapped, At
  <2> QED BY <2>1, <2>2
<1> QED BY <1>3, <1>7, <1>8, <1>10, <1>12, <1>13, <1>14 DEF RuntimeSafe, RuntimeTypes

\* The library is kept: until a reload it is the one every worker runs.
LEMMA SafeInvokeKeep ==
    ASSUME RuntimeSafe, NEW t \in Thread, InvokeKeep(t)
    PROVE  RuntimeSafe'
<1>1. PICK f : f = th[t] OBVIOUS
<1>2. f \in ThreadFrame /\ f.pc = "keep" /\ FrameHolds(f, reloads) /\ f.epoch \in Epochs /\ f.p \in Plugin
        /\ f.epoch <= reloads BY <1>1, FrameFieldsOf DEF InvokeKeep, At, FrameHolds, InCall
<1>3. reloads' = reloads /\ current' = current /\ touched' = touched /\ reg' = reg
        /\ disk' = disk /\ index' = index /\ built' = built /\ worker' = worker BY DEF InvokeKeep, store
<1>4. th' = [th EXCEPT ![t] = Idle] /\ lib' = [lib EXCEPT ![f.p] = f.epoch] BY <1>1 DEF InvokeKeep, Returns
<1>5. th' \in [Thread -> ThreadFrame] /\ th'[t] = Idle /\ (\A u \in Thread \ {t} : th'[u] = th[u]) /\ FramesHold'
  <2>1. reloads' \in Epochs /\ reloads <= reloads' /\ FrameHolds(Idle, reloads')
    BY <1>3, IdleForm, FrameFieldsOf
  <2> QED BY <1>4, <2>1, IdleForm, FrameMoves
<1>6. NextUnseen' BY <1>3, <1>5, IdleForm, UnseenKept DEF Preparing
<1>7. Agrees(Idle) BY IdleForm DEF Agrees
<1>8. reg' \in [Epochs -> [Plugin -> Entry]] /\ EntriesTrue' /\ MarksAreReal' /\ ChecksAgree'
  BY <1>3, <1>5, <1>7, RegistriesRest
<1>9. lib \in [Plugin -> Epochs \cup {None}] /\ worker \in [Plugin -> Epochs \cup {None}]
  BY DEF RuntimeSafe, RuntimeTypes
<1>10. lib' \in [Plugin -> Epochs \cup {None}] /\ lib'[f.p] = f.epoch
         /\ \A p \in Plugin \ {f.p} : lib'[p] = lib[p] BY <1>2, <1>4, <1>9
<1>11. WorkersOld' BY <1>3 DEF RuntimeSafe, WorkersOld
<1>12. WorkerMapped'
  <2> SUFFICES ASSUME reloads = 0, NEW p \in Plugin, worker[p] # None PROVE Mapped(p)'
    BY <1>3 DEF WorkerMapped
  <2>1. Mapped(p) BY DEF RuntimeSafe, WorkerMapped
  <2>2. CASE p = f.p BY <1>2, <1>9, FrameFieldsOf, <1>3, <1>10, <2>2 DEF RuntimeSafe, WorkersOld, Mapped
  <2>3. CASE p # f.p BY <1>1, <1>3, <1>5, <1>10, <2>1, <2>3 DEF Mapped, At
  <2> QED BY <2>2, <2>3
<1> QED BY <1>3, <1>5, <1>6, <1>8, <1>9, <1>10, <1>11, <1>12 DEF RuntimeSafe, RuntimeTypes

\* Builds write the artifact directory only.
LEMMA SafeWriteArtifact ==
    ASSUME RuntimeSafe, NEW p \in Plugin, NEW what \in {"code", "docs", "abi", "opens"},
           NEW how \in {"prepare", "rebuild", "agent"}, WriteArtifact(p, what, how)
    PROVE  RuntimeSafe'
<1>1. disk \in [Plugin -> Artifact] /\ index \in [Plugin -> IndexEntry] /\ built \in 0..MaxBuilds
  BY DEF RuntimeSafe, RuntimeTypes
<1>2. built + 1 \in 0..MaxBuilds BY <1>1, RuntimeBounds DEF WriteArtifact
<1>3. PICK a : a = [Rebuilt(disk[p], what) EXCEPT !.code = built + 1] OBVIOUS
<1>4. disk[p] \in Artifact BY <1>1
<1>5. Rebuilt(disk[p], what) \in Artifact
  <2>1. CASE what = "docs" BY <1>4, <2>1 DEF Rebuilt, Artifact
  <2>2. CASE what = "abi" BY <1>4, <2>2 DEF Rebuilt, Artifact
  <2>3. CASE what = "opens"
    <3>1. Rebuilt(disk[p], what) = [disk[p] EXCEPT !.opens = ~ disk[p].opens] BY <2>3 DEF Rebuilt
    <3>2. ASSUME NEW b \in BOOLEAN PROVE [disk[p] EXCEPT !.opens = b] \in Artifact BY <1>4 DEF Artifact
    <3>3. (~ disk[p].opens) \in BOOLEAN OBVIOUS
    <3> QED BY <3>1, <3>2, <3>3
  <2>4. CASE what = "code" BY <1>4, <2>4 DEF Rebuilt
  <2> QED BY <2>1, <2>2, <2>3, <2>4
<1>6. a \in Artifact BY <1>2, <1>3, <1>5 DEF Artifact
<1>7. disk' \in [Plugin -> Artifact] BY <1>1, <1>3, <1>6 DEF WriteArtifact
<1>8. Recorded(a) \in IndexEntry /\ [index[p] EXCEPT !.sha = a] \in IndexEntry
  BY <1>1, <1>6 DEF Recorded, IndexEntry, Artifact
<1>9. index' \in [Plugin -> IndexEntry] BY <1>1, <1>3, <1>8 DEF WriteArtifact
<1>10. built' \in 0..MaxBuilds BY <1>2 DEF WriteArtifact
<1>11. UNCHANGED <<reg, current, lib, worker, th, reloads, touched>> BY DEF WriteArtifact, images
<1> QED
  BY <1>7, <1>9, <1>10, <1>11 DEF RuntimeSafe, RuntimeTypes, FramesHold, NextUnseen, Unseen, ChecksAgree,
     Agrees, EntriesTrue, MarksAreReal, WorkersOld, WorkerMapped, Mapped, At

\* A full reload begins with a snapshot of its own.
LEMMA SafeReloadRead ==
    ASSUME RuntimeSafe, NEW t \in Thread, ReloadRead(t)
    PROVE  RuntimeSafe'
<1>1. reloads \in Nat /\ reloads + 1 \in Epochs /\ reloads' = reloads + 1
  BY RuntimeBounds DEF ReloadRead, RuntimeSafe, RuntimeTypes, Epochs
<1>2. disk' = disk /\ index' = index /\ built' = built /\ reg' = reg /\ current' = current /\ lib' = lib
        /\ worker' = worker /\ touched' = touched BY DEF ReloadRead, store, images
<1>3. disk \in [Plugin -> Artifact] /\ index \in [Plugin -> IndexEntry] BY DEF RuntimeSafe, RuntimeTypes
<1>4. PICK r, d : r = Load(index, disk) /\ d = Drift(index, disk) OBVIOUS
<1>5. r \in [Plugin -> Entry] /\ (\A p \in Plugin : TellsDocs(r[p])) /\ d \subseteq Plugin
  BY <1>3, <1>4, LoadTyped DEF Drift
<1>6. PICK g : g = [Idle EXCEPT !.pc = "heal", !.epoch = reloads + 1, !.idx = index, !.next = r, !.targets = d]
  OBVIOUS
<1>7. /\ g \in ThreadFrame /\ g.pc = "heal" /\ g.epoch = reloads + 1 /\ g.idx = index /\ g.next = r
      /\ g.todo = {} /\ g.targets = d BY <1>1, <1>3, <1>5, <1>6 DEF Idle, ThreadFrame, InReload
<1>8. FrameHolds(g, reloads') BY <1>1, <1>3, <1>5, <1>7 DEF FrameHolds, Preparing, InCall
<1>9. th' = [th EXCEPT ![t] = g] BY <1>4, <1>6 DEF ReloadRead
<1>10. reloads' \in Epochs /\ reloads <= reloads' /\ reloads' > 0 BY <1>1
<1>11. th' \in [Thread -> ThreadFrame] /\ th'[t] = g /\ (\A u \in Thread \ {t} : th'[u] = th[u]) /\ FramesHold'
  BY <1>7, <1>8, <1>9, <1>10, FrameMoves
<1>12. NextUnseen' BY <1>1, FrameFieldsOf, <1>2, <1>7, <1>11 DEF FrameHolds, RuntimeSafe, NextUnseen, Unseen
<1>13. Agrees(g) BY <1>7 DEF Agrees
<1>14. reg' \in [Epochs -> [Plugin -> Entry]] /\ EntriesTrue' /\ MarksAreReal' /\ ChecksAgree'
  BY <1>2, <1>11, <1>13, RegistriesRest
<1>15. WorkersOld' /\ WorkerMapped' BY <1>2, <1>10, ReloadsBegun
<1>16. current' <= reloads' BY <1>1, <1>2, FrameFieldsOf
<1> QED BY <1>2, <1>10, <1>11, <1>12, <1>14, <1>15, <1>16 DEF RuntimeSafe, RuntimeTypes

\* It heals the index, and goes on when every plugin is loaded.
LEMMA SafeReloadHeal ==
    ASSUME RuntimeSafe, NEW t \in Thread, ReloadHeal(t)
    PROVE  RuntimeSafe'
<1>1. PICK f : f = th[t] OBVIOUS
<1>2. f \in ThreadFrame /\ f.pc = "heal" /\ FrameHolds(f, reloads) /\ f.epoch \in Epochs
  BY <1>1, FrameFieldsOf DEF ReloadHeal, At
<1>3. /\ f.idx \in [Plugin -> IndexEntry] /\ f.next \in [Plugin -> Entry] /\ reloads > 0
      /\ \A p \in Plugin : TellsDocs(f.next[p]) BY <1>2 DEF FrameHolds, Preparing, InReload
<1>4. disk' = disk /\ built' = built /\ reg' = reg /\ current' = current /\ lib' = lib
        /\ worker' = worker /\ touched' = touched /\ reloads' = reloads BY DEF ReloadHeal, images
<1>5. index' \in [Plugin -> IndexEntry]
  <2>1. \A p \in Plugin : [f.idx[p] EXCEPT !.docs = f.idx[p].sha.docs] \in IndexEntry
    BY <1>3 DEF IndexEntry, Artifact
  <2> QED BY <1>1, <1>3, <2>1 DEF ReloadHeal, RuntimeSafe, RuntimeTypes
<1>6. PICK g : g = IF Accepted(f.next) THEN [f EXCEPT !.pc = "swap"] ELSE Idle OBVIOUS
<1>7. th' = [th EXCEPT ![t] = g] BY <1>1, <1>6 DEF ReloadHeal, Returns
<1>8. /\ g \in ThreadFrame /\ FrameHolds(g, reloads)
      /\ (g.pc = "swap" /\ g.epoch = f.epoch) \/ (g.pc = "idle" /\ g.epoch = 0)
  <2>1. CASE Accepted(f.next)
    BY <1>2, <1>6, <2>1, <1>3 DEF ThreadFrame, InReload, FrameHolds, Preparing, InCall
  <2>2. CASE ~ Accepted(f.next) BY <1>6, <2>2, IdleForm, FrameFieldsOf
  <2> QED BY <2>1, <2>2
<1>9. reloads' \in Epochs /\ reloads <= reloads' /\ reloads' > 0 /\ FrameHolds(g, reloads')
  BY <1>3, <1>4, <1>8, FrameFieldsOf
<1>10. th' \in [Thread -> ThreadFrame] /\ th'[t] = g /\ (\A u \in Thread \ {t} : th'[u] = th[u]) /\ FramesHold'
  BY <1>7, <1>8, <1>9, FrameMoves
<1>11. NextUnseen' BY <1>1, <1>2, <1>4, <1>8, <1>10, UnseenKept DEF Preparing
<1>12. Agrees(g) BY <1>8 DEF Agrees
<1>13. reg' \in [Epochs -> [Plugin -> Entry]] /\ EntriesTrue' /\ MarksAreReal' /\ ChecksAgree'
  BY <1>4, <1>10, <1>12, RegistriesRest
<1>14. WorkersOld' /\ WorkerMapped' BY <1>4, <1>9, ReloadsBegun
<1> QED BY <1>4, <1>5, <1>9, <1>10, <1>11, <1>13, <1>14 DEF RuntimeSafe, RuntimeTypes

\* Nobody has seen the snapshot that becomes current.
LEMMA SafeReloadSwap ==
    ASSUME RuntimeSafe, NEW t \in Thread, ReloadSwap(t)
    PROVE  RuntimeSafe'
<1>1. PICK f, e : f = th[t] /\ e = f.epoch OBVIOUS
<1>2. f \in ThreadFrame /\ f.pc = "swap" /\ FrameHolds(f, reloads) /\ e \in Epochs
  BY <1>1, FrameFieldsOf DEF ReloadSwap, At
<1>3. /\ f.next \in [Plugin -> Entry] /\ reloads > 0 /\ Accepted(f.next) /\ e <= reloads
      /\ \A p \in Plugin : TellsDocs(f.next[p]) BY <1>1, <1>2 DEF FrameHolds, Preparing, InReload
<1>4. disk' = disk /\ index' = index /\ built' = built /\ lib' = lib
        /\ worker' = worker /\ touched' = touched /\ reloads' = reloads BY DEF ReloadSwap, images, store
<1>5. th' = [th EXCEPT ![t] = Idle] /\ current' = e /\ reg' = [reg EXCEPT ![e] = f.next]
  BY <1>1 DEF ReloadSwap, Returns
<1>6. reloads' \in Epochs /\ reloads <= reloads' /\ reloads' > 0 /\ FrameHolds(Idle, reloads')
  BY <1>3, <1>4, IdleForm, FrameFieldsOf
<1>7. th' \in [Thread -> ThreadFrame] /\ th'[t] = Idle /\ (\A u \in Thread \ {t} : th'[u] = th[u]) /\ FramesHold'
  BY <1>5, <1>6, IdleForm, FrameMoves
<1>8. \A u \in Thread \ {t} : th[u].epoch # e BY <1>1, <1>2 DEF RuntimeSafe, NextUnseen, Preparing
<1>9. NextUnseen' BY IdleForm, <1>5, <1>7, <1>8 DEF Preparing, RuntimeSafe, NextUnseen, Unseen
<1>10. /\ reg \in [Epochs -> [Plugin -> Entry]] /\ reg' \in [Epochs -> [Plugin -> Entry]]
       /\ reg'[e] = f.next /\ \A x \in Epochs \ {e} : reg'[x] = reg[x]
  BY <1>2, <1>3, <1>5 DEF RuntimeSafe, RuntimeTypes
<1>11. EntriesTrue'
  <2> SUFFICES ASSUME NEW x \in Epochs, NEW p \in Plugin, <<x, p>> \notin touched PROVE TellsDocs(reg'[x][p])
    BY <1>4 DEF EntriesTrue, TellsDocs
  <2> QED BY <1>3, <1>10 DEF RuntimeSafe, EntriesTrue
<1>12. MarksAreReal'
  <2> SUFFICES ASSUME NEW x \in Epochs, NEW p \in Plugin, <<x, p>> \notin touched
               PROVE  /\ reg'[x][p].res # "ContractViolation"
                      /\ reg'[x][p].res = "AbiMismatch" => reg'[x][p].abi # reg'[x][p].art.abi
    BY <1>4 DEF MarksAreReal
  <2>1. CASE x = e BY <1>3, <1>10, <2>1 DEF Accepted
  <2>2. CASE x # e BY <1>10, <2>2 DEF RuntimeSafe, MarksAreReal
  <2> QED BY <2>1, <2>2
<1>13. ChecksAgree'
  <2> SUFFICES ASSUME NEW u \in Thread, NEW x, x = th'[u] PROVE Agrees(x)' BY DEF ChecksAgree, Agrees
  <2>1. CASE u = t BY <1>7, <2>1, IdleForm DEF Agrees
  <2>2. CASE u # t BY <1>7, <1>8, <2>2, FrameFieldsOf, <1>4, <1>10 DEF Agrees
  <2> QED BY <2>1, <2>2
<1>14. WorkersOld' /\ WorkerMapped' BY <1>4, <1>6, ReloadsBegun
<1> QED
  BY <1>2, <1>3, <1>4, <1>5, <1>6, <1>7, <1>9, <1>10, <1>11, <1>12, <1>13, <1>14
     DEF RuntimeSafe, RuntimeTypes

\* A reload of a subtree works in the current snapshot.
LEMMA SafeSubtreeBegin ==
    ASSUME RuntimeSafe, NEW t \in Thread, NEW p \in Plugin, SubtreeBegin(t, p)
    PROVE  RuntimeSafe'
<1>1. reloads \in Nat /\ reloads + 1 \in Epochs /\ reloads' = reloads + 1
  BY RuntimeBounds DEF SubtreeBegin, RuntimeSafe, RuntimeTypes, Epochs
<1>2. disk' = disk /\ index' = index /\ built' = built /\ reg' = reg /\ current' = current /\ lib' = lib
        /\ worker' = worker /\ touched' = touched BY DEF SubtreeBegin, store, images
<1>3. PICK S : S = Subtree(p) OBVIOUS
<1>4. S \subseteq Plugin BY <1>3 DEF Subtree
<1>5. PICK g : g = [Idle EXCEPT !.pc = "stop", !.epoch = current, !.idx = index, !.targets = S, !.todo = S]
  OBVIOUS
<1>6. index \in [Plugin -> IndexEntry] /\ current \in Epochs BY DEF RuntimeSafe, RuntimeTypes
<1>7. /\ g \in ThreadFrame /\ g.pc = "stop" /\ g.epoch = current /\ g.todo = S /\ g.targets = S
  BY <1>4, <1>5, <1>6 DEF Idle, ThreadFrame, InReload
<1>8. FrameHolds(g, reloads') BY <1>1, <1>7, FrameFieldsOf DEF FrameHolds, Preparing, InCall
<1>9. th' = [th EXCEPT ![t] = g] BY <1>3, <1>5 DEF SubtreeBegin
<1>10. reloads' \in Epochs /\ reloads <= reloads' /\ reloads' > 0 BY <1>1
<1>11. th' \in [Thread -> ThreadFrame] /\ th'[t] = g /\ (\A u \in Thread \ {t} : th'[u] = th[u]) /\ FramesHold'
  BY <1>7, <1>8, <1>9, <1>10, FrameMoves
<1>12. NextUnseen' BY <1>2, <1>7, <1>11, UnseenKept DEF Preparing
<1>13. Agrees(g) BY <1>7 DEF Agrees
<1>14. reg' \in [Epochs -> [Plugin -> Entry]] /\ EntriesTrue' /\ MarksAreReal' /\ ChecksAgree'
  BY <1>2, <1>11, <1>13, RegistriesRest
<1>15. WorkersOld' /\ WorkerMapped' BY <1>2, <1>10, ReloadsBegun
<1>16. current' <= reloads' BY <1>1, <1>2, FrameFieldsOf
<1> QED BY <1>2, <1>10, <1>11, <1>12, <1>14, <1>15, <1>16 DEF RuntimeSafe, RuntimeTypes

\* It stops the background threads of its targets through the current snapshot,
LEMMA SafeSubtreeStop ==
    ASSUME RuntimeSafe, NEW t \in Thread, NEW p \in Plugin, NEW ok \in BOOLEAN, SubtreeStop(t, p, ok)
    PROVE  RuntimeSafe'
<1>1. PICK f, entry : f = th[t] /\ entry = reg[current][p] OBVIOUS
<1>2. f \in ThreadFrame /\ f.pc = "stop" /\ FrameHolds(f, reloads) /\ f.epoch \in Epochs
  BY <1>1, FrameFieldsOf DEF SubtreeStop, At
<1>3. reloads > 0 /\ current \in Epochs /\ reloads \in Epochs BY <1>2, FrameFieldsOf DEF FrameHolds, InReload
<1>4. disk' = disk /\ index' = index /\ built' = built /\ current' = current
        /\ touched' = touched /\ reloads' = reloads BY DEF SubtreeStop, store
<1>5. worker \in [Plugin -> Epochs \cup {None}] /\ lib \in [Plugin -> Epochs \cup {None}]
  BY DEF RuntimeSafe, RuntimeTypes
<1>6. worker' \in [Plugin -> Epochs \cup {None}] /\ \A q \in Plugin : worker'[q] \in {worker[q], None}
  <2>1. PICK call : call = [Idle EXCEPT !.p = p, !.act = "stop", !.epoch = current] OBVIOUS
  <2>2. call.p = p /\ call.act = "stop" BY <2>1 DEF Idle
  <2>3. worker' = worker \/ worker' = WorkerAfter(call) BY <2>1 DEF SubtreeStop
  <2>4. worker' = worker \/ worker' = [worker EXCEPT ![p] = None] BY <2>2, <2>3 DEF WorkerAfter
  <2> QED BY <1>5, <2>4
<1>7. lib' \in [Plugin -> Epochs \cup {None}] BY <1>3, <1>5 DEF SubtreeStop
<1>8. PICK st : st = IF worker' # worker THEN f.stopped \cup {p} ELSE f.stopped OBVIOUS
<1>9. PICK g : g = [f EXCEPT !.pc = "unregister", !.p = p, !.stopped = st] OBVIOUS
<1>10. th' = [th EXCEPT ![t] = g] BY <1>1, <1>8, <1>9 DEF SubtreeStop
<1>11. st \subseteq Plugin BY <1>2, <1>8 DEF ThreadFrame
<1>12. /\ g \in ThreadFrame /\ g.pc = "unregister" /\ g.p = p /\ g.epoch = f.epoch
       /\ g.todo = f.todo /\ g.targets = f.targets BY <1>2, <1>9, <1>11 DEF ThreadFrame, InReload
<1>13. reloads' \in Epochs /\ reloads <= reloads' /\ reloads' > 0 /\ FrameHolds(g, reloads')
  BY <1>2, <1>3, <1>4, <1>12, FrameFieldsOf DEF FrameHolds, Preparing, InReload, InCall
<1>14. th' \in [Thread -> ThreadFrame] /\ th'[t] = g /\ (\A u \in Thread \ {t} : th'[u] = th[u]) /\ FramesHold'
  BY <1>10, <1>12, <1>13, FrameMoves
<1>15. NextUnseen' BY <1>1, <1>4, <1>12, <1>14, UnseenKept DEF Preparing
<1>16. Agrees(g) /\ Agrees(g)' BY <1>12 DEF Agrees
<1>17. reg' \in [Epochs -> [Plugin -> Entry]] /\ EntriesTrue' /\ MarksAreReal' /\ ChecksAgree'
  <2>1. CASE reg' = reg BY <1>4, <1>14, <1>16, <2>1, RegistriesRest
  <2>2. CASE reg' # reg
    <3>1. entry.res = "Loaded" /\ reg' = [reg EXCEPT ![current][p].res = Verdict(entry)]
      BY <1>1, <2>2 DEF SubtreeStop
    <3>2. <<current, p>> \notin touched => entry.docs = entry.art.docs
      BY <1>1, <1>3, <3>1 DEF RuntimeSafe, EntriesTrue, TellsDocs
    <3>3. /\ reg' \in [Epochs -> [Plugin -> Entry]] /\ EntriesTrue' /\ MarksAreReal'
          /\ \A x \in ThreadFrame : FrameHolds(x, reloads) /\ Agrees(x) => Agrees(x)'
      BY <1>1, <1>3, <1>4, <3>1, <3>2, MarkKept
    <3>4. ChecksAgree'
      <4> SUFFICES ASSUME NEW u \in Thread, NEW x, x = th'[u] PROVE Agrees(x)' BY DEF ChecksAgree, Agrees
      <4>1. CASE u = t BY <1>14, <1>16, <4>1
      <4>2. CASE u # t BY <1>14, <3>3, <4>2, FrameFieldsOf
      <4> QED BY <4>1, <4>2
    <3> QED BY <3>3, <3>4
  <2> QED BY <2>1, <2>2
<1>18. WorkersOld' /\ WorkerMapped' BY <1>6, <1>13, ReloadsBegun
<1> QED BY <1>4, <1>6, <1>7, <1>13, <1>14, <1>15, <1>17, <1>18 DEF RuntimeSafe, RuntimeTypes

\* drops their libraries,
LEMMA SafeSubtreeUnregister ==
    ASSUME RuntimeSafe, NEW t \in Thread, SubtreeUnregister(t)
    PROVE  RuntimeSafe'
<1>1. PICK f : f = th[t] OBVIOUS
<1>2. f \in ThreadFrame /\ f.pc = "unregister" /\ FrameHolds(f, reloads) /\ f.epoch \in Epochs
  BY <1>1, FrameFieldsOf DEF SubtreeUnregister, At
<1>3. reloads > 0 /\ reloads \in Epochs BY <1>2, FrameFieldsOf DEF FrameHolds, InReload
<1>4. disk' = disk /\ index' = index /\ built' = built /\ reg' = reg /\ current' = current
        /\ worker' = worker /\ touched' = touched /\ reloads' = reloads BY DEF SubtreeUnregister, store
<1>5. lib' \in [Plugin -> Epochs \cup {None}] BY <1>1, <1>2 DEF SubtreeUnregister, RuntimeSafe, RuntimeTypes
<1>6. PICK left, pc : left = f.todo \ {f.p} /\ pc = IF f.todo \ {f.p} # {} THEN "stop" ELSE "phase1" OBVIOUS
<1>7. PICK g : g = [f EXCEPT !.todo = left, !.p = None, !.pc = pc] OBVIOUS
<1>8. th' = [th EXCEPT ![t] = g] BY <1>1, <1>6, <1>7 DEF SubtreeUnregister
<1>9. left \subseteq f.todo /\ pc \in {"stop", "phase1"} /\ f.todo \subseteq Plugin
  BY <1>2, <1>6 DEF ThreadFrame
<1>10. /\ g \in ThreadFrame /\ g.pc \in {"stop", "phase1"} /\ g.epoch = f.epoch
       /\ g.todo = left /\ g.targets = f.targets BY <1>2, <1>7, <1>9 DEF ThreadFrame, InReload
<1>11. reloads' \in Epochs /\ reloads <= reloads' /\ reloads' > 0 /\ FrameHolds(g, reloads')
  BY <1>2, <1>3, <1>4, <1>9, <1>10, FrameFieldsOf DEF FrameHolds, Preparing, InReload, InCall
<1>12. th' \in [Thread -> ThreadFrame] /\ th'[t] = g /\ (\A u \in Thread \ {t} : th'[u] = th[u]) /\ FramesHold'
  BY <1>8, <1>10, <1>11, FrameMoves
<1>13. NextUnseen' BY <1>1, <1>4, <1>10, <1>12, UnseenKept DEF Preparing
<1>14. Agrees(g) BY <1>10 DEF Agrees
<1>15. reg' \in [Epochs -> [Plugin -> Entry]] /\ EntriesTrue' /\ MarksAreReal' /\ ChecksAgree'
  BY <1>4, <1>12, <1>14, RegistriesRest
<1>16. WorkersOld' /\ WorkerMapped' BY <1>4, <1>11, ReloadsBegun
<1> QED BY <1>4, <1>5, <1>11, <1>12, <1>13, <1>15, <1>16 DEF RuntimeSafe, RuntimeTypes

\* opens the artifacts of the directory,
LEMMA SafeSubtreePhase1 ==
    ASSUME RuntimeSafe, NEW t \in Thread, SubtreePhase1(t)
    PROVE  RuntimeSafe'
<1>1. PICK f : f = th[t] OBVIOUS
<1>2. f \in ThreadFrame /\ f.pc = "phase1" /\ FrameHolds(f, reloads) /\ f.epoch \in Epochs
  BY <1>1, FrameFieldsOf DEF SubtreePhase1, At
<1>3. reloads > 0 /\ reloads \in Epochs BY <1>2, FrameFieldsOf DEF FrameHolds, InReload
<1>4. disk' = disk /\ index' = index /\ built' = built /\ reg' = reg /\ current' = current
        /\ worker' = worker /\ lib' = lib /\ touched' = touched /\ reloads' = reloads
  BY DEF SubtreePhase1, store, images
<1>5. PICK d : d = [p \in Plugin |-> disk[p]] OBVIOUS
<1>6. d \in [Plugin -> Artifact] BY <1>5 DEF RuntimeSafe, RuntimeTypes
<1>7. PICK g : g \in {[f EXCEPT !.pc = "phase2", !.next = d], Idle} /\ th' = [th EXCEPT ![t] = g]
  BY <1>1, <1>5 DEF SubtreePhase1, Returns
<1>8. /\ g \in ThreadFrame /\ FrameHolds(g, reloads)
      /\ g.pc \in {"phase2", "idle"} /\ g.epoch \in {0, f.epoch}
  <2>1. CASE g = Idle BY <2>1, IdleForm, FrameFieldsOf
  <2>2. CASE g = [f EXCEPT !.pc = "phase2", !.next = d]
    BY <1>2, <1>6, <2>2, <1>3 DEF ThreadFrame, InReload, FrameHolds, Preparing, InCall
  <2> QED BY <1>7, <2>1, <2>2
<1>9. reloads' \in Epochs /\ reloads <= reloads' /\ reloads' > 0 /\ FrameHolds(g, reloads')
  BY <1>3, <1>4, <1>8, FrameFieldsOf
<1>10. th' \in [Thread -> ThreadFrame] /\ th'[t] = g /\ (\A u \in Thread \ {t} : th'[u] = th[u]) /\ FramesHold'
  BY <1>7, <1>8, <1>9, FrameMoves
<1>11. NextUnseen' BY <1>1, <1>4, <1>8, <1>10, UnseenKept DEF Preparing
<1>12. Agrees(g) BY <1>8 DEF Agrees
<1>13. reg' \in [Epochs -> [Plugin -> Entry]] /\ EntriesTrue' /\ MarksAreReal' /\ ChecksAgree'
  BY <1>4, <1>10, <1>12, RegistriesRest
<1>14. WorkersOld' /\ WorkerMapped' BY <1>4, <1>9, ReloadsBegun
<1> QED BY <1>4, <1>9, <1>10, <1>11, <1>13, <1>14 DEF RuntimeSafe, RuntimeTypes

\* and rewrites the entries, which counts them as touched.
LEMMA SafeSubtreePhase2 ==
    ASSUME RuntimeSafe, NEW t \in Thread, SubtreePhase2(t)
    PROVE  RuntimeSafe'
<1>1. PICK f, e, S : f = th[t] /\ e = f.epoch /\ S = f.targets OBVIOUS
<1>2. f \in ThreadFrame /\ f.pc = "phase2" /\ FrameHolds(f, reloads) /\ e \in Epochs /\ S \subseteq Plugin
  BY <1>1, FrameFieldsOf DEF SubtreePhase2, At, ThreadFrame
<1>3. reloads > 0 /\ reloads \in Epochs /\ f.next \in [Plugin -> Artifact]
  BY <1>2, FrameFieldsOf DEF FrameHolds, InReload
<1>4. disk' = disk /\ index' = index /\ built' = built /\ current' = current
        /\ worker' = worker /\ lib' = lib /\ reloads' = reloads BY DEF SubtreePhase2, store, images
<1>5. /\ th' = [th EXCEPT ![t] = Idle] /\ touched' = touched \cup {<<e, p>> : p \in S}
      /\ reg' = [reg EXCEPT ![e] = [p \in Plugin |->
                    IF p \in S THEN ReloadEntry(reg[e][p], f.next[p]) ELSE reg[e][p]]]
  BY <1>1 DEF SubtreePhase2, Returns
<1>6. reloads' \in Epochs /\ reloads <= reloads' /\ reloads' > 0 /\ FrameHolds(Idle, reloads')
  BY <1>3, <1>4, IdleForm, FrameFieldsOf
<1>7. th' \in [Thread -> ThreadFrame] /\ th'[t] = Idle /\ (\A u \in Thread \ {t} : th'[u] = th[u]) /\ FramesHold'
  BY <1>5, <1>6, IdleForm, FrameMoves
<1>8. NextUnseen' BY <1>4, <1>7, IdleForm, UnseenKept DEF Preparing
<1>9. reg \in [Epochs -> [Plugin -> Entry]] /\ touched \subseteq Epochs \X Plugin
  BY DEF RuntimeSafe, RuntimeTypes
<1>10. \A p \in Plugin : ReloadEntry(reg[e][p], f.next[p]) \in Entry
  <2>1. ASSUME NEW entry \in Entry, NEW a \in Artifact PROVE ReloadEntry(entry, a) \in Entry
    BY DEF Artifact, ReloadEntry, Entry
  <2> QED BY <1>2, <1>3, <1>9, <2>1
<1>11. /\ reg' \in [Epochs -> [Plugin -> Entry]] /\ touched' \subseteq Epochs \X Plugin
       /\ \A x \in Epochs, p \in Plugin : <<x, p>> \notin touched' =>
              <<x, p>> \notin touched /\ reg'[x][p] = reg[x][p]
  <2>1. reg' \in [Epochs -> [Plugin -> Entry]] BY <1>2, <1>5, <1>9, <1>10
  <2>2. touched' \subseteq Epochs \X Plugin BY <1>2, <1>5, <1>9
  <2>3. ASSUME NEW x \in Epochs, NEW p \in Plugin, <<x, p>> \notin touched'
        PROVE  <<x, p>> \notin touched /\ reg'[x][p] = reg[x][p] BY <1>5, <2>3, <1>2, <1>9
  <2> QED BY <2>1, <2>2, <2>3
<1>12. EntriesTrue' /\ MarksAreReal' BY <1>11 DEF RuntimeSafe, EntriesTrue, MarksAreReal, TellsDocs
<1>13. ChecksAgree'
  <2> SUFFICES ASSUME NEW u \in Thread, NEW x, x = th'[u] PROVE Agrees(x)' BY DEF ChecksAgree, Agrees
  <2>1. CASE u = t BY <1>7, <2>1, IdleForm DEF Agrees
  <2>2. CASE u # t BY <1>7, <2>2, FrameFieldsOf, <1>11 DEF FrameHolds, InCall, Agrees
  <2> QED BY <2>1, <2>2
<1>14. WorkersOld' /\ WorkerMapped' BY <1>4, <1>6, ReloadsBegun
<1> QED BY <1>4, <1>6, <1>7, <1>8, <1>11, <1>12, <1>13, <1>14 DEF RuntimeSafe, RuntimeTypes

\* Every step keeps the invariant.
LEMMA RuntimeSafeStep == RuntimeSafe /\ [RuntimeNext]_runtimeVars => RuntimeSafe'
<1> SUFFICES ASSUME RuntimeSafe, [RuntimeNext]_runtimeVars PROVE RuntimeSafe' OBVIOUS
<1>0. Caller \subseteq Thread /\ Reloader \subseteq Thread /\ Invoked \subseteq Plugin
  BY PluginAssumption DEF Thread
<1>1. ASSUME NEW p \in Plugin, NEW what \in {"code", "docs", "abi", "opens"},
             NEW how \in {"prepare", "rebuild", "agent"}, WriteArtifact(p, what, how)
      PROVE  RuntimeSafe' BY <1>1, SafeWriteArtifact
<1>2. ASSUME NEW t \in Caller, Invoke(t) PROVE RuntimeSafe'
  <2>1. t \in Thread BY <1>0
  <2>2. ASSUME NEW p \in Invoked, NEW act \in {"call", "start", "stop"}, InvokeBegin(t, p, act)
        PROVE  RuntimeSafe' BY <1>0, <2>1, <2>2, SafeInvokeBegin
  <2>3. ASSUME NEW ok \in BOOLEAN, InvokeHandle(t, ok) PROVE RuntimeSafe' BY <2>1, <2>3, SafeInvokeHandle
  <2> QED BY <1>2, <2>1, <2>2, <2>3, SafeInvokeCheck, SafeInvokeKeep DEF Invoke
<1>3. ASSUME NEW t \in Reloader, Reload(t) PROVE RuntimeSafe'
  <2>1. t \in Thread BY <1>0
  <2>2. ASSUME NEW p \in Plugin, NEW ok \in BOOLEAN, SubtreeStop(t, p, ok) PROVE RuntimeSafe'
    BY <2>1, <2>2, SafeSubtreeStop
  <2>3. ASSUME NEW p \in Plugin, SubtreeBegin(t, p) PROVE RuntimeSafe' BY <2>1, <2>3, SafeSubtreeBegin
  <2> QED
    BY <1>3, <2>1, <2>2, <2>3, SafeReloadRead, SafeReloadHeal, SafeReloadSwap, SafeSubtreeUnregister,
       SafeSubtreePhase1, SafeSubtreePhase2 DEF Reload
<1>4. CASE UNCHANGED runtimeVars
  BY <1>4 DEF runtimeVars, RuntimeSafe, RuntimeTypes, FramesHold, NextUnseen, Unseen, ChecksAgree,
     Agrees, EntriesTrue, MarksAreReal, WorkersOld, WorkerMapped, Mapped, At
<1> QED BY <1>1, <1>2, <1>3, <1>4 DEF RuntimeNext

\* The invariant holds what the run checks.
LEMMA RuntimeSafeIsSound == RuntimeSafe => LoadSound
<1> SUFFICES ASSUME RuntimeSafe PROVE LoadSound OBVIOUS
<1>1. \A t \in Thread : th[t].targets \subseteq Plugin /\ th[t].todo \subseteq th[t].targets
  BY DEF RuntimeSafe, RuntimeTypes, ThreadFrame, FramesHold, FrameHolds
<1>2. \A p \in Plugin : index[p].sha \in Artifact BY DEF RuntimeSafe, RuntimeTypes, IndexEntry
<1>3. RuntimeTypeOK BY <1>1, <1>2 DEF RuntimeTypeOK, RuntimeSafe, RuntimeTypes
<1> QED BY <1>3, LoadAlwaysPropagates DEF LoadSound, RuntimeSafe

\* Whatever the plugins, their tree, the threads and the bounds are, loading
\* reports a failure upwards over required edges and no further, no entry is
\* marked for docs that differ before a subtree reload rewrote it, and the
\* library of a background thread stays mapped until the first reload.
THEOREM LoadingSound == RuntimeSpec => []LoadSound
<1>1. RuntimeInit => RuntimeSafe BY RuntimeSafeInit
<1>2. RuntimeSafe /\ [RuntimeNext]_runtimeVars => RuntimeSafe' BY RuntimeSafeStep
<1>3. RuntimeSafe => LoadSound BY RuntimeSafeIsSound
<1> QED BY <1>1, <1>2, <1>3, PTL DEF RuntimeSpec

-----------------------------------------------------------------------------
(* SnapshotGc: the collectors of abandoned roots *)

HostAt == {"off", "made", "clean", "open", "locked", "staging", "live", "dead"}
GcAt == {"idle", "scanned", "aged", "open", "locked", "removed"}

\* The shapes of the variables.
GcTypes ==
    /\ root \in [there : BOOLEAN, old : BOOLEAN, staged : SUBSET Host, journal : BOOLEAN]
    /\ lockFile \in 0..MaxLockFiles /\ inodes \in 0..MaxLockFiles
    /\ flock \in [Inode -> Host \cup Collector \cup {Nobody}]
    /\ host \in [Host -> [at : HostAt, inode : 0..MaxLockFiles]]
    /\ gc \in [Collector -> [at : GcAt, inode : 0..MaxLockFiles, quiet : BOOLEAN]]
    /\ \A h \in Host : host[h].at = "open" => host[h].inode \in Inode
    /\ \A c \in Collector : gc[c].at = "open" => gc[c].inode \in Inode

\* Nobody owns what is staged in the root, and there is no journal.
Orphan == ~ root.journal /\ \A h \in root.staged : ~ Alive(h)

\* What a collector has seen in its scan still holds while nobody touches the root.
ScanHolds ==
    \A c \in Collector :
        gc[c].at \in {"scanned", "aged", "open", "locked"} /\ gc[c].quiet => Orphan

GcInv == GcTypes /\ ScanHolds

LEMMA GcInitially == GcInit => GcInv
<1> SUFFICES ASSUME GcInit PROVE GcInv OBVIOUS
<1> USE GcAssumption DEF GcInit
<1>1. GcTypes BY DEF GcTypes, Gone, IdleGc, HostAt, GcAt, Inode, Nobody
<1>2. ScanHolds BY DEF ScanHolds, IdleGc
<1> QED BY <1>1, <1>2 DEF GcInv

\* A step that touches the root leaves nobody's scan in force.
LEMMA DisturbedScans ==
    ASSUME GcTypes, Disturb
    PROVE  /\ gc' \in [Collector -> [at : GcAt, inode : 0..MaxLockFiles, quiet : BOOLEAN]]
           /\ \A c \in Collector : gc'[c].at = gc[c].at /\ gc'[c].inode = gc[c].inode
           /\ ScanHolds'
<1>1. \A c \in Collector : gc'[c] = [gc[c] EXCEPT !.quiet = FALSE] BY DEF Disturb
<1>2. \A c \in Collector : gc'[c].at = gc[c].at /\ gc'[c].inode = gc[c].inode /\ ~ gc'[c].quiet
  BY <1>1, ZenonT(60) DEF GcTypes
<1>3. gc' \in [Collector -> [at : GcAt, inode : 0..MaxLockFiles, quiet : BOOLEAN]] BY DEF Disturb, GcTypes
<1> QED BY <1>2, <1>3 DEF ScanHolds

\* A lock is free or has an owner.
LEMMA Releases ==
    ASSUME GcTypes, NEW p
    PROVE  Release(p) \in [Inode -> Host \cup Collector \cup {Nobody}]
BY DEF GcTypes, Release, Nobody

\* The inode that an open returns.
LEMMA OpensInode ==
    ASSUME GcTypes, OpenFile
    PROVE  lockFile' \in Inode /\ lockFile' \in 0..MaxLockFiles /\ inodes' \in 0..MaxLockFiles
BY GcAssumption DEF GcTypes, OpenFile, Inode

\* A boot of a host: what touches the root.
LEMMA BootTouches ==
    ASSUME GcInv, NEW h \in Host,
           \/ MakeRoot(h) \/ CleanupStale(h) \/ Stage(h) \/ LoadStaged(h)
           \/ WriteJournal(h) \/ ClearJournal(h) \/ Stop(h)
    PROVE  GcInv'
<1> USE DEF GcInv
<1>1. Disturb /\ UNCHANGED <<lockFile, inodes>>
  BY DEF MakeRoot, CleanupStale, Stage, LoadStaged, WriteJournal, ClearJournal, Stop
<1>2. root' \in [there : BOOLEAN, old : BOOLEAN, staged : SUBSET Host, journal : BOOLEAN]
  <2>1. CASE MakeRoot(h) BY <2>1 DEF MakeRoot, GcTypes
  <2>2. CASE CleanupStale(h) BY <2>2 DEF CleanupStale, GcTypes
  <2>3. CASE Stage(h) BY <2>3 DEF Stage, GcTypes
  <2>4. CASE LoadStaged(h)
    <3>1. \/ root' = [root EXCEPT !.staged = @ \ {h}, !.old = @ /\ h \notin root.staged]
          \/ \E kept \in {FALSE, root.journal} :
                root' = [root EXCEPT !.journal = kept, !.old = @ /\ kept = root.journal]
      BY <2>4 DEF LoadStaged
    <3> QED BY <3>1 DEF GcTypes
  <2>5. CASE WriteJournal(h) BY <2>5 DEF WriteJournal, GcTypes
  <2>6. CASE ClearJournal(h) BY <2>6 DEF ClearJournal, GcTypes
  <2>7. CASE Stop(h) BY <2>7 DEF Stop, GcTypes
  <2> QED BY <2>1, <2>2, <2>3, <2>4, <2>5, <2>6, <2>7
<1>3. \/ host' = host
      \/ \E a \in HostAt \ {"open"} : host' = [host EXCEPT ![h].at = a]
  BY DEF MakeRoot, CleanupStale, Stage, LoadStaged, WriteJournal, ClearJournal, Stop, HostAt
<1>4. /\ host' \in [Host -> [at : HostAt, inode : 0..MaxLockFiles]]
      /\ \A g \in Host : host'[g].at = "open" => host'[g].inode \in Inode BY <1>3, SMTT(30) DEF GcTypes
<1>5. flock' \in [Inode -> Host \cup Collector \cup {Nobody}]
  BY Releases DEF MakeRoot, CleanupStale, Stage, LoadStaged, WriteJournal, ClearJournal, Stop, GcTypes
<1>6. GcTypes' BY <1>1, <1>2, <1>4, <1>5, DisturbedScans DEF GcTypes, Inode
<1> QED BY <1>1, <1>6, DisturbedScans

\* The other steps of a host: the root rests, and nobody becomes alive.
LEMMA BootLocks ==
    ASSUME GcInv, NEW h \in Host, OpenLock(h) \/ TryLock(h) \/ HostDies(h)
    PROVE  GcInv'
<1> USE DEF GcInv
<1>1. UNCHANGED <<root, gc>> BY DEF OpenLock, TryLock, HostDies
<1>2. \E a \in HostAt :
         /\ host' \in [Host -> [at : HostAt, inode : 0..MaxLockFiles]]
         /\ host'[h].at = a /\ \A g \in Host \ {h} : host'[g] = host[g]
         /\ a = "open" => host'[h].inode \in Inode
         /\ Alive(h) \/ a = "dead"
  <2>1. CASE OpenLock(h) BY <2>1, OpensInode DEF OpenLock, Alive, HostAt, GcTypes
  <2>2. CASE TryLock(h) BY <2>2 DEF TryLock, Alive, GcTypes, HostAt
  <2>3. CASE HostDies(h) BY <2>3 DEF HostDies, GcTypes, HostAt
  <2> QED BY <2>1, <2>2, <2>3
<1>3. /\ host' \in [Host -> [at : HostAt, inode : 0..MaxLockFiles]]
      /\ \A g \in Host : host'[g].at = "open" => host'[g].inode \in Inode
      /\ \A g \in Host : ~ Alive(g) => ~ Alive(g)' BY <1>2 DEF GcTypes, Alive
<1>4. /\ lockFile' \in 0..MaxLockFiles /\ inodes' \in 0..MaxLockFiles
      /\ flock' \in [Inode -> Host \cup Collector \cup {Nobody}]
  <2>1. CASE OpenLock(h) BY <2>1, OpensInode DEF OpenLock, GcTypes
  <2>2. CASE TryLock(h) BY <2>2 DEF TryLock, GcTypes
  <2>3. CASE HostDies(h) BY <2>3, Releases DEF HostDies, GcTypes
  <2> QED BY <2>1, <2>2, <2>3
<1>5. GcTypes' BY <1>1, <1>3, <1>4 DEF GcTypes, Inode
<1>6. ScanHolds' BY <1>1, <1>3 DEF ScanHolds, Orphan, GcTypes
<1> QED BY <1>5, <1>6

\* A collector before it removes.
LEMMA CollectorLooks ==
    ASSUME GcInv, NEW c \in Collector,
           Scan(c) \/ CheckAge(c) \/ OpenForGc(c) \/ LockForGc(c) \/ Leave(c) \/ UnlinkLock(c)
    PROVE  GcInv'
<1> USE DEF GcInv
<1>1. UNCHANGED <<root, host>> BY DEF Scan, CheckAge, OpenForGc, LockForGc, Leave, UnlinkLock
<1>2. \E a \in GcAt :
         /\ gc' \in [Collector -> [at : GcAt, inode : 0..MaxLockFiles, quiet : BOOLEAN]]
         /\ gc'[c].at = a /\ \A d \in Collector \ {c} : gc'[d] = gc[d]
         /\ a = "open" => gc'[c].inode \in Inode
         /\ a \in {"scanned", "aged", "open", "locked"} /\ gc'[c].quiet => Orphan
  <2>0. IdleGc \in [at : GcAt, inode : 0..MaxLockFiles, quiet : BOOLEAN] /\ IdleGc.at = "idle"
    BY GcAssumption DEF IdleGc, GcAt
  <2>1. CASE Scan(c) BY <2>1, GcAssumption DEF Scan, Orphan, GcTypes, GcAt
  <2>2. CASE CheckAge(c) BY <2>2, <2>0 DEF CheckAge, ScanHolds, GcAt, GcTypes
  <2>3. CASE OpenForGc(c) BY <2>3, OpensInode, ZenonT(60) DEF OpenForGc, ScanHolds, Inode, GcAt, GcTypes
  <2>4. CASE LockForGc(c) BY <2>4, <2>0 DEF LockForGc, ScanHolds, GcAt, GcTypes
  <2>5. CASE Leave(c) \/ UnlinkLock(c) BY <2>5, <2>0 DEF Leave, UnlinkLock, GcTypes
  <2> QED BY <2>1, <2>2, <2>3, <2>4, <2>5
<1>3. /\ gc' \in [Collector -> [at : GcAt, inode : 0..MaxLockFiles, quiet : BOOLEAN]]
      /\ \A d \in Collector : gc'[d].at = "open" => gc'[d].inode \in Inode BY <1>2 DEF GcTypes
<1>4. ScanHolds' BY <1>1, <1>2 DEF Orphan, Alive, ScanHolds, GcTypes
<1>5. /\ lockFile' \in 0..MaxLockFiles /\ inodes' \in 0..MaxLockFiles
      /\ flock' \in [Inode -> Host \cup Collector \cup {Nobody}]
  <2>1. CASE Scan(c) \/ CheckAge(c) BY <2>1 DEF Scan, CheckAge, GcTypes
  <2>2. CASE OpenForGc(c) BY <2>2, OpensInode DEF OpenForGc, GcTypes
  <2>3. CASE LockForGc(c) BY <2>3 DEF LockForGc, GcTypes
  <2>4. CASE Leave(c) \/ UnlinkLock(c) BY <2>4, Releases, GcAssumption DEF Leave, UnlinkLock, GcTypes
  <2> QED BY <2>1, <2>2, <2>3, <2>4
<1>6. GcTypes' BY <1>1, <1>3, <1>5 DEF GcTypes, Inode
<1> QED BY <1>4, <1>6

\* The removal: the other collectors have to scan again.
LEMMA CollectorRemoves ==
    ASSUME GcInv, NEW c \in Collector, RemoveRoot(c)
    PROVE  GcInv'
<1> USE DEF GcInv
<1>1. /\ UNCHANGED <<lockFile, inodes, flock, host>> /\ root' = Gone
      /\ gc' = [d \in Collector |->
                  IF d = c THEN [gc[c] EXCEPT !.at = "removed"] ELSE [gc[d] EXCEPT !.quiet = FALSE]]
  BY DEF RemoveRoot
<1>2. \A d \in Collector :
         /\ gc'[d] \in [at : GcAt, inode : 0..MaxLockFiles, quiet : BOOLEAN]
         /\ gc'[d].at = "open" => gc'[d].inode \in Inode
         /\ gc'[d].at = "removed" \/ ~ gc'[d].quiet BY <1>1 DEF GcTypes, GcAt
<1>3. gc' \in [Collector -> [at : GcAt, inode : 0..MaxLockFiles, quiet : BOOLEAN]] BY <1>1, <1>2
<1>4. root' \in [there : BOOLEAN, old : BOOLEAN, staged : SUBSET Host, journal : BOOLEAN] BY <1>1 DEF Gone
<1>5. GcTypes' BY <1>1, <1>2, <1>3, <1>4 DEF GcTypes, Inode
<1>6. ScanHolds' BY <1>2 DEF ScanHolds
<1> QED BY <1>5, <1>6

LEMMA GcSteps == GcInv /\ [GcNext]_gcVars => GcInv'
<1> SUFFICES ASSUME GcInv, [GcNext]_gcVars PROVE GcInv' OBVIOUS
<1>1. CASE UNCHANGED gcVars BY <1>1 DEF gcVars, GcInv, GcTypes, ScanHolds, Orphan, Alive, Inode
<1>2. CASE Ages BY <1>2 DEF Ages, GcInv, GcTypes, ScanHolds, Orphan, Alive, Inode
<1>3. CASE GcNext BY <1>2, <1>3, BootTouches, BootLocks, CollectorLooks, CollectorRemoves DEF GcNext
<1> QED BY <1>1, <1>3

\* A collector whose root nobody has touched since its scan removes no directory
\* of a running host and no journal (cleanup_orphaned_snapshot_roots, host.rs), for
\* any number of hosts, collectors and lock files.
THEOREM QuietRootsAreOrphans == GcSpec => QuietRootIsOrphan
<1>1. GcInv /\ [GcNext]_gcVars =>
        [\A c \in Collector :
           (gc[c].at = "locked" /\ gc[c].quiet /\ gc'[c].at = "removed") =>
              /\ ~ root.journal
              /\ \A h \in root.staged : ~ Alive(h)]_gcVars BY DEF GcInv, ScanHolds, Orphan
<1> QED BY <1>1, GcInitially, GcSteps, PTL DEF GcSpec, QuietRootIsOrphan

\* The types of the collection (host.rs).
THEOREM GcTyped == GcSpec => []GcTypeOK
<1>1. GcInv => GcTypeOK BY DEF GcInv, GcTypes, GcTypeOK, HostAt, GcAt
<1> QED BY <1>1, GcInitially, GcSteps, PTL DEF GcSpec

=============================================================================
