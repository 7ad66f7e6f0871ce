-------------------------- MODULE SnapshotLifecycle --------------------------
(***************************************************************************)
(* The snapshots of RuntimeHost (cordis-runtime, host.rs): the current     *)
(* one, the staged candidate, and the retired ones whose staged artifact   *)
(* directories are removed once nobody holds an Arc to them.               *)
(*                                                                         *)
(* reload and promote replace the current snapshot, reload_candidate and   *)
(* rollback the candidate, and every invocation works on the snapshot that *)
(* was current, or the candidate, when it began.  One action per lock      *)
(* section; `lock` is the owner of the lock of the retired list, which     *)
(* cleanup_retired_snapshots holds while it sweeps and then evicts.        *)
(***************************************************************************)
EXTENDS Naturals, Sequences, SequencesExt

CONSTANTS SnapThreads,
          SnapOps,         \* the operations each thread calls
          SnapMaxBuilds,   \* snapshots built after boot
          MaxRetired,  \* MAX_RETIRED_SNAPSHOTS
          SnapNone

SnapOpNames == {"reload", "reload_candidate", "promote", "rollback", "invoke",
            "invoke_candidate"}

ASSUME SnapshotAssumption == /\ SnapOps \in [SnapThreads -> SUBSET SnapOpNames]
                             /\ SnapMaxBuilds \in Nat /\ MaxRetired \in Nat
                             /\ SnapNone \notin Nat \cup SnapThreads \cup SnapOpNames

VARIABLES snapCurrent,    \* current_snapshot
          candidate,  \* candidate_snapshot
          retired,    \* retired_snapshots: the snapshots whose Weak is listed
          dirs,       \* the staged artifact roots on disk
          snapLock,       \* who holds the lock of the retired list across steps
          snapTh,         \* the thread's call
          snapBuilt       \* the snapshots built so far

snapVars == <<snapCurrent, candidate, retired, dirs, snapLock, snapTh, snapBuilt>>

Ids == 0 .. SnapMaxBuilds
Maybe == Ids \cup {SnapNone}

SnapPoints == {"idle", "build", "swap", "take", "stage", "promote_take",
           "promote_swap", "rollback_take", "retire", "retire_candidate",
           "work", "retain", "evict"}

\* The Arcs of a call are its fields prev (previous_snapshot, or the snapshot
\* an invocation works on), next (the one it built or took for promotion) and
\* cand (the candidate it took out).  `mine` is the candidate the thread has
\* staged last, `want` the one a promote or rollback expects.
SnapFrames == [pc : SnapPoints, op : SnapOpNames \cup {SnapNone}, prev : Maybe, next : Maybe,
           cand : Maybe, want : Maybe, mine : Maybe]

SnapInit == /\ snapCurrent = 0 /\ candidate = SnapNone
        /\ retired = <<>> /\ dirs = {0}
        /\ snapLock = SnapNone /\ snapBuilt = 0
        /\ snapTh = [t \in SnapThreads |-> [pc |-> "idle", op |-> SnapNone, prev |-> SnapNone,
                                    next |-> SnapNone, cand |-> SnapNone, want |-> SnapNone,
                                    mine |-> SnapNone]]

SnapAt(t, p) == snapTh[t].pc = p
SnapCalling(t, op) == SnapAt(t, "idle") /\ op \in SnapOps[t]

\* The frame of a call that has returned: its Arcs are dropped.
Done(f) == [f EXCEPT !.pc = "idle", !.op = SnapNone, !.prev = SnapNone, !.next = SnapNone,
                     !.cand = SnapNone, !.want = SnapNone]
SnapReturns(t) == snapTh' = [snapTh EXCEPT ![t] = Done(snapTh[t])]

Held(f) == {f.prev, f.next, f.cand} \ {SnapNone}

\* The snapshots with a strong reference.
Strong == ({snapCurrent, candidate} \ {SnapNone}) \cup UNION {Held(snapTh[t]) : t \in SnapThreads}

-----------------------------------------------------------------------------
\* reload_internal and reload_candidate_internal: read the current snapshot
\* and create the directory of the next one.
BuildBegin(t) ==
    /\ snapBuilt < SnapMaxBuilds
    /\ \E op \in {"reload", "reload_candidate"} :
         /\ SnapCalling(t, op)
         /\ snapTh' = [snapTh EXCEPT ![t].pc = "build", ![t].op = op, ![t].prev = snapCurrent,
                             ![t].next = snapBuilt + 1]
    /\ snapBuilt' = snapBuilt + 1
    /\ dirs' = dirs \cup {snapBuilt + 1}
    /\ UNCHANGED <<snapCurrent, candidate, retired, snapLock>>

\* build_snapshot_with_staged_root: a load that fails, or a plugin that is
\* unavailable, removes the directory again.
Build(t) ==
    /\ SnapAt(t, "build")
    /\ \/ /\ snapTh' = [snapTh EXCEPT ![t].pc = IF snapTh[t].op = "reload" THEN "swap" ELSE "stage"]
          /\ UNCHANGED dirs
       \/ /\ dirs' = dirs \ {snapTh[t].next}
          /\ SnapReturns(t)
    /\ UNCHANGED <<snapCurrent, candidate, retired, snapLock, snapBuilt>>

\* reload_internal puts the new snapshot in place.
SnapReloadSwap(t) ==
    /\ SnapAt(t, "swap")
    /\ snapCurrent' = snapTh[t].next
    /\ snapTh' = [snapTh EXCEPT ![t].pc = "take"]
    /\ UNCHANGED <<candidate, retired, dirs, snapLock, snapBuilt>>

\* It also takes a staged candidate out, which is retired after the previous
\* snapshot.
ReloadTake(t) ==
    /\ SnapAt(t, "take")
    /\ candidate' = SnapNone
    /\ snapTh' = [snapTh EXCEPT ![t].pc = "retire", ![t].cand = candidate]
    /\ UNCHANGED <<snapCurrent, retired, dirs, snapLock, snapBuilt>>

\* reload_candidate_internal stages the new candidate and retires the one it
\* replaces, under the candidate lock.
SnapStage(t) ==
    /\ SnapAt(t, "stage")
    /\ candidate # SnapNone => snapLock = SnapNone
    /\ candidate' = snapTh[t].next
    /\ retired' = IF candidate = SnapNone THEN retired ELSE Append(retired, candidate)
    /\ snapTh' = [snapTh EXCEPT ![t].pc = "retain", ![t].next = SnapNone, ![t].mine = snapTh[t].next]
    /\ UNCHANGED <<snapCurrent, dirs, snapLock, snapBuilt>>

-----------------------------------------------------------------------------
\* promote_candidate_matching: a candidate is staged; read the current one.
PromoteBegin(t) ==
    /\ SnapCalling(t, "promote") /\ candidate # SnapNone
    /\ \E want \in {SnapNone, snapTh[t].mine} :
         snapTh' = [snapTh EXCEPT ![t].pc = "promote_take", ![t].op = "promote",
                          ![t].prev = snapCurrent, ![t].want = want]
    /\ UNCHANGED <<snapCurrent, candidate, retired, dirs, snapLock, snapBuilt>>

\* Mutant: whatever candidate is staged is taken.
PromoteTakeUnchecked(t) ==
    /\ SnapAt(t, "promote_take")
    /\ IF candidate = SnapNone
       THEN SnapReturns(t) /\ UNCHANGED candidate
       ELSE /\ candidate' = SnapNone
            /\ snapTh' = [snapTh EXCEPT ![t].pc = "promote_swap", ![t].next = candidate]
    /\ UNCHANGED <<snapCurrent, retired, dirs, snapLock, snapBuilt>>

\* The identity check and the take are one lock section.
PromoteTake(t) ==
    /\ SnapAt(t, "promote_take")
    /\ IF candidate = SnapNone \/ (snapTh[t].want # SnapNone /\ candidate # snapTh[t].want)
       THEN SnapReturns(t) /\ UNCHANGED candidate
       ELSE /\ candidate' = SnapNone
            /\ snapTh' = [snapTh EXCEPT ![t].pc = "promote_swap", ![t].next = candidate]
    /\ UNCHANGED <<snapCurrent, retired, dirs, snapLock, snapBuilt>>

PromoteSwap(t) ==
    /\ SnapAt(t, "promote_swap")
    /\ snapCurrent' = snapTh[t].next
    /\ snapTh' = [snapTh EXCEPT ![t].pc = "retire"]
    /\ UNCHANGED <<candidate, retired, dirs, snapLock, snapBuilt>>

\* rollback_candidate_matching checks the identity in one lock section and
\* restores the workspace, which may fail.
RollbackCheck(t) ==
    /\ SnapCalling(t, "rollback") /\ candidate # SnapNone
    /\ \E want \in {SnapNone, snapTh[t].mine} :
         /\ want # SnapNone => candidate = want
         /\ snapTh' = [snapTh EXCEPT ![t].pc = "rollback_take", ![t].op = "rollback",
                             ![t].want = want]
    /\ UNCHANGED <<snapCurrent, candidate, retired, dirs, snapLock, snapBuilt>>

\* It takes the candidate in another one.
RollbackTake(t) ==
    /\ SnapAt(t, "rollback_take")
    /\ IF candidate = SnapNone
       THEN SnapReturns(t) /\ UNCHANGED candidate
       ELSE /\ candidate' = SnapNone
            /\ snapTh' = [snapTh EXCEPT ![t].pc = "retire_candidate", ![t].cand = candidate]
    /\ UNCHANGED <<snapCurrent, retired, dirs, snapLock, snapBuilt>>

-----------------------------------------------------------------------------
(* retire_snapshot: drop the Arc, then list the Weak and the directory.    *)

RetirePrevious(t) ==
    /\ SnapAt(t, "retire") /\ snapLock = SnapNone
    /\ retired' = Append(retired, snapTh[t].prev)
    /\ snapTh' = [snapTh EXCEPT ![t].prev = SnapNone,
                        ![t].pc = IF snapTh[t].cand = SnapNone THEN "retain" ELSE "retire_candidate"]
    /\ UNCHANGED <<snapCurrent, candidate, dirs, snapLock, snapBuilt>>

RetireCandidate(t) ==
    /\ SnapAt(t, "retire_candidate") /\ snapLock = SnapNone
    /\ retired' = Append(retired, snapTh[t].cand)
    /\ snapTh' = [snapTh EXCEPT ![t].cand = SnapNone, ![t].pc = "retain"]
    /\ UNCHANGED <<snapCurrent, candidate, dirs, snapLock, snapBuilt>>

\* Vec::retain: the elements of s that are in S, in their order.
Retained(s, S) ==
    LET first[n \in 0 .. Len(s)] ==
          IF n = 0 THEN <<>>
          ELSE IF s[n] \in S THEN Append(first[n - 1], s[n]) ELSE first[n - 1]
    IN  first[Len(s)]

\* cleanup_retired_snapshots, the sweep: what nobody holds any more goes.
CleanupRetain(t) ==
    /\ SnapAt(t, "retain") /\ snapLock = SnapNone
    /\ snapLock' = t
    /\ retired' = Retained(retired, Strong)
    /\ dirs' = dirs \ (ToSet(retired) \ Strong)
    /\ snapTh' = [snapTh EXCEPT ![t].pc = "evict"]
    /\ UNCHANGED <<snapCurrent, candidate, snapBuilt>>

\* The entries evict_retired_snapshots removes: the oldest ones beyond the
\* limit, up to the first that is still held.
Excess == IF Len(retired) > MaxRetired THEN Len(retired) - MaxRetired ELSE 0
Evicted == CHOOSE k \in 0 .. Excess :
              /\ \A i \in 1 .. k : retired[i] \notin Strong
              /\ k < Excess => retired[k + 1] \in Strong

\* Mutant: the limit counts, whoever holds the entry.
EvictPinned(t) ==
    /\ SnapAt(t, "evict")
    /\ snapLock' = SnapNone
    /\ retired' = SubSeq(retired, Excess + 1, Len(retired))
    /\ dirs' = dirs \ ToSet(SubSeq(retired, 1, Excess))
    /\ SnapReturns(t)
    /\ UNCHANGED <<snapCurrent, candidate, snapBuilt>>

\* cleanup_retired_snapshots, the limit; the call returns.
CleanupEvict(t) ==
    /\ SnapAt(t, "evict")
    /\ snapLock' = SnapNone
    /\ retired' = SubSeq(retired, Evicted + 1, Len(retired))
    /\ dirs' = dirs \ ToSet(SubSeq(retired, 1, Evicted))
    /\ SnapReturns(t)
    /\ UNCHANGED <<snapCurrent, candidate, snapBuilt>>

-----------------------------------------------------------------------------
\* invoke, execute, invoke_candidate and execute_candidate hold the snapshot
\* from their first line to the end, their own cleanup included.
SnapInvokeBegin(t) ==
    /\ \E op \in {"invoke", "invoke_candidate"} :
         /\ SnapCalling(t, op)
         /\ LET snapshot == IF op = "invoke" THEN snapCurrent ELSE candidate
            IN /\ snapshot # SnapNone
               /\ snapTh' = [snapTh EXCEPT ![t].pc = "work", ![t].op = op, ![t].prev = snapshot]
    /\ UNCHANGED <<snapCurrent, candidate, retired, dirs, snapLock, snapBuilt>>

\* The plugin runs; a Process plugin is spawned from the directory.
Work(t) ==
    /\ SnapAt(t, "work")
    /\ snapTh' = [snapTh EXCEPT ![t].pc = "retain"]
    /\ UNCHANGED <<snapCurrent, candidate, retired, dirs, snapLock, snapBuilt>>

Replace(t) == BuildBegin(t) \/ Build(t) \/ SnapReloadSwap(t) \/ ReloadTake(t) \/ SnapStage(t)

Decide(t) == \/ PromoteBegin(t) \/ PromoteTake(t) \/ PromoteSwap(t)
             \/ RollbackCheck(t) \/ RollbackTake(t)

Retire(t) == \/ RetirePrevious(t) \/ RetireCandidate(t)
             \/ CleanupRetain(t) \/ CleanupEvict(t)

Use(t) == SnapInvokeBegin(t) \/ Work(t)

SnapNext == \E t \in SnapThreads : Replace(t) \/ Decide(t) \/ Retire(t) \/ Use(t)

SnapSpec == SnapInit /\ [][SnapNext]_snapVars

-----------------------------------------------------------------------------
(* Properties.                                                             *)

\* The host's snapshot state and the state of every call keep their types; in
\* particular only snapshots are listed as retired.
SnapTypeOK == /\ snapCurrent \in Ids /\ candidate \in Maybe
          /\ retired \in Seq(Ids) /\ dirs \subseteq Ids
          /\ snapLock \in SnapThreads \cup {SnapNone}
          /\ snapTh \in [SnapThreads -> SnapFrames]
          /\ snapBuilt \in Ids

\* The directory of a snapshot that somebody can still use is on disk: current,
\* candidate, being built, or held by a call that began before a reload.  A
\* Process plugin whose directory is gone cannot be spawned.
PinnedDirKept == Strong \subseteq dirs

\* What is current or staged is not listed for removal, and a snapshot is
\* never both current and staged: otherwise a rollback would retire the
\* snapshot in use.
LiveNotRetired == /\ snapCurrent \notin ToSet(retired)
                  /\ candidate # SnapNone => candidate \notin ToSet(retired) \cup {snapCurrent}

\* No directory is forgotten: each belongs to a snapshot in use or is listed for
\* removal.
NoOrphanDir == dirs \subseteq Strong \cup ToSet(retired)

\* Every directory is of use to somebody or listed for removal, never both at
\* once and never neither, through reloads, candidates, promotions, rollbacks
\* and the cleanup of each.
SnapshotsSound == SnapTypeOK /\ PinnedDirKept /\ LiveNotRetired /\ NoOrphanDir

\* A promotion that expects a candidate makes that one current, whatever was
\* staged in the meantime: nothing unverified is promoted.
PromotedIsExpected ==
    [][ \A t \in SnapThreads :
          snapTh[t].op = "promote" /\ snapTh[t].want # SnapNone /\ snapTh'[t].pc = "promote_swap" =>
              snapTh'[t].next = snapTh[t].want ]_snapVars
=============================================================================
