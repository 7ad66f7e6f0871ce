----------------------------- MODULE MCSnapshots -----------------------------
(***************************************************************************)
(* Small instances of the snapshots of a host: how they replace each       *)
(* other, how their directories are collected, and how the plugins in them *)
(* are loaded and invoked.  A behaviour drives one of them; the others     *)
(* rest in their initial state.                                            *)
(***************************************************************************)
EXTENDS SnapshotLifecycle, SnapshotGc, PluginRuntime, TLC

CONSTANTS t1, t2, t3, p1, p2, p3, p4

VARIABLE driven   \* the component this behaviour drives

snapshotVars == <<snapVars, gcVars, runtimeVars, driven>>

\* One thread replaces the current snapshot, two stage candidates, one of them
\* may roll one back, and one invokes.
OpsOneSwapper == t1 :> {"reload", "reload_candidate", "promote"}
                   @@ t2 :> {"reload_candidate", "rollback"}
                   @@ t3 :> {"invoke", "invoke_candidate"}

\* p1 is the root, p2 and p3 its children and p4 the child of p3.
MCTopo == <<p1, p2, p3, p4>>
MCParent == (p1 :> None) @@ (p2 :> p1) @@ (p3 :> p1) @@ (p4 :> p3)
CallerSymmetry == Permutations(Caller)

SnapshotsInit ==
    SnapInit /\ GcInit /\ RuntimeInit /\ driven \in {"swap", "collect", "load"}

\* The collectors and the loader may have come to an end.
SnapshotsNext ==
    /\ UNCHANGED driven
    /\ \/ driven = "swap" /\ SnapNext /\ UNCHANGED <<gcVars, runtimeVars>>
       \/ driven = "collect" /\ GcNext /\ UNCHANGED <<snapVars, runtimeVars>>
       \/ driven = "load" /\ RuntimeNext /\ UNCHANGED <<snapVars, gcVars>>
       \/ driven # "swap" /\ UNCHANGED <<snapVars, gcVars, runtimeVars>>

SnapshotsSpec == SnapshotsInit /\ [][SnapshotsNext]_snapshotVars
=============================================================================
