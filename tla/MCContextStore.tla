--------------------------- MODULE MCContextStore ---------------------------
(* Small instances of ContextStore: which thread calls what.               *)
EXTENDS ContextStore, TLC

CONSTANTS t1, t2, t3, k1, k2

\* k1 and k2 are the same slot in two major versions.
MCClash == {<<k1, k2>>, <<k2, k1>>}
NoClash == {}

Canonical == OpNames \ {"commit_session", "clone", "mark_skipped"}

OpsCanonical == [t \in Threads |-> Canonical]
ThreadSymmetry == Permutations(Threads)

\* One thread puts, promotes and commits; the other reads, clones and removes.
OpsPromote == t1 :> {"put", "commit_session", "commit", "mark_skipped"}
              @@ t2 :> {"lookup", "list", "clone", "remove", "begin", "rollback"}

OpsLookupVsCommit == t1 :> {"put", "lookup"} @@ t2 :> {"commit_session"}
=============================================================================
