--------------------------- MODULE MCAgentSessions ---------------------------
(* Small instances of AgentSessions: which thread calls what.              *)
EXTENDS AgentSessions, TLC

CONSTANTS t1, t2, s1

\* Two threads send to a session, one of them with fallback; both may end it,
\* and one tells it of a reload.
OpsRace == t1 :> {"start", "send", "drop"}
           @@ t2 :> {"send_with_fallback", "drop", "notify"}

OpsDrop == t1 :> {"start", "send"} @@ t2 :> {"drop"}
=============================================================================
