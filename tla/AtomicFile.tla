----------------------------- MODULE AtomicFile ------------------------------
(***************************************************************************)
(* What the runtime expects of a file it replaces: a reader finds a whole  *)
(* value that somebody wrote, and a power failure may bring back a value   *)
(* that was replaced before the directory reached the disk, nothing else.  *)
(***************************************************************************)
CONSTANTS Values, Original

VARIABLES value,      \* what a reader finds
          fallback    \* values a power failure may bring back

FileInit == value = Original /\ fallback = {}

Put(v) == /\ value' = v
          /\ fallback' = fallback \cup {value}

\* The directory has been written back.
Flush == /\ fallback' = {}
         /\ UNCHANGED value

Lose == /\ value' \in {value} \cup fallback
        /\ fallback' = {}

FileNext == (\E v \in Values : Put(v)) \/ Flush \/ Lose

AtomicFileSpec == FileInit /\ [][FileNext]_<<value, fallback>>
=============================================================================
