------------------------------- MODULE Sample -------------------------------
(***************************************************************************)
(* The input on which the modules of pure algorithms are evaluated.  It is *)
(* chosen in the initial state; its field "of" names the algorithm, the    *)
(* other fields are that algorithm's arguments.                            *)
(***************************************************************************)
VARIABLE sample

\* The same input may be processed again; nothing is kept between two runs.
Again == UNCHANGED sample
=============================================================================
