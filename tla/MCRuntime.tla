------------------------------- MODULE MCRuntime -------------------------------
(* Runtime.tla: the rings with two buffers, as RL_BUFFER_COUNT, and indices *)
(* that wrap after four, so that they wrap many times in a run.  The ring  *)
(* of frames has four slots, so that a full one holds three items of which *)
(* two differ.  The message that CM4 sends has its 22 characters.  The     *)
(* counter of delay wraps after eight milliseconds, of three steps each,   *)
(* and every duration it can hold is asked for.  Quicksort gets every      *)
(* array of up to five strings of which four may be different, so that     *)
(* equal strings, sorted and reversed arrays all occur.                    *)
EXTENDS Runtime

MCRank == 1 .. 4
=============================================================================
