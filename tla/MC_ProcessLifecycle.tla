------------------------- MODULE MC_ProcessLifecycle -------------------------
(* Model-checking instance of ProcessLifecycle: the initial process and   *)
(* two more threads, enough for a parent with two children or a chain    *)
(* of three generations.                                                  *)
EXTENDS ProcessLifecycle

MC_MaxThreads == 3
MC_ExitCodes == {0, 1}
=============================================================================
