-------------------------- MODULE MCMemoryWatchdog --------------------------
(* The host and two processes, and streaks of two checks.                  *)
EXTENDS MemoryWatchdog
=============================================================================
