----------------------------- MODULE MCTaskPool -----------------------------
(***************************************************************************)
(* Three concurrent Go calls, a queue of two and a limit of two workers:   *)
(* enough for a full queue, a failed swap, a sizing test in which only     *)
(* poolMax says no, and workers that retire while calls are in progress.   *)
(* The tasks are interchangeable, but the run checks liveness too, for     *)
(* which symmetry is unsound: they are listed in full.                     *)
(***************************************************************************)
EXTENDS TaskPool
=============================================================================
