---------------------------- MODULE MCLifecycle ----------------------------
(***************************************************************************)
(* Two processes, one of which may be the successor of the other, and one  *)
(* goroutine that uses the store beside Open and Close of main.  Three     *)
(* handles: one before Open, one by it, one after Close.                   *)
(***************************************************************************)
EXTENDS Lifecycle
=============================================================================
