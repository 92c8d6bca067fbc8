------------------------------- MODULE MCProc -------------------------------
(* The monitor and one spawned process.  No command of the repository      *)
(* calls siginterrupt: SigIntr is empty.                                   *)
EXTENDS Proc
=============================================================================
