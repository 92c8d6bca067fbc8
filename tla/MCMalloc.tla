------------------------------ MODULE MCMalloc ------------------------------
(* A heap of seven units that grows by two or four. *)
EXTENDS Malloc

(* Header alone; one unit; two, one of them in part; and one that wraps. *)
MCRequests == {0, 2, 3, 15}
=============================================================================
