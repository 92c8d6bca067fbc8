------------------------------ MODULE MCXmodem ------------------------------
(* A file of five blocks: the numbers wrap, and one of them is that of EOT. *)
EXTENDS Xmodem
=============================================================================
