----------------------------- MODULE MCDebugger -----------------------------
(* Small programs for TLC.                                                 *)
EXTENDS Debugger

W(op, to, link, id) == [op |-> op, to |-> to, link |-> link, id |-> id]

(* A loop: a call with its delay slot, a branch to itself, a branch back   *)
(* to the start, one to a jump whose delay slot holds an instruction the   *)
(* CPU does not have, one to that instruction or on to the word that       *)
(* returns to the monitor; the routine jumps into the ROM, which returns   *)
(* to the caller.                                                          *)
LoopText ==
  << W("call", 14, 1, 1), W("seq", 1, 1, 2), W("cond", 3, 1, 3), W("seq", 1, 1, 4),
     W("cond", 1, 1, 5), W("seq", 1, 1, 6), W("cond", 12, 1, 7), W("seq", 1, 1, 8),
     W("cond", 13, 1, 9), W("seq", 1, 1, 10), W("exit", 1, 1, 11),
     W("jump", 1, 1, 12), W("ri", 1, 1, 13),
     W("jr", 16, 3, 14), W("seq", 1, 1, 15), W("seq", 1, 1, 16) >>

(* A program that may branch around address 3 and return, and a straight   *)
(* one that goes on for ever.                                              *)
ExitText == << W("cond", 4, 1, 1), W("seq", 1, 1, 2), W("seq", 1, 1, 3), W("exit", 1, 1, 4) >>
SeqText  == << W("seq", 1, 1, 1), W("seq", 1, 1, 2), W("seq", 1, 1, 3) >>

(* t, t 1, t 2, to -i.                                                     *)
T(over, cnt, multi, cond) == [over |-> over, cnt |-> cnt, multi |-> multi, cond |-> cond]
StepArgs == {T(FALSE, 0, FALSE, FALSE), T(FALSE, 1, TRUE, FALSE), T(FALSE, 2, TRUE, FALSE), T(TRUE, 0, TRUE, TRUE)}

(* The properties promise nothing once memory is suspect: such states are  *)
(* followed at the prompt, up to the next download, but not into a run of  *)
(* the client.                                                             *)
SuspectBound == suspect => phase # "client"
=============================================================================
