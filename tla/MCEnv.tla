------------------------------- MODULE MCEnv --------------------------------
(* A user variable in two spellings, another that is never saved, bootp    *)
(* with a list of values, heaptop and the memsize that tgt_mapenv sets at  *)
(* every start.                                                            *)
EXTENDS Env

AllNames  == {"al", "AL", "x", "heaptop", "bootp", "BOOTP", "memsize", "galileoexpert"}
VarOf     == [n \in AllNames |-> CASE n = "AL" -> "al" [] n = "BOOTP" -> "bootp" [] OTHER -> n]
StdTable  == <<"bootp", "heaptop">>
Defaults  == [s \in {"bootp", "heaptop"} |-> 1]
Lists     == [s \in {"bootp", "heaptop"} |-> IF s = "bootp" THEN {1, 2} ELSE {0, 1, 2}]
Board     == << [name |-> "memsize", value |-> 1] >>

(* What the user types: bootp 0 is not on the list, x 3 is too long.       *)
T(n, v, t) == [name |-> n, value |-> v, temp |-> t]
Inputs == {T("al", 1, FALSE), T("AL", 2, FALSE), T("x", 1, TRUE), T("x", 3, FALSE),
           T("bootp", 0, FALSE), T("bootp", 1, FALSE), T("bootp", 2, FALSE),
           T("heaptop", 2, FALSE), T("heaptop", 2, TRUE)}

(* A sector never used, and one of an older monitor with a lower heap.     *)
NewBoard  == {Erased, Entries(<< [name |-> "heaptop", value |-> 0] >>)}

ASSUME MCEnvAssumption == LeavesBoardAlone /\ FactoryFits
=============================================================================
