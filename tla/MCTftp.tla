------------------------------- MODULE MCTftp -------------------------------
(* Files that end in a short block, in an empty one and after the block    *)
(* numbers have wrapped; one that is not there; uploads that are checked.  *)
EXTENDS Tftp

Job(o, l) == [op |-> o, len |-> l, ok |-> TRUE, crc |-> "none"]

MCJobs ==
    {Job(o, l) : o \in {"RRQ", "WRQ"}, l \in {3, 4, 8}}
        \cup {[Job(o, 1) EXCEPT !.ok = FALSE] : o \in {"RRQ", "WRQ"}}
        \cup {[Job("WRQ", 3) EXCEPT !.crc = c] : c \in {"good", "bad"}}
MCSizes == {3}
=============================================================================
