------------------------------- MODULE Timers -------------------------------
(***************************************************************************)
(* What timeout and untimeout promise to their callers: every pending call *)
(* has a number of clock ticks left; the calls are made one at a time, in  *)
(* the order of their ticks, the latest request first among equals, and    *)
(* none while it has a tick left.                                          *)
(***************************************************************************)
EXTENDS Naturals, Sequences

CONSTANTS Fns, TickArgs, NoFn

VARIABLES
  pending,   \* sequence of [fn, left]
  firing     \* the function whose call is under way, or NoFn

vars == <<pending, firing>>

AtLeastOne(n) == IF n = 0 THEN 1 ELSE n

Init == pending = <<>> /\ firing = NoFn

(* A request goes behind the calls that come sooner.                       *)
Request(f, n) ==
  LET k == CHOOSE i \in 0 .. Len(pending) :
             /\ \A j \in 1 .. i : pending[j].left < AtLeastOne(n)
             /\ \A j \in i + 1 .. Len(pending) : pending[j].left >= AtLeastOne(n)
  IN  /\ pending' = SubSeq(pending, 1, k) \o <<[fn |-> f, left |-> AtLeastOne(n)]>>
                      \o SubSeq(pending, k + 1, Len(pending))
      /\ UNCHANGED firing

(* The first pending call of f is taken back.                              *)
Cancel(f) ==
  \E i \in 1 .. Len(pending) :
    /\ pending[i].fn = f /\ \A j \in 1 .. i - 1 : pending[j].fn # f
    /\ pending' = SubSeq(pending, 1, i - 1) \o SubSeq(pending, i + 1, Len(pending))
    /\ UNCHANGED firing

Tick ==
  /\ pending' = [i \in DOMAIN pending |->
                   [pending[i] EXCEPT !.left = IF @ = 0 THEN 0 ELSE @ - 1]]
  /\ UNCHANGED firing

Fire ==
  /\ firing = NoFn
  /\ pending # <<>> /\ Head(pending).left = 0
  /\ firing' = Head(pending).fn
  /\ pending' = Tail(pending)

Return ==
  /\ firing # NoFn
  /\ firing' = NoFn
  /\ UNCHANGED pending

Next ==
  \/ \E f \in Fns : Cancel(f) \/ \E n \in TickArgs : Request(f, n)
  \/ Tick
  \/ Fire
  \/ Return

Spec == Init /\ [][Next]_vars
=============================================================================
