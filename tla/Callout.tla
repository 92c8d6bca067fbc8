------------------------------ MODULE Callout -------------------------------
(***************************************************************************)
(* The clock of the monitor: callouts on a delta list (timeout, untimeout, *)
(* hardclock, softclock of sys/kern/kern_clock.c) driven without a single  *)
(* interrupt.  Lowering the interrupt level with splx (kern_misc.c) polls  *)
(* the cpu's free-running counter (tgt_clkpoll of mips_machdep.c), makes   *)
(* up for the ticks that were missed and then runs the software interrupts.*)
(*                                                                         *)
(* Everything happens in one thread, nested: the main program calls splx,  *)
(* splx polls and calls softclock, softclock calls the function, and that  *)
(* calls timeout, whose splx polls again.  ctl tells where it is.          *)
(***************************************************************************)
EXTENDS Integers, Sequences

CONSTANTS
  Fns,          \* functions given to timeout
  Periodic,     \* those that only ever start themselves again (pffasttimo, ...)
  TickArgs,     \* tick counts given to timeout
  NCALLOUT,     \* callout structures (ncallout)
  Wrap,         \* the counter counts modulo Wrap (2^32)
  clkpertick,   \* counts per tick
  Work,         \* counts that a stretch of the program without a poll takes
  MaxLag,       \* bound: no such stretch begins once a tick is this much overdue
  MaxLate,      \* bound: level 1 is not left behind with a call this much overdue
  PollCost,     \* counts that pass before a poll reads the counter
  Races,        \* counts that may pass between the two reads of one poll
  NoFn

ASSUME CalloutAssumption ==
  /\ Periodic \subseteq Fns /\ NoFn \notin Fns
  /\ TickArgs \subseteq Nat /\ NCALLOUT \in Nat \ {0}
  /\ clkpertick \in Nat \ {0} /\ Wrap \in Nat \ {0}
  /\ Work \subseteq Nat \ {0} /\ MaxLag \in Nat /\ MaxLate \in Nat
  /\ PollCost \in Nat \ {0} /\ Races \subseteq Nat
  /\ \A d \in Races : MaxLag + PollCost + d < Wrap /\ d <= clkpertick
  /\ clkpertick + PollCost < Wrap

VARIABLES
  calltodo,     \* the queue: sequence of [fn, time, promise]
  count,        \* the cpu's counter
  old_count,    \* its value when ticks were last counted
  softcompare, \* its value at the next tick
  ticks,        \* ticks found by tgt_clkpoll, hardclock still to be called for
  netisr,       \* NETISR_SCLK is set: softclock is wanted
  ctl,          \* what runs: "main", "poll", "hard", "soft", "call", "ret", "panic"
  back,         \* where splx goes on after the poll: "net", "call", "ret", "main"
  running,      \* the callout softclock has taken off the queue
  lag           \* counts since the last tick that tgt_clkpoll has found

clock == <<count, old_count, softcompare, lag>>
vars  == <<calltodo, clock, ticks, netisr, ctl, back, running>>

None == [fn |-> NoFn, promise |-> 0]

(* Counter values and their differences are unsigned.                      *)
Counts(x) == x % Wrap

TypeOK ==
  /\ calltodo \in Seq([fn : Fns, time : Int, promise : Nat]) /\ Len(calltodo) <= NCALLOUT
  /\ count \in 0 .. Wrap - 1 /\ old_count \in 0 .. Wrap - 1 /\ softcompare \in 0 .. Wrap - 1
  /\ ticks \in Nat /\ netisr \in BOOLEAN
  /\ ctl \in {"main", "poll", "hard", "soft", "call", "ret", "panic"}
  /\ back \in {"net", "call", "ret", "main"}
  /\ running \in [fn : Fns \cup {NoFn}, promise : Nat]
  /\ lag \in Nat

(* startrtclock, with the counter at zero.                                 *)
Init ==
  /\ calltodo = <<>>
  /\ count = 0 /\ old_count = 0 /\ softcompare = clkpertick % Wrap
  /\ ticks = 0 /\ netisr = FALSE
  /\ ctl = "main" /\ back = "main"
  /\ running = None
  /\ lag = 0

-----------------------------------------------------------------------------
(* The queue.                                                              *)

AtLeastOne(n) == IF n = 0 THEN 1 ELSE n

(* What is left of n ticks behind the first k entries: overdue ones, with  *)
(* a time of zero or less, do not count.                                   *)
Left(q, n, k) ==
  LET left[i \in 0 .. Len(q)] ==
        IF i = 0 THEN n
        ELSE IF q[i].time > 0 THEN left[i - 1] - q[i].time ELSE left[i - 1]
  IN  left[k]

(* What the caller of timeout may count on, in counts of the counter: its  *)
(* ticks, less all that has passed since the last one that was counted.    *)
Promised(n) == IF n * clkpertick > lag THEN n * clkpertick - lag ELSE 0

(* Mutant: the entry behind the new one keeps its time.                    *)
Inserted_uncorrected(q, f, n) ==
  LET k == CHOOSE i \in 0 .. Len(q) :
             /\ i = Len(q) \/ Left(q, n, i) <= q[i + 1].time
             /\ \A j \in 0 .. i - 1 : Left(q, n, j) > q[j + 1].time
  IN  SubSeq(q, 1, k)
        \o <<[fn |-> f, time |-> Left(q, n, k), promise |-> Promised(n)]>>
        \o SubSeq(q, k + 1, Len(q))

(* The new entry goes in front of the first that is not sooner, whose time *)
(* is corrected.                                                           *)
Inserted(q, f, n) ==
  LET k == CHOOSE i \in 0 .. Len(q) :
             /\ i = Len(q) \/ Left(q, n, i) <= q[i + 1].time
             /\ \A j \in 0 .. i - 1 : Left(q, n, j) > q[j + 1].time
      t == Left(q, n, k)
      new == [fn |-> f, time |-> t, promise |-> Promised(n)]
      rest == [i \in 1 .. Len(q) - k |->
                 IF i = 1 THEN [q[k + 1] EXCEPT !.time = @ - t] ELSE q[k + i]]
  IN  SubSeq(q, 1, k) \o <<new>> \o rest

(* Mutant: only the argument is compared, which is NULL for most calls.    *)
Removed_first(q, f) ==
  IF Len(q) < 2 THEN <<>>
  ELSE <<[q[2] EXCEPT !.time = IF q[1].time > 0 THEN @ + q[1].time ELSE @]>>
         \o SubSeq(q, 3, Len(q))

(* Mutant: the next entry loses the time of the one taken out. *)
Removed_short(q, f) ==
  LET i == CHOOSE j \in DOMAIN q : q[j].fn = f /\ \A h \in 1 .. j - 1 : q[h].fn # f
  IN  SubSeq(q, 1, i - 1) \o SubSeq(q, i + 1, Len(q))

(* untimeout: the next entry gets the time of the one taken out, unless    *)
(* that was overdue.                                                       *)
Removed(q, f) ==
  LET i == CHOOSE j \in DOMAIN q : q[j].fn = f /\ \A h \in 1 .. j - 1 : q[h].fn # f
      rest == [j \in 1 .. Len(q) - i |->
                 IF j = 1 /\ q[i].time > 0 THEN [q[i + 1] EXCEPT !.time = @ + q[i].time]
                 ELSE q[i + j]]
  IN  SubSeq(q, 1, i - 1) \o rest

Queued(f) == \E i \in DOMAIN calltodo : calltodo[i].fn = f

(* The entries hardclock decrements: all that are overdue and the first    *)
(* that is not.                                                            *)
Reached(q) == {j \in DOMAIN q : \A i \in 1 .. j - 1 : q[i].time <= 0}

(* softclock calls the first entry.                                        *)
Due(q) == q # <<>> /\ Head(q).time <= 0

-----------------------------------------------------------------------------
(* The main program.  Its calls of timeout and untimeout restore the level *)
(* they found: the high one (7) of a caller like tsleep, which is no       *)
(* lowering, one below it (1) that lets the clock be polled but no         *)
(* softclock run, or zero.                                                 *)
Levels == {0, 1, 7}

Restore(s) ==
  \/ s = 7 /\ UNCHANGED <<ctl, back>>
  \/ s = 1 /\ ctl' = "poll" /\ back' = "main"
         /\ (calltodo # <<>> => Head(calltodo).time > -MaxLate)
  \/ s = 0 /\ ctl' = "poll" /\ back' = "net"

(* Mutant: the test for an empty free list is missing.                     *)
timeout_unchecked(f, n, s) ==
  /\ ctl = "main" /\ (f \in Periodic => ~Queued(f))
  /\ calltodo' = Inserted(calltodo, f, AtLeastOne(n)) /\ Restore(s)
  /\ UNCHANGED <<clock, ticks, netisr, running>>

timeout(f, n, s) ==
  /\ ctl = "main" /\ (f \in Periodic => ~Queued(f))
  /\ IF Len(calltodo) = NCALLOUT
       THEN ctl' = "panic" /\ UNCHANGED <<calltodo, back>>
       ELSE calltodo' = Inserted(calltodo, f, AtLeastOne(n)) /\ Restore(s)
  /\ UNCHANGED <<clock, ticks, netisr, running>>

untimeout(f, s) ==
  /\ ctl = "main" /\ f \notin Periodic
  /\ calltodo' = IF Queued(f) THEN Removed(calltodo, f) ELSE calltodo
  /\ Restore(s)
  /\ UNCHANGED <<clock, ticks, netisr, running>>

(* What has been promised, passed counts later.                            *)
Aged(q, passed) ==
  [i \in DOMAIN q |-> [q[i] EXCEPT !.promise = IF @ > passed THEN @ - passed ELSE 0]]

(* The program runs on without lowering the level: a command at work, or a *)
(* called function.                                                        *)
Run(w) ==
  /\ ctl \in {"main", "call"} /\ lag + w <= MaxLag
  /\ count' = (count + w) % Wrap
  /\ lag' = lag + w
  /\ calltodo' = Aged(calltodo, w)
  /\ running' = Aged(<<running>>, w)[1]
  /\ UNCHANGED <<old_count, softcompare, ticks, netisr, ctl, back>>

(* Any wait: idle, scandevs and the others lower the level to zero.        *)
idle ==
  /\ ctl = "main"
  /\ Restore(0)
  /\ UNCHANGED <<calltodo, clock, ticks, netisr, running>>

-----------------------------------------------------------------------------
(* splx.                                                                   *)

(* Mutant: the counter is not read again.                                  *)
Missed_once(c, d) ==
  LET cycles == Counts(c - old_count)
      delta  == Counts(softcompare - old_count)
  IN  IF cycles <= delta THEN 0 ELSE (cycles - delta) \div clkpertick + 1

(* How many ticks tgt_clkpoll finds with the counter at c, and then d      *)
(* further at its second read, which is no more than a tick after the      *)
(* first: its loop then ends with a comparison value that is not past.     *)
Missed(c, d) ==
  LET cycles == Counts(c - old_count)
      delta  == Counts(softcompare - old_count)
      first  == (cycles - delta) \div clkpertick + 1
      delta2 == Counts(softcompare + first * clkpertick - c)
  IN  CASE cycles <= delta -> 0
        [] cycles > delta /\ d <= delta2 -> first
        [] OTHER -> first + (d - delta2 + clkpertick - 1) \div clkpertick

tgt_clkpoll(d) ==
  LET c == (count + PollCost) % Wrap
      n == Missed(c, d)
      passed == IF n = 0 THEN PollCost ELSE PollCost + d
  IN  /\ ctl = "poll"
      /\ count' = (count + passed) % Wrap
      /\ ticks' = n
      /\ old_count' = IF n = 0 THEN old_count
                      ELSE IF n = Missed(c, 0) THEN c ELSE count'
      /\ softcompare' = (softcompare + n * clkpertick) % Wrap
      /\ lag' = lag + passed - n * clkpertick
      /\ calltodo' = Aged(calltodo, passed)
      /\ running' = Aged(<<running>>, passed)[1]
      /\ ctl' = "hard"
      /\ UNCHANGED <<netisr, back>>

(* Mutant: a call whose time becomes zero leaves the loop before needsoft. *)
hardclock_break ==
  /\ ctl = "hard" /\ ticks > 0
  /\ calltodo' = [j \in DOMAIN calltodo |->
                    IF j \in Reached(calltodo) THEN [calltodo[j] EXCEPT !.time = @ - 1]
                    ELSE calltodo[j]]
  /\ netisr' = (netisr \/ \E j \in Reached(calltodo) : calltodo[j].time <= 0)
  /\ ticks' = ticks - 1
  /\ UNCHANGED <<clock, ctl, back, running>>

hardclock ==
  /\ ctl = "hard" /\ ticks > 0
  /\ calltodo' = [j \in DOMAIN calltodo |->
                    IF j \in Reached(calltodo) THEN [calltodo[j] EXCEPT !.time = @ - 1]
                    ELSE calltodo[j]]
  /\ netisr' = (netisr \/ \E j \in Reached(calltodo) : calltodo[j].time <= 1)
  /\ ticks' = ticks - 1
  /\ UNCHANGED <<clock, ctl, back, running>>

(* After the poll: the software interrupts if the new level is zero, else  *)
(* back to the caller.                                                     *)
splx ==
  /\ ctl = "hard" /\ ticks = 0
  /\ ctl' = IF back # "net" THEN back ELSE IF netisr THEN "soft" ELSE "main"
  /\ netisr' = IF back = "net" THEN FALSE ELSE netisr
  /\ UNCHANGED <<calltodo, clock, ticks, back, running>>

-----------------------------------------------------------------------------
(* softclock.                                                              *)

(* The first entry is due: take it off; the level drops to one before it   *)
(* is called.                                                              *)
softclock_take ==
  /\ ctl = "soft" /\ Due(calltodo)
  /\ running' = [fn |-> Head(calltodo).fn, promise |-> Head(calltodo).promise]
  /\ calltodo' = Tail(calltodo)
  /\ ctl' = "poll" /\ back' = "call"
  /\ UNCHANGED <<clock, ticks, netisr>>

(* Nothing is due: back through the splx that called softnet.              *)
softclock_end ==
  /\ ctl = "soft" /\ ~Due(calltodo)
  /\ ctl' = "poll" /\ back' = "main"
  /\ UNCHANGED <<calltodo, clock, ticks, netisr, running>>

(* The function starts itself again.                                       *)
call_again(n) ==
  /\ ctl = "call"
  /\ IF Len(calltodo) = NCALLOUT
       THEN ctl' = "panic" /\ UNCHANGED <<calltodo, back>>
       ELSE /\ calltodo' = Inserted(calltodo, running.fn, AtLeastOne(n))
            /\ ctl' = "poll" /\ back' = "ret"
  /\ UNCHANGED <<clock, ticks, netisr, running>>

(* It returns; one like endtsleep has not started itself again.            *)
call_return ==
  /\ ctl = "ret" \/ (ctl = "call" /\ running.fn \notin Periodic)
  /\ running' = None
  /\ ctl' = "soft"
  /\ UNCHANGED <<calltodo, clock, ticks, netisr, back>>

Main == \/ \E f \in Fns, s \in Levels :
             untimeout(f, s) \/ \E n \in TickArgs : timeout(f, n, s)
        \/ idle
        \/ \E w \in Work : Run(w)

Internal ==
  \/ \E d \in Races : tgt_clkpoll(d)
  \/ hardclock
  \/ splx
  \/ softclock_take
  \/ softclock_end
  \/ \E n \in TickArgs : call_again(n)
  \/ call_return

(* panic stops in the debugger.                                            *)
Panicked == ctl = "panic" /\ UNCHANGED vars

Next == Main \/ Internal \/ Panicked

(* One thread, which goes on with what it is doing; and every wait of the  *)
(* monitor lowers the level to poll.                                       *)
Spec == Init /\ [][Next]_vars /\ WF_vars(Internal) /\ WF_vars(idle)

-----------------------------------------------------------------------------
(* Properties.                                                             *)

(* The delta list, the flag and the poll together are a timer service: the *)
(* calls come in the order of their ticks, none with a tick left, and a    *)
(* request or a cancellation changes no other call's ticks.                *)
Abs == INSTANCE Timers WITH
  pending <- [i \in DOMAIN calltodo |->
                [fn |-> calltodo[i].fn, left |-> -Left(calltodo, 0, i)]],
  firing  <- running.fn
Refines == Abs!Spec

(* Whatever the gaps between polls and the races within one, and across    *)
(* the counter's wrap, tgt_clkpoll neither loses a tick nor counts one     *)
(* that has not come: the last tick it has counted began at most           *)
(* clkpertick counts ago.                                                  *)
ClockKeepsTime == ctl = "hard" => lag \in 0 .. clkpertick

(* A due call is never forgotten: softclock is wanted or under way.        *)
DueIsScheduled ==
  Due(calltodo) => \/ netisr
                   \/ ctl \in {"soft", "call", "ret", "panic"}
                   \/ ctl \in {"poll", "hard"} /\ back \in {"call", "ret"}

(* A periodic function keeps running: once queued it is called, whatever   *)
(* else is requested, cancelled and called meanwhile.                      *)
EventuallyRuns ==
  \A f \in Periodic : Queued(f) ~> (running.fn = f \/ ctl = "panic")

(* No function is called before its time, but for the ticks that had       *)
(* passed unseen when timeout was called: they are counted afterwards, by  *)
(* the poll in timeout's own splx, and taken off the new call.  Nothing    *)
(* else, no race within a poll, no insertion or removal in front, and no   *)
(* catching up of missed ticks makes a call early.                         *)
NotEarly == ctl = "call" => running.promise = 0
=============================================================================
