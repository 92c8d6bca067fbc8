-------------------------------- MODULE Proc --------------------------------
(***************************************************************************)
(* The network kernel's processes: system calls, sleeping, time-outs and   *)
(* signals, of sys/kern.                                                   *)
(*                                                                         *)
(* There is one thread.  A process runs on top of the one that spawned it  *)
(* and a signal handler on top of what it interrupted, so the control is a *)
(* stack of frames: code outside the kernel ("user"), a system call        *)
(* ("sys"), a signal being handled ("hand").  Whatever comes from outside  *)
(* (a datagram, ^C, the clock) is noticed when somebody polls: in the idle *)
(* loop of tsleep, where a system call lowers the level, and in any code   *)
(* outside the kernel.                                                     *)
(***************************************************************************)
EXTENDS Integers, Sequences, FiniteSets, FiniteSetsExt

CONSTANTS
    NPROC,      \* slots for processes; slot 0 is the monitor's own
    SigIntr,    \* signals that siginterrupt excludes from SA_RESTART
    Depth,      \* bound: nothing arrives when the stack might outgrow it
    MaxCC       \* bound: datagrams in the socket's buffer

ASSUME ProcAssumption ==
    /\ NPROC \in Nat \ {0}
    /\ Depth \in Nat \ {0}
    /\ MaxCC \in Nat \ {0}

SIGINT == 2
SIGALRM == 14
Sigs == {SIGINT, SIGALRM}

VARIABLES
    proc,       \* the slots: stat, wchan, flags, signals
    nprocs,     \* slots in use
    curproc,
    stack,      \* the frames, the running one last
    sleepq,     \* processes whose endtsleep is in the callout queue
    alarmq,     \* processes whose realitexpire is
    sock,       \* the receive buffer: cc, SB_WAIT, who selects on it
    panic       \* what stopped the monitor, or "no"

vars == <<proc, nprocs, curproc, stack, sleepq, alarmq, sock, panic>>
rest == <<nprocs, curproc, panic>>
others == <<rest, alarmq>>

Procs == 0 .. NPROC - 1
Nobody == -1

(* What a handler does: pmon_intr goes back to main's prompt, bootp's      *)
(* finish to boot_bootp, ping's catcher sets its timer again and returns,  *)
(* ping's finish ends the process.                                         *)
Handlers == {"main", "boot", "again", "done"}
Actions == Handlers \cup {"DFL", "IGN"}

Zombie == [stat |-> "SZOMB", wchan |-> "none", ssintr |-> FALSE,
           stimo |-> FALSE, select |-> FALSE, siglist |-> {}, sigmask |-> {},
           sigact |-> [s \in Sigs |-> "DFL"]]

UserFrame(p) == [k |-> "user", p |-> p, pc |-> "run", old |-> "DFL"]

Init ==
    /\ proc = [p \in Procs |->
                 IF p = 0
                 THEN [Zombie EXCEPT !.stat = "SNOTKERN",
                                     !.sigact[SIGINT] = "main"]
                 ELSE Zombie]
    /\ nprocs = 1
    /\ curproc = 0
    /\ stack = <<UserFrame(0)>>
    /\ sleepq = {}
    /\ alarmq = {}
    /\ sock = [cc |-> 0, wait |-> FALSE, selpid |-> Nobody]
    /\ panic = "no"

-----------------------------------------------------------------------------
Top == stack[Len(stack)]
Replace(f) == [stack EXCEPT ![Len(stack)] = f]
To(c) == Replace([Top EXCEPT !.pc = c])
Pop == SubSeq(stack, 1, Len(stack) - 1)

In(k, c) == panic = "no" /\ Top.k = k /\ Top.pc = c

(* The lowest signal that is pending and not blocked, or none. *)
Pending(pr, p) == pr[p].siglist \ pr[p].sigmask
CURSIG(pr, p) == IF Pending(pr, p) = {} THEN 0 ELSE Min(Pending(pr, p))

Panic(why) ==
    /\ panic' = why
    /\ UNCHANGED <<proc, nprocs, curproc, stack, sleepq, alarmq, sock>>

(* Mutant: the slot is not given back. *)
exit1_uncounted(pr, st, aq, p) ==
    IF p = 0
    THEN Panic("prom process died")
    ELSE LET i == Max({j \in DOMAIN st : st[j].p = p - 1})
         IN  /\ proc' = [pr EXCEPT ![p].stat = "SZOMB", ![p].siglist = {}, ![p].sigmask = {}]
             /\ nprocs' = nprocs
             /\ alarmq' = aq \ {p}
             /\ curproc' = p - 1
             /\ stack' = Append(SubSeq(st, 1, i - 1), [st[i] EXCEPT !.pc = "reap"])
             /\ sock' = [sock EXCEPT !.selpid = IF @ = p THEN Nobody ELSE @]
             /\ UNCHANGED <<sleepq, panic>>

(* exit1: control goes back to the spawn of the process below.  A pid is   *)
(* never used again: one left in the socket finds nobody.  The flags stay; *)
(* the mask does too, but nobody reads it before spawn sets it.            *)
exit1(pr, st, aq, p) ==
    IF p = 0
    THEN Panic("prom process died")
    ELSE LET i == Max({j \in DOMAIN st : st[j].p = p - 1})
         IN  /\ proc' = [pr EXCEPT ![p].stat = "SZOMB", ![p].siglist = {}, ![p].sigmask = {}]
             /\ nprocs' = nprocs - 1
             /\ alarmq' = aq \ {p}
             /\ curproc' = p - 1
             /\ stack' = Append(SubSeq(st, 1, i - 1), [st[i] EXCEPT !.pc = "reap"])
             /\ sock' = [sock EXCEPT !.selpid = IF @ = p THEN Nobody ELSE @]
             /\ UNCHANGED <<sleepq, panic>>

(* psig, up to the call of the handler. *)
psig(pr, st, aq, p, s) ==
    IF pr[p].sigact[s] = "DFL"
    THEN exit1(pr, st, aq, p)
    ELSE /\ proc' = [pr EXCEPT ![p].siglist = @ \ {s}, ![p].sigmask = @ \cup {s}]
         /\ stack' = Append(st, [k |-> "hand", p |-> p, pc |-> "enter",
                                 act |-> pr[p].sigact[s],
                                 mask |-> pr[p].sigmask, stat |-> "SNOTKERN"])
         /\ alarmq' = aq
         /\ UNCHANGED <<rest, sleepq, sock>>

(* unsleep and setrunnable. *)
unsleep(pr, p) == [pr EXCEPT ![p].wchan = "none"]
setrunnable(pr, p) == [unsleep(pr, p) EXCEPT ![p].stat = "SRUN"]

(* Mutant: a signal does not end a sleep. *)
psignal_quiet(aq, p, s) ==
    LET pr == [proc EXCEPT ![p].siglist = @ \cup {s}]
    IN  IF /\ proc[p].stat # "SZOMB" /\ proc[p].sigact[s] # "IGN"
           /\ s \notin proc[p].sigmask /\ proc[p].stat = "SNOTKERN" /\ p = curproc
        THEN psig(pr, stack, aq, p, s)
        ELSE /\ proc' = IF proc[p].stat = "SZOMB" \/ proc[p].sigact[s] = "IGN"
                        THEN proc ELSE pr
             /\ alarmq' = aq
             /\ UNCHANGED <<stack, rest, sleepq, sock>>

(* psignal. *)
psignal(aq, p, s) ==
    LET pr == [proc EXCEPT ![p].siglist = @ \cup {s}]
        open == s \notin proc[p].sigmask
    IN  IF /\ proc[p].stat # "SZOMB" /\ proc[p].sigact[s] # "IGN"
           /\ open /\ proc[p].stat = "SNOTKERN" /\ p = curproc
        THEN psig(pr, stack, aq, p, s)
        ELSE /\ proc' = IF proc[p].stat = "SZOMB" \/ proc[p].sigact[s] = "IGN"
                        THEN proc
                        ELSE IF open /\ proc[p].stat = "SSLEEP" /\ proc[p].ssintr
                        THEN setrunnable(pr, p)
                        ELSE pr
             /\ alarmq' = aq
             /\ UNCHANGED <<stack, rest, sleepq, sock>>

-----------------------------------------------------------------------------
(* System calls.  The frame of one has the call, its argument, whether it  *)
(* has a time-out, and the error it will return.                           *)

Call(c, a, timo, st) ==
    IF proc[curproc].stat # "SNOTKERN"
    THEN Panic("nested syscall")
    ELSE /\ proc' = [proc EXCEPT ![curproc].stat = "SRUN"]
         /\ stack' = Append(st, [k |-> "sys", p |-> curproc, pc |-> "func",
                                 call |-> c, arg |-> a, timo |-> timo,
                                 err |-> "ok"])
         /\ UNCHANGED <<others, sleepq, sock>>

NoArg == <<>>
sigsetmask0(st) == Call("mask0", NoArg, FALSE, st)
signal(s, h, st) == Call("signal", <<s, h>>, FALSE, st)
setitimer(st) == Call("alarm", NoArg, FALSE, st)

(* The calls that do not sleep: sigprocmask, sigaction, setitimer. *)
SysSimple ==
    /\ In("sys", "func")
    /\ \/ /\ Top.call = "mask0"
          /\ proc' = [proc EXCEPT ![Top.p].sigmask = {}]
          /\ UNCHANGED alarmq
       \/ /\ Top.call = "signal"
          /\ LET s == Top.arg[1]
             IN  proc' = [proc EXCEPT
                            ![Top.p].sigact[s] = Top.arg[2],
                            ![Top.p].siglist = IF Top.arg[2] = "IGN"
                                               THEN @ \ {s} ELSE @]
          /\ UNCHANGED alarmq
       \/ /\ Top.call = "alarm"
          /\ alarmq' = alarmq \cup {Top.p}
          /\ UNCHANGED proc
    /\ stack' = To("sig")
    /\ UNCHANGED <<nprocs, curproc, sleepq, sock, panic>>

(* tsleep up to its loop.  A signal that is pending already ends it there. *)
tsleep(pr, chan) ==
    LET p == Top.p
        sig == CURSIG(pr, p)
    IN  IF pr[p].wchan # "none"
        THEN /\ panic' = "tsleep"
             /\ UNCHANGED <<proc, stack, sleepq>>
        ELSE IF sig # 0
        THEN /\ proc' = [pr EXCEPT ![p].stat = "SRUN"]
             /\ stack' = Replace([Top EXCEPT !.pc = "after",
                            !.err = IF sig \in SigIntr THEN "EINTR" ELSE "ERESTART"])
             /\ UNCHANGED <<sleepq, panic>>
        ELSE /\ proc' = [pr EXCEPT ![p].wchan = chan, ![p].ssintr = TRUE,
                                   ![p].stat = "SSLEEP"]
             /\ sleepq' = IF Top.timo THEN sleepq \cup {p} ELSE sleepq
             /\ stack' = To("idle")
             /\ UNCHANGED panic

(* Mutant: the time-out is not cancelled. *)
tsleep_resume_timed ==
    LET p == Top.p
    IN  /\ In("sys", "idle")
        /\ proc[p].wchan = "none"
        /\ proc' = [proc EXCEPT ![p].ssintr = FALSE, ![p].stimo = FALSE]
        /\ stack' = Replace([Top EXCEPT !.pc = "after",
                        !.err = IF proc[p].stimo THEN "EWOULDBLOCK"
                                ELSE IF CURSIG(proc, p) # 0 THEN "ERESTART" ELSE "ok"])
        /\ UNCHANGED <<others, sleepq, sock>>

(* The rest of tsleep, once somebody has cleared p_wchan.  For a signal    *)
(* that came during the sleep the local sig is still zero, and sigmask(0)  *)
(* is in no ps_sigintr.                                                    *)
tsleep_resume ==
    LET p == Top.p
    IN  /\ In("sys", "idle")
        /\ proc[p].wchan = "none"
        /\ proc' = [proc EXCEPT ![p].ssintr = FALSE, ![p].stimo = FALSE]
        /\ IF proc[p].stimo
              THEN /\ stack' = Replace([Top EXCEPT !.pc = "after", !.err = "EWOULDBLOCK"])
                   /\ UNCHANGED sleepq
              ELSE /\ stack' = Replace([Top EXCEPT !.pc = "after",
                                 !.err = IF CURSIG(proc, p) # 0
                                         THEN "ERESTART" ELSE "ok"])
                   /\ sleepq' = IF Top.timo THEN sleepq \ {p} ELSE sleepq
        /\ UNCHANGED <<others, sock>>

(* soreceive: a datagram, or wait for one. *)
recv ==
    /\ In("sys", "func")
    /\ Top.call = "recv"
    /\ IF sock.cc > 0
          THEN /\ sock' = [sock EXCEPT !.cc = @ - 1]
               /\ stack' = To("sig")
               /\ UNCHANGED <<proc, sleepq, panic>>
          ELSE /\ sock' = [sock EXCEPT !.wait = TRUE]
               /\ tsleep(proc, "sb_cc")
    /\ UNCHANGED <<nprocs, curproc, alarmq>>

recv_after ==
    /\ In("sys", "after")
    /\ Top.call = "recv"
    /\ stack' = To(IF Top.err = "ok" THEN "func" ELSE "sig")
    /\ UNCHANGED <<proc, others, sleepq, sock>>

(* select: P_SELECT is set and the socket looked at. *)
select_scan ==
    /\ In("sys", "func")
    /\ Top.call = "select"
    /\ proc' = [proc EXCEPT ![Top.p].select = (sock.cc = 0)]
    /\ IF sock.cc > 0
          THEN stack' = To("sig") /\ UNCHANGED sock
          ELSE stack' = To("window") /\ sock' = [sock EXCEPT !.selpid = Top.p]
    /\ UNCHANGED <<others, sleepq>>

(* Mutant: select sleeps without another look at P_SELECT. *)
select_sleep_blind ==
    LET pr == [proc EXCEPT ![Top.p].select = FALSE]
    IN  /\ In("sys", "window")
        /\ \/ /\ Top.timo
              /\ stack' = To("sig")
              /\ proc' = pr
              /\ UNCHANGED <<sleepq, panic>>
           \/ tsleep(pr, "selwait")
        /\ UNCHANGED <<nprocs, curproc, alarmq, sock>>

(* Having looked, select sleeps only if nothing has cleared P_SELECT.      *)
select_sleep ==
    LET p == Top.p
        pr == [proc EXCEPT ![p].select = FALSE]
    IN  /\ In("sys", "window")
        /\ \/ /\ Top.timo            \* the time is up
              /\ stack' = To("sig")
              /\ proc' = pr
              /\ UNCHANGED <<sleepq, panic>>
           \/ /\ ~proc[p].select
              /\ stack' = To("func")
              /\ UNCHANGED <<proc, sleepq, panic>>
           \/ /\ proc[p].select
              /\ tsleep(pr, "selwait")
        /\ UNCHANGED <<nprocs, curproc, alarmq, sock>>

select_after ==
    /\ In("sys", "after")
    /\ Top.call = "select"
    /\ stack' = Replace([Top EXCEPT
                    !.pc = IF Top.err = "ok" THEN "func" ELSE "sig",
                    !.err = CASE @ = "ERESTART" -> "EINTR"
                              [] @ = "EWOULDBLOCK" -> "ok"
                              [] OTHER -> @])
    /\ UNCHANGED <<proc, others, sleepq, sock>>

(* The end of gensyscall: signals are handled, then the call returns or is *)
(* made again.                                                             *)
gensyscall_end ==
    LET p == Top.p
        sig == CURSIG(proc, p)
    IN  /\ In("sys", "sig")
        /\ IF sig # 0
              THEN psig(proc, stack, alarmq, p, sig)
              ELSE /\ IF Top.err = "ERESTART"
                         THEN /\ stack' = Replace([Top EXCEPT !.pc = "func", !.err = "ok"])
                              /\ proc' = [proc EXCEPT ![p].stat = "SRUN"]
                         ELSE /\ stack' = Pop
                              /\ proc' = [proc EXCEPT ![p].stat = "SNOTKERN"]
                   /\ UNCHANGED <<others, sleepq, sock>>

-----------------------------------------------------------------------------
(* Handlers. *)

(* Mutant: the handler runs with the state of the call it interrupted. *)
hand_enter_inside ==
    /\ In("hand", "enter")
    /\ stack' = Replace([Top EXCEPT !.stat = proc[Top.p].stat, !.pc = "run"])
    /\ UNCHANGED <<proc, others, sleepq, sock>>

(* psig calls the handler. *)
hand_enter ==
    /\ In("hand", "enter")
    /\ stack' = Replace([Top EXCEPT !.stat = proc[Top.p].stat, !.pc = "run"])
    /\ proc' = [proc EXCEPT ![Top.p].stat = "SNOTKERN"]
    /\ UNCHANGED <<others, sleepq, sock>>

(* The frame that a longjmp of p's handler goes to: main's for pmon_intr,  *)
(* boot_bootp's for its finish.                                            *)
Targets(p, act) ==
    {i \in DOMAIN stack : /\ stack[i].k = "user" /\ stack[i].p = p
                          /\ act = "boot" => stack[i].pc \in {"boot", "quit", "unmask"}}

longjmp(p, act) ==
    IF Targets(p, act) = {}
    THEN Panic("longjmp to a dead frame")
    ELSE LET i == Min(Targets(p, act))
         IN  /\ stack' = Append(SubSeq(stack, 1, i - 1),
                            [stack[i] EXCEPT !.pc = IF act = "main" THEN "break" ELSE "quit"])
             /\ UNCHANGED <<proc, others, sleepq, sock>>

(* The handlers' own code. *)
hand_run ==
    \/ /\ In("hand", "run")
       /\ \/ Top.act = "main" /\ sigsetmask0(To("jump"))
          \/ Top.act = "boot" /\ longjmp(Top.p, "boot")
          \/ /\ Top.act = "again"
             /\ \/ signal(SIGALRM, "again", To("rearm"))
                \/ signal(SIGALRM, "done", To("rearm"))   \* the last packet
          \/ Top.act = "done" /\ signal(SIGALRM, "IGN", To("ignore"))
    \/ In("hand", "rearm") /\ setitimer(To("return"))
    \/ In("hand", "ignore") /\ signal(SIGINT, "IGN", To("exit"))
    \/ In("hand", "exit") /\ exit1(proc, stack, alarmq, Top.p)
    \/ In("hand", "jump") /\ longjmp(Top.p, "main")

(* The rest of psig. *)
hand_return ==
    /\ In("hand", "return")
    /\ proc' = [proc EXCEPT ![Top.p].stat = Top.stat, ![Top.p].sigmask = Top.mask]
    /\ stack' = Pop
    /\ UNCHANGED <<others, sleepq, sock>>

-----------------------------------------------------------------------------
(* Code outside the kernel. *)

(* main after its setjmp has returned a second time. *)
main_break == In("user", "break") /\ signal(SIGINT, "main", To("run"))

(* spawn. *)
spawn ==
    LET son == nprocs
    IN  /\ In("user", "run")
        /\ nprocs < NPROC
        /\ IF proc[son].stat # "SZOMB"
              THEN Panic("spawn")
              ELSE /\ proc' = [proc EXCEPT
                        ![curproc].stat = "SRUN",
                        ![son] = [@ EXCEPT
                                    !.stat = "SNOTKERN",
                                    !.wchan = "none", !.siglist = {},
                                    !.sigmask = proc[curproc].sigmask,
                                    !.sigact = [s \in Sigs |->
                                        IF proc[curproc].sigact[s] = "IGN"
                                        THEN "IGN" ELSE "DFL"]]]
                   /\ nprocs' = nprocs + 1
                   /\ curproc' = son
                   /\ stack' = Append(stack, UserFrame(son))
                   /\ UNCHANGED <<sleepq, alarmq, sock, panic>>

(* The end of spawn, after the new process has exited. *)
spawn_reap ==
    LET p == Top.p
        sig == CURSIG(proc, p)
    IN  /\ In("user", "reap")
        /\ IF sig # 0
              THEN psig(proc, stack, alarmq, p, sig)
              ELSE /\ proc' = [proc EXCEPT ![p].stat = "SNOTKERN"]
                   /\ stack' = To("run")
                   /\ UNCHANGED <<others, sleepq, sock>>

(* A command waits for the network, with or without a limit. *)
user_wait ==
    /\ \/ In("user", "run")
       \/ In("user", "boot")
    /\ \/ \E t \in BOOLEAN : Call("select", NoArg, t, stack)
       \/ Call("recv", NoArg, FALSE, stack)

(* boot_bootp catches ^C while it waits, and restores everything in order. *)
(* Only the monitor's own commands call it.                                *)
bootp_start ==
    /\ In("user", "run")
    /\ Top.p = 0
    /\ signal(SIGINT, "boot",
              Replace([Top EXCEPT !.pc = "setjmp", !.old = proc[Top.p].sigact[SIGINT]]))

(* Mutant: the signals that the handler's call blocked stay blocked. *)
bootp_step_masked ==
    \/ /\ In("user", "setjmp")
       /\ stack' = To("boot")
       /\ UNCHANGED <<proc, others, sleepq, sock>>
    \/ /\ In("user", "boot")
       /\ stack' = To("quit")
       /\ UNCHANGED <<proc, others, sleepq, sock>>
    \/ In("user", "quit") /\ signal(SIGINT, Top.old, Replace([Top EXCEPT !.pc = "run", !.old = "DFL"]))

bootp_step ==
    \/ /\ In("user", "setjmp")
       /\ stack' = To("boot")
       /\ UNCHANGED <<proc, others, sleepq, sock>>
    \/ /\ In("user", "boot")
       /\ stack' = To("quit")
       /\ UNCHANGED <<proc, others, sleepq, sock>>
    \/ In("user", "quit") /\ signal(SIGINT, Top.old, To("unmask"))
    \/ In("user", "unmask") /\ sigsetmask0(Replace([Top EXCEPT !.pc = "run", !.old = "DFL"]))

(* com_ping catches ^C and the alarm, then starts the alarm. *)
ping ==
    /\ In("user", "run")
    /\ Top.p # 0
    /\ \/ proc[Top.p].sigact[SIGINT] = "DFL" /\ signal(SIGINT, "done", stack)
       \/ /\ proc[Top.p].sigact[SIGINT] = "done"
          /\ proc[Top.p].sigact[SIGALRM] = "DFL"
          /\ signal(SIGALRM, "again", stack)
       \/ proc[Top.p].sigact[SIGALRM] = "again" /\ setitimer(stack)

user_exit ==
    /\ In("user", "run")
    /\ Top.p # 0
    /\ exit1(proc, stack, alarmq, Top.p)

-----------------------------------------------------------------------------
(* What a poll finds. *)
CanPoll ==
    /\ panic = "no"
    /\ Top.k = "sys" => Top.pc \in {"window", "idle", "after"}
    /\ Top.pc # "setjmp"

(* A datagram: sowakeup, with selwakeup and wakeup. *)
Datagram ==
    LET q == sock.selpid
        pr == IF q = Nobody THEN proc
              ELSE IF proc[q].wchan = "selwait"
              THEN IF proc[q].stat = "SSLEEP" THEN setrunnable(proc, q)
                                              ELSE unsleep(proc, q)
              ELSE [proc EXCEPT ![q].select = FALSE]
    IN  /\ CanPoll
        /\ sock.cc < MaxCC
        /\ sock' = [cc |-> sock.cc + 1, wait |-> FALSE, selpid |-> Nobody]
        /\ proc' = IF sock.wait /\ pr[curproc].wchan = "sb_cc"
                   THEN unsleep(pr, curproc) ELSE pr
        /\ UNCHANGED <<stack, others, sleepq>>

(* Mutant: the time-out is noted and nobody woken. *)
endtsleep_noted(p) ==
    /\ CanPoll
    /\ p \in sleepq
    /\ sleepq' = sleepq \ {p}
    /\ proc' = [proc EXCEPT ![p].stimo = (proc[p].wchan # "none")]
    /\ UNCHANGED <<rest, stack, alarmq, sock>>

(* endtsleep, called by softclock. *)
endtsleep(p) ==
    /\ CanPoll
    /\ p \in sleepq
    /\ sleepq' = sleepq \ {p}
    /\ IF proc[p].wchan = "none"
          THEN UNCHANGED <<proc, panic>>
          ELSE IF proc[p].stat # "SSLEEP"
          THEN panic' = "setrunnable" /\ UNCHANGED proc
          ELSE /\ proc' = [setrunnable(proc, p) EXCEPT ![p].stimo = TRUE]
               /\ UNCHANGED panic
    /\ UNCHANGED <<nprocs, curproc, stack, alarmq, sock>>

(* Bound: a signal is only sent if its handler and all that may come on    *)
(* top of it fit.                                                          *)
Fits == Len(stack) + Cardinality(UNION {proc[p].siglist : p \in Procs}) < Depth

(* ^C, found by scandevs. *)
Interrupt == CanPoll /\ Fits /\ psignal(alarmq, curproc, SIGINT)

(* realitexpire, called by softclock. *)
realitexpire(p) ==
    /\ CanPoll /\ Fits
    /\ p \in alarmq
    /\ psignal(alarmq \ {p}, p, SIGALRM)

-----------------------------------------------------------------------------
(* The thread goes on with what it is in. *)
Thread ==
    \/ SysSimple
    \/ tsleep_resume
    \/ recv \/ recv_after
    \/ select_scan \/ select_sleep \/ select_after
    \/ gensyscall_end
    \/ hand_enter \/ hand_run \/ hand_return
    \/ main_break \/ spawn_reap

User ==
    \/ spawn \/ user_wait \/ bootp_start \/ bootp_step \/ ping \/ user_exit

Outside ==
    \/ Datagram
    \/ Interrupt
    \/ \E p \in Procs : endtsleep(p) \/ realitexpire(p)

(* A panic stops the monitor: nothing is enabled then. *)
Next == Thread \/ User \/ Outside

(* The thread runs, and the clock calls what is due (Callout); nothing     *)
(* else has to happen.                                                     *)
Spec ==
    /\ Init /\ [][Next]_vars
    /\ WF_vars(Thread)
    /\ WF_vars(\E p \in Procs : endtsleep(p))

-----------------------------------------------------------------------------
Asleep(p) == \E i \in DOMAIN stack : stack[i].p = p /\ stack[i].pc = "idle"

TypeOK ==
    /\ proc \in [Procs -> [stat : {"SZOMB", "SSLEEP", "SNOTKERN", "SRUN"},
                           wchan : {"none", "sb_cc", "selwait"},
                           ssintr : BOOLEAN, stimo : BOOLEAN, select : BOOLEAN,
                           siglist : SUBSET Sigs, sigmask : SUBSET Sigs,
                           sigact : [Sigs -> Actions]]]
    /\ nprocs \in 1 .. NPROC
    /\ curproc = nprocs - 1
    /\ Len(stack) > 0 /\ Top.p = curproc
    /\ sleepq \subseteq Procs /\ alarmq \subseteq Procs
    /\ sock \in [cc : 0 .. MaxCC, wait : BOOLEAN, selpid : Procs \cup {Nobody}]

(* No order of calls, signals, time-outs, exits and long jumps leads to a  *)
(* panic, or to a long jump to a procedure that has returned: psignal,     *)
(* setrunnable, gensyscall, spawn and exit1 find p_stat as they expect it, *)
(* although wakeup leaves it at SSLEEP.                                    *)
NoPanic == panic = "no"

(* Nothing of a sleep is left behind it: the wait channel, the flags and   *)
(* the callout of tsleep belong to a process that is in tsleep, so no      *)
(* later sleep is cut short, or taken to have timed out, by an earlier     *)
(* one's.                                                                  *)
SleepLeavesNothing ==
    \A p \in Procs : ~Asleep(p) =>
        /\ proc[p].wchan = "none"
        /\ ~proc[p].ssintr /\ ~proc[p].stimo
        /\ p \notin sleepq

(* No wakeup is lost: a process that still has its wait channel waits for  *)
(* a socket that is empty, also when the datagram came after select had    *)
(* looked and before it slept.  wakeup looks at curproc only: nobody else  *)
(* may be waiting.                                                         *)
NoLostWakeup ==
    \A p \in Procs : proc[p].wchan # "none" => sock.cc = 0 /\ p = curproc

(* A process that has exited leaves nothing that would act on the next     *)
(* one in its slot.                                                        *)
ExitLeavesNothing ==
    /\ alarmq \cup sleepq \subseteq 0 .. nprocs - 1
    /\ \A p \in Procs : p >= nprocs => proc[p].siglist = {}

(* Neither a sleep that is over nor a process that is gone acts on what    *)
(* comes after it in the same slot.                                        *)
NothingLeftBehind == SleepLeavesNothing /\ ExitLeavesNothing

(* ^C works at the prompt: when no command is running, SIGINT is neither   *)
(* blocked nor left pending, and goes to main's handler.                   *)
PromptInterruptible ==
    (Len(stack) = 1 /\ Top.pc = "run") =>
        /\ SIGINT \notin proc[0].sigmask \cup proc[0].siglist
        /\ proc[0].sigact[SIGINT] = "main"

(* A sleep with a time-out ends. *)
TimeoutEnds ==
    \A p \in Procs : (Top.pc = "idle" /\ Top.p = p /\ Top.timo)
                        ~> ~(Top.pc = "idle" /\ Top.p = p)

(* A signal that is pending for a process in a system call is acted upon,  *)
(* however long the call would have slept: it is taken, or another one's   *)
(* handler has jumped out of the call.                                     *)
SignalDelivered ==
    \A s \in Sigs :
        (Top.k = "sys" /\ s \in Pending(proc, curproc))
            ~> (s \notin Pending(proc, curproc) \/ Top.k = "user")

=============================================================================
