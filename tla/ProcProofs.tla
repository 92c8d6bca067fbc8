----------------------------- MODULE ProcProofs -----------------------------
(***************************************************************************)
(* Proofs about the network kernel's processes: for any number of slots,   *)
(* any depth of nesting and any size of the socket's buffer, no order of   *)
(* calls, signals, time-outs, exits and long jumps leads to a panic,       *)
(* leaves traces of a sleep, loses a wakeup or makes the prompt deaf to ^C. *)
(*                                                                         *)
(* The argument is about the stack.  What a frame may stand on, and the    *)
(* p_stat with which the frame below it will be resumed (saved in the      *)
(* frame of psig, or still in the process), is an invariant of the stack   *)
(* alone (Chain); the p_stat of the running process is the one its frame   *)
(* expects, its ancestors are SRUN and the slots above it SZOMB (Current); *)
(* whatever tsleep leaves in a process belongs to a running frame that is  *)
(* in tsleep (Sleeping); and the mask and the action of SIGINT in the      *)
(* monitor's own process follow the step of boot_bootp it is in (Monitor). *)
(***************************************************************************)
EXTENDS Proc, TLAPS

Stats == {"SZOMB", "SSLEEP", "SNOTKERN", "SRUN"}
Calls == {"mask0", "signal", "alarm", "recv", "select"}
Args == {NoArg} \cup (Sigs \X Actions)
UserPcs == {"run", "break", "reap", "setjmp", "boot", "quit", "unmask"}
SysPcs == {"func", "window", "idle", "after", "sig"}
HandPcs == {"enter", "run", "jump", "rearm", "return", "ignore", "exit"}

UserFrames == [k : {"user"}, p : Procs, pc : UserPcs, old : Actions]
SysFrames == [k : {"sys"}, p : Procs, pc : SysPcs, call : Calls, arg : Args,
              timo : BOOLEAN, err : {"ok", "EINTR", "ERESTART", "EWOULDBLOCK"}]
HandFrames == [k : {"hand"}, p : Procs, pc : HandPcs, act : Actions,
               mask : SUBSET Sigs, stat : Stats]
Frames == UserFrames \cup SysFrames \cup HandFrames

(* The handlers, and the actions set by signal, that only the monitor has. *)
Own == {"main", "boot"}

(* Frames that the commands can make: boot_bootp and pmon_intr belong to   *)
(* process 0, ping to the others.                                          *)
Legal(f) ==
    /\ f.k = "user" => (f.p # 0 => f.pc \in {"run", "reap"})
    /\ f.k = "sys" =>
        /\ f.call = "signal" => f.arg \in Sigs \X Actions
        /\ f.p = 0 => f.call # "alarm"
        /\ (f.p # 0 /\ f.call = "signal") => f.arg[2] \notin Own
        /\ f.call \notin {"recv", "select"} => f.pc \in {"func", "sig"}
    /\ f.k = "hand" =>
        /\ f.p = 0 => f.pc \in {"enter", "run", "jump"}
        /\ f.p # 0 => f.act \notin Own /\ f.pc # "jump"
        /\ f.pc = "jump" => f.act = "main"

(* The p_stat that the code of a frame runs with. *)
Fit(f, s) ==
    CASE f.k = "user" -> s = IF f.pc = "reap" THEN "SRUN" ELSE "SNOTKERN"
      [] f.k = "sys"  -> s \in {"SRUN", "SSLEEP"}
      [] OTHER        -> s = "SNOTKERN"

(* What a frame may stand on. *)
On(f, g) ==
    /\ g.k = "user" => f.k = "user" /\ f.pc = "run" /\ g.p = f.p + 1
    /\ g.k # "user" => g.p = f.p
    /\ g.k = "sys" => \/ f.k = "user" /\ f.pc # "reap"
                      \/ f.k = "hand" /\ f.pc # "enter"
    /\ g.k = "hand" =>
        /\ f.k = "sys" => f.pc = "sig"
        /\ g.pc # "enter" => Fit(f, g.stat)

(* What a frame that is not the running one stands on: psig is interrupted *)
(* before it calls the handler only when it interrupted code outside the   *)
(* kernel itself.                                                          *)
Parked(f, g) == g.k = "hand" /\ g.pc = "enter" => Fit(f, "SNOTKERN")

(* The frames of a process stand on one of the process that spawned it. *)
Spawned(st, i) ==
    st[i].p # 0 => \E j \in 1 .. i - 1 : /\ st[j].p = st[i].p - 1
                                         /\ \A l \in j + 1 .. i : st[l].p = st[i].p

Chain(st) ==
    /\ st \in Seq(Frames)
    /\ Len(st) > 0
    /\ st[1].k = "user" /\ st[1].p = 0
    /\ \A i \in 1 .. Len(st) : Legal(st[i]) /\ Spawned(st, i)
    /\ \A i \in 2 .. Len(st) : On(st[i - 1], st[i])
    /\ \A i \in 2 .. Len(st) - 1 : Parked(st[i - 1], st[i])

(* The running process, the ones below it and the slots above it. *)
Current ==
    /\ Top.p = curproc
    /\ IF Top.k = "hand" /\ Top.pc = "enter"
       THEN Fit(stack[Len(stack) - 1], proc[curproc].stat)
       ELSE Fit(Top, proc[curproc].stat)
    /\ \A p \in Procs : p < curproc => proc[p].stat = "SRUN"
    /\ \A p \in Procs : p > curproc => proc[p].stat = "SZOMB" /\ proc[p].siglist = {}
    /\ alarmq \subseteq 0 .. curproc

Idle == Top.k = "sys" /\ Top.pc = "idle"

(* What tsleep and select leave in a process and in the socket. *)
Sleeping ==
    /\ \A p \in Procs :
        \/ proc[p].wchan = "none" /\ ~proc[p].ssintr /\ ~proc[p].stimo /\ p \notin sleepq
        \/ p = curproc /\ Idle
    /\ proc[curproc].wchan # "none" =>
        /\ proc[curproc].stat = "SSLEEP"
        /\ sock.cc = 0
        /\ proc[curproc].wchan = "sb_cc" => sock.wait
        /\ proc[curproc].wchan = "selwait" => sock.selpid = curproc
    /\ curproc \in sleepq => Top.timo /\ ~proc[curproc].stimo
    /\ (Top.k = "sys" /\ Top.pc = "window" /\ proc[curproc].select) =>
        sock.cc = 0 /\ sock.selpid = curproc

(* What SIGINT does in the monitor's process at each step of boot_bootp. *)
Caught(c) == IF c \in {"setjmp", "boot", "quit"} THEN "boot" ELSE "main"

Setting(f) == f.k = "sys" /\ f.p = 0 /\ f.call = "signal"

(* The monitor's process: which handler it has set or is just setting, and *)
(* that SIGINT is blocked only while a handler runs and from its long jump *)
(* to the end of boot_bootp.                                               *)
MonitorStack(st) ==
    /\ st[1].pc = "setjmp" => Len(st) = 1 \/ (Len(st) = 2 /\ Setting(st[2]))
    /\ Caught(st[1].pc) = "boot" => st[1].old = "main"
    /\ \A i \in 2 .. Len(st) :
        /\ (st[i].k = "hand" /\ st[i].p = 0) => st[i].act = Caught(st[1].pc)
        /\ Setting(st[i]) => i = 2 /\ st[i].arg = <<SIGINT, Caught(st[1].pc)>>

MonitorMask ==
    LET m == proc[0]
        c == stack[1].pc
    IN  /\ c = "setjmp" => m.sigmask = {} /\ m.siglist = {}
        /\ curproc # 0 => m.sigmask = {}
        /\ Top.k = "user" /\ curproc = 0 =>
            /\ c \notin {"quit", "unmask"} => m.sigmask = {}
            /\ c \notin {"quit", "unmask", "reap"} => m.siglist = {}
        /\ Top.k = "sys" /\ curproc = 0 =>
            \/ m.sigmask = {}
            \/ Top.call = "mask0" /\ Top.pc = "func"
            \/ Top.call = "signal" /\ c = "unmask"
        /\ Top.k = "hand" /\ Top.pc = "jump" => m.sigmask = {} /\ m.siglist = {}

Monitor ==
    /\ MonitorStack(stack)
    /\ MonitorMask
    /\ \/ proc[0].sigact[SIGINT] = Caught(stack[1].pc)
       \/ Len(stack) = 2 /\ Setting(stack[2]) /\ stack[2].pc = "func"
    /\ proc[0].sigact[SIGINT] \in Own
    /\ proc[0].sigact[SIGALRM] = "DFL"
    /\ proc[0].siglist \subseteq {SIGINT}
    /\ 0 \notin alarmq

(* The others have none of the monitor's handlers. *)
Others == \A p \in Procs \ {0} : \A s \in Sigs : proc[p].sigact[s] \notin Own

IInv ==
    /\ TypeOK
    /\ NoPanic
    /\ Chain(stack)
    /\ Current
    /\ Sleeping
    /\ Monitor
    /\ Others

-----------------------------------------------------------------------------
(* Sequences: every step of the model cuts the stack at a frame, which it  *)
(* may change, or pushes one.                                              *)

IsCut(t, st, i, f) ==
    /\ t \in Seq(Frames) /\ Len(t) = i
    /\ t[i] = f
    /\ \A j \in 1 .. i - 1 : t[j] = st[j]

IsPush(t, st, g) ==
    /\ t \in Seq(Frames) /\ Len(t) = Len(st) + 1
    /\ t[Len(st) + 1] = g
    /\ \A j \in 1 .. Len(st) : t[j] = st[j]

LEMMA Cuts ==
  ASSUME NEW st \in Seq(Frames), NEW i \in 1 .. Len(st), NEW f \in Frames
  PROVE  IsCut(Append(SubSeq(st, 1, i - 1), f), st, i, f)
<1>1. SubSeq(st, 1, i - 1) \in Seq(Frames) /\ Len(SubSeq(st, 1, i - 1)) = i - 1
  OBVIOUS
<1>2. \A j \in 1 .. i - 1 : SubSeq(st, 1, i - 1)[j] = st[j]
  OBVIOUS
<1>3. QED
  BY <1>1, <1>2 DEF IsCut

LEMMA ReplaceIsCut ==
  ASSUME NEW st \in Seq(Frames), Len(st) > 0, NEW f \in Frames
  PROVE  IsCut([st EXCEPT ![Len(st)] = f], st, Len(st), f)
BY DEF IsCut

LEMMA PopIsCut ==
  ASSUME NEW st \in Seq(Frames), Len(st) > 1
  PROVE  IsCut(SubSeq(st, 1, Len(st) - 1), st, Len(st) - 1, st[Len(st) - 1])
<1>1. SubSeq(st, 1, Len(st) - 1) \in Seq(Frames) /\ Len(SubSeq(st, 1, Len(st) - 1)) = Len(st) - 1
  OBVIOUS
<1>2. \A j \in 1 .. Len(st) - 1 : SubSeq(st, 1, Len(st) - 1)[j] = st[j]
  OBVIOUS
<1>3. QED
  BY <1>1, <1>2 DEF IsCut

LEMMA Pushes ==
  ASSUME NEW st \in Seq(Frames), NEW g \in Frames
  PROVE  IsPush(Append(st, g), st, g)
BY DEF IsPush

(* A cut at a frame that keeps its kind and its process is a chain again.  *)
LEMMA CutChain ==
  ASSUME NEW st, Chain(st), NEW t, NEW i \in 1 .. Len(st), NEW f \in Frames,
         IsCut(t, st, i, f), f.k = st[i].k, f.p = st[i].p, Legal(f),
         i > 1 => On(st[i - 1], f)
  PROVE  Chain(t)
<1> USE DEF IsCut
<1>1. t \in Seq(Frames) /\ Len(t) > 0 /\ Len(t) = i /\ Len(st) \in Nat /\ i <= Len(st)
  BY DEF Chain
<1>2. \A j \in 1 .. i : t[j].k = st[j].k /\ t[j].p = st[j].p
  OBVIOUS
<1>3. t[1].k = "user" /\ t[1].p = 0
  BY <1>1, <1>2 DEF Chain
<1>4. ASSUME NEW j \in 1 .. i
      PROVE  Legal(t[j]) /\ Spawned(t, j)
  <2>1. Legal(t[j])
    BY <1>1 DEF Chain
  <2>2. Spawned(st, j)
    BY <1>1 DEF Chain
  <2>3. Spawned(t, j)
    BY <1>1, <1>2, <2>2 DEF Spawned
  <2>4. QED
    BY <2>1, <2>3
<1>5. ASSUME NEW j \in 2 .. i
      PROVE  On(t[j - 1], t[j])
  <2>1. CASE j = i
    BY <2>1, <1>1
  <2>2. CASE j < i
    <3>1. t[j] = st[j] /\ t[j - 1] = st[j - 1]
      BY <2>2, <1>1
    <3>2. On(st[j - 1], st[j])
      BY <1>1 DEF Chain
    <3>3. QED
      BY <3>1, <3>2
  <2>3. QED
    BY <2>1, <2>2, <1>1
<1>6. ASSUME NEW j \in 2 .. i - 1
      PROVE  Parked(t[j - 1], t[j])
  <2>1. t[j] = st[j] /\ t[j - 1] = st[j - 1]
    BY <1>1
  <2>2. Parked(st[j - 1], st[j])
    BY <1>1 DEF Chain
  <2>3. QED
    BY <2>1, <2>2
<1>7. QED
  BY <1>1, <1>3, <1>4, <1>5, <1>6 DEF Chain

(* A push on a frame that may bear it is a chain again. *)
LEMMA PushChain ==
  ASSUME NEW st, Chain(st), NEW t, NEW g \in Frames, IsPush(t, st, g), Legal(g),
         On(st[Len(st)], g),
         Len(st) > 1 => Parked(st[Len(st) - 1], st[Len(st)])
  PROVE  Chain(t)
<1> DEFINE n == Len(st)
<1> USE DEF IsPush
<1>1. /\ t \in Seq(Frames) /\ Len(t) = n + 1 /\ n \in Nat /\ n > 0
      /\ t[n + 1] = g /\ \A j \in 1 .. n : t[j] = st[j]
      /\ st[n] \in Frames /\ st[n].p \in Procs
  BY DEF Chain, Frames, UserFrames, SysFrames, HandFrames
<1> HIDE DEF n, IsPush
<1>3. t[1].k = "user" /\ t[1].p = 0
  BY <1>1 DEF Chain
<1>4. ASSUME NEW j \in 1 .. n + 1
      PROVE  Legal(t[j]) /\ Spawned(t, j)
  <2>1. CASE j \in 1 .. n
    <3>1. Legal(st[j]) /\ Spawned(st, j)
      BY <2>1 DEF Chain, n
    <3>2. ASSUME st[j].p # 0
          PROVE  \E i \in 1 .. j - 1 : t[i].p = t[j].p - 1 /\ \A l \in i + 1 .. j : t[l].p = t[j].p
      <4>1. PICK i \in 1 .. j - 1 : st[i].p = st[j].p - 1 /\ \A l \in i + 1 .. j : st[l].p = st[j].p
        BY <3>1, <3>2 DEF Spawned
      <4>2. t[i].p = t[j].p - 1 /\ \A l \in i + 1 .. j : t[l].p = t[j].p
        BY <4>1, <2>1, <1>1
      <4>3. QED
        BY <4>2
    <3>3. t[j] = st[j]
      BY <2>1, <1>1
    <3>4. Spawned(t, j)
      BY <3>2, <3>3 DEF Spawned
    <3>5. QED
      BY <3>1, <3>3, <3>4
  <2>2. CASE j = n + 1
    <3>1. Spawned(st, n)
      BY <1>1 DEF Chain, n
    <3>2. CASE g.k = "user"
      <4>1. g.p = st[n].p + 1
        BY <3>2 DEF On, n
      <4>2. n \in 1 .. j - 1 /\ t[n].p = t[j].p - 1 /\ \A l \in n + 1 .. j : t[l].p = t[j].p
        BY <4>1, <2>2, <1>1 DEF Procs
      <4>3. QED
        BY <4>2, <2>2, <1>1 DEF Spawned
    <3>3. CASE g.k # "user"
      <4>1. g.p = st[n].p
        BY <3>3 DEF On, n
      <4>2. ASSUME g.p # 0
            PROVE  \E i \in 1 .. j - 1 : t[i].p = t[j].p - 1 /\ \A l \in i + 1 .. j : t[l].p = t[j].p
        <5>1. PICK i \in 1 .. n - 1 : st[i].p = st[n].p - 1 /\ \A l \in i + 1 .. n : st[l].p = st[n].p
          BY <3>1, <4>1, <4>2 DEF Spawned
        <5>2. i \in 1 .. j - 1 /\ t[i].p = t[j].p - 1
          BY <5>1, <4>1, <2>2, <1>1
        <5>3. ASSUME NEW l \in i + 1 .. j
              PROVE  t[l].p = t[j].p
          BY <5>1, <4>1, <2>2, <1>1
        <5>4. QED
          BY <5>2, <5>3
      <4>3. QED
        BY <4>2, <2>2, <1>1 DEF Spawned
    <3>4. QED
      BY <3>2, <3>3, <2>2, <1>1
  <2>3. QED
    BY <2>1, <2>2, <1>1
<1>5. ASSUME NEW j \in 2 .. n + 1
      PROVE  On(t[j - 1], t[j])
  <2>1. CASE j = n + 1
    BY <2>1, <1>1 DEF n
  <2>2. CASE j \in 2 .. n
    <3>1. On(st[j - 1], st[j])
      BY <1>1, <2>2 DEF Chain, n
    <3>2. QED
      BY <3>1, <2>2, <1>1
  <2>3. QED
    BY <2>1, <2>2, <1>1
<1>6. ASSUME NEW j \in 2 .. n
      PROVE  Parked(t[j - 1], t[j])
  <2>1. t[j] = st[j] /\ t[j - 1] = st[j - 1]
    BY <1>1
  <2>2. Parked(st[j - 1], st[j])
    BY <1>1 DEF Chain, n
  <2>3. QED
    BY <2>1, <2>2
<1>7. QED
  BY <1>1, <1>3, <1>4, <1>5, <1>6 DEF Chain

-----------------------------------------------------------------------------
(* Facts used all over.                                                    *)

PRec == [stat : Stats, wchan : {"none", "sb_cc", "selwait"},
         ssintr : BOOLEAN, stimo : BOOLEAN, select : BOOLEAN,
         siglist : SUBSET Sigs, sigmask : SUBSET Sigs,
         sigact : [Sigs -> Actions]]

Socks == [cc : 0 .. MaxCC, wait : BOOLEAN, selpid : Procs \cup {Nobody}]

LEMMA TypeFacts ==
  ASSUME TypeOK
  PROVE  /\ proc \in [Procs -> PRec]
         /\ NPROC \in Nat /\ NPROC > 0 /\ 0 \in Procs
         /\ nprocs \in 1 .. NPROC /\ curproc = nprocs - 1
         /\ curproc \in Procs /\ curproc \in Nat
         /\ proc[curproc] \in PRec /\ proc[0] \in PRec
         /\ sock \in Socks
         /\ sock.cc \in Nat
         /\ sleepq \subseteq Procs /\ alarmq \subseteq Procs
<1>1. proc \in [Procs -> PRec]
  BY DEF TypeOK, PRec, Stats
<1>2. NPROC \in Nat /\ NPROC > 0 /\ 0 \in Procs
  BY ProcAssumption DEF Procs
<1>3. nprocs \in 1 .. NPROC /\ curproc = nprocs - 1 /\ curproc \in Procs /\ curproc \in Nat
  BY <1>2 DEF TypeOK, Procs
<1>4. sock \in Socks
  BY DEF TypeOK, Socks
<1>5. sock.cc \in Nat
  BY <1>4, ProcAssumption DEF Socks
<1>6. QED
  BY <1>1, <1>2, <1>3, <1>4, <1>5 DEF TypeOK

LEMMA StackFacts ==
  ASSUME Chain(stack)
  PROVE  /\ stack \in Seq(Frames) /\ Len(stack) \in Nat /\ Len(stack) > 0
         /\ Len(stack) = 1 \/ Len(stack) > 1
         /\ Top = stack[Len(stack)] /\ Top \in Frames /\ Legal(Top)
         /\ Top.k = "user" => Top \in UserFrames
         /\ Top.k = "sys" => Top \in SysFrames
         /\ Top.k = "hand" => Top \in HandFrames
         /\ Top.k \in {"user", "sys", "hand"}
         /\ Top.k # "user" => Len(stack) > 1 /\ On(stack[Len(stack) - 1], Top)
         /\ Len(stack) > 1 => On(stack[Len(stack) - 1], Top)
                              /\ stack[Len(stack) - 1] \in Frames
                              /\ Legal(stack[Len(stack) - 1])
         /\ stack[1] \in UserFrames /\ stack[1].p = 0 /\ stack[1].k = "user"
         /\ Len(stack) > 2 => Parked(stack[Len(stack) - 2], stack[Len(stack) - 1])
<1>1. stack \in Seq(Frames) /\ Len(stack) \in Nat /\ Len(stack) > 0
  BY DEF Chain
<1>2. Top = stack[Len(stack)] /\ Top \in Frames /\ Legal(Top)
  BY <1>1 DEF Chain, Top
<1>3. ASSUME NEW f \in Frames
      PROVE  /\ f.k = "user" => f \in UserFrames
             /\ f.k = "sys" => f \in SysFrames
             /\ f.k = "hand" => f \in HandFrames
             /\ f.k \in {"user", "sys", "hand"}
  BY DEF Frames, UserFrames, SysFrames, HandFrames
<1>4. Len(stack) > 1 => /\ On(stack[Len(stack) - 1], Top)
                        /\ stack[Len(stack) - 1] \in Frames
                        /\ Legal(stack[Len(stack) - 1])
  BY <1>1, <1>2 DEF Chain
<1>5. Top.k # "user" => Len(stack) > 1
  BY <1>1, <1>2 DEF Chain
<1>6. stack[1] \in UserFrames /\ stack[1].p = 0 /\ stack[1].k = "user"
  BY <1>1, <1>3 DEF Chain
<1>7. Len(stack) > 2 => Parked(stack[Len(stack) - 2], stack[Len(stack) - 1])
  <2>1. ASSUME Len(stack) > 2
        PROVE  Len(stack) - 1 \in 2 .. Len(stack) - 1 /\ (Len(stack) - 1) - 1 = Len(stack) - 2
    BY <2>1, <1>1
  <2>2. QED
    BY <2>1 DEF Chain
<1>8. \A m \in Nat : m > 0 => m = 1 \/ m > 1
  OBVIOUS
<1>9. QED
  BY <1>1, <1>2, <1>3, <1>4, <1>5, <1>6, <1>7, <1>8

(* Where the running frame is the monitor's only one, and where it is not. *)
LEMMA BottomFacts ==
  ASSUME Chain(stack), Top.p = curproc
  PROVE  /\ Len(stack) = 1 => Top = stack[1] /\ curproc = 0
         /\ Top.k = "user" /\ curproc = 0 => Len(stack) = 1
<1>1. Len(stack) = 1 => Top = stack[1] /\ curproc = 0
  BY StackFacts
<1>2. ASSUME NEW f \in Frames, NEW g \in Frames, On(f, g), g.k = "user"
      PROVE  g.p # 0
  <2>1. f.p \in Nat
    BY ProcAssumption DEF Frames, UserFrames, SysFrames, HandFrames, Procs
  <2>2. g.p = f.p + 1
    BY <1>2 DEF On
  <2>3. QED
    BY <2>1, <2>2
<1>3. \/ Len(stack) = 1
      \/ On(stack[Len(stack) - 1], Top) /\ stack[Len(stack) - 1] \in Frames /\ Top \in Frames
  BY StackFacts
<1>4. QED
  BY <1>1, <1>2, <1>3

(* What the operators of a signal set return. *)
LEMMA CursigFacts ==
  ASSUME NEW pr, NEW p, pr[p].siglist \subseteq Sigs
  PROVE  /\ CURSIG(pr, p) # 0 => /\ CURSIG(pr, p) \in Sigs
                                 /\ CURSIG(pr, p) \in pr[p].siglist \ pr[p].sigmask
         /\ CURSIG(pr, p) = 0 => pr[p].siglist \subseteq pr[p].sigmask
<1> DEFINE S == Pending(pr, p)
<1>1. S \subseteq Sigs
  BY DEF Pending
<1>2. CASE S = {}
  BY <1>2 DEF CURSIG, Pending
<1>3. CASE S # {}
  <2>1. \E x \in S : \A y \in S : x =< y
    <3>1. CASE SIGINT \in S
      BY <3>1, <1>1 DEF Sigs, SIGINT, SIGALRM
    <3>2. CASE SIGINT \notin S
      BY <3>2, <1>1, <1>3 DEF Sigs, SIGINT, SIGALRM
    <3>3. QED
      BY <3>1, <3>2
  <2>2. Min(S) \in S
    BY <2>1 DEF Min
  <2>3. Min(S) # 0
    BY <2>2, <1>1 DEF Sigs, SIGINT, SIGALRM
  <2>4. QED
    BY <2>2, <2>3, <1>1, <1>3 DEF CURSIG, Pending
<1>4. QED
  BY <1>2, <1>3

(* The frame that exit1 goes back to is the spawn of the running process.  *)
LEMMA SpawnPoint ==
  ASSUME NEW st, Chain(st), NEW p, p = st[Len(st)].p, p # 0
  PROVE  LET i == Max({j \in DOMAIN st : st[j].p = p - 1})
         IN  i \in 1 .. Len(st) - 1 /\ st[i].k = "user" /\ st[i].pc = "run" /\ st[i].p = p - 1
<1> DEFINE n == Len(st)
           S == {j \in DOMAIN st : st[j].p = p - 1}
<1>1. n \in Nat /\ n > 0 /\ DOMAIN st = 1 .. n /\ Spawned(st, n)
      /\ \A j \in 1 .. n : st[j] \in Frames /\ st[j].p \in Int
  BY ProcAssumption DEF Chain, Frames, UserFrames, SysFrames, HandFrames, Procs
<1>2. PICK j \in 1 .. n - 1 : st[j].p = p - 1 /\ \A l \in j + 1 .. n : st[l].p = p
  BY <1>1 DEF Spawned
<1>3. j \in S
  BY <1>1, <1>2
<1>3a. p \in Int
  BY <1>1
<1>4. ASSUME NEW y \in S
      PROVE  j >= y
  BY <1>1, <1>2, <1>3a
<1>5. ASSUME NEW x \in S, \A y \in S : x >= y
      PROVE  x = j
  <2>1. x >= j /\ j >= x
    BY <1>3, <1>4, <1>5
  <2>2. QED
    BY <2>1, <1>1
<1>6. Max(S) = j
  BY <1>3, <1>4, <1>5 DEF Max
<1>7. On(st[j], st[j + 1])
  <2>1. j + 1 \in 2 .. n /\ (j + 1) - 1 = j
    BY <1>1
  <2>2. QED
    BY <2>1 DEF Chain
<1>8. st[j + 1].p = p
  BY <1>1, <1>2
<1>8a. st[j].p # p
  BY <1>2, <1>3a
<1>9. st[j].k = "user" /\ st[j].pc = "run"
  BY <1>7, <1>8, <1>8a DEF On
<1>10. QED
  BY <1>6, <1>9, <1>2

(* Cutting and pushing, seen from the monitor's process.                   *)
LEMMA CutMonitor ==
  ASSUME NEW st, Chain(st), MonitorStack(st),
         NEW t, NEW i \in 1 .. Len(st), NEW f \in Frames, IsCut(t, st, i, f),
         f.k = st[i].k, f.p = st[i].p,
         i = 1 => (Caught(f.pc) = "boot" => f.old = "main"),
         f.k = "hand" => f.act = st[i].act,
         f.k = "sys" => f.call = st[i].call /\ f.arg = st[i].arg
  PROVE  MonitorStack(t)
<1>1. /\ Len(t) = i /\ Len(st) \in Nat /\ i \in Nat /\ i <= Len(st) /\ t[i] = f
      /\ \A j \in 1 .. i - 1 : t[j] = st[j]
  BY DEF Chain, IsCut
<1>2. CASE i = 1
  BY <1>1, <1>2 DEF MonitorStack
<1>3. CASE i > 1
  <2>1. t[1] = st[1]
    BY <1>1, <1>3
  <2>2. ASSUME NEW j \in 2 .. i
        PROVE  /\ t[j].k = st[j].k /\ t[j].p = st[j].p
               /\ t[j].k = "hand" => t[j].act = st[j].act
               /\ t[j].k = "sys" => t[j].call = st[j].call /\ t[j].arg = st[j].arg
    <3>1. CASE j = i
      BY <3>1, <1>1
    <3>2. CASE j \in 1 .. i - 1
      BY <3>2, <1>1
    <3>3. QED
      BY <3>1, <3>2, <1>1
  <2>3. ASSUME NEW j \in 2 .. i
        PROVE  /\ (t[j].k = "hand" /\ t[j].p = 0) => t[j].act = Caught(t[1].pc)
               /\ Setting(t[j]) => j = 2 /\ t[j].arg = <<SIGINT, Caught(t[1].pc)>>
    <3>1. j \in 2 .. Len(st)
      BY <1>1
    <3>2. QED
      BY <3>1, <2>1, <2>2 DEF MonitorStack, Setting
  <2>4. ASSUME t[1].pc = "setjmp"
        PROVE  Len(t) = 2 /\ Setting(t[2])
    <3>1. Len(st) = 2 /\ Setting(st[2]) /\ i = 2
      BY <2>1, <2>4, <1>1, <1>3 DEF MonitorStack
    <3>2. QED
      BY <3>1, <2>2, <1>1 DEF Setting
  <2>5. Caught(t[1].pc) = "boot" => t[1].old = "main"
    BY <2>1 DEF MonitorStack
  <2>6. QED
    BY <2>3, <2>4, <2>5, <1>1 DEF MonitorStack
<1>4. QED
  BY <1>1, <1>2, <1>3

LEMMA PushMonitor ==
  ASSUME NEW st, Chain(st), MonitorStack(st),
         NEW t, NEW g \in Frames, IsPush(t, st, g),
         st[1].pc = "setjmp" => Len(st) = 1 /\ Setting(g),
         (g.k = "hand" /\ g.p = 0) => g.act = Caught(st[1].pc),
         Setting(g) => Len(st) = 1 /\ g.arg = <<SIGINT, Caught(st[1].pc)>>
  PROVE  MonitorStack(t)
<1> DEFINE n == Len(st)
<1>1. /\ Len(t) = n + 1 /\ n \in Nat /\ n > 0 /\ t[n + 1] = g
      /\ \A j \in 1 .. n : t[j] = st[j]
  BY DEF Chain, IsPush
<1>2. t[1] = st[1]
  BY <1>1
<1>3. ASSUME NEW j \in 2 .. n + 1
      PROVE  /\ (t[j].k = "hand" /\ t[j].p = 0) => t[j].act = Caught(t[1].pc)
             /\ Setting(t[j]) => j = 2 /\ t[j].arg = <<SIGINT, Caught(t[1].pc)>>
  <2>1. CASE j = n + 1
    BY <2>1, <1>1, <1>2
  <2>2. CASE j \in 2 .. n
    BY <2>2, <1>1, <1>2 DEF MonitorStack
  <2>3. QED
    BY <2>1, <2>2, <1>1
<1>4. ASSUME t[1].pc = "setjmp"
      PROVE  Len(t) = 2 /\ Setting(t[2])
  <2>1. n = 1 /\ Setting(g)
    BY <1>2, <1>4
  <2>2. n + 1 = 2
    BY <2>1
  <2>3. QED
    BY <2>1, <2>2, <1>1
<1>5. Caught(t[1].pc) = "boot" => t[1].old = "main"
  BY <1>2 DEF MonitorStack
<1>6. QED
  BY <1>1, <1>3, <1>4, <1>5 DEF MonitorStack

-----------------------------------------------------------------------------
(* The parts of the invariant after a step.                                *)

LEMMA TypeIntro ==
  ASSUME proc' \in [Procs -> PRec], nprocs' \in 1 .. NPROC, curproc' = nprocs' - 1,
         Chain(stack)', Top'.p = curproc', sleepq' \subseteq Procs, alarmq' \subseteq Procs,
         sock' \in Socks
  PROVE  TypeOK'
BY DEF TypeOK, PRec, Stats, Socks, Chain

(* Outside tsleep nothing of a sleep is there, and a step that makes none  *)
(* leaves none.                                                            *)
LEMMA AwakeStep ==
  ASSUME Sleeping, ~Idle, sleepq' = sleepq, curproc' \in Procs,
         \A p \in Procs : /\ proc'[p].wchan = proc[p].wchan
                          /\ proc'[p].ssintr = proc[p].ssintr
                          /\ proc'[p].stimo = proc[p].stimo,
         (Top'.k = "sys" /\ Top'.pc = "window") =>
            sock'.cc = 0 /\ sock'.selpid = curproc'
  PROVE  Sleeping'
<1>1. \A p \in Procs : /\ proc[p].wchan = "none" /\ ~proc[p].ssintr /\ ~proc[p].stimo
                       /\ p \notin sleepq
  BY DEF Sleeping
<1>2. \A p \in Procs : /\ proc'[p].wchan = "none" /\ ~proc'[p].ssintr /\ ~proc'[p].stimo
                       /\ p \notin sleepq'
  BY <1>1
<1>3. QED
  BY <1>2 DEF Sleeping

(* A system call from code outside the kernel, which goes on with frame f  *)
(* when the call returns.                                                  *)
LEMMA CallStep ==
  ASSUME IInv, NEW c \in Calls, NEW a \in Args, NEW timo \in BOOLEAN,
         NEW st, NEW f \in Frames, IsCut(st, stack, Len(stack), f),
         Call(c, a, timo, st),
         f.k = Top.k, f.p = Top.p, Legal(f),
         Len(stack) > 1 => On(stack[Len(stack) - 1], f),
         \/ Top.k = "user" /\ Top.pc # "reap" /\ f.pc # "reap"
         \/ Top.k = "hand" /\ Top.pc # "enter" /\ f.pc # "enter" /\ f.act = Top.act,
         c = "signal" => a \in Sigs \X Actions,
         curproc = 0 => c # "alarm",
         (curproc # 0 /\ c = "signal") => a[2] \notin Own,
         (curproc = 0 /\ c = "signal") => Len(stack) = 1 /\ a = <<SIGINT, Caught(f.pc)>>,
         Len(stack) = 1 =>
            /\ Caught(f.pc) = "boot" => f.old = "main"
            /\ f.pc = "setjmp" => c = "signal" /\ proc[0].sigmask = {} /\ proc[0].siglist = {}
            /\ c # "signal" => Caught(f.pc) = Caught(Top.pc),
         curproc = 0 => \/ proc[0].sigmask = {}
                        \/ c = "mask0"
                        \/ c = "signal" /\ f.pc = "unmask"
  PROVE  IInv'
<1> DEFINE g == [k |-> "sys", p |-> curproc, pc |-> "func", call |-> c, arg |-> a,
                 timo |-> timo, err |-> "ok"]
           n == Len(stack)
<1>1. TypeOK /\ Chain(stack) /\ Current /\ Sleeping /\ Monitor /\ Others /\ panic = "no"
  BY DEF IInv, NoPanic
<1>2. /\ stack \in Seq(Frames) /\ n \in Nat /\ n > 0 /\ n \in 1 .. n /\ Top = stack[n]
      /\ n = 1 \/ n > 1
  BY <1>1, StackFacts
<1>3. /\ proc \in [Procs -> PRec] /\ curproc \in Procs /\ proc[curproc] \in PRec
      /\ 0 \in Procs /\ curproc \in Nat
  BY <1>1, TypeFacts
<1>4. proc[curproc].stat = "SNOTKERN" /\ Top.p = curproc
  BY <1>1 DEF Current, Fit
<1>5. /\ proc' = [proc EXCEPT ![curproc].stat = "SRUN"]
      /\ stack' = Append(st, g)
      /\ UNCHANGED <<nprocs, curproc, panic, alarmq, sleepq, sock>>
  BY <1>4 DEF Call, others, rest
<1>6. g \in SysFrames /\ g \in Frames /\ Legal(g)
  <2>1. g \in SysFrames
    BY <1>3 DEF SysFrames, SysPcs
  <2>2. g.k = "sys" /\ g.call = c /\ g.arg = a /\ g.p = curproc /\ g.pc = "func"
    OBVIOUS
  <2>3. Legal(g)
    BY <2>2 DEF Legal
  <2>4. QED
    BY <2>1, <2>3 DEF Frames
<1>7. st \in Seq(Frames) /\ Len(st) = n /\ st[n] = f /\ \A j \in 1 .. n - 1 : st[j] = stack[j]
  BY DEF IsCut
<1>8. Chain(st) /\ MonitorStack(st)
  <2>1. Chain(st)
    BY <1>1, <1>2, CutChain
  <2>2. f.k # "sys"
    OBVIOUS
  <2>3. MonitorStack(st)
    BY <1>1, <1>2, <2>2, CutMonitor DEF Monitor
  <2>4. QED
    BY <2>1, <2>3
<1>9. IsPush(stack', st, g)
  BY <1>5, <1>6, <1>7, Pushes
<1>10. Chain(stack')
  <2>1. On(f, g)
    BY <1>4 DEF On
  <2>2. Len(st) > 1 => Parked(st[Len(st) - 1], st[Len(st)])
    BY <1>7 DEF Parked
  <2>3. QED
    BY <2>1, <2>2, <1>6, <1>7, <1>8, <1>9, PushChain
<1>11. n > 1 => st[1] = stack[1]
  BY <1>2, <1>7
<1>12. MonitorStack(stack')
  <2>1. ASSUME st[1].pc = "setjmp"
        PROVE  Len(st) = 1 /\ Setting(g)
    <3>1. CASE n = 1
      <4>1. st[1] = f /\ curproc = 0
        BY <3>1, <1>1, <1>2, <1>4, <1>7, BottomFacts
      <4>2. c = "signal"
        BY <4>1, <2>1, <3>1
      <4>3. QED
        BY <4>1, <4>2, <3>1, <1>7 DEF Setting
    <3>2. CASE n > 1
      <4>1. Len(stack) = 2 /\ Setting(stack[2])
        BY <3>2, <2>1, <1>2, <1>11, <1>1 DEF Monitor, MonitorStack
      <4>2. QED
        BY <4>1, <1>2 DEF Setting
    <3>3. QED
      BY <3>1, <3>2, <1>2
  <2>2. ASSUME Setting(g)
        PROVE  Len(st) = 1 /\ g.arg = <<SIGINT, Caught(st[1].pc)>>
    <3>1. curproc = 0 /\ c = "signal"
      BY <2>2 DEF Setting
    <3>2. n = 1 /\ a = <<SIGINT, Caught(f.pc)>>
      BY <3>1
    <3>3. QED
      BY <3>2, <1>7
  <2>3. QED
    BY <2>1, <2>2, <1>6, <1>8, <1>9, PushMonitor
<1>13. /\ Len(stack') = n + 1 /\ Top' = g /\ stack'[1] = st[1] /\ n + 1 > 1
       /\ n = 1 => stack'[2] = g
  <2>1. Len(stack') = n + 1 /\ stack'[n + 1] = g /\ stack'[1] = st[1]
    BY <1>9, <1>7, <1>2 DEF IsPush
  <2>2. QED
    BY <2>1, <1>2 DEF Top
<1>14. /\ proc' \in [Procs -> PRec]
       /\ \A p \in Procs : p # curproc => proc'[p] = proc[p]
       /\ proc'[curproc].stat = "SRUN"
       /\ \A p \in Procs : /\ proc'[p].wchan = proc[p].wchan
                           /\ proc'[p].ssintr = proc[p].ssintr
                           /\ proc'[p].stimo = proc[p].stimo
                           /\ proc'[p].siglist = proc[p].siglist
                           /\ proc'[p].sigmask = proc[p].sigmask
                           /\ proc'[p].sigact = proc[p].sigact
  BY <1>3, <1>5 DEF PRec, Stats
<1>15. Current'
  BY <1>1, <1>3, <1>5, <1>13, <1>14 DEF Current, Fit
<1>16. TypeOK'
  BY <1>1, <1>5, <1>10, <1>13, <1>14, TypeIntro, TypeFacts
<1>17. Sleeping'
  <2>1. ~Idle /\ ~(Top'.k = "sys" /\ Top'.pc = "window")
    BY <1>13 DEF Idle
  <2>2. QED
    BY <2>1, <1>1, <1>3, <1>5, <1>14, AwakeStep
<1>18. MonitorMask'
  <2>1. ASSUME stack'[1].pc = "setjmp"
        PROVE  proc'[0].sigmask = {} /\ proc'[0].siglist = {}
    <3>1. CASE n = 1
      BY <3>1, <2>1, <1>3, <1>7, <1>13, <1>14
    <3>2. CASE n > 1
      BY <3>2, <2>1, <1>1, <1>3, <1>11, <1>13, <1>14 DEF Monitor, MonitorMask
    <3>3. QED
      BY <3>1, <3>2, <1>2
  <2>2. curproc' # 0 => proc'[0].sigmask = {}
    BY <1>1, <1>3, <1>5, <1>14 DEF Monitor, MonitorMask
  <2>3. ASSUME curproc' = 0
        PROVE  \/ proc'[0].sigmask = {}
               \/ c = "mask0"
               \/ c = "signal" /\ stack'[1].pc = "unmask"
    <3>1. c = "signal" => stack'[1] = f
      BY <2>3, <1>5, <1>7, <1>13
    <3>2. QED
      BY <2>3, <3>1, <1>3, <1>5, <1>14
  <2>4. QED
    BY <2>1, <2>2, <2>3, <1>13 DEF MonitorMask
<1>19. Monitor'
  <2>1. \/ proc'[0].sigact[SIGINT] = Caught(stack'[1].pc)
        \/ Len(stack') = 2 /\ Setting(stack'[2]) /\ stack'[2].pc = "func"
    <3>1. CASE n = 1
      <4>1. stack'[1] = f /\ stack'[2] = g /\ Len(stack') = 2 /\ curproc = 0 /\ Top = stack[1]
        BY <3>1, <1>1, <1>2, <1>4, <1>7, <1>13, BottomFacts
      <4>2. CASE c = "signal"
        BY <4>1, <4>2 DEF Setting
      <4>3. CASE c # "signal"
        <5>1. proc[0].sigact[SIGINT] = Caught(stack[1].pc)
          BY <3>1, <1>1, <1>2 DEF Monitor
        <5>2. QED
          BY <5>1, <4>1, <4>3, <3>1, <1>3, <1>14
      <4>4. QED
        BY <4>2, <4>3
    <3>2. CASE n > 1
      <4>1. ~(Len(stack) = 2 /\ Setting(stack[2]))
        BY <1>2 DEF Setting
      <4>2. proc[0].sigact[SIGINT] = Caught(stack[1].pc)
        BY <4>1, <1>1 DEF Monitor
      <4>3. QED
        BY <4>2, <3>2, <1>3, <1>11, <1>13, <1>14
    <3>3. QED
      BY <3>1, <3>2, <1>2
  <2>2. QED
    BY <2>1, <1>1, <1>3, <1>5, <1>12, <1>14, <1>18 DEF Monitor
<1>20. Others'
  BY <1>1, <1>14 DEF Others
<1>21. QED
  BY <1>1, <1>5, <1>10, <1>15, <1>16, <1>17, <1>19, <1>20 DEF IInv, NoPanic

(* A user frame that stands on another frame is not the monitor's. *)
LEMMA UserOn ==
  ASSUME NEW f \in Frames, NEW g \in Frames, On(f, g), g.k = "user"
  PROVE  g.p # 0
<1>1. f.p \in Nat
  BY ProcAssumption DEF Frames, UserFrames, SysFrames, HandFrames, Procs
<1>2. g.p = f.p + 1
  BY DEF On
<1>3. QED
  BY <1>1, <1>2

(* The table of processes that psignal hands to psig. *)
Signalled(pr) ==
    /\ pr \in [Procs -> PRec]
    /\ \A q \in Procs : q # curproc => pr[q] = proc[q]
    /\ pr[curproc].stat = proc[curproc].stat
    /\ pr[curproc].wchan = proc[curproc].wchan
    /\ pr[curproc].ssintr = proc[curproc].ssintr
    /\ pr[curproc].stimo = proc[curproc].stimo
    /\ pr[curproc].sigact = proc[curproc].sigact

(* The running process exits: not the monitor's, and not out of tsleep.    *)
LEMMA ExitStep ==
  ASSUME IInv, NEW pr, Signalled(pr), NEW aq, aq \subseteq alarmq,
         curproc # 0, ~Idle, exit1(pr, stack, aq, curproc)
  PROVE  IInv'
<1> DEFINE n == Len(stack)
           i == Max({j \in DOMAIN stack : stack[j].p = curproc - 1})
           f == [stack[i] EXCEPT !.pc = "reap"]
<1>1. TypeOK /\ Chain(stack) /\ Current /\ Sleeping /\ Monitor /\ Others /\ panic = "no"
  BY DEF IInv, NoPanic
<1>2. stack \in Seq(Frames) /\ n \in Nat /\ n > 0 /\ Top = stack[n] /\ Top.p = curproc
  BY <1>1, StackFacts DEF Current
<1>3. /\ proc \in [Procs -> PRec] /\ curproc \in Procs /\ 0 \in Procs /\ curproc \in Nat
      /\ nprocs \in 1 .. NPROC /\ curproc = nprocs - 1 /\ NPROC \in Nat
      /\ alarmq \subseteq Procs /\ sleepq \subseteq Procs
      /\ sock \in Socks
  BY <1>1, TypeFacts
<1>4. /\ proc' = [pr EXCEPT ![curproc].stat = "SZOMB", ![curproc].siglist = {},
                            ![curproc].sigmask = {}]
      /\ nprocs' = nprocs - 1
      /\ alarmq' = aq \ {curproc}
      /\ curproc' = curproc - 1
      /\ stack' = Append(SubSeq(stack, 1, i - 1), f)
      /\ sock' = [sock EXCEPT !.selpid = IF @ = curproc THEN Nobody ELSE @]
      /\ sleepq' = sleepq /\ panic' = panic
  BY DEF exit1
<1>5. /\ i \in 1 .. n - 1 /\ stack[i].k = "user" /\ stack[i].pc = "run"
      /\ stack[i].p = curproc - 1
  BY <1>1, <1>2, SpawnPoint
<1> HIDE DEF i
<1>6. /\ stack[i] \in UserFrames /\ f \in UserFrames /\ f \in Frames
      /\ f.k = "user" /\ f.pc = "reap" /\ f.p = curproc - 1
  <2>1. stack[i] \in Frames
    BY <1>2, <1>5
  <2>2. stack[i] \in UserFrames
    BY <2>1, <1>5 DEF Frames, UserFrames, SysFrames, HandFrames
  <2>3. QED
    BY <2>2, <1>5 DEF UserFrames, UserPcs, Frames
<1>7. i \in 1 .. n /\ Legal(f)
  BY <1>2, <1>5, <1>6 DEF Legal
<1>8. i > 1 => On(stack[i - 1], stack[i]) /\ stack[i - 1] \in Frames
  BY <1>1, <1>2, <1>5 DEF Chain
<1>9. i > 1 => On(stack[i - 1], f) /\ f.p # 0
  <2>1. i > 1 => On(stack[i - 1], f)
    BY <1>5, <1>6, <1>8 DEF On
  <2>2. QED
    BY <2>1, <1>6, <1>8, UserOn
<1> HIDE DEF f
<1>10. IsCut(stack', stack, i, f)
  BY <1>2, <1>4, <1>6, <1>7, Cuts
<1>11. Chain(stack')
  BY <1>1, <1>5, <1>6, <1>7, <1>9, <1>10, CutChain
<1>12. MonitorStack(stack')
  <2>1. Caught(f.pc) # "boot"
    BY <1>6 DEF Caught
  <2>2. QED
    BY <2>1, <1>1, <1>5, <1>6, <1>7, <1>10, CutMonitor DEF Monitor
<1>13. /\ Len(stack') = i /\ Top' = f
       /\ i > 1 => stack'[1] = stack[1]
       /\ i = 1 => stack'[1] = f
       /\ i = 1 \/ i > 1
  <2>1. Len(stack') = i /\ stack'[i] = f /\ \A j \in 1 .. i - 1 : stack'[j] = stack[j]
    BY <1>10 DEF IsCut
  <2>2. QED
    BY <2>1, <1>2, <1>5 DEF Top
<1>14. /\ proc' \in [Procs -> PRec]
       /\ \A p \in Procs : p # curproc => proc'[p] = proc[p]
       /\ proc'[curproc].stat = "SZOMB" /\ proc'[curproc].siglist = {}
       /\ \A p \in Procs : /\ proc'[p].wchan = proc[p].wchan
                           /\ proc'[p].ssintr = proc[p].ssintr
                           /\ proc'[p].stimo = proc[p].stimo
                           /\ proc'[p].sigact = proc[p].sigact
  <2> DEFINE r == [pr[curproc] EXCEPT !.stat = "SZOMB", !.siglist = {}, !.sigmask = {}]
  <2>1. pr \in [Procs -> PRec] /\ pr[curproc] \in PRec
    BY <1>3 DEF Signalled
  <2>2. r \in PRec /\ r.stat = "SZOMB" /\ r.siglist = {} /\ r.wchan = pr[curproc].wchan
        /\ r.ssintr = pr[curproc].ssintr /\ r.stimo = pr[curproc].stimo
        /\ r.sigact = pr[curproc].sigact
    BY <2>1 DEF PRec, Stats
  <2>3. proc' = [pr EXCEPT ![curproc] = r]
    BY <2>1, <1>3, <1>4 DEF PRec
  <2> HIDE DEF r
  <2>4. QED
    BY <2>1, <2>2, <2>3, <1>3 DEF Signalled
<1>15. curproc - 1 \in Procs /\ curproc - 1 < curproc /\ nprocs' \in 1 .. NPROC
  BY <1>3, <1>4 DEF Procs
<1>16. Current'
  <2>1. proc[curproc - 1].stat = "SRUN" /\ curproc - 1 # curproc
    BY <1>1, <1>3, <1>15 DEF Current
  <2>2. Fit(Top', proc'[curproc'].stat)
    BY <2>1, <1>4, <1>6, <1>13, <1>14, <1>15 DEF Fit
  <2>3. ASSUME NEW p \in Procs, p < curproc'
        PROVE  proc'[p].stat = "SRUN"
    <3>1. p < curproc /\ p # curproc
      BY <2>3, <1>3, <1>4 DEF Procs
    <3>2. QED
      BY <3>1, <1>1, <1>14 DEF Current
  <2>4. ASSUME NEW p \in Procs, p > curproc'
        PROVE  proc'[p].stat = "SZOMB" /\ proc'[p].siglist = {}
    <3>1. CASE p = curproc
      BY <3>1, <1>14
    <3>2. CASE p # curproc
      <4>1. p > curproc
        BY <3>2, <2>4, <1>3, <1>4 DEF Procs
      <4>2. QED
        BY <4>1, <3>2, <1>1, <1>14 DEF Current
    <3>3. QED
      BY <3>1, <3>2
  <2>5. alarmq' \subseteq 0 .. curproc'
    BY <1>1, <1>3, <1>4 DEF Current
  <2>6. Top'.p = curproc' /\ Top'.k = "user"
    BY <1>4, <1>6, <1>13
  <2>7. QED
    BY <2>2, <2>3, <2>4, <2>5, <2>6 DEF Current
<1>17. TypeOK'
  <2>1. sock' \in Socks
    BY <1>3, <1>4 DEF Socks
  <2>2. alarmq' \subseteq Procs /\ sleepq' \subseteq Procs /\ curproc' = nprocs' - 1
    BY <1>3, <1>4
  <2>3. Chain(stack)' /\ Top'.p = curproc'
    BY <1>11, <1>16 DEF Current
  <2>4. QED
    BY <2>1, <2>2, <2>3, <1>14, <1>15, TypeIntro
<1>18. Sleeping'
  <2>1. ~(Top'.k = "sys" /\ Top'.pc = "window")
    BY <1>6, <1>13
  <2>2. QED
    BY <2>1, <1>1, <1>4, <1>14, <1>15, AwakeStep
<1>19. Len(stack) = 2 => ~Setting(stack[2])
  BY <1>2 DEF Setting
<1>20. Monitor'
  <2>1. proc'[0] = proc[0]
    BY <1>3, <1>14
  <2>2. MonitorMask'
    <3>1. CASE i = 1
      <4>1. Top'.k = "user" /\ stack'[1].pc = "reap" /\ proc[0].sigmask = {}
        BY <3>1, <1>1, <1>6, <1>13 DEF Monitor, MonitorMask
      <4>2. QED
        BY <4>1, <2>1 DEF MonitorMask
    <3>2. CASE i > 1
      <4>1. Top'.k = "user" /\ stack'[1] = stack[1] /\ curproc' # 0
        BY <3>2, <1>4, <1>6, <1>9, <1>13
      <4>2. QED
        BY <4>1, <2>1, <1>1 DEF Monitor, MonitorMask
    <3>3. QED
      BY <3>1, <3>2, <1>13
  <2>3. proc[0].sigact[SIGINT] = Caught(stack[1].pc)
    BY <1>1, <1>19 DEF Monitor
  <2>4. Caught(stack'[1].pc) = Caught(stack[1].pc)
    <3>1. CASE i = 1
      BY <3>1, <1>5, <1>6, <1>13 DEF Caught
    <3>2. CASE i > 1
      BY <3>2, <1>13
    <3>3. QED
      BY <3>1, <3>2, <1>13
  <2>5. 0 \notin alarmq'
    BY <1>1, <1>4 DEF Monitor
  <2>6. QED
    BY <2>1, <2>2, <2>3, <2>4, <2>5, <1>1, <1>12 DEF Monitor
<1>21. Others'
  BY <1>1, <1>14 DEF Others
<1>22. QED
  BY <1>1, <1>4, <1>11, <1>16, <1>17, <1>18, <1>20, <1>21 DEF IInv, NoPanic

(* psig, where a signal may be taken: the frame of its handler is pushed,  *)
(* or the process exits.                                                   *)
LEMMA PsigStep ==
  ASSUME IInv, NEW s \in Sigs, NEW pr, Signalled(pr), NEW aq, aq \subseteq alarmq,
         pr[curproc].siglist \subseteq proc[curproc].siglist \cup {s},
         pr[curproc].sigmask = proc[curproc].sigmask,
         psig(pr, stack, aq, curproc, s),
         curproc = 0 => s = SIGINT,
         stack[1].pc # "setjmp",
         Top.k = "sys" => Top.pc = "sig",
         (Top.k = "hand" /\ Top.pc = "enter") => proc[curproc].stat = "SNOTKERN"
  PROVE  IInv'
<1> DEFINE n == Len(stack)
           g == [k |-> "hand", p |-> curproc, pc |-> "enter",
                 act |-> pr[curproc].sigact[s], mask |-> pr[curproc].sigmask,
                 stat |-> "SNOTKERN"]
<1>1. TypeOK /\ Chain(stack) /\ Current /\ Sleeping /\ Monitor /\ Others /\ panic = "no"
  BY DEF IInv, NoPanic
<1>2. /\ stack \in Seq(Frames) /\ n \in Nat /\ n > 0 /\ Top = stack[n] /\ Top.p = curproc
      /\ n = 1 \/ n > 1
  BY <1>1, StackFacts DEF Current
<1>3. /\ proc \in [Procs -> PRec] /\ curproc \in Procs /\ 0 \in Procs /\ curproc \in Nat
      /\ nprocs \in 1 .. NPROC /\ curproc = nprocs - 1 /\ NPROC \in Nat
      /\ alarmq \subseteq Procs /\ sleepq \subseteq Procs
      /\ pr \in [Procs -> PRec] /\ pr[curproc] \in PRec
  BY <1>1, TypeFacts DEF Signalled
<1>4. ~Idle
  BY DEF Idle
<1>5. SIGINT \in Sigs /\ SIGALRM \in Sigs
  BY DEF Sigs
<1>6. CASE pr[curproc].sigact[s] = "DFL"
  <2>1. curproc # 0
    BY <1>1, <1>6 DEF Signalled, Monitor, Own
  <2>2. exit1(pr, stack, aq, curproc)
    BY <1>6 DEF psig
  <2>3. QED
    BY <2>1, <2>2, <1>4, ExitStep
<1>7. CASE pr[curproc].sigact[s] # "DFL"
  <2>1. /\ proc' = [pr EXCEPT ![curproc].siglist = @ \ {s}, ![curproc].sigmask = @ \cup {s}]
        /\ stack' = Append(stack, g)
        /\ alarmq' = aq
        /\ UNCHANGED <<nprocs, curproc, panic, sleepq, sock>>
    BY <1>7 DEF psig, rest
  <2>2. n = 2 => ~(Setting(stack[2]) /\ stack[2].pc = "func")
    BY <1>2 DEF Setting
  <2>3. /\ curproc # 0 => pr[curproc].sigact[s] \notin Own
        /\ curproc = 0 => pr[curproc].sigact[s] = Caught(stack[1].pc)
    <3>1. pr[curproc].sigact[s] = proc[curproc].sigact[s]
      BY DEF Signalled
    <3>2. curproc # 0 => proc[curproc].sigact[s] \notin Own
      BY <1>1, <1>3 DEF Others
    <3>3. curproc = 0 => proc[curproc].sigact[s] = Caught(stack[1].pc)
      BY <2>2, <1>1 DEF Monitor
    <3>4. QED
      BY <3>1, <3>2, <3>3
  <2>4. g \in HandFrames /\ g \in Frames /\ Legal(g)
    <3>1. pr[curproc].sigact[s] \in Actions /\ pr[curproc].sigmask \in SUBSET Sigs
      BY <1>3 DEF PRec
    <3>2. g \in HandFrames
      BY <3>1, <1>3 DEF HandFrames, HandPcs, Stats
    <3>3. g.k = "hand" /\ g.pc = "enter" /\ g.act = pr[curproc].sigact[s] /\ g.p = curproc
      OBVIOUS
    <3>4. Legal(g)
      BY <3>3, <2>3 DEF Legal
    <3>5. QED
      BY <3>2, <3>4 DEF Frames
  <2>5. IsPush(stack', stack, g)
    BY <2>1, <2>4, <1>2, Pushes
  <2>6. g.k = "hand" /\ g.pc = "enter" /\ g.act = pr[curproc].sigact[s] /\ g.p = curproc
    OBVIOUS
  <2> HIDE DEF g
  <2>7. Chain(stack')
    <3>1. On(stack[Len(stack)], g)
      BY <2>6, <1>2 DEF On
    <3>2. Len(stack) > 1 => Parked(stack[Len(stack) - 1], stack[Len(stack)])
      BY <1>1, <1>2 DEF Current, Parked
    <3>3. QED
      BY <3>1, <3>2, <2>4, <2>5, <1>1, PushChain
  <2>8. MonitorStack(stack')
    <3>1. ~Setting(g)
      BY <2>6 DEF Setting
    <3>2. (g.k = "hand" /\ g.p = 0) => g.act = Caught(stack[1].pc)
      BY <2>3, <2>6
    <3>3. QED
      BY <3>1, <3>2, <2>4, <2>5, <1>1, PushMonitor DEF Monitor
  <2>9. /\ Len(stack') = n + 1 /\ Top' = g /\ stack'[1] = stack[1]
        /\ stack'[Len(stack') - 1] = Top
    <3>1. Len(stack') = n + 1 /\ stack'[n + 1] = g /\ \A j \in 1 .. n : stack'[j] = stack[j]
      BY <2>5 DEF IsPush
    <3>2. (n + 1) - 1 = n
      BY <1>2
    <3>3. QED
      BY <3>1, <3>2, <1>2 DEF Top
  <2>10. /\ proc' \in [Procs -> PRec]
         /\ \A p \in Procs : p # curproc => proc'[p] = proc[p]
         /\ proc'[curproc].stat = proc[curproc].stat
         /\ proc'[curproc].siglist \subseteq proc[curproc].siglist
         /\ \A p \in Procs : /\ proc'[p].wchan = proc[p].wchan
                             /\ proc'[p].ssintr = proc[p].ssintr
                             /\ proc'[p].stimo = proc[p].stimo
                             /\ proc'[p].sigact = proc[p].sigact
    <3> DEFINE r == [pr[curproc] EXCEPT !.siglist = @ \ {s}, !.sigmask = @ \cup {s}]
    <3>2. r \in PRec /\ r.stat = pr[curproc].stat /\ r.siglist = pr[curproc].siglist \ {s}
          /\ r.wchan = pr[curproc].wchan
          /\ r.ssintr = pr[curproc].ssintr /\ r.stimo = pr[curproc].stimo
          /\ r.sigact = pr[curproc].sigact
      BY <1>3 DEF PRec
    <3>3. proc' = [pr EXCEPT ![curproc] = r]
      BY <2>1, <1>3 DEF PRec
    <3> HIDE DEF r
    <3>4. QED
      BY <3>2, <3>3, <1>3 DEF Signalled
  <2>11. Current'
    <3>1. Fit(Top, proc[curproc].stat)
      BY <1>1 DEF Current, Fit
    <3>2. QED
      BY <3>1, <2>1, <2>6, <2>9, <2>10, <1>1, <1>3 DEF Current
  <2>12. TypeOK'
    <3>1. sock' \in Socks
      BY <1>1, <2>1, TypeFacts
    <3>2. QED
      BY <3>1, <2>1, <2>6, <2>7, <2>9, <2>10, <1>3, TypeIntro
  <2>13. Sleeping'
    BY <2>1, <2>6, <2>9, <2>10, <1>1, <1>3, <1>4, AwakeStep
  <2>14. Monitor'
    <3>1. proc[0].sigact[SIGINT] = Caught(stack[1].pc)
      BY <2>2, <1>1 DEF Monitor
    <3>2. proc'[0].sigact = proc[0].sigact /\ proc'[0].siglist \subseteq proc[0].siglist
      BY <2>10, <1>3
    <3>3. MonitorMask'
      BY <2>1, <2>6, <2>9, <2>10, <1>1, <1>3 DEF Monitor, MonitorMask
    <3>4. QED
      BY <3>1, <3>2, <3>3, <2>1, <2>8, <2>9, <1>1 DEF Monitor
  <2>15. Others'
    BY <1>1, <2>10 DEF Others
  <2>16. QED
    BY <1>1, <2>1, <2>7, <2>11, <2>12, <2>13, <2>14, <2>15 DEF IInv, NoPanic
<1>8. QED
  BY <1>6, <1>7

(* The long jump of a handler of the monitor's process finds its frame: it *)
(* is the bottom of the stack, and boot_bootp has not returned.            *)
LEMMA LongjmpStep ==
  ASSUME IInv, NEW act \in Own, Top.k = "hand", Top.act = act,
         act = "boot" => Top.pc = "run", act = "main" => Top.pc = "jump",
         longjmp(Top.p, act)
  PROVE  IInv'
<1> DEFINE n == Len(stack)
           f == [stack[1] EXCEPT !.pc = IF act = "main" THEN "break" ELSE "quit"]
<1>1. TypeOK /\ Chain(stack) /\ Current /\ Sleeping /\ Monitor /\ Others /\ panic = "no"
  BY DEF IInv, NoPanic
<1>2. /\ stack \in Seq(Frames) /\ n \in Nat /\ n > 1 /\ Top = stack[n] /\ Top.p = curproc
      /\ stack[1] \in UserFrames /\ stack[1].k = "user" /\ stack[1].p = 0 /\ Legal(Top)
      /\ DOMAIN stack = 1 .. n
  BY <1>1, StackFacts DEF Current
<1>3. curproc = 0
  BY <1>2 DEF Legal
<1>4. act = Caught(stack[1].pc) /\ stack[1].pc # "setjmp"
  <2>1. n \in 2 .. n
    BY <1>2
  <2>2. act = Caught(stack[1].pc)
    BY <2>1, <1>1, <1>2, <1>3 DEF Monitor, MonitorStack
  <2>3. ~(n = 1) /\ (n = 2 => ~Setting(stack[2]))
    BY <1>2 DEF Setting
  <2>4. QED
    BY <2>2, <2>3, <1>1 DEF Monitor, MonitorStack
<1>5. act = "boot" => stack[1].pc \in {"boot", "quit"}
  BY <1>4 DEF Caught
<1>6. 1 \in Targets(Top.p, act)
  BY <1>2, <1>3, <1>5 DEF Targets
<1>7. ASSUME NEW i \in Targets(Top.p, act)
      PROVE  i = 1
  <2>1. i \in 1 .. n /\ stack[i].k = "user" /\ stack[i].p = 0
    BY <1>2, <1>3 DEF Targets
  <2>2. ASSUME i > 1
        PROVE  FALSE
    <3>1. On(stack[i - 1], stack[i]) /\ stack[i - 1] \in Frames /\ stack[i] \in Frames
      BY <2>1, <2>2, <1>1, <1>2 DEF Chain
    <3>2. QED
      BY <3>1, <2>1, UserOn
  <2>3. QED
    BY <2>1, <2>2, <1>2
<1>8. Min(Targets(Top.p, act)) = 1
  <2>1. 1 =< 1
    OBVIOUS
  <2>2. Targets(Top.p, act) = {1}
    BY <1>6, <1>7
  <2>3. QED
    BY <2>1, <2>2 DEF Min
<1>9. /\ stack' = Append(SubSeq(stack, 1, 1 - 1), f)
      /\ UNCHANGED <<proc, nprocs, curproc, panic, alarmq, sleepq, sock>>
  BY <1>6, <1>8 DEF longjmp, others, rest
<1>10. /\ f \in UserFrames /\ f \in Frames /\ f.k = "user" /\ f.p = 0 /\ f.old = stack[1].old
       /\ f.pc = IF act = "main" THEN "break" ELSE "quit"
  BY <1>2 DEF UserFrames, UserPcs, Frames
<1> HIDE DEF f
<1>11. IsCut(stack', stack, 1, f) /\ 1 \in 1 .. n
  BY <1>2, <1>9, <1>10, Cuts
<1>12. Caught(f.pc) = act
  BY <1>10 DEF Caught, Own
<1>13. Chain(stack')
  <2>1. Legal(f)
    BY <1>10 DEF Legal
  <2>2. QED
    BY <2>1, <1>1, <1>2, <1>10, <1>11, CutChain
<1>14. MonitorStack(stack')
  <2>1. Caught(f.pc) = "boot" => f.old = "main"
    BY <1>1, <1>4, <1>10, <1>12 DEF Monitor, MonitorStack
  <2>2. QED
    BY <2>1, <1>1, <1>2, <1>10, <1>11, CutMonitor DEF Monitor
<1>15. Len(stack') = 1 /\ Top' = f /\ stack'[1] = f
  BY <1>11 DEF IsCut, Top
<1>16. Current'
  <2>1. proc[curproc].stat = "SNOTKERN"
    BY <1>1 DEF Current, Fit, Own
  <2>2. Fit(f, "SNOTKERN")
    BY <1>10 DEF Fit
  <2>3. QED
    BY <2>1, <2>2, <1>1, <1>3, <1>9, <1>10, <1>15 DEF Current
<1>17. TypeOK'
  BY <1>1, <1>3, <1>9, <1>10, <1>13, <1>15, TypeFacts, TypeIntro
<1>18. Sleeping'
  <2>1. ~Idle
    BY DEF Idle
  <2>2. QED
    BY <2>1, <1>1, <1>9, <1>10, <1>15, TypeFacts, AwakeStep
<1>19. Monitor'
  <2>1. n = 2 => ~Setting(stack[2])
    BY <1>2 DEF Setting
  <2>2. proc[0].sigact[SIGINT] = act
    BY <2>1, <1>1, <1>4 DEF Monitor
  <2>3. MonitorMask'
    <3>1. act = "main" => proc[0].sigmask = {} /\ proc[0].siglist = {}
      BY <1>1 DEF Monitor, MonitorMask
    <3>2. QED
      BY <3>1, <1>3, <1>9, <1>10, <1>15 DEF MonitorMask, Own
  <2>4. QED
    BY <2>2, <2>3, <1>1, <1>9, <1>12, <1>14, <1>15 DEF Monitor
<1>20. Others'
  BY <1>1, <1>9 DEF Others
<1>21. QED
  BY <1>1, <1>9, <1>13, <1>16, <1>17, <1>18, <1>19, <1>20 DEF IInv, NoPanic

-----------------------------------------------------------------------------
(* System calls.                                                           *)

(* The frame of a system call moves on. *)
LEMMA SysMove ==
  ASSUME Chain(stack), MonitorStack(stack), Top.k = "sys",
         NEW f \in SysFrames, f.p = Top.p, f.call = Top.call, f.arg = Top.arg,
         Legal(f), stack' = Replace(f)
  PROVE  /\ Chain(stack') /\ MonitorStack(stack')
         /\ Top' = f /\ Len(stack') = Len(stack) /\ stack'[1] = stack[1]
         /\ Len(stack) = 2 => stack[2] = Top /\ stack'[2] = f
<1> DEFINE n == Len(stack)
<1>1. /\ stack \in Seq(Frames) /\ n \in Nat /\ n > 1 /\ n > 0 /\ Top = stack[n]
      /\ On(stack[n - 1], Top) /\ n \in 1 .. n
  BY StackFacts
<1>2. f \in Frames /\ f.k = "sys"
  BY DEF Frames, SysFrames
<1>3. IsCut(stack', stack, n, f)
  BY <1>1, <1>2, ReplaceIsCut DEF Replace
<1>4. On(stack[n - 1], f)
  BY <1>1, <1>2 DEF On
<1>5. Chain(stack')
  BY <1>1, <1>2, <1>3, <1>4, CutChain
<1>6. MonitorStack(stack')
  BY <1>1, <1>2, <1>3, CutMonitor
<1>7. Top' = f /\ Len(stack') = n /\ stack'[1] = stack[1]
  BY <1>1, <1>3 DEF IsCut, Top
<1>8. Len(stack) = 2 => stack[2] = Top /\ stack'[2] = f
  BY <1>1, <1>7 DEF Top
<1>9. QED
  BY <1>5, <1>6, <1>7, <1>8

(* A step of recv or select, which may sleep. *)
LEMMA SleepyStep ==
  ASSUME IInv, Top.k = "sys", Top.call \in {"recv", "select"},
         NEW f \in SysFrames, f.p = Top.p, f.call = Top.call, f.arg = Top.arg,
         stack' = Replace(f),
         UNCHANGED <<nprocs, curproc, panic, alarmq>>,
         proc' \in [Procs -> PRec],
         \A p \in Procs : p # curproc => proc'[p] = proc[p],
         proc'[curproc].siglist = proc[curproc].siglist,
         proc'[curproc].sigmask = proc[curproc].sigmask,
         proc'[curproc].sigact = proc[curproc].sigact,
         proc'[curproc].stat \in {"SRUN", "SSLEEP"},
         sleepq' \subseteq Procs, sock' \in Socks,
         Sleeping'
  PROVE  IInv'
<1>1. TypeOK /\ Chain(stack) /\ Current /\ Monitor /\ MonitorStack(stack) /\ Others
      /\ panic = "no"
  BY DEF IInv, NoPanic, Monitor
<1>2. /\ curproc \in Procs /\ 0 \in Procs /\ nprocs \in 1 .. NPROC /\ curproc = nprocs - 1
      /\ alarmq \subseteq Procs
  BY <1>1, TypeFacts
<1>3. Legal(f) /\ f.k = "sys"
  <2>1. Legal(Top) /\ f.k = "sys"
    BY <1>1, StackFacts DEF SysFrames
  <2>2. QED
    BY <2>1 DEF Legal
<1>4. /\ Chain(stack') /\ MonitorStack(stack')
      /\ Top' = f /\ Len(stack') = Len(stack) /\ stack'[1] = stack[1]
      /\ Len(stack) = 2 => stack[2] = Top /\ stack'[2] = f
  BY <1>1, <1>3, SysMove
<1>5. \A p \in Procs : /\ proc'[p].siglist = proc[p].siglist
                       /\ proc'[p].sigmask = proc[p].sigmask
                       /\ proc'[p].sigact = proc[p].sigact
  OBVIOUS
<1>6. Current'
  BY <1>1, <1>2, <1>3, <1>4, <1>5 DEF Current, Fit
<1>7. TypeOK'
  <2>1. Top'.p = curproc'
    BY <1>1, <1>4 DEF Current
  <2>2. QED
    BY <2>1, <1>2, <1>4, TypeIntro
<1>8. Monitor'
  <2>1. MonitorMask'
    BY <1>1, <1>2, <1>3, <1>4, <1>5 DEF Monitor, MonitorMask
  <2>2. proc[0].sigact[SIGINT] = Caught(stack[1].pc)
    BY <1>1, <1>4 DEF Monitor, Setting
  <2>3. QED
    BY <2>1, <2>2, <1>1, <1>2, <1>4, <1>5 DEF Monitor
<1>9. Others'
  BY <1>1, <1>5 DEF Others
<1>10. QED
  BY <1>1, <1>4, <1>6, <1>7, <1>8, <1>9 DEF IInv, NoPanic

(* tsleep: not with a wait channel already; it goes to sleep on the empty  *)
(* socket or comes back at once for a signal.                              *)
LEMMA TsleepStep ==
  ASSUME IInv, Top.k = "sys", Top.call \in {"recv", "select"}, ~Idle,
         NEW pr \in [Procs -> PRec],
         \A p \in Procs : p # curproc => pr[p] = proc[p],
         pr[curproc].stat = proc[curproc].stat,
         pr[curproc].wchan = proc[curproc].wchan,
         pr[curproc].ssintr = proc[curproc].ssintr,
         pr[curproc].stimo = proc[curproc].stimo,
         pr[curproc].siglist = proc[curproc].siglist,
         pr[curproc].sigmask = proc[curproc].sigmask,
         pr[curproc].sigact = proc[curproc].sigact,
         NEW chan \in {"sb_cc", "selwait"}, tsleep(pr, chan),
         sock.cc = 0, sock' \in Socks, sock'.cc = 0,
         chan = "sb_cc" => sock'.wait,
         chan = "selwait" => sock'.selpid = curproc,
         UNCHANGED <<nprocs, curproc, alarmq>>
  PROVE  IInv'
<1> DEFINE p == Top.p
           sig == CURSIG(pr, p)
<1>1. TypeOK /\ Chain(stack) /\ Current /\ Sleeping
  BY DEF IInv
<1>2. p = curproc /\ curproc \in Procs /\ Top \in SysFrames /\ pr[curproc] \in PRec
      /\ sleepq \subseteq Procs
  BY <1>1, TypeFacts, StackFacts DEF Current
<1>3. \A q \in Procs : /\ proc[q].wchan = "none" /\ ~proc[q].ssintr /\ ~proc[q].stimo
                       /\ q \notin sleepq
  BY <1>1 DEF Sleeping
<1>4. pr[p].wchan = "none"
  BY <1>2, <1>3
<1>5. CASE sig # 0
  <2> DEFINE f == [Top EXCEPT !.pc = "after",
                      !.err = IF sig \in SigIntr THEN "EINTR" ELSE "ERESTART"]
  <2>1. /\ proc' = [pr EXCEPT ![curproc].stat = "SRUN"] /\ stack' = Replace(f)
        /\ UNCHANGED <<sleepq, panic>>
    BY <1>2, <1>4, <1>5 DEF tsleep
  <2>2. f \in SysFrames /\ f.p = Top.p /\ f.call = Top.call /\ f.arg = Top.arg /\ f.pc = "after"
    BY <1>2 DEF SysFrames, SysPcs
  <2>3. /\ proc' \in [Procs -> PRec]
        /\ \A q \in Procs : q # curproc => proc'[q] = proc[q]
        /\ proc'[curproc].siglist = proc[curproc].siglist
        /\ proc'[curproc].sigmask = proc[curproc].sigmask
        /\ proc'[curproc].sigact = proc[curproc].sigact
        /\ proc'[curproc].stat = "SRUN"
        /\ proc'[curproc].wchan = proc[curproc].wchan
        /\ proc'[curproc].ssintr = proc[curproc].ssintr
        /\ proc'[curproc].stimo = proc[curproc].stimo
    BY <2>1, <1>2 DEF PRec, Stats
  <2> HIDE DEF f
  <2>4. Sleeping'
    <3>1. Top' = f
      BY <2>1, <1>1, StackFacts DEF Replace, Top
    <3>2. QED
      BY <3>1, <2>1, <2>2, <2>3, <1>1, <1>2, AwakeStep
  <2>5. QED
    BY <2>1, <2>2, <2>3, <2>4, <1>2, SleepyStep
<1>6. CASE sig = 0
  <2> DEFINE f == [Top EXCEPT !.pc = "idle"]
  <2>1. /\ proc' = [pr EXCEPT ![curproc].wchan = chan, ![curproc].ssintr = TRUE,
                              ![curproc].stat = "SSLEEP"]
        /\ stack' = Replace(f)
        /\ sleepq' = IF Top.timo THEN sleepq \cup {curproc} ELSE sleepq
        /\ UNCHANGED panic
    BY <1>2, <1>4, <1>6 DEF tsleep, To
  <2>2. f \in SysFrames /\ f.p = Top.p /\ f.call = Top.call /\ f.arg = Top.arg /\ f.pc = "idle"
        /\ f.timo = Top.timo /\ f.k = "sys"
    BY <1>2 DEF SysFrames, SysPcs
  <2>3. /\ proc' \in [Procs -> PRec]
        /\ \A q \in Procs : q # curproc => proc'[q] = proc[q]
        /\ proc'[curproc].siglist = proc[curproc].siglist
        /\ proc'[curproc].sigmask = proc[curproc].sigmask
        /\ proc'[curproc].sigact = proc[curproc].sigact
        /\ proc'[curproc].stat = "SSLEEP"
        /\ proc'[curproc].wchan = chan
        /\ proc'[curproc].stimo = proc[curproc].stimo
    <3> DEFINE r == [pr[curproc] EXCEPT !.wchan = chan, !.ssintr = TRUE, !.stat = "SSLEEP"]
    <3>1. r \in PRec /\ r.stat = "SSLEEP" /\ r.wchan = chan /\ r.stimo = pr[curproc].stimo
          /\ r.siglist = pr[curproc].siglist /\ r.sigmask = pr[curproc].sigmask
          /\ r.sigact = pr[curproc].sigact
      BY <1>2 DEF PRec, Stats
    <3>2. proc' = [pr EXCEPT ![curproc] = r]
      BY <2>1, <1>2 DEF PRec
    <3> HIDE DEF r
    <3>3. QED
      BY <3>1, <3>2, <1>2
  <2> HIDE DEF f
  <2>4. Sleeping'
    <3>1. Top' = f
      BY <2>1, <1>1, StackFacts DEF Replace, Top
    <3>2. Idle' /\ Top'.timo = Top.timo
      BY <3>1, <2>2 DEF Idle
    <3>3. ~(Top'.k = "sys" /\ Top'.pc = "window")
      BY <3>1, <2>2
    <3>4. \A q \in Procs :
            \/ proc'[q].wchan = "none" /\ ~proc'[q].ssintr /\ ~proc'[q].stimo /\ q \notin sleepq'
            \/ q = curproc' /\ Idle'
      BY <3>2, <2>1, <2>3, <1>3
    <3>5. QED
      BY <3>2, <3>3, <3>4, <2>1, <2>3, <1>2, <1>3 DEF Sleeping
  <2>5. sleepq' \subseteq Procs
    BY <2>1, <1>2
  <2>6. QED
    BY <2>1, <2>2, <2>3, <2>4, <2>5, <1>2, SleepyStep
<1>7. QED
  BY <1>5, <1>6

(* A step of recv or select outside tsleep that leaves the process alone,  *)
(* but for P_SELECT.                                                       *)
LEMMA LookStep ==
  ASSUME IInv, Top.k = "sys", Top.call \in {"recv", "select"}, ~Idle,
         NEW f \in SysFrames, f.k = "sys", f.p = Top.p, f.call = Top.call, f.arg = Top.arg,
         stack' = Replace(f),
         UNCHANGED <<nprocs, curproc, panic, alarmq, sleepq>>,
         NEW b \in BOOLEAN,
         proc' \in {proc, [proc EXCEPT ![curproc].select = b]},
         sock' \in Socks,
         f.pc = "window" => sock'.cc = 0 /\ sock'.selpid = curproc
  PROVE  IInv'
<1>1. TypeOK /\ Chain(stack) /\ Current /\ Sleeping
  BY DEF IInv
<1>2. curproc \in Procs /\ proc \in [Procs -> PRec] /\ proc[curproc] \in PRec
      /\ sleepq \subseteq Procs
  BY <1>1, TypeFacts
<1>3. proc[curproc].stat \in {"SRUN", "SSLEEP"}
  BY <1>1 DEF Current, Fit
<1>4. Top' = f
  BY <1>1, StackFacts DEF Replace, Top
<1>5. /\ proc' \in [Procs -> PRec]
      /\ \A q \in Procs : q # curproc => proc'[q] = proc[q]
      /\ proc'[curproc].siglist = proc[curproc].siglist
      /\ proc'[curproc].sigmask = proc[curproc].sigmask
      /\ proc'[curproc].sigact = proc[curproc].sigact
      /\ proc'[curproc].stat = proc[curproc].stat
      /\ proc'[curproc].wchan = proc[curproc].wchan
      /\ proc'[curproc].ssintr = proc[curproc].ssintr
      /\ proc'[curproc].stimo = proc[curproc].stimo
  BY <1>2 DEF PRec
<1>6. Sleeping'
  BY <1>1, <1>2, <1>4, <1>5, AwakeStep
<1>7. QED
  BY <1>2, <1>3, <1>5, <1>6, SleepyStep

LEMMA RecvStep ==
  ASSUME IInv, recv \/ recv_after
  PROVE  IInv'
<1>1. TypeOK /\ Chain(stack) /\ Current /\ Sleeping
  BY DEF IInv
<1>2. /\ curproc \in Procs /\ proc \in [Procs -> PRec] /\ sock \in Socks /\ sock.cc \in Nat
      /\ MaxCC \in Nat
  BY <1>1, TypeFacts, ProcAssumption
<1>3. Top.k = "sys" /\ Top \in SysFrames /\ Top.call = "recv" /\ ~Idle
  BY <1>1, StackFacts DEF recv, recv_after, In, Idle
<1>4. CASE recv
  <2>1. CASE sock.cc > 0
    <3>1. sock' = [sock EXCEPT !.cc = @ - 1] /\ stack' = Replace([Top EXCEPT !.pc = "sig"])
          /\ UNCHANGED <<proc, sleepq, panic, nprocs, curproc, alarmq>>
      BY <1>4, <2>1 DEF recv, To
    <3>2. sock' \in Socks
      BY <3>1, <2>1, <1>2 DEF Socks
    <3> DEFINE f == [Top EXCEPT !.pc = "sig"]
    <3>3. f \in SysFrames /\ f.k = "sys" /\ f.p = Top.p /\ f.call = Top.call /\ f.arg = Top.arg
          /\ f.pc = "sig"
      BY <1>3 DEF SysFrames, SysPcs
    <3> HIDE DEF f
    <3>4. QED
      BY <3>1, <3>2, <3>3, <1>3, LookStep DEF f
  <2>2. CASE sock.cc = 0
    <3>1. sock' = [sock EXCEPT !.wait = TRUE] /\ tsleep(proc, "sb_cc")
          /\ UNCHANGED <<nprocs, curproc, alarmq>>
      BY <1>4, <2>2 DEF recv
    <3>2. sock' \in Socks /\ sock'.cc = 0 /\ sock'.wait
      BY <3>1, <2>2, <1>2 DEF Socks
    <3>3. QED
      BY <3>1, <3>2, <2>2, <1>2, <1>3, TsleepStep
  <2>3. QED
    BY <2>1, <2>2, <1>2
<1>5. CASE recv_after
  <2> DEFINE c == IF Top.err = "ok" THEN "func" ELSE "sig"
             f == [Top EXCEPT !.pc = c]
  <2>1. stack' = Replace(f) /\ UNCHANGED <<proc, sleepq, panic, nprocs, curproc, alarmq, sock>>
    BY <1>5 DEF recv_after, To, others, rest
  <2>2. c \in SysPcs /\ c # "window"
    BY DEF SysPcs
  <2>3. f \in SysFrames /\ f.k = "sys" /\ f.p = Top.p /\ f.call = Top.call /\ f.arg = Top.arg
        /\ f.pc = c
    BY <2>2, <1>3 DEF SysFrames
  <2> HIDE DEF f
  <2>4. QED
    BY <2>1, <2>2, <2>3, <1>2, <1>3, LookStep
<1>6. QED
  BY <1>4, <1>5

LEMMA SelectStep ==
  ASSUME IInv, select_scan \/ select_sleep \/ select_after
  PROVE  IInv'
<1>1. TypeOK /\ Chain(stack) /\ Current /\ Sleeping
  BY DEF IInv
<1>2. /\ curproc \in Procs /\ proc \in [Procs -> PRec] /\ sock \in Socks /\ sock.cc \in Nat
      /\ Top.p = curproc /\ proc[curproc] \in PRec
  BY <1>1, TypeFacts DEF Current
<1>3. Top.k = "sys" /\ Top \in SysFrames /\ Top.call \in {"recv", "select"} /\ ~Idle
  BY <1>1, StackFacts DEF select_scan, select_sleep, select_after, In, Idle, Legal
<1>4. CASE select_scan
  <2>1. proc' = [proc EXCEPT ![curproc].select = (sock.cc = 0)]
        /\ UNCHANGED <<sleepq, panic, nprocs, curproc, alarmq>>
    BY <1>2, <1>4 DEF select_scan, others, rest
  <2>2. (sock.cc = 0) \in BOOLEAN
    OBVIOUS
  <2>3. CASE sock.cc > 0
    <3> DEFINE f == [Top EXCEPT !.pc = "sig"]
    <3>1. stack' = Replace(f) /\ UNCHANGED sock
      BY <1>4, <2>3 DEF select_scan, To
    <3>2. f \in SysFrames /\ f.k = "sys" /\ f.p = Top.p /\ f.call = Top.call /\ f.arg = Top.arg
          /\ f.pc = "sig"
      BY <1>3 DEF SysFrames, SysPcs
    <3> HIDE DEF f
    <3>3. QED
      BY <3>1, <3>2, <2>1, <2>2, <1>2, <1>3, LookStep
  <2>4. CASE sock.cc = 0
    <3> DEFINE f == [Top EXCEPT !.pc = "window"]
    <3>1. stack' = Replace(f) /\ sock' = [sock EXCEPT !.selpid = curproc]
      BY <1>2, <1>4, <2>4 DEF select_scan, To
    <3>2. f \in SysFrames /\ f.k = "sys" /\ f.p = Top.p /\ f.call = Top.call /\ f.arg = Top.arg
          /\ f.pc = "window"
      BY <1>3 DEF SysFrames, SysPcs
    <3>3. sock' \in Socks /\ sock'.cc = 0 /\ sock'.selpid = curproc
      BY <3>1, <2>4, <1>2 DEF Socks
    <3> HIDE DEF f
    <3>4. QED
      BY <3>1, <3>2, <3>3, <2>1, <2>2, <1>2, <1>3, LookStep
  <2>5. QED
    BY <2>3, <2>4, <1>2
<1>5. CASE select_sleep
  <2> DEFINE pr == [proc EXCEPT ![curproc].select = FALSE]
  <2>1. UNCHANGED <<nprocs, curproc, alarmq, sock>> /\ Top.pc = "window"
    BY <1>5 DEF select_sleep, In
  <2>2. \/ stack' = To("sig") /\ proc' = pr /\ UNCHANGED <<sleepq, panic>>
        \/ stack' = To("func") /\ UNCHANGED <<proc, sleepq, panic>>
        \/ proc[curproc].select /\ tsleep(pr, "selwait")
    BY <1>2, <1>5 DEF select_sleep
  <2>3. ASSUME NEW c \in {"sig", "func"}, stack' = To(c), proc' \in {proc, pr},
               UNCHANGED <<sleepq, panic>>
        PROVE  IInv'
    <3> DEFINE f == [Top EXCEPT !.pc = c]
    <3>1. f \in SysFrames /\ f.k = "sys" /\ f.p = Top.p /\ f.call = Top.call /\ f.arg = Top.arg
          /\ f.pc = c
      BY <1>3 DEF SysFrames, SysPcs
    <3>2. stack' = Replace(f)
      BY <2>3 DEF To
    <3> HIDE DEF f
    <3>3. QED
      BY <3>1, <3>2, <2>1, <2>3, <1>2, <1>3, LookStep
  <2>4. ASSUME proc[curproc].select, tsleep(pr, "selwait")
        PROVE  IInv'
    <3>1. sock.cc = 0 /\ sock.selpid = curproc
      BY <2>1, <2>4, <1>1, <1>3 DEF Sleeping
    <3>2. /\ pr \in [Procs -> PRec]
          /\ \A q \in Procs : q # curproc => pr[q] = proc[q]
          /\ pr[curproc].siglist = proc[curproc].siglist
          /\ pr[curproc].sigmask = proc[curproc].sigmask
          /\ pr[curproc].sigact = proc[curproc].sigact
          /\ pr[curproc].stat = proc[curproc].stat
          /\ pr[curproc].wchan = proc[curproc].wchan
          /\ pr[curproc].ssintr = proc[curproc].ssintr
          /\ pr[curproc].stimo = proc[curproc].stimo
      BY <1>2 DEF PRec
    <3> HIDE DEF pr
    <3>3. QED
      BY <3>1, <3>2, <2>1, <2>4, <1>2, <1>3, TsleepStep
  <2>5. QED
    BY <2>2, <2>3, <2>4
<1>6. CASE select_after
  <2> DEFINE c == IF Top.err = "ok" THEN "func" ELSE "sig"
             e == CASE Top.err = "ERESTART" -> "EINTR"
                    [] Top.err = "EWOULDBLOCK" -> "ok"
                    [] OTHER -> Top.err
             f == [Top EXCEPT !.pc = c, !.err = e]
  <2>1. stack' = Replace(f) /\ UNCHANGED <<proc, sleepq, panic, nprocs, curproc, alarmq, sock>>
    BY <1>6, <1>3 DEF select_after, others, rest, SysFrames
  <2>2. c \in SysPcs /\ c # "window" /\ e \in {"ok", "EINTR", "ERESTART", "EWOULDBLOCK"}
    BY <1>3 DEF SysPcs, SysFrames
  <2> HIDE DEF c, e
  <2>3. f \in SysFrames /\ f.k = "sys" /\ f.p = Top.p /\ f.call = Top.call /\ f.arg = Top.arg
        /\ f.pc = c
    BY <2>2, <1>3 DEF SysFrames
  <2> HIDE DEF f
  <2>4. QED
    BY <2>1, <2>2, <2>3, <1>2, <1>3, LookStep
<1>7. QED
  BY <1>4, <1>5, <1>6

(* tsleep comes back: nothing of the sleep stays, whatever ended it. *)
LEMMA ResumeStep ==
  ASSUME IInv, tsleep_resume
  PROVE  IInv'
<1> DEFINE e == IF proc[curproc].stimo THEN "EWOULDBLOCK"
                ELSE IF CURSIG(proc, curproc) # 0 THEN "ERESTART" ELSE "ok"
           f == [Top EXCEPT !.pc = "after", !.err = e]
<1>1. TypeOK /\ Chain(stack) /\ Current /\ Sleeping
  BY DEF IInv
<1>2. /\ curproc \in Procs /\ proc \in [Procs -> PRec] /\ sock \in Socks
      /\ Top.p = curproc /\ proc[curproc] \in PRec /\ sleepq \subseteq Procs
  BY <1>1, TypeFacts DEF Current
<1>3. Top.k = "sys" /\ Top \in SysFrames /\ Top.call \in {"recv", "select"} /\ Top.pc = "idle"
  <2>1. Top.k = "sys" /\ Top.pc = "idle"
    BY DEF tsleep_resume, In
  <2>2. QED
    BY <2>1, <1>1, StackFacts DEF Legal
<1>4. /\ proc' = [proc EXCEPT ![curproc].ssintr = FALSE, ![curproc].stimo = FALSE]
      /\ proc[curproc].wchan = "none"
      /\ UNCHANGED <<panic, nprocs, curproc, alarmq, sock>>
  BY <1>2 DEF tsleep_resume, others, rest
<1>5. stack' = Replace(f)
  BY <1>2 DEF tsleep_resume
<1>6. sleepq' = IF ~proc[curproc].stimo /\ Top.timo THEN sleepq \ {curproc} ELSE sleepq
  BY <1>2 DEF tsleep_resume
<1>7. e \in {"ok", "EINTR", "ERESTART", "EWOULDBLOCK"} /\ "after" \in SysPcs
  BY DEF SysPcs
<1> HIDE DEF e
<1>8. f \in SysFrames /\ f.k = "sys" /\ f.p = Top.p /\ f.call = Top.call /\ f.arg = Top.arg
      /\ f.pc = "after"
  BY <1>3, <1>7 DEF SysFrames
<1> HIDE DEF f
<1>9. /\ proc' \in [Procs -> PRec]
      /\ \A q \in Procs : q # curproc => proc'[q] = proc[q]
      /\ proc'[curproc].siglist = proc[curproc].siglist
      /\ proc'[curproc].sigmask = proc[curproc].sigmask
      /\ proc'[curproc].sigact = proc[curproc].sigact
      /\ proc'[curproc].stat = proc[curproc].stat
      /\ proc'[curproc].wchan = proc[curproc].wchan
      /\ ~proc'[curproc].ssintr
      /\ ~proc'[curproc].stimo
  BY <1>2, <1>4 DEF PRec
<1>10. proc[curproc].stat \in {"SRUN", "SSLEEP"}
  BY <1>1, <1>3 DEF Current, Fit
<1>11. Top' = f
  BY <1>1, <1>5, StackFacts DEF Replace, Top
<1>12. Sleeping'
  <2>1. curproc \notin sleepq'
    BY <1>1, <1>6 DEF Sleeping
  <2>2. ASSUME NEW q \in Procs
        PROVE  proc'[q].wchan = "none" /\ ~proc'[q].ssintr /\ ~proc'[q].stimo /\ q \notin sleepq'
    <3>1. CASE q = curproc
      BY <3>1, <2>1, <1>4, <1>9
    <3>2. CASE q # curproc
      BY <3>2, <1>1, <1>6, <1>9 DEF Sleeping
    <3>3. QED
      BY <3>1, <3>2
  <2>3. ~(Top'.k = "sys" /\ Top'.pc = "window")
    BY <1>8, <1>11
  <2>4. QED
    BY <2>2, <2>3, <1>2, <1>4 DEF Sleeping
<1>13. sleepq' \subseteq Procs
  BY <1>2, <1>6
<1>14. QED
  BY <1>2, <1>3, <1>4, <1>5, <1>8, <1>9, <1>10, <1>12, <1>13, SleepyStep

(* The calls that do not sleep. *)
LEMMA SimpleStep ==
  ASSUME IInv, SysSimple
  PROVE  IInv'
<1> DEFINE f == [Top EXCEPT !.pc = "sig"]
<1>1. TypeOK /\ Chain(stack) /\ Current /\ Sleeping /\ Monitor /\ MonitorStack(stack) /\ Others
      /\ panic = "no"
  BY DEF IInv, NoPanic, Monitor
<1>2. /\ curproc \in Procs /\ proc \in [Procs -> PRec] /\ sock \in Socks /\ 0 \in Procs
      /\ Top.p = curproc /\ proc[curproc] \in PRec /\ sleepq \subseteq Procs
      /\ alarmq \subseteq Procs /\ nprocs \in 1 .. NPROC /\ curproc = nprocs - 1
      /\ curproc \in Nat
  BY <1>1, TypeFacts DEF Current
<1>3. Top.k = "sys" /\ Top \in SysFrames /\ Top.pc = "func" /\ Legal(Top) /\ ~Idle
  BY <1>1, StackFacts DEF SysSimple, In, Idle
<1>4. /\ stack' = Replace(f) /\ UNCHANGED <<nprocs, curproc, sleepq, sock, panic>>
  BY DEF SysSimple, To
<1>5. f \in SysFrames /\ f.k = "sys" /\ f.p = Top.p /\ f.call = Top.call /\ f.arg = Top.arg
      /\ f.pc = "sig"
  BY <1>3 DEF SysFrames, SysPcs
<1>6. Legal(f)
  BY <1>3, <1>5 DEF Legal
<1> HIDE DEF f
<1>7. /\ Chain(stack') /\ MonitorStack(stack')
      /\ Top' = f /\ Len(stack') = Len(stack) /\ stack'[1] = stack[1]
      /\ Len(stack) = 2 => stack[2] = Top /\ stack'[2] = f
  BY <1>1, <1>3, <1>4, <1>5, <1>6, SysMove
<1>8. \/ /\ Top.call = "mask0"
         /\ proc' = [proc EXCEPT ![curproc].sigmask = {}] /\ alarmq' = alarmq
      \/ /\ Top.call = "signal"
         /\ proc' = [proc EXCEPT ![curproc].sigact[Top.arg[1]] = Top.arg[2],
                                 ![curproc].siglist = IF Top.arg[2] = "IGN"
                                                      THEN @ \ {Top.arg[1]} ELSE @]
         /\ alarmq' = alarmq
      \/ /\ Top.call = "alarm"
         /\ proc' = proc /\ alarmq' = alarmq \cup {curproc}
  BY <1>2 DEF SysSimple
<1>9. /\ proc' \in [Procs -> PRec]
      /\ \A q \in Procs : q # curproc => proc'[q] = proc[q]
      /\ proc'[curproc].stat = proc[curproc].stat
      /\ proc'[curproc].wchan = proc[curproc].wchan
      /\ proc'[curproc].ssintr = proc[curproc].ssintr
      /\ proc'[curproc].stimo = proc[curproc].stimo
      /\ proc'[curproc].siglist \subseteq proc[curproc].siglist
      /\ proc'[curproc].sigmask \in {{}, proc[curproc].sigmask}
      /\ Top.call = "mask0" => proc'[curproc].sigmask = {}
      /\ Top.call # "signal" => proc'[curproc].sigact = proc[curproc].sigact
      /\ Top.call = "signal" =>
            \A s \in Sigs : proc'[curproc].sigact[s] =
                            IF s = Top.arg[1] THEN Top.arg[2] ELSE proc[curproc].sigact[s]
  <2>1. CASE Top.call = "mask0"
    <3>1. proc' = [proc EXCEPT ![curproc].sigmask = {}]
      BY <2>1, <1>8
    <3>2. QED
      BY <2>1, <3>1, <1>2 DEF PRec
  <2>2. CASE Top.call = "alarm"
    BY <2>2, <1>2, <1>8
  <2>3. CASE Top.call = "signal"
    <3>1. PICK s \in Sigs, h \in Actions : Top.arg[1] = s /\ Top.arg[2] = h
      BY <2>3, <1>3 DEF Legal
    <3> DEFINE l == IF h = "IGN" THEN proc[curproc].siglist \ {s} ELSE proc[curproc].siglist
               a == [proc[curproc].sigact EXCEPT ![s] = h]
               r == [proc[curproc] EXCEPT !.sigact = a, !.siglist = l]
    <3>2. /\ l \subseteq proc[curproc].siglist /\ l \in SUBSET Sigs
          /\ a \in [Sigs -> Actions]
          /\ \A x \in Sigs : a[x] = IF x = s THEN h ELSE proc[curproc].sigact[x]
      BY <1>2 DEF PRec
    <3>3. proc' = [proc EXCEPT ![curproc] = r]
      BY <2>3, <3>1, <1>2, <1>8 DEF PRec
    <3> HIDE DEF l, a
    <3>4. /\ r \in PRec /\ r.sigact = a /\ r.siglist = l
          /\ r.stat = proc[curproc].stat /\ r.wchan = proc[curproc].wchan
          /\ r.ssintr = proc[curproc].ssintr /\ r.stimo = proc[curproc].stimo
          /\ r.sigmask = proc[curproc].sigmask
      BY <3>2, <1>2 DEF PRec
    <3> HIDE DEF r
    <3>5. QED
      BY <2>3, <3>1, <3>2, <3>3, <3>4, <1>2
  <2>4. QED
    BY <2>1, <2>2, <2>3, <1>8
<1>10. Current'
  <2>1. alarmq' \subseteq 0 .. curproc
    BY <1>1, <1>2, <1>8 DEF Current
  <2>2. proc[curproc].stat \in {"SRUN", "SSLEEP"}
    BY <1>1, <1>3 DEF Current, Fit
  <2>3. Fit(f, proc'[curproc].stat) /\ f.pc # "enter"
    BY <2>2, <1>5, <1>9 DEF Fit
  <2>4. \A p \in Procs : p < curproc \/ p > curproc => p # curproc
    BY <1>2 DEF Procs
  <2>5. /\ \A p \in Procs : p < curproc => proc'[p].stat = "SRUN"
        /\ \A p \in Procs : p > curproc => proc'[p].stat = "SZOMB" /\ proc'[p].siglist = {}
    BY <2>4, <1>1, <1>9 DEF Current
  <2>6. QED
    BY <2>1, <2>3, <2>5, <1>2, <1>4, <1>5, <1>7 DEF Current
<1>11. TypeOK'
  <2>1. alarmq' \subseteq Procs /\ Top'.p = curproc'
    BY <1>2, <1>4, <1>5, <1>7, <1>8
  <2>2. QED
    BY <2>1, <1>2, <1>4, <1>7, <1>9, TypeIntro
<1>12. Sleeping'
  BY <1>1, <1>2, <1>3, <1>4, <1>5, <1>7, <1>9, AwakeStep
<1>13. SIGINT \in Sigs /\ SIGALRM \in Sigs /\ SIGINT # SIGALRM
  BY DEF Sigs, SIGINT, SIGALRM
<1>14. curproc = 0 /\ Top.call = "signal" =>
          Len(stack) = 2 /\ Top.arg[1] = SIGINT /\ Top.arg[2] = Caught(stack[1].pc)
  <2>1. Len(stack) \in 2 .. Len(stack) /\ Top = stack[Len(stack)]
    BY <1>1, <1>3, StackFacts
  <2>2. curproc = 0 /\ Top.call = "signal" => Setting(Top)
    BY <1>2, <1>3 DEF Setting
  <2>3. Setting(Top) => Len(stack) = 2 /\ Top.arg = <<SIGINT, Caught(stack[1].pc)>>
    BY <2>1, <1>1 DEF MonitorStack
  <2>4. QED
    BY <2>2, <2>3
<1>15. MonitorMask'
  <2>1. proc'[0].siglist \subseteq proc[0].siglist /\ proc'[0].sigmask \in {{}, proc[0].sigmask}
    BY <1>2, <1>9
  <2>2. (Top.call = "mask0" /\ curproc = 0) => proc'[0].sigmask = {}
    BY <1>9
  <2>3. QED
    BY <2>1, <2>2, <1>1, <1>3, <1>4, <1>5, <1>7 DEF Monitor, MonitorMask
<1>16. Monitor'
  <2>1. proc'[0].sigact[SIGINT] = Caught(stack[1].pc) /\ proc'[0].sigact[SIGALRM] = "DFL"
        /\ proc'[0].sigact[SIGINT] \in Own
    <3>1. CASE curproc = 0 /\ Top.call = "signal"
      <4>1. Caught(stack[1].pc) \in Own
        BY DEF Caught, Own
      <4>2. QED
        BY <3>1, <4>1, <1>1, <1>9, <1>13, <1>14 DEF Monitor
    <3>2. CASE ~(curproc = 0 /\ Top.call = "signal")
      <4>1. Len(stack) = 2 => ~Setting(stack[2])
        BY <3>2, <1>2, <1>7 DEF Setting
      <4>2. proc'[0].sigact = proc[0].sigact
        BY <3>2, <1>2, <1>9
      <4>3. QED
        BY <4>1, <4>2, <1>1 DEF Monitor
    <3>3. QED
      BY <3>1, <3>2
  <2>2. proc'[0].siglist \subseteq {SIGINT}
    BY <1>1, <1>2, <1>9 DEF Monitor
  <2>3. 0 \notin alarmq'
    BY <1>1, <1>2, <1>3, <1>8 DEF Monitor, Legal
  <2>4. QED
    BY <2>1, <2>2, <2>3, <1>7, <1>15 DEF Monitor
<1>17. Others'
  <2>1. ASSUME NEW q \in Procs \ {0}, NEW s \in Sigs
        PROVE  proc'[q].sigact[s] \notin Own
    <3>1. CASE q # curproc \/ Top.call # "signal"
      BY <3>1, <1>1, <1>9 DEF Others
    <3>2. CASE q = curproc /\ Top.call = "signal"
      <4>1. Top.arg[2] \notin Own
        BY <3>2, <1>2, <1>3 DEF Legal
      <4>2. proc[curproc].sigact[s] \notin Own
        BY <3>2, <1>1 DEF Others
      <4>3. QED
        BY <3>2, <4>1, <4>2, <1>9
    <3>3. QED
      BY <3>1, <3>2
  <2>2. QED
    BY <2>1 DEF Others
<1>18. QED
  BY <1>1, <1>4, <1>7, <1>10, <1>11, <1>12, <1>16, <1>17 DEF IInv, NoPanic

(* The running frame goes: a call or a handler returns to the one below.   *)
LEMMA PopMove ==
  ASSUME Chain(stack), MonitorStack(stack), Top.k # "user", stack' = Pop
  PROVE  /\ Chain(stack') /\ MonitorStack(stack')
         /\ Top' = stack[Len(stack) - 1] /\ Len(stack') = Len(stack) - 1
         /\ stack'[1] = stack[1] /\ Len(stack') > 0
<1> DEFINE n == Len(stack)
           f == stack[n - 1]
<1>1. /\ stack \in Seq(Frames) /\ n \in Nat /\ n > 1 /\ n - 1 \in 1 .. n
      /\ f \in Frames /\ Legal(f)
  BY StackFacts
<1>2. IsCut(stack', stack, n - 1, f)
  BY <1>1, PopIsCut DEF Pop
<1>3. n - 1 > 1 => On(stack[(n - 1) - 1], f)
  BY <1>1 DEF Chain
<1>4. Chain(stack')
  BY <1>1, <1>2, <1>3, CutChain
<1>5. n - 1 = 1 => (Caught(f.pc) = "boot" => f.old = "main")
  BY DEF MonitorStack
<1>6. MonitorStack(stack')
  BY <1>1, <1>2, <1>5, CutMonitor
<1>7. Top' = f /\ Len(stack') = n - 1 /\ stack'[1] = stack[1]
  BY <1>1, <1>2 DEF IsCut, Top
<1>8. QED
  BY <1>1, <1>4, <1>6, <1>7

(* The end of a system call: a signal is taken, or the call is made again, *)
(* or it returns to the code outside the kernel.                           *)
LEMMA GensyscallStep ==
  ASSUME IInv, gensyscall_end
  PROVE  IInv'
<1> DEFINE n == Len(stack)
           sig == CURSIG(proc, curproc)
<1>1. TypeOK /\ Chain(stack) /\ Current /\ Sleeping /\ Monitor /\ MonitorStack(stack) /\ Others
      /\ panic = "no"
  BY DEF IInv, NoPanic, Monitor
<1>2. /\ curproc \in Procs /\ proc \in [Procs -> PRec] /\ sock \in Socks /\ 0 \in Procs
      /\ Top.p = curproc /\ proc[curproc] \in PRec /\ sleepq \subseteq Procs
      /\ alarmq \subseteq Procs /\ nprocs \in 1 .. NPROC /\ curproc = nprocs - 1
      /\ curproc \in Nat
  BY <1>1, TypeFacts DEF Current
<1>3. Top.k = "sys" /\ Top \in SysFrames /\ Top.pc = "sig" /\ Legal(Top) /\ ~Idle
      /\ Top.k # "user" /\ n \in Nat /\ n > 1 /\ Top = stack[n] /\ stack[n - 1] \in Frames
      /\ On(stack[n - 1], Top) /\ Legal(stack[n - 1]) /\ n \in 2 .. n
  BY <1>1, StackFacts DEF gensyscall_end, In, Idle
<1>4. proc[curproc].siglist \subseteq Sigs
  BY <1>2 DEF PRec
<1>5. /\ sig # 0 => sig \in Sigs /\ sig \in proc[curproc].siglist
      /\ sig = 0 => proc[curproc].siglist \subseteq proc[curproc].sigmask
  BY <1>4, CursigFacts
<1>6. n = 2 => ~(Setting(stack[2]) /\ stack[2].pc = "func")
  BY <1>3
<1>7. proc[0].sigact[SIGINT] = Caught(stack[1].pc)
  BY <1>1, <1>6 DEF Monitor
<1> HIDE DEF sig
<1>8. CASE sig # 0
  <2>1. psig(proc, stack, alarmq, curproc, sig)
    BY <1>2, <1>8 DEF gensyscall_end, sig
  <2>2. Signalled(proc)
    BY <1>2 DEF Signalled
  <2>3. stack[1].pc # "setjmp"
    <3>1. ASSUME stack[1].pc = "setjmp"
          PROVE  FALSE
      <4>1. n = 2 /\ Setting(stack[2])
        BY <3>1, <1>1, <1>3 DEF MonitorStack
      <4>2. curproc = 0
        BY <4>1, <1>2, <1>3 DEF Setting
      <4>3. proc[0].siglist = {}
        BY <3>1, <1>1 DEF Monitor, MonitorMask
      <4>4. QED
        BY <4>2, <4>3, <1>5, <1>8
    <3>2. QED
      BY <3>1
  <2>4. curproc = 0 => sig = SIGINT
    BY <1>1, <1>5, <1>8 DEF Monitor
  <2>5. QED
    BY <2>1, <2>2, <2>3, <2>4, <1>3, <1>5, <1>8, PsigStep
<1>9. CASE sig = 0 /\ Top.err = "ERESTART"
  <2> DEFINE f == [Top EXCEPT !.pc = "func", !.err = "ok"]
  <2>1. /\ stack' = Replace(f) /\ proc' = [proc EXCEPT ![curproc].stat = "SRUN"]
        /\ UNCHANGED <<nprocs, curproc, panic, alarmq, sleepq, sock>>
    BY <1>2, <1>9 DEF gensyscall_end, others, rest, sig
  <2>2. f \in SysFrames /\ f.k = "sys" /\ f.p = Top.p /\ f.call = Top.call /\ f.arg = Top.arg
        /\ f.pc = "func"
    BY <1>3 DEF SysFrames, SysPcs
  <2>3. Legal(f)
    BY <2>2, <1>3 DEF Legal
  <2> HIDE DEF f
  <2>4. /\ Chain(stack') /\ MonitorStack(stack')
        /\ Top' = f /\ Len(stack') = Len(stack) /\ stack'[1] = stack[1]
    BY <2>1, <2>2, <2>3, <1>1, <1>3, SysMove
  <2>5. /\ proc' \in [Procs -> PRec]
        /\ \A p \in Procs : p # curproc => proc'[p] = proc[p]
        /\ proc'[curproc].stat = "SRUN"
        /\ \A p \in Procs : /\ proc'[p].wchan = proc[p].wchan
                            /\ proc'[p].ssintr = proc[p].ssintr
                            /\ proc'[p].stimo = proc[p].stimo
                            /\ proc'[p].siglist = proc[p].siglist
                            /\ proc'[p].sigmask = proc[p].sigmask
                            /\ proc'[p].sigact = proc[p].sigact
    BY <2>1, <1>2 DEF PRec, Stats
  <2>6. Current'
    BY <2>1, <2>2, <2>4, <2>5, <1>1, <1>2 DEF Current, Fit
  <2>7. TypeOK'
    BY <2>1, <2>2, <2>4, <2>5, <1>2, TypeIntro
  <2>8. Sleeping'
    BY <2>1, <2>2, <2>4, <2>5, <1>1, <1>2, <1>3, AwakeStep
  <2>9. Monitor'
    <3>1. MonitorMask'
      BY <2>1, <2>2, <2>4, <2>5, <1>1, <1>2, <1>3 DEF Monitor, MonitorMask
    <3>2. QED
      BY <3>1, <2>1, <2>4, <2>5, <1>1, <1>2, <1>7 DEF Monitor
  <2>10. Others'
    BY <2>5, <1>1 DEF Others
  <2>11. QED
    BY <2>1, <2>4, <2>6, <2>7, <2>8, <2>9, <2>10, <1>1 DEF IInv, NoPanic
<1>10. CASE sig = 0 /\ Top.err # "ERESTART"
  <2> DEFINE f == stack[n - 1]
  <2>1. /\ stack' = Pop /\ proc' = [proc EXCEPT ![curproc].stat = "SNOTKERN"]
        /\ UNCHANGED <<nprocs, curproc, panic, alarmq, sleepq, sock>>
    BY <1>2, <1>10 DEF gensyscall_end, others, rest, sig
  <2>2. /\ Chain(stack') /\ MonitorStack(stack')
        /\ Top' = f /\ Len(stack') = n - 1 /\ stack'[1] = stack[1]
    BY <2>1, <1>1, <1>3, PopMove
  <2>3. /\ f.p = curproc
        /\ \/ f.k = "user" /\ f.pc # "reap"
           \/ f.k = "hand" /\ f.pc # "enter"
    BY <1>2, <1>3 DEF On
  <2>4. /\ proc' \in [Procs -> PRec]
        /\ \A p \in Procs : p # curproc => proc'[p] = proc[p]
        /\ proc'[curproc].stat = "SNOTKERN"
        /\ \A p \in Procs : /\ proc'[p].wchan = proc[p].wchan
                            /\ proc'[p].ssintr = proc[p].ssintr
                            /\ proc'[p].stimo = proc[p].stimo
                            /\ proc'[p].siglist = proc[p].siglist
                            /\ proc'[p].sigmask = proc[p].sigmask
                            /\ proc'[p].sigact = proc[p].sigact
    BY <2>1, <1>2 DEF PRec, Stats
  <2> HIDE DEF f
  <2>5. Current'
    BY <2>1, <2>2, <2>3, <2>4, <1>1, <1>2 DEF Current, Fit
  <2>6. TypeOK'
    BY <2>1, <2>2, <2>3, <2>4, <1>2, TypeIntro
  <2>7. Sleeping'
    BY <2>1, <2>2, <2>3, <2>4, <1>1, <1>2, <1>3, AwakeStep
  <2>8. Monitor'
    <3>1. f.k = "hand" /\ curproc = 0 => Top.call # "signal"
      <4>1. Setting(Top) => n = 2
        BY <1>1, <1>3 DEF MonitorStack
      <4>2. n = 2 => f = stack[1]
        BY <1>3 DEF f
      <4>3. QED
        BY <4>1, <4>2, <1>1, <1>2, <1>3, StackFacts DEF Setting
    <3>2. curproc = 0 => \/ proc[0].sigmask = {} /\ proc[0].siglist = {}
                         \/ Top.call = "signal" /\ stack[1].pc = "unmask"
      BY <1>1, <1>3, <1>5, <1>10 DEF Monitor, MonitorMask
    <3>3. f.k = "hand" /\ f.pc = "jump" => curproc = 0
      BY <1>3, <2>3 DEF Legal, f
    <3>4. MonitorMask'
      BY <3>1, <3>2, <3>3, <2>1, <2>2, <2>3, <2>4, <1>1, <1>2 DEF Monitor, MonitorMask
    <3>5. QED
      BY <3>4, <2>1, <2>2, <2>4, <1>1, <1>2, <1>7 DEF Monitor
  <2>9. Others'
    BY <2>4, <1>1 DEF Others
  <2>10. QED
    BY <2>1, <2>2, <2>5, <2>6, <2>7, <2>8, <2>9, <1>1 DEF IInv, NoPanic
<1>11. QED
  BY <1>8, <1>9, <1>10

-----------------------------------------------------------------------------
(* Handlers.                                                               *)

(* The frame of a handler moves on, or is made ready for a call. *)
LEMMA HandMove ==
  ASSUME Chain(stack), MonitorStack(stack), Top.k = "hand",
         NEW f \in HandFrames, f.p = Top.p, f.act = Top.act, Legal(f),
         On(stack[Len(stack) - 1], f)
  PROVE  LET st == Replace(f)
         IN  /\ IsCut(st, stack, Len(stack), f)
             /\ Chain(st) /\ MonitorStack(st)
             /\ st[Len(st)] = f /\ Len(st) = Len(stack) /\ st[1] = stack[1]
<1> DEFINE n == Len(stack)
           st == Replace(f)
<1>1. /\ stack \in Seq(Frames) /\ n \in Nat /\ n > 1 /\ n > 0 /\ Top = stack[n]
      /\ n \in 1 .. n
  BY StackFacts
<1>2. f \in Frames /\ f.k = "hand"
  BY DEF Frames, HandFrames
<1>3. IsCut(st, stack, n, f)
  BY <1>1, <1>2, ReplaceIsCut DEF Replace
<1> HIDE DEF st
<1>5. Chain(st)
  BY <1>1, <1>2, <1>3, CutChain
<1>6. MonitorStack(st)
  BY <1>1, <1>2, <1>3, CutMonitor
<1>7. st[Len(st)] = f /\ Len(st) = n /\ st[1] = stack[1]
  BY <1>1, <1>3 DEF IsCut
<1>8. QED
  BY <1>3, <1>5, <1>6, <1>7 DEF st

(* psig calls the handler, and saves the p_stat it interrupted. *)
LEMMA HandEnterStep ==
  ASSUME IInv, hand_enter
  PROVE  IInv'
<1> DEFINE n == Len(stack)
           f == [Top EXCEPT !.stat = proc[curproc].stat, !.pc = "run"]
<1>1. TypeOK /\ Chain(stack) /\ Current /\ Sleeping /\ Monitor /\ MonitorStack(stack) /\ Others
      /\ panic = "no"
  BY DEF IInv, NoPanic, Monitor
<1>2. /\ curproc \in Procs /\ proc \in [Procs -> PRec] /\ sock \in Socks /\ 0 \in Procs
      /\ Top.p = curproc /\ proc[curproc] \in PRec /\ sleepq \subseteq Procs
      /\ alarmq \subseteq Procs /\ nprocs \in 1 .. NPROC /\ curproc = nprocs - 1
      /\ curproc \in Nat
  BY <1>1, TypeFacts DEF Current
<1>3. Top.k = "hand" /\ Top \in HandFrames /\ Top.pc = "enter" /\ Legal(Top) /\ ~Idle
      /\ n \in Nat /\ n > 1 /\ Top = stack[n] /\ On(stack[n - 1], Top)
  BY <1>1, StackFacts DEF hand_enter, In, Idle
<1>4. /\ stack' = Replace(f) /\ proc' = [proc EXCEPT ![curproc].stat = "SNOTKERN"]
      /\ UNCHANGED <<nprocs, curproc, panic, alarmq, sleepq, sock>>
  BY <1>2 DEF hand_enter, others, rest
<1>5. f \in HandFrames /\ f.k = "hand" /\ f.p = Top.p /\ f.act = Top.act /\ f.pc = "run"
      /\ f.stat = proc[curproc].stat
  BY <1>2, <1>3 DEF HandFrames, HandPcs, PRec
<1>6. Legal(f)
  BY <1>3, <1>5 DEF Legal
<1>7. On(stack[n - 1], f)
  BY <1>1, <1>3, <1>5 DEF Current, On
<1> HIDE DEF f
<1>8. /\ Chain(stack') /\ MonitorStack(stack')
      /\ Top' = f /\ Len(stack') = n /\ stack'[1] = stack[1]
  BY <1>1, <1>3, <1>4, <1>5, <1>6, <1>7, HandMove DEF Top
<1>9. /\ proc' \in [Procs -> PRec]
      /\ \A p \in Procs : p # curproc => proc'[p] = proc[p]
      /\ proc'[curproc].stat = "SNOTKERN"
      /\ \A p \in Procs : /\ proc'[p].wchan = proc[p].wchan
                          /\ proc'[p].ssintr = proc[p].ssintr
                          /\ proc'[p].stimo = proc[p].stimo
                          /\ proc'[p].siglist = proc[p].siglist
                          /\ proc'[p].sigmask = proc[p].sigmask
                          /\ proc'[p].sigact = proc[p].sigact
  BY <1>2, <1>4 DEF PRec, Stats
<1>10. Current'
  BY <1>1, <1>2, <1>4, <1>5, <1>8, <1>9 DEF Current, Fit
<1>11. TypeOK'
  BY <1>2, <1>4, <1>5, <1>8, <1>9, TypeIntro
<1>12. Sleeping'
  BY <1>1, <1>2, <1>3, <1>4, <1>5, <1>8, <1>9, AwakeStep
<1>13. n = 2 => ~Setting(stack[2])
  BY <1>3 DEF Setting
<1>14. Monitor'
  <2>1. MonitorMask'
    BY <1>1, <1>2, <1>4, <1>5, <1>8, <1>9 DEF Monitor, MonitorMask
  <2>2. proc[0].sigact[SIGINT] = Caught(stack[1].pc)
    BY <1>1, <1>13 DEF Monitor
  <2>3. QED
    BY <2>1, <2>2, <1>1, <1>2, <1>4, <1>8, <1>9 DEF Monitor
<1>15. Others'
  BY <1>1, <1>9 DEF Others
<1>16. QED
  BY <1>1, <1>4, <1>8, <1>10, <1>11, <1>12, <1>14, <1>15 DEF IInv, NoPanic

(* A handler returns, and the code below it goes on with the p_stat it     *)
(* expects.  The monitor's handlers never do.                              *)
LEMMA HandReturnStep ==
  ASSUME IInv, hand_return
  PROVE  IInv'
<1> DEFINE n == Len(stack)
           f == stack[n - 1]
<1>1. TypeOK /\ Chain(stack) /\ Current /\ Sleeping /\ Monitor /\ MonitorStack(stack) /\ Others
      /\ panic = "no"
  BY DEF IInv, NoPanic, Monitor
<1>2. /\ curproc \in Procs /\ proc \in [Procs -> PRec] /\ sock \in Socks /\ 0 \in Procs
      /\ Top.p = curproc /\ proc[curproc] \in PRec /\ sleepq \subseteq Procs
      /\ alarmq \subseteq Procs /\ nprocs \in 1 .. NPROC /\ curproc = nprocs - 1
      /\ curproc \in Nat
  BY <1>1, TypeFacts DEF Current
<1>3. Top.k = "hand" /\ Top \in HandFrames /\ Top.pc = "return" /\ Legal(Top) /\ ~Idle
      /\ Top.k # "user" /\ n \in Nat /\ n > 1 /\ Top = stack[n] /\ On(f, Top)
      /\ f \in Frames /\ Legal(f) /\ (n > 2 => Parked(stack[n - 2], f))
  BY <1>1, StackFacts DEF hand_return, In, Idle
<1>4. curproc # 0
  BY <1>2, <1>3 DEF Legal
<1>5. /\ stack' = Pop
      /\ proc' = [proc EXCEPT ![curproc].stat = Top.stat, ![curproc].sigmask = Top.mask]
      /\ UNCHANGED <<nprocs, curproc, panic, alarmq, sleepq, sock>>
  BY <1>2 DEF hand_return, others, rest
<1>6. f.p = curproc /\ Fit(f, Top.stat) /\ (f.k = "sys" => f.pc = "sig")
  BY <1>2, <1>3 DEF On
<1>7. f.k = "hand" => f.pc # "jump"
  BY <1>3, <1>4, <1>6 DEF Legal
<1>8. f.k = "hand" /\ f.pc = "enter" => n > 2 /\ Top.stat = "SNOTKERN" /\ Fit(stack[n - 2], "SNOTKERN")
  <2>1. ASSUME f.k = "hand", f.pc = "enter"
        PROVE  n > 2 /\ Top.stat = "SNOTKERN" /\ Fit(stack[n - 2], "SNOTKERN")
    <3>1. Top.stat = "SNOTKERN"
      BY <2>1, <1>6 DEF Fit
    <3>2. n > 2
      <4>1. n = 2 => f = stack[1] /\ stack[1].k = "user"
        BY <1>1, StackFacts
      <4>2. \A m \in Nat : m > 1 => m = 2 \/ m > 2
        OBVIOUS
      <4>3. QED
        BY <4>1, <4>2, <2>1, <1>3
    <3>3. QED
      BY <3>1, <3>2, <2>1, <1>3 DEF Parked
  <2>2. QED
    BY <2>1
<1>9. /\ Chain(stack') /\ MonitorStack(stack')
      /\ Top' = f /\ Len(stack') = n - 1 /\ stack'[1] = stack[1]
      /\ n > 2 => stack'[Len(stack') - 1] = stack[n - 2]
  <2>1. /\ Chain(stack') /\ MonitorStack(stack')
        /\ Top' = f /\ Len(stack') = n - 1 /\ stack'[1] = stack[1]
    BY <1>1, <1>3, <1>5, PopMove
  <2>2. IsCut(stack', stack, n - 1, f)
    BY <1>1, <1>3, <1>5, PopIsCut DEF Pop, Chain
  <2>3. n > 2 => stack'[n - 2] = stack[n - 2]
    BY <2>2, <1>3 DEF IsCut
  <2>4. Len(stack') - 1 = n - 2
    BY <2>1, <1>3
  <2>5. QED
    BY <2>1, <2>3, <2>4
<1>10. /\ proc' \in [Procs -> PRec]
       /\ \A p \in Procs : p # curproc => proc'[p] = proc[p]
       /\ proc'[curproc].stat = Top.stat
       /\ \A p \in Procs : /\ proc'[p].wchan = proc[p].wchan
                           /\ proc'[p].ssintr = proc[p].ssintr
                           /\ proc'[p].stimo = proc[p].stimo
                           /\ proc'[p].sigact = proc[p].sigact
  <2>1. Top.stat \in Stats /\ Top.mask \in SUBSET Sigs
    BY <1>3 DEF HandFrames
  <2> DEFINE r == [proc[curproc] EXCEPT !.stat = Top.stat, !.sigmask = Top.mask]
  <2>2. r \in PRec /\ r.stat = Top.stat /\ r.wchan = proc[curproc].wchan
        /\ r.ssintr = proc[curproc].ssintr /\ r.stimo = proc[curproc].stimo
        /\ r.sigact = proc[curproc].sigact
    BY <2>1, <1>2 DEF PRec
  <2>3. proc' = [proc EXCEPT ![curproc] = r]
    BY <1>2, <1>5 DEF PRec
  <2> HIDE DEF r
  <2>4. QED
    BY <2>2, <2>3, <1>2
<1> HIDE DEF f
<1>11. Current'
  <2>1. IF Top'.k = "hand" /\ Top'.pc = "enter"
        THEN Fit(stack'[Len(stack') - 1], proc'[curproc].stat)
        ELSE Fit(Top', proc'[curproc].stat)
    BY <1>6, <1>8, <1>9, <1>10
  <2>2. \A p \in Procs : p < curproc \/ p > curproc => p # curproc
    BY <1>2 DEF Procs
  <2>3. QED
    BY <2>1, <2>2, <1>1, <1>5, <1>6, <1>9, <1>10 DEF Current
<1>12. TypeOK'
  BY <1>2, <1>5, <1>6, <1>9, <1>10, TypeIntro
<1>13. Sleeping'
  BY <1>1, <1>2, <1>3, <1>5, <1>6, <1>9, <1>10, AwakeStep
<1>14. Monitor'
  <2>1. n = 2 => ~Setting(stack[2])
    BY <1>3 DEF Setting
  <2>2. proc[0].sigact[SIGINT] = Caught(stack[1].pc)
    BY <2>1, <1>1 DEF Monitor
  <2>3. proc'[0] = proc[0]
    BY <1>2, <1>4, <1>10
  <2>4. MonitorMask'
    BY <2>3, <1>1, <1>4, <1>5, <1>7, <1>9 DEF Monitor, MonitorMask
  <2>5. QED
    BY <2>2, <2>3, <2>4, <1>1, <1>5, <1>9 DEF Monitor
<1>15. Others'
  BY <1>1, <1>10 DEF Others
<1>16. QED
  BY <1>1, <1>5, <1>9, <1>11, <1>12, <1>13, <1>14, <1>15 DEF IInv, NoPanic

(* A call that a handler makes. *)
LEMMA HandCall ==
  ASSUME IInv, Top.k = "hand", Top.pc # "enter",
         NEW c \in Calls, NEW a \in Args, NEW pc \in HandPcs \ {"enter"},
         Call(c, a, FALSE, To(pc)),
         \/ curproc = 0 /\ c = "mask0" /\ pc = "jump" /\ Top.act = "main"
         \/ /\ curproc # 0 /\ pc # "jump"
            /\ c = "signal" => a \in Sigs \X Actions /\ a[2] \notin Own
  PROVE  IInv'
<1> DEFINE f == [Top EXCEPT !.pc = pc]
<1>1. TypeOK /\ Chain(stack) /\ Current /\ MonitorStack(stack) /\ Monitor
  BY DEF IInv, Monitor
<1>2. /\ Top.p = curproc /\ Top \in HandFrames /\ Legal(Top) /\ Len(stack) > 1
      /\ On(stack[Len(stack) - 1], Top) /\ Len(stack) \in Nat /\ curproc \in Procs
  BY <1>1, StackFacts, TypeFacts DEF Current
<1>3. f \in HandFrames /\ f.k = "hand" /\ f.p = Top.p /\ f.act = Top.act /\ f.pc = pc
      /\ f.stat = Top.stat
  BY <1>2 DEF HandFrames
<1>4. f \in Frames /\ Legal(f)
  <2>1. Legal(f)
    BY <1>2, <1>3 DEF Legal
  <2>2. QED
    BY <2>1, <1>3 DEF Frames
<1>5. On(stack[Len(stack) - 1], f)
  BY <1>2, <1>3 DEF On
<1> HIDE DEF f
<1>6. IsCut(Replace(f), stack, Len(stack), f)
  BY <1>1, <1>3, <1>4, <1>5, HandMove
<1>7. Call(c, a, FALSE, Replace(f))
  BY DEF To, f
<1>8. ~(Len(stack) = 1)
  <2>1. \A m \in Nat : m > 1 => ~(m = 1)
    OBVIOUS
  <2>2. QED
    BY <2>1, <1>2
<1>9. QED
  BY <1>2, <1>3, <1>4, <1>5, <1>6, <1>7, <1>8, CallStep

LEMMA HandRunStep ==
  ASSUME IInv, hand_run
  PROVE  IInv'
<1> DEFINE n == Len(stack)
<1>1. TypeOK /\ Chain(stack) /\ Current /\ MonitorStack(stack) /\ Monitor
  BY DEF IInv, Monitor
<1>2. Top.k = "hand" /\ Top.pc # "enter" /\ panic = "no"
  BY DEF hand_run, In
<1>3. /\ Top.p = curproc /\ Top \in HandFrames /\ Legal(Top) /\ n > 1 /\ n \in 2 .. n
      /\ Top = stack[n] /\ curproc \in Procs /\ proc \in [Procs -> PRec]
  BY <1>1, <1>2, StackFacts, TypeFacts DEF Current
<1>4. curproc = 0 => Top.act \in Own
  BY <1>1, <1>2, <1>3 DEF MonitorStack, Caught, Own
<1>5. SIGINT \in Sigs /\ SIGALRM \in Sigs
  BY DEF Sigs
<1>6. ASSUME Top.pc = "run", Top.act = "main", sigsetmask0(To("jump"))
      PROVE  IInv'
  <2>1. curproc = 0
    BY <1>3, <1>2, <1>6 DEF Legal, Own
  <2>2. Call("mask0", NoArg, FALSE, To("jump"))
    BY <1>6 DEF sigsetmask0
  <2>3. QED
    BY <2>1, <2>2, <1>2, <1>6, HandCall DEF Calls, Args, HandPcs
<1>7. ASSUME NEW s \in Sigs, NEW h \in {"again", "done", "IGN"},
             NEW pc \in {"rearm", "ignore", "exit"}, curproc # 0, signal(s, h, To(pc))
      PROVE  IInv'
  <2>1. Call("signal", <<s, h>>, FALSE, To(pc))
    BY <1>7 DEF signal
  <2>2. <<s, h>> \in Args /\ <<s, h>> \in Sigs \X Actions /\ <<s, h>>[2] \notin Own
    BY DEF Args, Actions, Handlers, Own
  <2>3. QED
    BY <2>1, <2>2, <1>2, <1>7, HandCall DEF Calls, HandPcs
<1>8. ASSUME curproc # 0, setitimer(To("return"))
      PROVE  IInv'
  <2>1. Call("alarm", NoArg, FALSE, To("return"))
    BY <1>8 DEF setitimer
  <2>2. QED
    BY <2>1, <1>2, <1>8, HandCall DEF Calls, Args, HandPcs
<1>9. ASSUME NEW act \in Own, Top.act = act, longjmp(Top.p, act),
             act = "boot" => Top.pc = "run", act = "main" => Top.pc = "jump"
      PROVE  IInv'
  BY <1>2, <1>9, LongjmpStep
<1>10. ASSUME curproc # 0, exit1(proc, stack, alarmq, Top.p)
       PROVE  IInv'
  <2>1. Signalled(proc) /\ ~Idle
    BY <1>2, <1>3 DEF Signalled, Idle
  <2>2. QED
    BY <2>1, <1>3, <1>10, ExitStep
<1>11. CASE Top.pc = "run"
  <2>1. \/ Top.act = "main" /\ sigsetmask0(To("jump"))
        \/ Top.act = "boot" /\ longjmp(Top.p, "boot")
        \/ Top.act = "again" /\ signal(SIGALRM, "again", To("rearm"))
        \/ Top.act = "again" /\ signal(SIGALRM, "done", To("rearm"))
        \/ Top.act = "done" /\ signal(SIGALRM, "IGN", To("ignore"))
    BY <1>11 DEF hand_run, In
  <2>2. Top.act \in {"again", "done"} => curproc # 0
    BY <1>4 DEF Own
  <2>3. QED
    BY <2>1, <2>2, <1>5, <1>6, <1>7, <1>9, <1>11 DEF Own
<1>12. CASE Top.pc # "run"
  <2>1. \/ Top.pc = "rearm" /\ setitimer(To("return"))
        \/ Top.pc = "ignore" /\ signal(SIGINT, "IGN", To("exit"))
        \/ Top.pc = "exit" /\ exit1(proc, stack, alarmq, Top.p)
        \/ Top.pc = "jump" /\ longjmp(Top.p, "main")
    BY <1>12 DEF hand_run, In
  <2>2. Top.pc \in {"rearm", "ignore", "exit"} => curproc # 0
    BY <1>2, <1>3 DEF Legal
  <2>3. Top.pc = "jump" => Top.act = "main"
    BY <1>2, <1>3 DEF Legal
  <2>4. QED
    BY <2>1, <2>2, <2>3, <1>5, <1>7, <1>8, <1>9, <1>10 DEF Own
<1>13. QED
  BY <1>11, <1>12

-----------------------------------------------------------------------------
(* Code outside the kernel.                                                *)

(* The running user frame: the monitor's is the only one of its kind, and  *)
(* the mask and the action of SIGINT are those of its step.                *)
LEMMA UserFacts ==
  ASSUME IInv, Top.k = "user"
  PROVE  /\ Top.p = curproc /\ Top \in UserFrames /\ Legal(Top) /\ ~Idle
         /\ curproc # 0 => Top.pc \in {"run", "reap"}
         /\ curproc = 0 => /\ Len(stack) = 1 /\ Top = stack[1]
                           /\ proc[0].sigact[SIGINT] = Caught(Top.pc)
                           /\ Caught(Top.pc) = "boot" => Top.old = "main"
                           /\ Top.pc \notin {"quit", "unmask"} => proc[0].sigmask = {}
                           /\ Top.pc \notin {"quit", "unmask", "reap"} => proc[0].siglist = {}
         /\ Len(stack) = 1 => curproc = 0
         /\ Len(stack) > 1 => On(stack[Len(stack) - 1], Top)
         /\ stack[1].pc = "setjmp" => Top.pc = "setjmp"
<1>1. TypeOK /\ Chain(stack) /\ Current /\ MonitorStack(stack) /\ Monitor /\ MonitorMask
  BY DEF IInv, Monitor
<1>2. /\ Top.p = curproc /\ Top \in UserFrames /\ Legal(Top) /\ Len(stack) \in Nat
      /\ Len(stack) > 1 => On(stack[Len(stack) - 1], Top)
      /\ Top = stack[Len(stack)]
  BY <1>1, StackFacts DEF Current
<1>3. ~Idle
  BY DEF Idle
<1>4. curproc # 0 => Top.pc \in {"run", "reap"}
  BY <1>2 DEF Legal
<1>5. (Len(stack) = 1 => Top = stack[1] /\ curproc = 0) /\ (curproc = 0 => Len(stack) = 1)
  BY <1>1, <1>2, BottomFacts
<1>6. Len(stack) = 1 => proc[0].sigact[SIGINT] = Caught(Top.pc)
  BY <1>1, <1>5 DEF Monitor
<1>7. curproc = 0 => (Caught(Top.pc) = "boot" => Top.old = "main")
  BY <1>1, <1>5 DEF MonitorStack
<1>8. curproc = 0 => /\ Top.pc \notin {"quit", "unmask"} => proc[0].sigmask = {}
                     /\ Top.pc \notin {"quit", "unmask", "reap"} => proc[0].siglist = {}
  BY <1>1, <1>5 DEF MonitorMask
<1>9. stack[1].pc = "setjmp" => Top.pc = "setjmp"
  <2>1. Len(stack) = 2 => ~Setting(stack[2])
    BY <1>2 DEF Setting
  <2>2. QED
    BY <2>1, <1>1, <1>5 DEF MonitorStack
<1>10. QED
  BY <1>2, <1>3, <1>4, <1>5, <1>6, <1>7, <1>8, <1>9

(* A call from the running command, which goes on with frame f. *)
LEMMA UserCall ==
  ASSUME IInv, Top.k = "user", Top.pc # "reap",
         NEW c \in Calls, NEW a \in Args, NEW timo \in BOOLEAN, NEW f \in UserFrames,
         f.p = Top.p, f.pc # "reap",
         NEW st, (st = stack /\ f = Top) \/ st = Replace(f),
         Call(c, a, timo, st),
         c = "signal" => a \in Sigs \X Actions,
         curproc # 0 => /\ c = "signal" => a[2] \notin Own
                        /\ f.pc \in {"run", "reap"},
         curproc = 0 => /\ c # "alarm"
                        /\ c = "signal" => a = <<SIGINT, Caught(f.pc)>>
                        /\ Caught(f.pc) = "boot" => f.old = "main"
                        /\ f.pc = "setjmp" => /\ c = "signal" /\ proc[0].sigmask = {}
                                              /\ proc[0].siglist = {}
                        /\ c # "signal" => Caught(f.pc) = Caught(Top.pc)
                        /\ \/ proc[0].sigmask = {}
                           \/ c = "mask0"
                           \/ c = "signal" /\ f.pc = "unmask"
  PROVE  IInv'
<1>1. Chain(stack) /\ Top.p = curproc /\ (Len(stack) = 1 => curproc = 0)
      /\ (Len(stack) > 1 => On(stack[Len(stack) - 1], Top))
      /\ (curproc = 0 => Len(stack) = 1)
  BY UserFacts DEF IInv
<1>2. stack \in Seq(Frames) /\ Len(stack) \in Nat /\ Len(stack) > 0 /\ Top = stack[Len(stack)]
  BY <1>1, StackFacts
<1>3. f \in Frames /\ f.k = "user"
  BY DEF Frames, UserFrames
<1>4. IsCut(st, stack, Len(stack), f)
  <2>1. CASE st = stack /\ f = Top
    BY <2>1, <1>2 DEF IsCut
  <2>2. CASE st = Replace(f)
    BY <2>2, <1>2, <1>3, ReplaceIsCut DEF Replace
  <2>3. QED
    BY <2>1, <2>2
<1>5. Legal(f)
  BY <1>1, <1>3 DEF Legal
<1>6. Len(stack) > 1 => On(stack[Len(stack) - 1], f)
  BY <1>1, <1>3 DEF On
<1>7. QED
  BY <1>1, <1>3, <1>4, <1>5, <1>6, CallStep

LEMMA UserCallStep ==
  ASSUME IInv, main_break \/ user_wait \/ bootp_start \/ ping
  PROVE  IInv'
<1>1. Top.k = "user" /\ Top.pc \in {"break", "run", "boot"}
  BY DEF main_break, user_wait, bootp_start, ping, In
<1>2. /\ Top.p = curproc /\ Top \in UserFrames
      /\ curproc # 0 => Top.pc \in {"run", "reap"}
      /\ curproc = 0 => /\ proc[0].sigact[SIGINT] = Caught(Top.pc)
                        /\ Caught(Top.pc) = "boot" => Top.old = "main"
                        /\ proc[0].sigmask = {} /\ proc[0].siglist = {}
  BY <1>1, UserFacts
<1>3. SIGINT \in Sigs /\ SIGALRM \in Sigs
  BY DEF Sigs
<1>4. CASE main_break
  <2> DEFINE f == [Top EXCEPT !.pc = "run"]
  <2>1. Top.pc = "break" /\ Call("signal", <<SIGINT, "main">>, FALSE, Replace(f))
    BY <1>4 DEF main_break, In, signal, To
  <2>2. f \in UserFrames /\ f.pc = "run" /\ f.p = Top.p
    BY <1>2 DEF UserFrames, UserPcs
  <2>3. curproc = 0 /\ Caught(f.pc) = "main"
    BY <2>1, <2>2, <1>2 DEF Caught
  <2>4. <<SIGINT, "main">> \in Args /\ <<SIGINT, "main">> \in Sigs \X Actions
    BY <1>3 DEF Args, Actions, Handlers
  <2> HIDE DEF f
  <2>5. QED
    BY <2>1, <2>2, <2>3, <2>4, <1>1, <1>2, UserCall DEF Calls
<1>5. CASE user_wait
  <2>1. \E c \in {"select", "recv"}, t \in BOOLEAN : Call(c, NoArg, t, stack)
    BY <1>5 DEF user_wait
  <2>2. PICK c \in {"select", "recv"}, t \in BOOLEAN : Call(c, NoArg, t, stack)
    BY <2>1
  <2>3. Top.pc \in {"run", "boot"}
    BY <1>5 DEF user_wait, In
  <2>4. QED
    BY <2>2, <2>3, <1>1, <1>2, UserCall DEF Calls, Args
<1>6. CASE bootp_start
  <2> DEFINE f == [Top EXCEPT !.pc = "setjmp", !.old = proc[curproc].sigact[SIGINT]]
  <2>1. Top.pc = "run" /\ curproc = 0 /\ Call("signal", <<SIGINT, "boot">>, FALSE, Replace(f))
    BY <1>2, <1>6 DEF bootp_start, In, signal
  <2>2. proc[curproc].sigact[SIGINT] = "main"
    BY <2>1, <1>2 DEF Caught
  <2>3. f \in UserFrames /\ f.pc = "setjmp" /\ f.p = Top.p /\ f.old = "main"
    BY <2>2, <1>2 DEF UserFrames, UserPcs, Actions, Handlers
  <2>4. Caught(f.pc) = "boot"
    BY <2>3 DEF Caught
  <2>5. <<SIGINT, "boot">> \in Args /\ <<SIGINT, "boot">> \in Sigs \X Actions
    BY <1>3 DEF Args, Actions, Handlers
  <2> HIDE DEF f
  <2>6. QED
    BY <2>1, <2>3, <2>4, <2>5, <1>1, <1>2, UserCall DEF Calls
<1>7. CASE ping
  <2>1. /\ Top.pc = "run" /\ curproc # 0
        /\ \/ \E s \in Sigs, h \in {"done", "again"} : signal(s, h, stack)
           \/ setitimer(stack)
    BY <1>2, <1>3, <1>7 DEF ping, In
  <2>2. ASSUME NEW s \in Sigs, NEW h \in {"done", "again"}, signal(s, h, stack)
        PROVE  IInv'
    <3>1. Call("signal", <<s, h>>, FALSE, stack)
      BY <2>2 DEF signal
    <3>2. <<s, h>> \in Args /\ <<s, h>> \in Sigs \X Actions /\ <<s, h>>[2] \notin Own
      BY DEF Args, Actions, Handlers, Own
    <3>3. QED
      BY <3>1, <3>2, <2>1, <1>1, <1>2, UserCall DEF Calls
  <2>3. ASSUME setitimer(stack)
        PROVE  IInv'
    <3>1. Call("alarm", NoArg, FALSE, stack)
      BY <2>3 DEF setitimer
    <3>2. QED
      BY <3>1, <2>1, <1>1, <1>2, UserCall DEF Calls, Args
  <2>4. QED
    BY <2>1, <2>2, <2>3
<1>8. QED
  BY <1>4, <1>5, <1>6, <1>7

(* The running user frame moves on, and the process with it. *)
LEMMA UserStep ==
  ASSUME IInv, Top.k = "user",
         NEW pc \in UserPcs, stack' = To(pc), pc # "reap",
         UNCHANGED <<nprocs, curproc, panic, alarmq, sleepq, sock>>,
         proc' = [proc EXCEPT ![curproc].stat = "SNOTKERN"],
         curproc # 0 => pc = "run",
         curproc = 0 => /\ pc \notin {"quit", "unmask"} =>
                            proc[0].sigmask = {} /\ proc[0].siglist = {}
                        /\ Caught(pc) = Caught(Top.pc)
  PROVE  IInv'
<1> DEFINE n == Len(stack)
           f == [Top EXCEPT !.pc = pc]
<1>1. TypeOK /\ Chain(stack) /\ Current /\ Sleeping /\ Monitor /\ MonitorStack(stack) /\ Others
      /\ panic = "no" /\ MonitorMask
  BY DEF IInv, NoPanic, Monitor
<1>2. /\ curproc \in Procs /\ proc \in [Procs -> PRec] /\ sock \in Socks /\ 0 \in Procs
      /\ proc[curproc] \in PRec /\ sleepq \subseteq Procs
      /\ alarmq \subseteq Procs /\ nprocs \in 1 .. NPROC /\ curproc = nprocs - 1
      /\ curproc \in Nat
  BY <1>1, TypeFacts
<1>3. /\ stack \in Seq(Frames) /\ n \in Nat /\ n > 0 /\ n \in 1 .. n /\ Top = stack[n]
      /\ n = 1 \/ n > 1
  BY <1>1, StackFacts
<1>4. /\ Top.p = curproc /\ Top \in UserFrames /\ Legal(Top) /\ ~Idle
      /\ curproc = 0 => /\ Len(stack) = 1 /\ Top = stack[1]
                        /\ Caught(Top.pc) = "boot" => Top.old = "main"
                        /\ proc[0].sigact[SIGINT] = Caught(Top.pc)
      /\ n = 1 => curproc = 0
      /\ n > 1 => On(stack[n - 1], Top)
  BY UserFacts
<1>5. /\ f \in UserFrames /\ f \in Frames /\ f.k = "user" /\ f.p = curproc /\ f.pc = pc
      /\ f.old = Top.old
  BY <1>4 DEF UserFrames, Frames
<1>6. Legal(f)
  BY <1>5 DEF Legal
<1>7. n > 1 => On(stack[n - 1], f)
  BY <1>4, <1>5 DEF On
<1>8. stack' = Replace(f)
  BY DEF To
<1> HIDE DEF f
<1>9. IsCut(stack', stack, n, f)
  BY <1>3, <1>5, <1>8, ReplaceIsCut DEF Replace
<1>10. Chain(stack')
  BY <1>1, <1>3, <1>4, <1>5, <1>6, <1>7, <1>9, CutChain
<1>11. MonitorStack(stack')
  BY <1>1, <1>3, <1>4, <1>5, <1>9, CutMonitor
<1>12. Top' = f /\ Len(stack') = n /\ (n > 1 => stack'[1] = stack[1]) /\ (n = 1 => stack'[1] = f)
  BY <1>3, <1>9 DEF IsCut, Top
<1>13. /\ proc' \in [Procs -> PRec]
       /\ \A p \in Procs : p # curproc => proc'[p] = proc[p]
       /\ proc'[curproc].stat = "SNOTKERN"
       /\ \A p \in Procs : /\ proc'[p].wchan = proc[p].wchan
                           /\ proc'[p].ssintr = proc[p].ssintr
                           /\ proc'[p].stimo = proc[p].stimo
                           /\ proc'[p].siglist = proc[p].siglist
                           /\ proc'[p].sigmask = proc[p].sigmask
                           /\ proc'[p].sigact = proc[p].sigact
  BY <1>2 DEF PRec, Stats
<1>14. Current'
  BY <1>1, <1>2, <1>5, <1>12, <1>13 DEF Current, Fit
<1>15. TypeOK'
  BY <1>2, <1>5, <1>10, <1>12, <1>13, TypeIntro
<1>16. Sleeping'
  BY <1>1, <1>2, <1>4, <1>5, <1>12, <1>13, AwakeStep
<1>17. Monitor'
  <2>1. CASE curproc = 0
    <3>1. stack'[1] = f /\ Top' = f
      BY <2>1, <1>4, <1>12
    <3>2. MonitorMask'
      BY <2>1, <3>1, <1>2, <1>5, <1>13 DEF MonitorMask
    <3>3. proc'[0].sigact[SIGINT] = Caught(stack'[1].pc)
      BY <2>1, <3>1, <1>2, <1>4, <1>5, <1>13
    <3>4. QED
      BY <3>2, <3>3, <1>1, <1>2, <1>11, <1>13 DEF Monitor
  <2>2. CASE curproc # 0
    <3>1. stack'[1] = stack[1] /\ Top' = f /\ proc'[0] = proc[0]
      BY <2>2, <1>2, <1>3, <1>4, <1>12, <1>13
    <3>2. MonitorMask'
      BY <2>2, <3>1, <1>1, <1>5 DEF MonitorMask
    <3>3. n = 2 => ~Setting(stack[2])
      BY <1>3 DEF Setting
    <3>4. QED
      BY <3>1, <3>2, <3>3, <1>1, <1>11, <1>13 DEF Monitor
  <2>3. QED
    BY <2>1, <2>2
<1>18. Others'
  BY <1>1, <1>13 DEF Others
<1>19. QED
  BY <1>1, <1>10, <1>14, <1>15, <1>16, <1>17, <1>18 DEF IInv, NoPanic

LEMMA BootpStep ==
  ASSUME IInv, bootp_step
  PROVE  IInv'
<1>1. Top.k = "user" /\ Top.pc \in {"setjmp", "boot", "quit", "unmask"}
  BY DEF bootp_step, In
<1>2. /\ Top.p = curproc /\ Top \in UserFrames /\ curproc = 0
      /\ Caught(Top.pc) = "boot" => Top.old = "main"
      /\ Top.pc \notin {"quit", "unmask"} => proc[0].sigmask = {} /\ proc[0].siglist = {}
  BY <1>1, UserFacts
<1>3. ASSUME NEW pc \in {"boot", "quit"}, Top.pc \in {"setjmp", "boot"}, stack' = To(pc),
             UNCHANGED <<proc, others, sleepq, sock>>
      PROVE  IInv'
  <2>1. proc[curproc].stat = "SNOTKERN" /\ proc \in [Procs -> PRec] /\ curproc \in Procs
    BY <1>1, <1>3, TypeFacts DEF IInv, Current, Fit
  <2>2. proc[curproc] = [proc[curproc] EXCEPT !.stat = "SNOTKERN"]
    BY <2>1 DEF PRec
  <2>3. proc' = [proc EXCEPT ![curproc].stat = "SNOTKERN"]
    BY <2>1, <2>2, <1>3
  <2>4. Caught(pc) = Caught(Top.pc)
    BY <1>3 DEF Caught
  <2>5. QED
    BY <2>3, <2>4, <1>1, <1>2, <1>3, UserStep DEF UserPcs, others, rest
<1>4. ASSUME Top.pc = "quit", signal(SIGINT, Top.old, To("unmask"))
      PROVE  IInv'
  <2> DEFINE f == [Top EXCEPT !.pc = "unmask"]
  <2>1. Top.old = "main"
    BY <1>2, <1>4 DEF Caught
  <2>2. Call("signal", <<SIGINT, "main">>, FALSE, Replace(f))
    BY <1>4, <2>1 DEF signal, To
  <2>3. f \in UserFrames /\ f.pc = "unmask" /\ f.p = Top.p
    BY <1>2 DEF UserFrames, UserPcs
  <2>4. Caught(f.pc) = "main"
    BY <2>3 DEF Caught
  <2>5. <<SIGINT, "main">> \in Args /\ <<SIGINT, "main">> \in Sigs \X Actions
    BY DEF Args, Actions, Handlers, Sigs
  <2> HIDE DEF f
  <2>6. QED
    BY <2>2, <2>3, <2>4, <2>5, <1>1, <1>2, <1>4, UserCall DEF Calls
<1>5. ASSUME Top.pc = "unmask", sigsetmask0(Replace([Top EXCEPT !.pc = "run", !.old = "DFL"]))
      PROVE  IInv'
  <2> DEFINE f == [Top EXCEPT !.pc = "run", !.old = "DFL"]
  <2>1. Call("mask0", NoArg, FALSE, Replace(f))
    BY <1>5 DEF sigsetmask0
  <2>2. f \in UserFrames /\ f.pc = "run" /\ f.p = Top.p
    BY <1>2 DEF UserFrames, UserPcs, Actions
  <2>3. Caught(f.pc) = Caught(Top.pc) /\ Caught(f.pc) # "boot"
    BY <2>2, <1>5 DEF Caught
  <2> HIDE DEF f
  <2>4. QED
    BY <2>1, <2>2, <2>3, <1>1, <1>2, <1>5, UserCall DEF Calls, Args
<1>6. \/ Top.pc = "setjmp" /\ stack' = To("boot") /\ UNCHANGED <<proc, others, sleepq, sock>>
      \/ Top.pc = "boot" /\ stack' = To("quit") /\ UNCHANGED <<proc, others, sleepq, sock>>
      \/ Top.pc = "quit" /\ signal(SIGINT, Top.old, To("unmask"))
      \/ Top.pc = "unmask" /\ sigsetmask0(Replace([Top EXCEPT !.pc = "run", !.old = "DFL"]))
  BY DEF bootp_step, In
<1>7. QED
  BY <1>3, <1>4, <1>5, <1>6

(* A process that is below the running one takes its signals when the one  *)
(* above it is gone.                                                       *)
LEMMA ReapStep ==
  ASSUME IInv, spawn_reap
  PROVE  IInv'
<1> DEFINE sig == CURSIG(proc, curproc)
<1>1. Top.k = "user" /\ Top.pc = "reap"
  BY DEF spawn_reap, In
<1>2. /\ Top.p = curproc /\ Top \in UserFrames
      /\ stack[1].pc = "setjmp" => Top.pc = "setjmp"
      /\ curproc = 0 => proc[0].sigmask = {}
  BY <1>1, UserFacts
<1>3. proc \in [Procs -> PRec] /\ curproc \in Procs /\ proc[curproc].siglist \subseteq Sigs
      /\ Monitor /\ proc[curproc] \in PRec
  BY TypeFacts DEF IInv, PRec
<1>4. /\ sig # 0 => sig \in Sigs /\ sig \in proc[curproc].siglist
      /\ sig = 0 => proc[curproc].siglist \subseteq proc[curproc].sigmask
  BY <1>3, CursigFacts
<1> HIDE DEF sig
<1>5. CASE sig # 0
  <2>1. psig(proc, stack, alarmq, curproc, sig)
    BY <1>2, <1>5 DEF spawn_reap, sig
  <2>2. Signalled(proc)
    BY <1>3 DEF Signalled
  <2>3. curproc = 0 => sig = SIGINT
    BY <1>3, <1>4, <1>5 DEF Monitor
  <2>4. QED
    BY <2>1, <2>2, <2>3, <1>1, <1>2, <1>4, <1>5, PsigStep
<1>6. CASE sig = 0
  <2>1. /\ proc' = [proc EXCEPT ![curproc].stat = "SNOTKERN"] /\ stack' = To("run")
        /\ UNCHANGED <<nprocs, curproc, panic, alarmq, sleepq, sock>>
    BY <1>2, <1>6 DEF spawn_reap, sig, others, rest
  <2>2. curproc = 0 => proc[0].sigmask = {} /\ proc[0].siglist = {}
    BY <1>2, <1>4, <1>6
  <2>3. Caught("run") = Caught(Top.pc)
    BY <1>1 DEF Caught
  <2>4. QED
    BY <2>1, <2>2, <2>3, <1>1, UserStep DEF UserPcs
<1>7. QED
  BY <1>5, <1>6

LEMMA UserExitStep ==
  ASSUME IInv, user_exit
  PROVE  IInv'
<1>1. Top.k = "user" /\ Top.p # 0 /\ exit1(proc, stack, alarmq, Top.p)
  BY DEF user_exit, In
<1>2. Top.p = curproc /\ ~Idle
  BY <1>1, UserFacts
<1>3. Signalled(proc)
  BY TypeFacts DEF IInv, Signalled
<1>4. QED
  BY <1>1, <1>2, <1>3, ExitStep

(* spawn finds a free slot, and nothing in it. *)
LEMMA SpawnStep ==
  ASSUME IInv, spawn
  PROVE  IInv'
<1> DEFINE n == Len(stack)
           son == nprocs
           g == UserFrame(son)
           acts == [s \in Sigs |-> IF proc[curproc].sigact[s] = "IGN" THEN "IGN" ELSE "DFL"]
           r == [proc[son] EXCEPT !.stat = "SNOTKERN", !.wchan = "none", !.siglist = {},
                                  !.sigmask = proc[curproc].sigmask, !.sigact = acts]
<1>1. TypeOK /\ Chain(stack) /\ Current /\ Sleeping /\ Monitor /\ MonitorStack(stack) /\ Others
      /\ panic = "no" /\ MonitorMask
  BY DEF IInv, NoPanic, Monitor
<1>2. /\ curproc \in Procs /\ proc \in [Procs -> PRec] /\ sock \in Socks /\ 0 \in Procs
      /\ proc[curproc] \in PRec /\ sleepq \subseteq Procs
      /\ alarmq \subseteq Procs /\ nprocs \in 1 .. NPROC /\ curproc = nprocs - 1
      /\ curproc \in Nat /\ NPROC \in Nat
  BY <1>1, TypeFacts
<1>3. Top.k = "user" /\ Top.pc = "run" /\ nprocs < NPROC
  BY DEF spawn, In
<1>4. /\ Top.p = curproc /\ Top \in UserFrames /\ ~Idle
      /\ curproc = 0 => /\ Len(stack) = 1 /\ Top = stack[1]
                        /\ proc[0].sigmask = {}
      /\ stack[1].pc # "setjmp"
  BY <1>3, UserFacts
<1>5. son \in Procs /\ son > curproc /\ son # curproc /\ son # 0 /\ son - 1 = curproc
      /\ son = curproc + 1 /\ nprocs + 1 \in 1 .. NPROC
  BY <1>2, <1>3 DEF Procs
<1>6. proc[son].stat = "SZOMB" /\ proc[son] \in PRec
  BY <1>1, <1>2, <1>5 DEF Current
<1>7. /\ proc' = [proc EXCEPT ![curproc].stat = "SRUN", ![son] = r]
      /\ nprocs' = nprocs + 1 /\ curproc' = son /\ stack' = Append(stack, g)
      /\ UNCHANGED <<sleepq, alarmq, sock, panic>>
  <2>1. /\ proc' = [proc EXCEPT ![curproc].stat = "SRUN",
                       ![son] = [@ EXCEPT !.stat = "SNOTKERN", !.wchan = "none", !.siglist = {},
                                          !.sigmask = proc[curproc].sigmask, !.sigact = acts]]
        /\ nprocs' = nprocs + 1 /\ curproc' = son /\ stack' = Append(stack, g)
        /\ UNCHANGED <<sleepq, alarmq, sock, panic>>
    BY <1>6 DEF spawn
  <2>2. QED
    BY <2>1, <1>2, <1>5
<1>8. /\ acts \in [Sigs -> Actions]
      /\ \A s \in Sigs : acts[s] \notin Own
  BY DEF Actions, Own
<1> HIDE DEF acts
<1>9. /\ r \in PRec /\ r.stat = "SNOTKERN" /\ r.wchan = "none" /\ r.sigact = acts
      /\ r.ssintr = proc[son].ssintr /\ r.stimo = proc[son].stimo
  BY <1>2, <1>6, <1>8 DEF PRec, Stats
<1> HIDE DEF r
<1>10. /\ proc' \in [Procs -> PRec]
       /\ \A p \in Procs : p # curproc /\ p # son => proc'[p] = proc[p]
       /\ proc'[son] = r
       /\ proc'[curproc].stat = "SRUN"
       /\ proc'[curproc].wchan = proc[curproc].wchan
       /\ proc'[curproc].ssintr = proc[curproc].ssintr
       /\ proc'[curproc].stimo = proc[curproc].stimo
       /\ proc'[curproc].siglist = proc[curproc].siglist
       /\ proc'[curproc].sigmask = proc[curproc].sigmask
       /\ proc'[curproc].sigact = proc[curproc].sigact
  BY <1>2, <1>5, <1>7, <1>9 DEF PRec, Stats
<1>11. g \in UserFrames /\ g \in Frames /\ g.k = "user" /\ g.p = son /\ g.pc = "run" /\ Legal(g)
  <2>1. g \in UserFrames /\ g.k = "user" /\ g.p = son /\ g.pc = "run"
    BY <1>5 DEF UserFrame, UserFrames, UserPcs, Actions
  <2>2. QED
    BY <2>1 DEF Frames, Legal
<1> HIDE DEF g
<1>12. stack \in Seq(Frames) /\ n \in Nat /\ n > 0 /\ Top = stack[n]
  BY <1>1, StackFacts
<1>13. IsPush(stack', stack, g)
  BY <1>7, <1>11, <1>12, Pushes
<1>14. Chain(stack')
  <2>1. On(stack[n], g)
    BY <1>3, <1>4, <1>5, <1>11, <1>12 DEF On
  <2>2. n > 1 => Parked(stack[n - 1], stack[n])
    BY <1>3, <1>12 DEF Parked
  <2>3. QED
    BY <2>1, <2>2, <1>1, <1>11, <1>13, PushChain
<1>15. MonitorStack(stack')
  BY <1>1, <1>4, <1>11, <1>13, PushMonitor DEF Setting
<1>16. Top' = g /\ Len(stack') = n + 1 /\ stack'[1] = stack[1]
  BY <1>12, <1>13 DEF IsPush, Top
<1>17. Current'
  <2>1. ASSUME NEW p \in Procs, p < curproc'
        PROVE  proc'[p].stat = "SRUN"
    <3>1. CASE p = curproc
      BY <3>1, <1>10
    <3>2. CASE p # curproc
      <4>1. p < curproc /\ p # son
        BY <3>2, <2>1, <1>2, <1>5, <1>7 DEF Procs
      <4>2. QED
        BY <3>2, <4>1, <1>1, <1>10 DEF Current
    <3>3. QED
      BY <3>1, <3>2
  <2>2. ASSUME NEW p \in Procs, p > curproc'
        PROVE  proc'[p].stat = "SZOMB" /\ proc'[p].siglist = {}
    <3>1. p > curproc /\ p # son /\ p # curproc
      BY <2>2, <1>2, <1>5, <1>7 DEF Procs
    <3>2. QED
      BY <3>1, <1>1, <1>10 DEF Current
  <2>3. alarmq' \subseteq 0 .. curproc'
    BY <1>1, <1>2, <1>5, <1>7 DEF Current
  <2>4. Fit(g, r.stat)
    BY <1>9, <1>11 DEF Fit
  <2>5. QED
    BY <2>1, <2>2, <2>3, <2>4, <1>7, <1>10, <1>11, <1>16 DEF Current
<1>18. TypeOK'
  <2>1. Top'.p = curproc' /\ curproc' = nprocs' - 1 /\ nprocs' \in 1 .. NPROC
    BY <1>2, <1>5, <1>7, <1>11, <1>16
  <2>2. QED
    BY <2>1, <1>2, <1>7, <1>10, <1>14, TypeIntro
<1>19. Sleeping'
  <2>1. proc[son].wchan = "none"
    BY <1>1, <1>5 DEF Sleeping
  <2>2. \A p \in Procs : /\ proc'[p].wchan = proc[p].wchan
                         /\ proc'[p].ssintr = proc[p].ssintr
                         /\ proc'[p].stimo = proc[p].stimo
    BY <2>1, <1>9, <1>10
  <2>3. QED
    BY <2>2, <1>1, <1>4, <1>5, <1>7, <1>11, <1>16, AwakeStep
<1>20. Monitor'
  <2>1. /\ proc'[0].sigmask = proc[0].sigmask /\ proc'[0].siglist = proc[0].siglist
        /\ proc'[0].sigact = proc[0].sigact
    BY <1>2, <1>5, <1>10
  <2>2. MonitorMask'
    BY <2>1, <1>1, <1>4, <1>5, <1>7, <1>11, <1>16 DEF MonitorMask
  <2>3. n = 2 => ~Setting(stack[2])
    BY <1>3, <1>12 DEF Setting
  <2>4. QED
    BY <2>1, <2>2, <2>3, <1>1, <1>7, <1>15, <1>16 DEF Monitor
<1>21. Others'
  <2>1. ASSUME NEW p \in Procs \ {0}, NEW s \in Sigs
        PROVE  proc'[p].sigact[s] \notin Own
    <3>1. CASE p = son
      BY <3>1, <1>8, <1>9, <1>10
    <3>2. CASE p # son
      BY <3>2, <1>1, <1>10 DEF Others
    <3>3. QED
      BY <3>1, <3>2
  <2>2. QED
    BY <2>1 DEF Others
<1>22. QED
  BY <1>1, <1>7, <1>14, <1>17, <1>18, <1>19, <1>20, <1>21 DEF IInv, NoPanic

-----------------------------------------------------------------------------
(* What a poll finds.                                                      *)

(* A step that leaves the stack alone: only signals, P_SELECT and what     *)
(* belongs to a sleep may change.                                          *)
LEMMA OutsideStep ==
  ASSUME IInv, UNCHANGED <<nprocs, curproc, stack, panic>>,
         alarmq' \subseteq alarmq, sleepq' \subseteq sleepq, sock' \in Socks,
         proc' \in [Procs -> PRec],
         \A p \in Procs : /\ proc'[p].sigmask = proc[p].sigmask
                          /\ proc'[p].sigact = proc[p].sigact
                          /\ p # curproc => proc'[p].stat = proc[p].stat
                          /\ p > curproc => proc'[p].siglist = proc[p].siglist,
         \/ proc'[curproc].stat = proc[curproc].stat
         \/ Top.k = "sys" /\ proc'[curproc].stat \in {"SRUN", "SSLEEP"},
         \/ proc'[0].siglist = proc[0].siglist
         \/ /\ proc'[0].siglist \subseteq proc[0].siglist \cup {SIGINT}
            /\ stack[1].pc # "setjmp"
            /\ ~(Top.k = "user" /\ stack[1].pc \notin {"quit", "unmask", "reap"})
            /\ ~(Top.k = "hand" /\ Top.pc = "jump"),
         Sleeping'
  PROVE  IInv'
<1>1. TypeOK /\ Chain(stack) /\ Current /\ Monitor /\ MonitorStack(stack) /\ Others
      /\ panic = "no" /\ MonitorMask
  BY DEF IInv, NoPanic, Monitor
<1>2. /\ curproc \in Procs /\ 0 \in Procs /\ sleepq \subseteq Procs /\ alarmq \subseteq Procs
      /\ nprocs \in 1 .. NPROC /\ curproc = nprocs - 1 /\ curproc \in Nat
  BY <1>1, TypeFacts
<1>3. Top' = Top /\ Chain(stack') /\ MonitorStack(stack')
  BY <1>1 DEF Top
<1>4. Current'
  <2>1. IF Top.k = "hand" /\ Top.pc = "enter"
        THEN Fit(stack[Len(stack) - 1], proc'[curproc].stat)
        ELSE Fit(Top, proc'[curproc].stat)
    BY <1>1 DEF Current, Fit
  <2>2. \A p \in Procs : p < curproc \/ p > curproc => p # curproc
    BY <1>2 DEF Procs
  <2>3. QED
    BY <2>1, <2>2, <1>1, <1>3 DEF Current
<1>5. TypeOK'
  <2>1. Top'.p = curproc' /\ alarmq' \subseteq Procs /\ sleepq' \subseteq Procs
    BY <1>1, <1>2, <1>3 DEF Current
  <2>2. QED
    BY <2>1, <1>2, <1>3, TypeIntro
<1>6. MonitorMask'
  BY <1>1, <1>2, <1>3 DEF MonitorMask
<1>7. Monitor'
  BY <1>1, <1>2, <1>3, <1>6 DEF Monitor
<1>8. Others'
  BY <1>1 DEF Others
<1>9. QED
  BY <1>1, <1>3, <1>4, <1>5, <1>7, <1>8 DEF IInv, NoPanic

LEMMA PsignalStep ==
  ASSUME IInv, CanPoll, NEW q \in Procs, NEW s \in Sigs, NEW aq, aq \subseteq alarmq,
         q = 0 => curproc = 0 /\ s = SIGINT,
         psignal(aq, q, s)
  PROVE  IInv'
<1> DEFINE r == [proc[q] EXCEPT !.siglist = @ \cup {s}]
           pr == [proc EXCEPT ![q].siglist = @ \cup {s}]
           open == s \notin proc[q].sigmask
<1>1. TypeOK /\ Chain(stack) /\ Current /\ Sleeping /\ Monitor /\ MonitorStack(stack)
      /\ MonitorMask
  BY DEF IInv, Monitor
<1>2. /\ curproc \in Procs /\ proc \in [Procs -> PRec] /\ sock \in Socks /\ 0 \in Procs
      /\ proc[q] \in PRec /\ sleepq \subseteq Procs /\ curproc \in Nat
  BY <1>1, TypeFacts
<1>3. Top.p = curproc /\ Legal(Top) /\ Top.k \in {"user", "sys", "hand"}
      /\ Top = stack[Len(stack)]
  BY <1>1, StackFacts DEF Current
<1>4. /\ Top.k = "sys" => Top.pc \in {"window", "idle", "after"}
      /\ Top.pc # "setjmp"
  BY DEF CanPoll
<1>5. stack[1].pc # "setjmp"
  <2>1. ASSUME stack[1].pc = "setjmp"
        PROVE  FALSE
    <3>1. CASE Top.k = "user"
      BY <3>1, <2>1, <1>4, UserFacts
    <3>2. CASE Top.k # "user"
      <4>1. Setting(Top)
        <5>1. Len(stack) > 1
          BY <3>2, <1>1, StackFacts
        <5>2. \A m \in Nat : m > 1 => ~(m = 1)
          OBVIOUS
        <5>3. ~(Len(stack) = 1)
          BY <5>1, <5>2, <1>1, StackFacts
        <5>4. QED
          BY <5>3, <2>1, <1>1, <1>3 DEF MonitorStack
      <4>2. QED
        BY <4>1, <1>3, <1>4 DEF Setting, Legal
    <3>3. QED
      BY <3>1, <3>2
  <2>2. QED
    BY <2>1
<1>6. /\ r \in PRec /\ r.siglist = proc[q].siglist \cup {s} /\ r.stat = proc[q].stat
      /\ r.wchan = proc[q].wchan /\ r.ssintr = proc[q].ssintr /\ r.stimo = proc[q].stimo
      /\ r.sigmask = proc[q].sigmask /\ r.sigact = proc[q].sigact
      /\ r.select = proc[q].select
  BY <1>2 DEF PRec
<1>7. pr = [proc EXCEPT ![q] = r]
  BY <1>2
<1> HIDE DEF r, pr
<1>8. pr \in [Procs -> PRec] /\ pr[q] = r /\ \A p \in Procs : p # q => pr[p] = proc[p]
  BY <1>2, <1>6, <1>7
<1> DEFINE taken == /\ proc[q].stat # "SZOMB" /\ proc[q].sigact[s] # "IGN"
                    /\ open /\ proc[q].stat = "SNOTKERN" /\ q = curproc
<1>9. CASE taken
  <2>1. psig(pr, stack, aq, curproc, s)
    BY <1>9 DEF psignal, pr
  <2>2. Signalled(pr)
    BY <1>2, <1>6, <1>8, <1>9 DEF Signalled
  <2>3. pr[curproc].siglist = proc[curproc].siglist \cup {s}
        /\ pr[curproc].sigmask = proc[curproc].sigmask
    BY <1>6, <1>8, <1>9
  <2>4. Top.k # "sys"
    BY <1>1, <1>9 DEF Current, Fit
  <2>5. QED
    BY <2>1, <2>2, <2>3, <2>4, <1>5, <1>9, PsigStep
<1>10. CASE ~taken
  <2>1. /\ proc' = IF proc[q].stat = "SZOMB" \/ proc[q].sigact[s] = "IGN"
                   THEN proc
                   ELSE IF open /\ proc[q].stat = "SSLEEP" /\ proc[q].ssintr
                   THEN setrunnable(pr, q)
                   ELSE pr
        /\ alarmq' = aq
        /\ UNCHANGED <<stack, nprocs, curproc, panic, sleepq, sock>>
    BY <1>10 DEF psignal, pr, rest
  <2>2. Top' = Top /\ (Idle' <=> Idle)
    BY <2>1 DEF Top, Idle
  <2>3. CASE proc' = proc
    <3>1. Sleeping'
      BY <2>1, <2>2, <2>3, <1>1 DEF Sleeping
    <3>2. QED
      BY <3>1, <2>1, <2>3, <1>2, OutsideStep
  <2>4. CASE proc[q].stat # "SZOMB" /\ proc[q].sigact[s] # "IGN"
    <3>1. q <= curproc
      BY <2>4, <1>1, <1>2 DEF Current, Procs
    <3>2. q = 0 => ~(Top.k = "user" /\ stack[1].pc \notin {"quit", "unmask", "reap"})
                   /\ ~(Top.k = "hand" /\ Top.pc = "jump")
      <4>1. ASSUME q = 0, proc[0].sigmask = {}, proc[0].stat = "SNOTKERN"
            PROVE  FALSE
        BY <4>1, <2>4, <1>10
      <4>2. ASSUME q = 0, Top.k = "user", stack[1].pc \notin {"quit", "unmask", "reap"}
            PROVE  FALSE
        <5>1. curproc = 0 /\ Top = stack[1] /\ proc[0].sigmask = {}
          BY <4>2, UserFacts
        <5>2. proc[0].stat = "SNOTKERN"
          BY <4>2, <5>1, <1>1 DEF Current, Fit
        <5>3. QED
          BY <5>1, <5>2, <4>1, <4>2
      <4>3. ASSUME q = 0, Top.k = "hand", Top.pc = "jump"
            PROVE  FALSE
        <5>1. proc[0].sigmask = {} /\ curproc = 0
          BY <4>3, <1>1 DEF MonitorMask
        <5>2. proc[0].stat = "SNOTKERN"
          BY <4>3, <5>1, <1>1 DEF Current, Fit
        <5>3. QED
          BY <5>1, <5>2, <4>1, <4>3
      <4>4. QED
        BY <4>2, <4>3
    <3>3. CASE open /\ proc[q].stat = "SSLEEP" /\ proc[q].ssintr
      <4>1. q = curproc /\ Idle
        BY <3>3, <1>1 DEF Sleeping
      <4> DEFINE t == [r EXCEPT !.wchan = "none", !.stat = "SRUN"]
      <4>2. /\ t \in PRec /\ t.siglist = proc[q].siglist \cup {s} /\ t.stat = "SRUN"
            /\ t.wchan = "none" /\ t.stimo = proc[q].stimo
            /\ t.sigmask = proc[q].sigmask /\ t.sigact = proc[q].sigact
            /\ t.select = proc[q].select
        BY <1>6 DEF PRec, Stats
      <4>3. proc' = [pr EXCEPT ![q] = t]
        BY <2>1, <2>4, <3>3, <1>6, <1>8 DEF setrunnable, unsleep, PRec
      <4> HIDE DEF t
      <4>4. proc' \in [Procs -> PRec] /\ proc'[q] = t /\ \A p \in Procs : p # q => proc'[p] = proc[p]
        BY <4>2, <4>3, <1>8
      <4>5. Sleeping'
        BY <4>1, <4>2, <4>4, <2>1, <2>2, <1>1, <1>2 DEF Sleeping
      <4>6. \/ proc'[0].siglist = proc[0].siglist
            \/ proc'[0].siglist \subseteq proc[0].siglist \cup {SIGINT} /\ q = 0
        BY <4>2, <4>4, <1>2
      <4>7. curproc > curproc => FALSE
        BY <1>2
      <4>8. QED
        BY <4>1, <4>2, <4>4, <4>5, <4>6, <4>7, <3>2, <2>1, <1>2, <1>5, OutsideStep DEF Idle
    <3>4. CASE ~(open /\ proc[q].stat = "SSLEEP" /\ proc[q].ssintr)
      <4>1. proc' = pr
        BY <2>1, <2>4, <3>4
      <4>2. /\ \A p \in Procs : /\ proc'[p].sigmask = proc[p].sigmask
                                /\ proc'[p].sigact = proc[p].sigact
                                /\ proc'[p].stat = proc[p].stat
                                /\ proc'[p].wchan = proc[p].wchan
                                /\ proc'[p].ssintr = proc[p].ssintr
                                /\ proc'[p].stimo = proc[p].stimo
                                /\ proc'[p].select = proc[p].select
                                /\ p # q => proc'[p].siglist = proc[p].siglist
        BY <4>1, <1>6, <1>8
      <4>3. Sleeping'
        BY <4>2, <2>1, <2>2, <1>1, <1>2 DEF Sleeping
      <4>4. \/ proc'[0].siglist = proc[0].siglist
            \/ proc'[0].siglist \subseteq proc[0].siglist \cup {SIGINT} /\ q = 0
        BY <4>1, <1>2, <1>6, <1>8
      <4>5. \A p \in Procs : p > curproc => p # q
        BY <3>1, <1>2 DEF Procs
      <4>6. QED
        BY <4>1, <4>2, <4>3, <4>4, <4>5, <3>2, <2>1, <1>2, <1>5, <1>8, OutsideStep
    <3>5. QED
      BY <3>3, <3>4
  <2>5. QED
    BY <2>1, <2>3, <2>4
<1>11. QED
  BY <1>9, <1>10

(* A datagram wakes whoever waits for one, and undoes a select's look. *)
LEMMA DatagramStep ==
  ASSUME IInv, Datagram
  PROVE  IInv'
<1> DEFINE q == sock.selpid
           pr == IF q = Nobody THEN proc
                 ELSE IF proc[q].wchan = "selwait"
                 THEN IF proc[q].stat = "SSLEEP" THEN setrunnable(proc, q) ELSE unsleep(proc, q)
                 ELSE [proc EXCEPT ![q].select = FALSE]
<1>1. TypeOK /\ Chain(stack) /\ Current /\ Sleeping
  BY DEF IInv
<1>2. /\ curproc \in Procs /\ proc \in [Procs -> PRec] /\ sock \in Socks /\ 0 \in Procs
      /\ sleepq \subseteq Procs /\ curproc \in Nat /\ sock.cc \in Nat /\ MaxCC \in Nat
      /\ NPROC \in Nat
  BY <1>1, TypeFacts, ProcAssumption
<1>3. /\ sock' = [cc |-> sock.cc + 1, wait |-> FALSE, selpid |-> Nobody]
      /\ sock.cc < MaxCC
      /\ proc' = IF sock.wait /\ pr[curproc].wchan = "sb_cc" THEN unsleep(pr, curproc) ELSE pr
      /\ UNCHANGED <<stack, nprocs, curproc, panic, alarmq, sleepq>>
  BY DEF Datagram, others, rest
<1>4. sock' \in Socks
  BY <1>2, <1>3 DEF Socks
<1>5. q \in Procs \/ q = Nobody
  BY <1>2 DEF Socks
<1>6. /\ \A p \in Procs : proc[p].wchan # "none" => p = curproc /\ Idle
      /\ proc[curproc].wchan # "none" => Top.k = "sys" /\ proc[curproc].stat = "SSLEEP"
  <2>1. \A p \in Procs : proc[p].wchan # "none" => p = curproc /\ Idle
    BY <1>1 DEF Sleeping
  <2>2. Idle => Top.k = "sys"
    BY DEF Idle
  <2>3. proc[curproc].wchan # "none" => proc[curproc].stat = "SSLEEP"
    BY <1>1 DEF Sleeping
  <2>4. QED
    BY <2>1, <2>2, <2>3, <1>2
<1>7. /\ pr \in [Procs -> PRec]
      /\ \A p \in Procs : /\ pr[p].sigmask = proc[p].sigmask
                          /\ pr[p].sigact = proc[p].sigact
                          /\ pr[p].siglist = proc[p].siglist
                          /\ pr[p].ssintr = proc[p].ssintr
                          /\ pr[p].stimo = proc[p].stimo
                          /\ p # curproc => pr[p].stat = proc[p].stat
                          /\ p # curproc => pr[p].wchan = proc[p].wchan
      /\ \/ pr[curproc].stat = proc[curproc].stat
         \/ Top.k = "sys" /\ pr[curproc].stat = "SRUN"
      /\ proc[curproc].wchan = "selwait" => pr[curproc].wchan = "none"
      /\ proc[curproc].wchan # "selwait" => pr[curproc].wchan = proc[curproc].wchan
      /\ (q = curproc /\ proc[curproc].wchan = "none") => ~pr[curproc].select
      /\ q # curproc => pr[curproc].select = proc[curproc].select
      /\ pr[curproc].select => proc[curproc].select
  <2>1. CASE q = Nobody
    <3>1. pr = proc /\ q # curproc
      BY <2>1, <1>2 DEF Nobody
    <3>2. proc[curproc].wchan # "selwait"
      BY <3>1, <1>1 DEF Sleeping
    <3>3. QED
      BY <3>1, <3>2, <1>2
  <2>2. CASE q \in Procs /\ proc[q].wchan = "selwait"
    <3>1. q = curproc /\ proc[q].stat = "SSLEEP" /\ Top.k = "sys" /\ q # Nobody
      <4>1. q # Nobody
        BY <2>2 DEF Nobody, Procs
      <4>2. proc[q].wchan # "none"
        BY <2>2
      <4>3. QED
        BY <2>2, <4>1, <4>2, <1>6
    <3>2. pr = setrunnable(proc, curproc)
      BY <2>2, <3>1
    <3> DEFINE t == [proc[curproc] EXCEPT !.wchan = "none", !.stat = "SRUN"]
    <3>3. /\ t \in PRec /\ t.siglist = proc[q].siglist /\ t.stat = "SRUN"
          /\ t.wchan = "none" /\ t.stimo = proc[q].stimo /\ t.ssintr = proc[q].ssintr
          /\ t.sigmask = proc[q].sigmask /\ t.sigact = proc[q].sigact
          /\ t.select = proc[q].select
      BY <3>1, <1>2 DEF PRec, Stats
    <3>4. pr = [proc EXCEPT ![curproc] = t]
      BY <3>2, <1>2 DEF setrunnable, unsleep, PRec
    <3> HIDE DEF t, pr
    <3>5. pr \in [Procs -> PRec] /\ pr[curproc] = t /\ \A p \in Procs : p # curproc => pr[p] = proc[p]
      BY <3>3, <3>4, <1>2
    <3>6. QED
      BY <2>2, <3>1, <3>3, <3>5, <1>2
  <2>3. CASE q \in Procs /\ proc[q].wchan # "selwait"
    <3>1. q # Nobody
      BY <2>3 DEF Nobody, Procs
    <3>2. pr = [proc EXCEPT ![q].select = FALSE]
      BY <2>3, <3>1
    <3> DEFINE t == [proc[q] EXCEPT !.select = FALSE]
    <3>3. /\ t \in PRec /\ t.siglist = proc[q].siglist /\ t.stat = proc[q].stat
          /\ t.wchan = proc[q].wchan /\ t.stimo = proc[q].stimo /\ t.ssintr = proc[q].ssintr
          /\ t.sigmask = proc[q].sigmask /\ t.sigact = proc[q].sigact
          /\ ~t.select
      BY <2>3, <1>2 DEF PRec
    <3>4. pr = [proc EXCEPT ![q] = t]
      BY <3>2, <1>2
    <3> HIDE DEF t, pr
    <3>5. pr \in [Procs -> PRec] /\ pr[q] = t /\ \A p \in Procs : p # q => pr[p] = proc[p]
      BY <2>3, <3>3, <3>4, <1>2
    <3>6. proc[curproc].wchan # "selwait"
      BY <2>3, <1>1 DEF Sleeping
    <3>7. QED
      BY <2>3, <3>3, <3>5, <3>6, <1>2
  <2>4. QED
    BY <2>1, <2>2, <2>3, <1>5
<1> HIDE DEF pr
<1>8. /\ proc' \in [Procs -> PRec]
      /\ \A p \in Procs : /\ proc'[p].sigmask = proc[p].sigmask
                          /\ proc'[p].sigact = proc[p].sigact
                          /\ proc'[p].siglist = proc[p].siglist
                          /\ proc'[p].ssintr = proc[p].ssintr
                          /\ proc'[p].stimo = proc[p].stimo
                          /\ p # curproc => proc'[p].stat = proc[p].stat
                          /\ p # curproc => proc'[p].wchan = proc[p].wchan
      /\ proc'[curproc].stat = pr[curproc].stat
      /\ proc'[curproc].select = pr[curproc].select
      /\ proc'[curproc].wchan = "none"
  <2>1. CASE sock.wait /\ pr[curproc].wchan = "sb_cc"
    <3> DEFINE t == [pr[curproc] EXCEPT !.wchan = "none"]
    <3>1. /\ t \in PRec /\ t.siglist = pr[curproc].siglist /\ t.stat = pr[curproc].stat
          /\ t.wchan = "none" /\ t.stimo = pr[curproc].stimo /\ t.ssintr = pr[curproc].ssintr
          /\ t.sigmask = pr[curproc].sigmask /\ t.sigact = pr[curproc].sigact
          /\ t.select = pr[curproc].select
      BY <1>2, <1>7 DEF PRec
    <3>2. proc' = [pr EXCEPT ![curproc] = t]
      BY <2>1, <1>2, <1>3, <1>7 DEF unsleep
    <3> HIDE DEF t
    <3>3. proc' \in [Procs -> PRec] /\ proc'[curproc] = t
          /\ \A p \in Procs : p # curproc => proc'[p] = pr[p]
      BY <3>1, <3>2, <1>2, <1>7
    <3>4. QED
      BY <3>1, <3>3, <1>2, <1>7
  <2>2. CASE ~(sock.wait /\ pr[curproc].wchan = "sb_cc")
    <3>1. proc' = pr
      BY <2>2, <1>3
    <3>2. proc[curproc].wchan # "sb_cc"
      BY <2>2, <1>1, <1>7 DEF Sleeping
    <3>3. proc[curproc].wchan \in {"none", "sb_cc", "selwait"}
      BY <1>2 DEF PRec
    <3>4. pr[curproc].wchan = "none"
      BY <3>2, <3>3, <1>7
    <3>5. QED
      BY <3>1, <3>4, <1>7
  <2>3. QED
    BY <2>1, <2>2
<1>9. Top' = Top /\ (Idle' <=> Idle)
  BY <1>3 DEF Top, Idle
<1>10. ~(Top.k = "sys" /\ Top.pc = "window" /\ proc'[curproc].select)
  <2>1. ASSUME Top.k = "sys", Top.pc = "window", proc'[curproc].select
        PROVE  FALSE
    <3>1. proc[curproc].select
      BY <2>1, <1>7, <1>8
    <3>2. q = curproc
      BY <3>1, <2>1, <1>1 DEF Sleeping
    <3>3. ~Idle
      BY <2>1 DEF Idle
    <3>4. proc[curproc].wchan = "none"
      BY <3>3, <1>2, <1>6
    <3>5. QED
      BY <3>2, <3>4, <2>1, <1>7, <1>8
  <2>2. QED
    BY <2>1
<1>11. Sleeping'
  <2>1. \A p \in Procs :
            \/ proc'[p].wchan = "none" /\ ~proc'[p].ssintr /\ ~proc'[p].stimo /\ p \notin sleepq'
            \/ p = curproc' /\ Idle'
    BY <1>1, <1>3, <1>8, <1>9 DEF Sleeping
  <2>2. curproc' \in sleepq' => Top'.timo /\ ~proc'[curproc'].stimo
    BY <1>1, <1>2, <1>3, <1>8, <1>9 DEF Sleeping
  <2>3. QED
    BY <2>1, <2>2, <1>3, <1>8, <1>9, <1>10 DEF Sleeping
<1>12. \/ proc'[curproc].stat = proc[curproc].stat
       \/ Top.k = "sys" /\ proc'[curproc].stat \in {"SRUN", "SSLEEP"}
  BY <1>7, <1>8
<1>13. QED
  BY <1>2, <1>3, <1>4, <1>8, <1>11, <1>12, OutsideStep

(* The time-out of a sleep finds it as tsleep left it, or over. *)
LEMMA EndtsleepStep ==
  ASSUME IInv, NEW p \in Procs, endtsleep(p)
  PROVE  IInv'
<1>1. TypeOK /\ Chain(stack) /\ Current /\ Sleeping /\ panic = "no"
  BY DEF IInv, NoPanic
<1>2. /\ curproc \in Procs /\ proc \in [Procs -> PRec] /\ sock \in Socks /\ 0 \in Procs
      /\ proc[curproc] \in PRec /\ sleepq \subseteq Procs /\ curproc \in Nat
  BY <1>1, TypeFacts
<1>3. p \in sleepq /\ p = curproc /\ Idle
  BY <1>1 DEF endtsleep, Sleeping
<1>4. sleepq' = sleepq \ {curproc} /\ UNCHANGED <<nprocs, curproc, stack, alarmq, sock>>
  BY <1>3 DEF endtsleep
<1>5. Top' = Top /\ (Idle' <=> Idle) /\ Top.k = "sys" /\ Top.pc = "idle"
  BY <1>3, <1>4 DEF Top, Idle
<1>6. CASE proc[curproc].wchan = "none"
  <2>1. proc' = proc /\ panic' = panic
    BY <1>3, <1>6 DEF endtsleep
  <2>2. Sleeping'
    BY <2>1, <1>1, <1>3, <1>4, <1>5, <1>6 DEF Sleeping
  <2>3. QED
    BY <2>1, <2>2, <1>2, <1>4, OutsideStep
<1>7. CASE proc[curproc].wchan # "none"
  <2>1. proc[curproc].stat = "SSLEEP"
    BY <1>1, <1>7 DEF Sleeping
  <2>2. proc' = [setrunnable(proc, curproc) EXCEPT ![curproc].stimo = TRUE] /\ panic' = panic
    BY <2>1, <1>3, <1>7 DEF endtsleep
  <2> DEFINE t == [proc[curproc] EXCEPT !.wchan = "none", !.stat = "SRUN", !.stimo = TRUE]
  <2>3. /\ t \in PRec /\ t.siglist = proc[curproc].siglist /\ t.stat = "SRUN"
        /\ t.wchan = "none" /\ t.sigmask = proc[curproc].sigmask
        /\ t.sigact = proc[curproc].sigact
    BY <1>2 DEF PRec, Stats
  <2>4. proc' = [proc EXCEPT ![curproc] = t]
    BY <2>2, <1>2 DEF setrunnable, unsleep, PRec
  <2> HIDE DEF t
  <2>5. proc' \in [Procs -> PRec] /\ proc'[curproc] = t
        /\ \A q \in Procs : q # curproc => proc'[q] = proc[q]
    BY <2>3, <2>4, <1>2
  <2>6. Sleeping'
    BY <2>3, <2>5, <1>1, <1>2, <1>3, <1>4, <1>5 DEF Sleeping
  <2>7. \A q \in Procs : proc'[q].siglist = proc[q].siglist
                         /\ proc'[q].sigmask = proc[q].sigmask
                         /\ proc'[q].sigact = proc[q].sigact
    BY <2>3, <2>5
  <2>8. QED
    BY <2>2, <2>3, <2>5, <2>6, <2>7, <1>2, <1>4, <1>5, OutsideStep
<1>8. QED
  BY <1>6, <1>7

-----------------------------------------------------------------------------
(* The theorems.                                                           *)

LEMMA InitInvariant == Init => IInv
<1> SUFFICES ASSUME Init PROVE IInv
  OBVIOUS
<1> DEFINE u == UserFrame(0)
<1>1. 0 \in Procs /\ NPROC \in Nat /\ NPROC > 0 /\ MaxCC \in Nat
  BY ProcAssumption DEF Procs
<1>2. SIGINT \in Sigs /\ SIGALRM \in Sigs /\ SIGINT # SIGALRM
  BY DEF Sigs, SIGINT, SIGALRM
<1>3. /\ u \in UserFrames /\ u \in Frames /\ u.k = "user" /\ u.p = 0 /\ u.pc = "run"
  BY <1>1 DEF UserFrame, UserFrames, UserPcs, Frames, Actions
<1>4. stack = <<u>> /\ Len(stack) = 1 /\ stack[1] = u /\ Top = u
      /\ nprocs = 1 /\ curproc = 0 /\ sleepq = {} /\ alarmq = {} /\ panic = "no"
      /\ sock = [cc |-> 0, wait |-> FALSE, selpid |-> Nobody]
  BY DEF Init, Top
<1>5. Zombie \in PRec /\ Zombie.stat = "SZOMB" /\ Zombie.wchan = "none" /\ ~Zombie.ssintr
      /\ ~Zombie.stimo /\ Zombie.siglist = {} /\ Zombie.sigmask = {}
      /\ Zombie.sigact = [s \in Sigs |-> "DFL"]
  BY DEF Zombie, PRec, Stats, Actions
<1> DEFINE z == [Zombie EXCEPT !.stat = "SNOTKERN", !.sigact[SIGINT] = "main"]
           acts == [[s \in Sigs |-> "DFL"] EXCEPT ![SIGINT] = "main"]
<1>6. acts \in [Sigs -> Actions] /\ acts[SIGINT] = "main" /\ acts[SIGALRM] = "DFL"
  BY <1>2 DEF Actions, Handlers
<1>7. z = [Zombie EXCEPT !.stat = "SNOTKERN", !.sigact = acts]
  BY <1>5 DEF PRec
<1> HIDE DEF acts
<1>8. z \in PRec /\ z.stat = "SNOTKERN" /\ z.wchan = "none" /\ ~z.ssintr
      /\ ~z.stimo /\ z.siglist = {} /\ z.sigmask = {} /\ z.sigact = acts
  BY <1>5, <1>6, <1>7 DEF PRec, Stats
<1>9. /\ proc = [p \in Procs |-> IF p = 0 THEN z ELSE Zombie]
  BY DEF Init
<1> HIDE DEF z, u
<1>10. /\ proc \in [Procs -> PRec] /\ proc[0] = z
       /\ \A p \in Procs : p # 0 => proc[p] = Zombie
  BY <1>1, <1>5, <1>8, <1>9
<1>11. Chain(stack)
  <2>1. stack \in Seq(Frames)
    BY <1>3, <1>4
  <2>2. Legal(u)
    BY <1>3 DEF Legal
  <2>3. Spawned(stack, 1)
    BY <1>3, <1>4 DEF Spawned
  <2>4. QED
    BY <2>1, <2>2, <2>3, <1>3, <1>4 DEF Chain
<1>12. sock \in Socks
  BY <1>1, <1>4 DEF Socks
<1>13. TypeOK
  BY <1>1, <1>3, <1>4, <1>10, <1>12 DEF TypeOK, PRec, Stats, Socks
<1>14. Current
  <2>1. Fit(u, "SNOTKERN")
    BY <1>3 DEF Fit
  <2>2. \A p \in Procs : ~(p < 0) /\ (p > 0 => p # 0)
    BY <1>1 DEF Procs
  <2>3. QED
    BY <2>1, <2>2, <1>3, <1>4, <1>5, <1>8, <1>10 DEF Current
<1>15. Sleeping
  BY <1>1, <1>3, <1>4, <1>5, <1>8, <1>10 DEF Sleeping
<1>16. Monitor
  <2>1. Caught(u.pc) = "main"
    BY <1>3 DEF Caught
  <2>2. MonitorStack(stack)
    BY <2>1, <1>3, <1>4 DEF MonitorStack
  <2>3. MonitorMask
    BY <1>3, <1>4, <1>8, <1>10 DEF MonitorMask
  <2>4. QED
    BY <2>1, <2>2, <2>3, <1>4, <1>6, <1>8, <1>10 DEF Monitor, Own
<1>17. Others
  BY <1>5, <1>10 DEF Others, Own
<1>18. QED
  BY <1>4, <1>11, <1>13, <1>14, <1>15, <1>16, <1>17 DEF IInv, NoPanic

LEMMA NextInvariant == IInv /\ [Next]_vars => IInv'
<1> SUFFICES ASSUME IInv, [Next]_vars PROVE IInv'
  OBVIOUS
<1>1. CASE Thread
  BY <1>1, SimpleStep, ResumeStep, RecvStep, SelectStep, GensyscallStep, HandEnterStep,
     HandRunStep, HandReturnStep, UserCallStep, ReapStep DEF Thread
<1>2. CASE User
  BY <1>2, SpawnStep, UserCallStep, BootpStep, UserExitStep DEF User
<1>3. CASE Outside
  <2>1. /\ curproc \in Procs /\ SIGINT \in Sigs /\ SIGALRM \in Sigs /\ 0 \notin alarmq
    BY TypeFacts DEF IInv, Monitor, Sigs
  <2>2. CASE Interrupt
    BY <2>1, <2>2, PsignalStep DEF Interrupt
  <2>3. ASSUME NEW p \in Procs, realitexpire(p)
        PROVE  IInv'
    <3>1. p # 0 /\ CanPoll /\ psignal(alarmq \ {p}, p, SIGALRM)
      BY <2>1, <2>3 DEF realitexpire
    <3>2. QED
      BY <2>1, <3>1, PsignalStep
  <2>4. QED
    BY <1>3, <2>2, <2>3, DatagramStep, EndtsleepStep DEF Outside
<1>4. CASE UNCHANGED vars
  BY <1>4 DEF vars, IInv, TypeOK, NoPanic, Current, Sleeping, Monitor, MonitorMask, Others,
              Idle, Top
<1>5. QED
  BY <1>1, <1>2, <1>3, <1>4 DEF Next

(* The stack, the processes, the sleeps and the monitor's handlers stay as *)
(* the frames expect them, whatever is called and whatever arrives.        *)
THEOREM Invariance == Spec => []IInv
BY InitInvariant, NextInvariant, PTL DEF Spec

(* The variables keep their types, and the process that runs is the one    *)
(* last spawned, for any number of slots.                                  *)
THEOREM TypeCorrect == Spec => []TypeOK
<1>1. IInv => TypeOK
  BY DEF IInv
<1>2. QED
  BY <1>1, Invariance, PTL

(* None of the panics of sys/kern is reached, and no long jump goes to a   *)
(* procedure that has returned.                                            *)
THEOREM NoPanicCorrect == Spec => []NoPanic
<1>1. IInv => NoPanic
  BY DEF IInv
<1>2. QED
  BY <1>1, Invariance, PTL

(* A sleep that is over leaves no wait channel, flag or callout, and a     *)
(* process that has exited no alarm and no signal.                         *)
THEOREM NothingLeftBehindCorrect == Spec => []NothingLeftBehind
<1>1. IInv => NothingLeftBehind
  <2> SUFFICES ASSUME IInv PROVE NothingLeftBehind
    OBVIOUS
  <2>1. TypeOK /\ Chain(stack) /\ Current /\ Sleeping
    BY DEF IInv
  <2>2. /\ curproc \in Procs /\ curproc \in Nat /\ curproc = nprocs - 1 /\ nprocs \in 1 .. NPROC
        /\ NPROC \in Nat /\ sleepq \subseteq Procs
    BY <2>1, TypeFacts
  <2>3. Idle => Asleep(curproc)
    <3>1. Len(stack) \in DOMAIN stack /\ stack[Len(stack)] = Top /\ Top.p = curproc
      BY <2>1, StackFacts DEF Current
    <3>2. QED
      BY <3>1 DEF Idle, Asleep
  <2>4. SleepLeavesNothing
    BY <2>1, <2>2, <2>3 DEF SleepLeavesNothing, Sleeping
  <2>5. \A p \in Procs : p >= nprocs => p > curproc
    BY <2>2 DEF Procs
  <2>6. sleepq \subseteq {curproc}
    BY <2>1, <2>2 DEF Sleeping
  <2>7. ExitLeavesNothing
    BY <2>1, <2>2, <2>5, <2>6 DEF ExitLeavesNothing, Current
  <2>8. QED
    BY <2>4, <2>7 DEF NothingLeftBehind
<1>2. QED
  BY <1>1, Invariance, PTL

(* A process that still has its wait channel is the running one, and waits *)
(* for a socket that is empty.                                             *)
THEOREM NoLostWakeupCorrect == Spec => []NoLostWakeup
<1>1. IInv => NoLostWakeup
  BY DEF IInv, Sleeping, NoLostWakeup
<1>2. QED
  BY <1>1, Invariance, PTL

(* At the monitor's prompt SIGINT is neither blocked nor pending, and goes *)
(* to main's handler.                                                      *)
THEOREM PromptInterruptibleCorrect == Spec => []PromptInterruptible
<1>1. IInv => PromptInterruptible
  <2> SUFFICES ASSUME IInv, Len(stack) = 1, Top.pc = "run"
               PROVE  /\ SIGINT \notin proc[0].sigmask \cup proc[0].siglist
                      /\ proc[0].sigact[SIGINT] = "main"
    BY DEF PromptInterruptible
  <2>1. Top = stack[1] /\ Top.k = "user" /\ curproc = 0
    BY StackFacts, BottomFacts DEF IInv, Current
  <2>2. QED
    BY <2>1, UserFacts DEF Caught
<1>2. QED
  BY <1>1, Invariance, PTL
=============================================================================
