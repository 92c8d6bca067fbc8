------------------------------ MODULE Debugger ------------------------------
(***************************************************************************)
(* The PMON breakpoint debugger: the breakpoint table and the break        *)
(* instructions it plants in client memory (pmon/common/debugger.c), the   *)
(* exception handler that takes them out again (pmon/common/exception.c)   *)
(* and the shell commands b, db, c, g, t, to, boot and load that drive     *)
(* both.                                                                   *)
(*                                                                         *)
(* One actor, the CPU, alternates between the monitor at its prompt and    *)
(* the client program.  What makes it hard is that the state survives      *)
(* every way of leaving the client (breakpoint, single step, foreign       *)
(* exception, return, ^C at the prompt), and each of these ways restores a *)
(* different part of client memory.                                        *)
(*                                                                         *)
(* Addresses count instruction words; NO_BPT is 0 as in include/pmon.h.    *)
(* A word is a record: its operation, the target of a branch, the value of *)
(* the link register (for jr) and an id that keeps different words apart.  *)
(* An "ri" word is an instruction this CPU does not have, which may be one *)
(* that the monitor emulates.                                              *)
(***************************************************************************)
EXTENDS Naturals

CONSTANTS
  N,           \* client text is the words 1..N (arithmetic wraps, as in 2^32)
  MAX_BPT,     \* slots of the Bpt table (32 in include/pmon.h)
  Text,        \* the loaded program: a word for every address
  Rom,         \* jump targets that md_is_writeable rejects
  UserBpts,    \* addresses a user gives to b
  UserTmps,    \* addresses a user gives to c and g -b
  Entries,     \* addresses a user gives to g -e
  CmdStrs,     \* command strings a user gives to b -s: "show" or "c"
  TraceArgs,   \* argument lists of t and to: [over, cnt, multi, cond]
  Cuts,        \* words written when a download breaks off
  StepCap      \* bound of the step counters the properties read

NO_BPT == 0
Addr   == 1 .. N
Slots  == 0 .. MAX_BPT - 1

Branches == {"cond", "jump", "call", "jr"}
Word     == [op : {"seq", "exit", "ri"} \cup Branches, to : Addr, link : Addr, id : Nat]
BPT_CODE == [op |-> "break", to |-> 1, link |-> 1, id |-> 0]
ZeroWord == [op |-> "seq", to |-> 1, link |-> 1, id |-> 0]

TRACE_NO == "NO"
TRACE_TB == "TB"
TRACE_TG == "TG"
TRACE_GB == "GB"
TRACE_TN == "TN"
TraceModes == {TRACE_NO, TRACE_TB, TRACE_TG, TRACE_GB, TRACE_TN}

(* A breakpoint set by b -s owns a malloc'ed string; "none" is a null      *)
(* cmdstr.  brkcmd, the command of every other stop, only displays: its    *)
(* default is "l @pc 1".                                                   *)
NoStr  == "none"
brkcmd == "show"

ASSUME SizeAssumption ==
  /\ N \in Nat /\ N >= 3
  /\ MAX_BPT \in Nat \ {0}
  /\ StepCap \in Nat \ {0}

ASSUME TextAssumption ==
  /\ Text \in [Addr -> Word]
  /\ Rom \subseteq Addr

(* No branch goes to its own delay slot, no routine returns to the jump     *)
(* that leaves it, and no jump within the ROM is to itself.                *)
ASSUME FlowAssumption ==
  \A a \in Addr : Text[a].op \in Branches =>
    LET slot == IF a = N THEN 1 ELSE a + 1
    IN  /\ Text[a].to # slot
        /\ Text[a].op = "jr" => Text[a].link \notin {a, slot}
        /\ Text[a].op = "jr" /\ Text[a].to = a => a \notin Rom

ASSUME InputAssumption ==
  /\ UserBpts \subseteq Addr \cup {NO_BPT}
  /\ UserTmps \subseteq Addr
  /\ Cuts \subseteq 0 .. N
  /\ Entries \subseteq Addr
  /\ CmdStrs \subseteq {"show", "c"}
  /\ TraceArgs \subseteq [over : BOOLEAN, cnt : Nat, multi : BOOLEAN, cond : BOOLEAN]
  /\ \A t \in TraceArgs : t.cnt # 0 \/ t.cond => t.multi

VARIABLES
  Bpt,         \* [Slots -> [addr, value, cmdstr, live]]; live: cmdstr is allocated
  BptTmp,      \* temporary breakpoint of c and g -b
  BptTrc,      \* trace breakpoint behind the traced instruction
  BptTrcb,     \* trace breakpoint at the target of a traced branch
  mem,         \* client memory
  pc,          \* saved client pc while at the prompt, cpu pc while it runs
  trace_mode,
  trace_count,
  trace_over,
  armed,       \* the last t gave a stop condition (-i, -m, -M, -r, -R)
  phase,       \* "prompt", "client", "stopcmd" or "hung"
  stopcmd,     \* the command string pmon_stop is running
  steps,       \* instructions executed since the user resumed the client
  ran,         \* instructions executed since the last _go()
  want,        \* count of the last t, 0 when there was none
  suspect      \* the client returned, faulted while it was traced, or had an
               \* instruction emulated while breakpoints were planted, and has
               \* not been loaded again

vars == <<Bpt, BptTmp, BptTrc, BptTrcb, mem, pc, trace_mode, trace_count,
          trace_over, armed, phase, stopcmd, steps, ran, want, suspect>>

ghosts  == <<steps, ran, want, suspect>>
tracing == <<trace_count, trace_over, armed>>

Rec == [addr : Addr \cup {NO_BPT}, value : Word \cup {BPT_CODE}]

TypeOK ==
  /\ Bpt \in [Slots -> [addr : Addr \cup {NO_BPT}, value : Word \cup {BPT_CODE},
                        cmdstr : {NoStr, "show", "c"}, live : BOOLEAN]]
  /\ BptTmp \in Rec /\ BptTrc \in Rec /\ BptTrcb \in Rec
  /\ mem \in [Addr -> Word \cup {BPT_CODE}]
  /\ pc \in Addr
  /\ trace_mode \in TraceModes
  /\ trace_count \in Nat /\ trace_over \in BOOLEAN /\ armed \in BOOLEAN
  /\ phase \in {"prompt", "client", "stopcmd", "hung"}
  /\ stopcmd \in {"show", "c"}
  /\ steps \in 0 .. StepCap /\ ran \in 0 .. StepCap /\ want \in Nat
  /\ suspect \in BOOLEAN

EmptySlot == [addr |-> NO_BPT, value |-> ZeroWord, cmdstr |-> NoStr, live |-> FALSE]
NoRec     == [addr |-> NO_BPT, value |-> ZeroWord]

Init ==
  /\ Bpt = [i \in Slots |-> EmptySlot]
  /\ BptTmp = NoRec /\ BptTrc = NoRec /\ BptTrcb = NoRec
  /\ mem = Text
  /\ pc = 1
  /\ trace_mode = TRACE_NO
  /\ trace_count = 0 /\ trace_over = FALSE /\ armed = FALSE
  /\ phase = "prompt"
  /\ stopcmd = brkcmd
  /\ steps = 0 /\ ran = 0 /\ want = 0
  /\ suspect = FALSE

-----------------------------------------------------------------------------
(* Memory and table helpers.                                               *)

Plus(a, k) == IF a + k > N THEN a + k - N ELSE a + k

md_is_branch(w) == w.op \in Branches

BptAddrs(b) == {b[i].addr : i \in Slots} \ {NO_BPT}

(* The slot whose value is the last one stored at address a by a loop over *)
(* the table.                                                              *)
SlotAt(b, a) == CHOOSE i \in Slots : b[i].addr = a

(* Mutant: only the temporary breakpoint is looked at.                      *)
is_break_point_tmp(b, tmp, a) == a = tmp.addr

is_break_point(b, tmp, a) == a \in BptAddrs(b) \/ a = tmp.addr

(* Store value back at the breakpoint's address, if a break is there.      *)
PutBack(m, r) ==
  IF r.addr # NO_BPT /\ m[r.addr] = BPT_CODE THEN [m EXCEPT ![r.addr] = r.value] ELSE m

(* The same for every slot of the table.                                   *)
PutBackTable(m, b) ==
  [a \in Addr |-> IF a \in BptAddrs(b) /\ m[a] = BPT_CODE THEN b[SlotAt(b, a)].value
                                                          ELSE m[a]]

(* exception() restores the table without looking at memory.               *)
RestoreTable(m, b) ==
  [a \in Addr |-> IF a \in BptAddrs(b) THEN b[SlotAt(b, a)].value ELSE m[a]]

Plant(m, S) == [a \in Addr |-> IF a \in S THEN BPT_CODE ELSE m[a]]

(* Record r after its address became a and, unless NO_BPT, was planted     *)
(* over the word of m.                                                     *)
Planted(m, r, a) == [addr |-> a, value |-> IF a = NO_BPT THEN r.value ELSE m[a]]

(* remove_trace_breakpoint on memory m; both records are emptied.          *)
RemoveTrace(m) == PutBack(PutBack(m, BptTrc), BptTrcb)

(* Mutant: the table is forgotten.                                         *)
rm_bpts_notable(m) == RemoveTrace(PutBack(m, BptTmp))

rm_bpts(m) == RemoveTrace(PutBackTable(PutBack(m, BptTmp), Bpt))

(* Mutant: a return into the ROM is planted like any other jump.           *)
setTrcbp_norom(m, adr, stepover) ==
  LET w      == m[adr]
      target == IF w.to = adr THEN Plus(adr, 2) ELSE w.to
  IN  IF ~md_is_branch(w) THEN [trc |-> Plus(adr, 1), trcb |-> NO_BPT]
      ELSE IF w.op = "call" /\ stepover THEN [trc |-> Plus(adr, 2), trcb |-> NO_BPT]
      ELSE [trc  |-> IF w.op = "cond" /\ target # Plus(adr, 2)
                       THEN Plus(adr, 2) ELSE NO_BPT,
            trcb |-> target]

(* Where the instruction at adr can continue, as setTrcbp computes it.     *)
setTrcbp(m, adr, stepover) ==
  LET w      == m[adr]
      target == IF w.to = adr THEN Plus(adr, 2) ELSE w.to
  IN  IF ~md_is_branch(w) THEN [trc |-> Plus(adr, 1), trcb |-> NO_BPT]
      ELSE IF w.op = "call" /\ stepover THEN [trc |-> Plus(adr, 2), trcb |-> NO_BPT]
      ELSE IF w.op = "jr" /\ target \in Rom THEN [trc |-> w.link, trcb |-> NO_BPT]
      ELSE [trc  |-> IF w.op = "cond" /\ target # Plus(adr, 2)
                       THEN Plus(adr, 2) ELSE NO_BPT,
            trcb |-> target]

(* store_trace_breakpoint for the addresses t.trc and t.trcb.              *)
store_trace_breakpoint(m, t) ==
  LET m1 == Plant(m, {t.trc})
  IN  /\ BptTrc' = Planted(m, NoRec, t.trc)
      /\ BptTrcb' = Planted(m1, NoRec, t.trcb)
      /\ mem' = Plant(m1, {t.trcb})

(* Mutant: a temporary breakpoint is planted over one of the table.        *)
store_breakpoint_clash(m, b, tmp, t) ==
  LET m1 == Plant(m, BptAddrs(b))
  IN  /\ Bpt' = [i \in Slots |->
                   [b[i] EXCEPT !.value = IF b[i].addr = NO_BPT THEN @ ELSE m[b[i].addr]]]
      /\ BptTmp' = Planted(m1, tmp, tmp.addr)
      /\ store_trace_breakpoint(Plant(m1, {tmp.addr}), t)

(* store_breakpoint: drop the temporary and trace breakpoints that clash,  *)
(* plant the table, the temporary one and then the trace ones.             *)
store_breakpoint(m, b, tmp, t) ==
  LET A     == BptAddrs(b)
      tmpA  == IF tmp.addr \in A THEN NO_BPT ELSE tmp.addr
      trcA  == IF t.trc \in A \cup {tmpA} THEN NO_BPT ELSE t.trc
      trcbA == IF t.trcb \in A \cup {tmpA, trcA} THEN NO_BPT ELSE t.trcb
      m1    == Plant(m, A)
  IN  /\ Bpt' = [i \in Slots |->
                   [b[i] EXCEPT !.value = IF b[i].addr = NO_BPT THEN @ ELSE m[b[i].addr]]]
      /\ BptTmp' = Planted(m1, tmp, tmpA)
      /\ store_trace_breakpoint(Plant(m1, {tmpA}), [trc |-> trcA, trcb |-> trcbA])

(* goclient with table b, temporary breakpoint tmp, trace addresses t,     *)
(* memory m and start address p.                                           *)
goclient(b, tmp, t, m, p) ==
  /\ IF is_break_point(b, tmp, p)
       THEN /\ trace_mode' = TRACE_TG
            /\ store_trace_breakpoint(m, setTrcbp(m, p, FALSE))
            /\ Bpt' = b /\ BptTmp' = tmp
       ELSE /\ trace_mode' = TRACE_GB
            /\ store_breakpoint(m, b, tmp, t)
  /\ pc' = p
  /\ phase' = "client"
  /\ steps' = 0 /\ ran' = 0

NoTrcAddrs == [trc |-> NO_BPT, trcb |-> NO_BPT]

-----------------------------------------------------------------------------
(* Shell commands.                                                         *)

(* free() of the strings of slots S.  A string that is already free fails  *)
(* the header check of free(), which prints "BUG:free error" and spins,    *)
(* unless the block has meanwhile been handed out again.                   *)
FreeBug(S) ==
  /\ phase = "prompt"
  /\ \E i \in S : Bpt[i].cmdstr # NoStr /\ ~Bpt[i].live
  /\ phase' = "hung"
  /\ UNCHANGED <<Bpt, BptTmp, BptTrc, BptTrcb, mem, pc, trace_mode, stopcmd>>
  /\ UNCHANGED <<tracing, ghosts>>

(* clrbpts: addr is cleared, cmdstr is freed but keeps its value.          *)
clrbpts == [i \in Slots |-> [Bpt[i] EXCEPT !.addr = NO_BPT, !.live = FALSE]]

(* b adr [-s str]: every slot with that address is emptied and its string  *)
(* freed, the last of them is used again; else the first empty slot is.    *)
(* adr 0 is NO_BPT and matches the empty slots.                            *)
SlotFor(adr) ==
  LET same == {i \in Slots : Bpt[i].addr = adr}
      free == {i \in Slots : Bpt[i].addr = NO_BPT}
  IN  IF same # {} THEN {i \in same : \A j \in same : j <= i}
                   ELSE {i \in free : \A j \in free : i <= j}

SetSlot(i, adr, str) ==
  [j \in Slots |->
     IF j = i THEN [addr |-> adr, value |-> Bpt[j].value,
                    cmdstr |-> str, live |-> str # NoStr]
     ELSE IF Bpt[j].addr = adr THEN [Bpt[j] EXCEPT !.addr = NO_BPT, !.live = FALSE]
     ELSE Bpt[j]]

cmd_setbp(adr, str) ==
  /\ phase = "prompt"
  /\ \E i \in SlotFor(adr) : Bpt' = SetSlot(i, adr, str)
  /\ UNCHANGED <<BptTmp, BptTrc, BptTrcb, mem, pc, trace_mode, phase, stopcmd>>
  /\ UNCHANGED <<tracing, ghosts>>

(* db numb                                                                 *)
cmd_clrbp(i) ==
  /\ phase = "prompt"
  /\ Bpt[i].addr # NO_BPT
  /\ Bpt' = [Bpt EXCEPT ![i] = [@ EXCEPT !.addr = NO_BPT, !.live = FALSE]]
  /\ UNCHANGED <<BptTmp, BptTrc, BptTrcb, mem, pc, trace_mode, phase, stopcmd>>
  /\ UNCHANGED <<tracing, ghosts>>

(* db *                                                                    *)
cmd_clrbp_all ==
  /\ phase = "prompt"
  /\ Bpt' = clrbpts
  /\ UNCHANGED <<BptTmp, BptTrc, BptTrcb, mem, pc, trace_mode, phase, stopcmd>>
  /\ UNCHANGED <<tracing, ghosts>>

(* A download makes memory trustworthy again, unless trace records are     *)
(* left over that the next boot would plant.                               *)
Reloaded == suspect /\ (BptTrc.addr # NO_BPT \/ BptTrcb.addr # NO_BPT)

(* load: dl_initialise clears the breakpoints unless -b, then the program  *)
(* is written to memory and becomes the next to start.                     *)
cmd_load(keep) ==
  /\ phase = "prompt"
  /\ Bpt' = IF keep THEN Bpt ELSE clrbpts
  /\ mem' = Text /\ pc' = 1
  /\ UNCHANGED <<BptTmp, BptTrc, BptTrcb, trace_mode, phase, stopcmd>>
  /\ UNCHANGED <<tracing, steps, ran, want>>
  /\ suspect' = Reloaded

(* load or boot, and the download breaks off: the breakpoints are cleared, *)
(* the first k words are written, the client is not started.               *)
cmd_load_fails(keep, k) ==
  /\ phase = "prompt"
  /\ Bpt' = IF keep THEN Bpt ELSE clrbpts
  /\ mem' = [a \in Addr |-> IF a <= k THEN Text[a] ELSE mem[a]]
  /\ UNCHANGED <<BptTmp, BptTrc, BptTrcb, pc, trace_mode, phase, stopcmd>>
  /\ UNCHANGED <<tracing, ghosts>>

(* boot: load and start in one command; no temporary breakpoint is reset.  *)
cmd_boot(keep) ==
  /\ phase = "prompt"
  /\ goclient(IF keep THEN Bpt ELSE clrbpts, BptTmp,
              [trc |-> BptTrc.addr, trcb |-> BptTrcb.addr], Text, 1)
  /\ want' = 0
  /\ UNCHANGED <<stopcmd, tracing>>
  /\ suspect' = Reloaded

(* c [bptadr], typed at the prompt or run by a breakpoint's command string *)
cmd_cont(adr) ==
  /\ phase = "prompt" \/ (phase = "stopcmd" /\ stopcmd = "c" /\ adr = NO_BPT)
  /\ goclient(Bpt, [BptTmp EXCEPT !.addr = adr], NoTrcAddrs, mem, pc)
  /\ want' = 0
  /\ UNCHANGED <<stopcmd, tracing, suspect>>

(* g [-b bptadr] [-e entry]                                                *)
cmd_go(adr, entry) ==
  /\ phase = "prompt"
  /\ goclient(Bpt, [BptTmp EXCEPT !.addr = adr], NoTrcAddrs, mem, entry)
  /\ want' = 0
  /\ UNCHANGED <<stopcmd, tracing, suspect>>

(* g or c with an argument that does not parse: the temporary breakpoint   *)
(* of an earlier -b has been taken, the client is not started.             *)
cmd_go_badarg(adr) ==
  /\ phase = "prompt"
  /\ BptTmp' = [BptTmp EXCEPT !.addr = adr]
  /\ BptTrc' = NoRec /\ BptTrcb' = NoRec
  /\ UNCHANGED <<Bpt, mem, pc, trace_mode, phase, stopcmd, tracing, ghosts>>

(* t / to: over tells them apart, cnt is 0 when no count was given; multi  *)
(* is set by a count or by one of the options -v, -i, -m, -r, which also   *)
(* reset the count; cond stands for the options that give a stop condition.*)
cmd_trace(t) ==
  /\ phase = "prompt"
  /\ store_trace_breakpoint(mem, setTrcbp(mem, pc, t.over))
  /\ trace_mode' = IF t.multi THEN TRACE_TN ELSE TRACE_TB
  /\ trace_count' = IF t.multi THEN t.cnt ELSE trace_count
  /\ trace_over' = t.over /\ armed' = t.cond
  /\ phase' = "client"
  /\ steps' = 0 /\ ran' = 0 /\ want' = t.cnt
  /\ UNCHANGED <<Bpt, BptTmp, pc, stopcmd, suspect>>

(* t with an argument that does not parse: the flags and the count given   *)
(* before it have been taken, the client is not started.                   *)
cmd_trace_badarg(t) ==
  /\ phase = "prompt"
  /\ trace_over' = t.over /\ armed' = t.cond
  /\ trace_count' = IF t.multi THEN t.cnt ELSE trace_count
  /\ UNCHANGED <<Bpt, BptTmp, BptTrc, BptTrcb, mem, pc, trace_mode, phase, stopcmd>>
  /\ UNCHANGED ghosts

(* ^C at the prompt: pmon_intr jumps back into main, which runs rm_bpts.   *)
pmon_intr ==
  /\ phase = "prompt"
  /\ mem' = rm_bpts(mem)
  /\ BptTrc' = NoRec /\ BptTrcb' = NoRec
  /\ UNCHANGED <<Bpt, BptTmp, pc, trace_mode, phase, stopcmd, tracing, ghosts>>

-----------------------------------------------------------------------------
(* The client and the exception handler.                                   *)

Tick(n) == IF n < StepCap THEN n + 1 ELSE n

(* The next instruction traps: it is a break, or the one in its delay slot *)
(* is (the saved pc is then the branch).                                   *)
Trapped ==
  \/ mem[pc] = BPT_CODE
  \/ md_is_branch(mem[pc]) /\ mem[Plus(pc, 1)] = BPT_CODE

(* The instruction at a, or the one in its delay slot, is not one the CPU  *)
(* has.                                                                    *)
Reserved(m, a) == m[a].op = "ri" \/ (md_is_branch(m[a]) /\ m[Plus(a, 1)].op = "ri")

(* The next instruction raises a reserved instruction exception.  do_ri    *)
(* emulates it on a copy of the registers that nobody copies back: the     *)
(* saved pc and registers stay as they were.                               *)
Unimplemented == Reserved(mem, pc)

(* Where execution of word w at pc continues.  A jump into the ROM comes   *)
(* back at the link address.                                               *)
Successors(w) ==
  CASE w.op = "cond" -> {w.to, Plus(pc, 2)}
    [] w.op \in {"jump", "call"} -> {w.to}
    [] w.op = "jr"   -> {IF w.to \in Rom THEN w.link ELSE w.to}
    [] OTHER -> {Plus(pc, 1)}

(* The client executes one instruction (a branch with its delay slot).  An *)
(* instruction that branches to itself is counted once.                    *)
ClientStep ==
  /\ phase = "client" /\ ~Trapped /\ ~Unimplemented /\ mem[pc].op # "exit"
  /\ pc' \in Successors(mem[pc])
  /\ IF pc' = pc THEN UNCHANGED <<steps, ran>>
     ELSE steps' = Tick(steps) /\ ran' = Tick(ran)
  /\ UNCHANGED <<Bpt, BptTmp, BptTrc, BptTrcb, mem, trace_mode, phase, stopcmd, want>>
  /\ UNCHANGED <<tracing, suspect>>

(* The client returns through _exit: go_return_jump lands in cmd_go, which *)
(* reports the value and goes back to the prompt.                          *)
ClientReturn ==
  /\ phase = "client" /\ ~Trapped /\ mem[pc].op = "exit"
  /\ phase' = "prompt"
  /\ UNCHANGED <<Bpt, BptTmp, BptTrc, BptTrcb, mem, pc, trace_mode, stopcmd>>
  /\ UNCHANGED tracing
  /\ suspect' = TRUE
  /\ steps' = 0 /\ ran' = 0 /\ want' = 0

(* pmon_stop: leave trace mode and run a command string, before main.      *)
pmon_stop(cmd) ==
  /\ trace_mode' = TRACE_NO
  /\ phase' = "stopcmd"
  /\ stopcmd' = cmd
  /\ steps' = 0 /\ ran' = 0 /\ want' = 0

(* The string of the first slot at the stop address, brkcmd if it has none.*)
StopString ==
  IF pc \in BptAddrs(Bpt) /\ Bpt[SlotAt(Bpt, pc)].cmdstr # NoStr
    THEN Bpt[SlotAt(Bpt, pc)].cmdstr ELSE brkcmd

(* exception(): any other exception stops without touching a breakpoint; a *)
(* reserved instruction too when do_ri fails, as it may by the value of a  *)
(* variable it never set when it emulates nothing.                         *)
ExceptionOther ==
  /\ phase = "client" /\ ~Trapped
  /\ pmon_stop(brkcmd)
  /\ UNCHANGED <<Bpt, BptTmp, BptTrc, BptTrcb, mem, pc, tracing>>
  /\ suspect' = (suspect \/ trace_mode # TRACE_GB)

(* exception(): breakpoint in go & break mode.                             *)
ExceptionGB ==
  /\ phase = "client" /\ Trapped /\ trace_mode = TRACE_GB
  /\ mem' = RestoreTable(IF BptTmp.addr = NO_BPT THEN mem
                         ELSE [mem EXCEPT ![BptTmp.addr] = BptTmp.value], Bpt)
  /\ BptTmp' = [BptTmp EXCEPT !.addr = NO_BPT]
  /\ pmon_stop(StopString)
  /\ UNCHANGED <<Bpt, BptTrc, BptTrcb, pc, tracing, suspect>>

(* Mutant: the search for a breakpoint at the exception pc ends after the  *)
(* first slot.                                                             *)
AtBreakpointFirst == pc = Bpt[0].addr

(* The exception pc is the address of a breakpoint of the table.           *)
AtBreakpoint == pc \in BptAddrs(Bpt)

(* exception() goes on to its tracing code: the client met a breakpoint,   *)
(* or an instruction for which do_ri has returned 0.                       *)
TracerRuns == phase = "client" /\ (Trapped \/ Unimplemented)

(* exception(): the client is traced, and the trace is over.               *)
ExceptionTraceStop ==
  /\ TracerRuns
  /\ mem' = RemoveTrace(mem)
  /\ BptTrc' = NoRec /\ BptTrcb' = NoRec
  /\ \/ trace_mode = TRACE_TB /\ pmon_stop(brkcmd)
     \/ trace_mode = TRACE_TN /\ AtBreakpoint /\ pmon_stop(StopString)
     \/ trace_mode = TRACE_TN /\ ~AtBreakpoint /\ armed /\ pmon_stop(brkcmd)
  /\ UNCHANGED <<Bpt, BptTmp, pc, tracing, suspect>>

(* Mutant: the count is decremented without testing it for zero.           *)
count_down_always(n) == n - 1

(* Count of a multiple trace after one more step.                          *)
count_down(n) == IF n = 0 THEN 0 ELSE n - 1

(* Mutant: the last step is announced one trap too late.                   *)
mode_after_late(n) == IF n = 0 THEN TRACE_TB ELSE TRACE_TN

(* With one step left the next trap stops.                                 *)
mode_after(n) == IF n = 1 THEN TRACE_TB ELSE TRACE_TN

(* exception(): next step of a multiple trace.                             *)
ExceptionTraceNext ==
  /\ TracerRuns /\ trace_mode = TRACE_TN
  /\ ~AtBreakpoint
  /\ trace_count' = count_down(trace_count)
  /\ trace_mode' = mode_after(trace_count')
  /\ LET m == RemoveTrace(mem)
     IN  store_trace_breakpoint(m, setTrcbp(m, pc, trace_over))
  /\ ran' = 0
  /\ UNCHANGED <<Bpt, BptTmp, pc, phase, stopcmd, trace_over, armed, steps, want, suspect>>

(* exception(): the instruction under the breakpoint has been stepped over *)
(* (trace & go), or taken for such a step after its emulation; plant       *)
(* everything and go on.                                                   *)
ExceptionTG ==
  /\ TracerRuns /\ trace_mode = TRACE_TG
  /\ trace_mode' = TRACE_GB
  /\ store_breakpoint(RemoveTrace(mem), Bpt, BptTmp, NoTrcAddrs)
  /\ ran' = 0
  /\ UNCHANGED <<pc, phase, stopcmd, tracing, steps, want, suspect>>

(* exception(): an instruction emulated in go & break mode takes the same  *)
(* way, which plants what is planted already and saves the breaks as the   *)
(* words they stand for.                                                   *)
ExceptionEmulated ==
  /\ phase = "client" /\ Unimplemented /\ trace_mode = TRACE_GB
  /\ store_breakpoint(RemoveTrace(mem), Bpt, BptTmp, NoTrcAddrs)
  /\ ran' = 0
  /\ suspect' = (suspect \/ BptAddrs(Bpt) # {} \/ BptTmp.addr # NO_BPT)
  /\ UNCHANGED <<pc, trace_mode, phase, stopcmd, tracing, steps, want>>

(* pmon_stop's command has only displayed something: enter main.           *)
EnterMain ==
  /\ phase = "stopcmd" /\ stopcmd = "show"
  /\ phase' = "prompt"
  /\ mem' = rm_bpts(mem)
  /\ BptTrc' = NoRec /\ BptTrcb' = NoRec
  /\ UNCHANGED <<Bpt, BptTmp, pc, trace_mode, stopcmd, tracing, ghosts>>

(* The board is reset and the program downloaded again.                    *)
Reset ==
  /\ phase \in {"hung", "client"}
  /\ Bpt' = [i \in Slots |-> EmptySlot]
  /\ BptTmp' = NoRec /\ BptTrc' = NoRec /\ BptTrcb' = NoRec
  /\ mem' = Text
  /\ pc' = 1
  /\ trace_mode' = TRACE_NO
  /\ trace_count' = 0 /\ trace_over' = FALSE /\ armed' = FALSE
  /\ phase' = "prompt"
  /\ stopcmd' = brkcmd
  /\ steps' = 0 /\ ran' = 0 /\ want' = 0
  /\ suspect' = FALSE

Command ==
  \/ \E adr \in UserBpts, str \in CmdStrs \cup {NoStr} : cmd_setbp(adr, str)
  \/ \E i \in Slots : cmd_clrbp(i)
  \/ cmd_clrbp_all
  \/ FreeBug(Slots)
  \/ \E keep \in BOOLEAN : cmd_load(keep)
  \/ \E keep \in BOOLEAN, k \in Cuts : cmd_load_fails(keep, k)
  \/ \E keep \in BOOLEAN : cmd_boot(keep)
  \/ \E adr \in UserTmps \cup {NO_BPT} : cmd_cont(adr)
  \/ \E adr \in UserTmps \cup {NO_BPT}, entry \in Entries : cmd_go(adr, entry)
  \/ \E adr \in UserTmps \cup {NO_BPT} : cmd_go_badarg(adr)
  \/ \E t \in TraceArgs : cmd_trace(t)
  \/ \E t \in TraceArgs : cmd_trace_badarg(t)
  \/ pmon_intr

Exception ==
  \/ ExceptionOther
  \/ ExceptionGB
  \/ ExceptionTraceStop
  \/ ExceptionTraceNext
  \/ ExceptionTG
  \/ ExceptionEmulated
  \/ EnterMain

Next == Command \/ ClientStep \/ ClientReturn \/ Exception \/ Reset

Spec == Init /\ [][Next]_vars
-----------------------------------------------------------------------------
(* Properties.                                                             *)

(* What the records in force for address a would put back: the two trace   *)
(* records while tracing, else the table and the temporary breakpoint.     *)
Saved(a) ==
  IF trace_mode \in {TRACE_TB, TRACE_TN, TRACE_TG}
    THEN {r.value : r \in {x \in {BptTrc, BptTrcb} : x.addr = a}}
    ELSE {Bpt[i].value : i \in {j \in Slots : Bpt[j].addr = a}}
           \cup {r.value : r \in {x \in {BptTmp} : x.addr = a}}

(* No instruction of the client is ever lost (exception, goclient, t, and  *)
(* rm_bpts between them): a word is intact, or a break stands there and    *)
(* the record in force for that address holds the original.  Not after the *)
(* three that make memory suspect: the client returned, faulted while it   *)
(* was traced, or had an instruction emulated with breakpoints planted.    *)
TextRecoverable ==
  ~suspect =>
  \A a \in Addr : mem[a] = Text[a] \/ (mem[a] = BPT_CODE /\ Saved(a) = {Text[a]})

(* doc/html/brkpts.htm: whenever the shell has control, client memory is   *)
(* free of break instructions and holds the program (main calling rm_bpts  *)
(* after every kind of exception), unless it is suspect.                   *)
PromptClean == phase = "prompt" /\ ~suspect => mem = Text

(* exception.c: a running client executes an instruction on which a        *)
(* breakpoint is set only as the very first one after the user resumed it. *)
(* A call that is stepped over is exempt: no breakpoint is planted in the  *)
(* callee.                                                                 *)
SteppingOver == trace_over /\ trace_mode \in {TRACE_TB, TRACE_TN}
BreakpointsTaken ==
  [][(ClientStep /\ pc \in BptAddrs(Bpt) /\ ~suspect) =>
       (steps = 0 \/ SteppingOver)]_vars

(* setTrcbp predicts every successor: a client started in a trace mode     *)
(* executes one instruction before it traps again, unless a call is        *)
(* stepped over.                                                           *)
TraceStepsOnce ==
  (phase = "client" /\ trace_mode # TRACE_GB /\ ~SteppingOver /\ ~suspect) => ran <= 1

(* doc/html/c_t.htm on t cnt: "traces cnt instructions and stops".  Not    *)
(* so t 1: exception has decremented the count to zero, the value for no   *)
(* limit, before it compares it with one.                                  *)
TraceCountObeyed == want > 1 /\ ~trace_over /\ ~suspect => steps <= want

(* goclient steps over a breakpoint it starts on, so a client the user     *)
(* resumes never meets a breakpoint where it was without having executed   *)
(* anything.  There are two exceptions: a breakpoint in the delay slot of  *)
(* the branch at pc, which traps with the branch as the saved pc every     *)
(* time; and an instruction at pc, or in its delay slot, that was emulated *)
(* in the place of the step off its own breakpoint (exception.c:115-127,   *)
(* 264-268), which is then planted under the client.                       *)
ResumeProgresses ==
  (phase = "client" /\ Trapped /\ steps = 0 /\ ~suspect) =>
     \/ Reserved(Text, pc)
     \/ /\ md_is_branch(Text[pc])
        /\ Plus(pc, 1) \in BptAddrs(Bpt) \cup {BptTmp.addr, BptTrc.addr, BptTrcb.addr}

(* The debugger frees a command string only while it is allocated (the     *)
(* header check of lib/libc/malloc.c free).                                *)
NoFreeBug == phase # "hung"

(* doc/html/brkpts.htm:53, of every exception: "The Monitor then restores  *)
(* the previous contents of all breakpoints, and transfers control to the  *)
(* Shell" (pmon_stop, main and rm_bpts).                                   *)
ExceptionRestores == phase = "prompt" /\ trace_mode = TRACE_NO => mem = Text

(* doc/html/brkpts.htm:57: "if the memory is inspected, the break          *)
(* instructions will never be seen, as they are only present in memory     *)
(* during execution of the application program".                           *)
BreaksNeverSeen == phase = "prompt" => \A a \in Addr : mem[a] # BPT_CODE
=============================================================================
