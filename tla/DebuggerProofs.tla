--------------------------- MODULE DebuggerProofs ---------------------------
(***************************************************************************)
(* Proofs about the debugger, for every program text, every number of      *)
(* breakpoint slots and every user input: its variables keep their types,  *)
(* and as long as no client has returned, faulted under the tracer or had  *)
(* an instruction emulated among planted breakpoints since the last        *)
(* download, no instruction of the client is lost, the shell only ever     *)
(* sees the program, never a break instruction, a traced client executes   *)
(* one instruction at a time and no more of them than t asked for, a       *)
(* resumed client gets off its breakpoint, unless that holds an            *)
(* instruction to emulate, and takes every other.                          *)
(***************************************************************************)
EXTENDS Debugger, TLAPS

-----------------------------------------------------------------------------
(* Facts about words, addresses and the memory helpers.                    *)

AnyWord == Word \cup {BPT_CODE}
Memory  == [Addr -> AnyWord]
SlotRec == [addr : Addr \cup {NO_BPT}, value : AnyWord,
            cmdstr : {NoStr, "show", "c"}, live : BOOLEAN]
Table   == [Slots -> SlotRec]
Targets == [trc : Addr \cup {NO_BPT}, trcb : Addr \cup {NO_BPT}]

(* A break instruction is not a word of any program; 0 is not an address.  *)
LEMMA Basics ==
  /\ BPT_CODE \notin Word
  /\ ZeroWord \in Word
  /\ NO_BPT \notin Addr
  /\ 1 \in Addr
  /\ \A a \in Addr : Plus(a, 1) \in Addr /\ Plus(a, 2) \in Addr
  /\ \A a \in Addr : Text[a] \in Word /\ Text[a] # BPT_CODE
<1>1. BPT_CODE.op \notin {"seq", "exit", "ri"} \cup Branches
  BY DEF BPT_CODE, Branches
<1>2. BPT_CODE \notin Word
  BY <1>1 DEF Word
<1>3. 1 \in Addr /\ NO_BPT \notin Addr
  BY SizeAssumption DEF Addr, NO_BPT
<1>4. ZeroWord \in Word
  BY <1>3 DEF ZeroWord, Word
<1>5. \A a \in Addr : Plus(a, 1) \in Addr /\ Plus(a, 2) \in Addr
  BY SizeAssumption DEF Addr, Plus
<1>6. QED
  BY <1>2, <1>3, <1>4, <1>5, TextAssumption

(* Planting keeps memory a memory.                                         *)
LEMMA PlantType ==
  ASSUME NEW m \in Memory, NEW S
  PROVE  Plant(m, S) \in Memory
BY DEF Plant, Memory, AnyWord

(* Putting a record back keeps memory a memory.                            *)
LEMMA PutBackType ==
  ASSUME NEW m \in Memory, NEW r \in Rec
  PROVE  PutBack(m, r) \in Memory
BY DEF PutBack, Memory, AnyWord, Rec, NO_BPT

(* SlotAt finds a slot of the address.                                     *)
LEMMA SlotAtFact ==
  ASSUME NEW b \in Table, NEW a \in BptAddrs(b)
  PROVE  SlotAt(b, a) \in Slots /\ b[SlotAt(b, a)].addr = a
<1>1. \E i \in Slots : b[i].addr = a
  BY DEF BptAddrs
<1>2. QED
  BY <1>1 DEF SlotAt

(* The table's addresses are addresses; restoring from it keeps memory a   *)
(* memory.                                                                 *)
LEMMA TableType ==
  ASSUME NEW b \in Table
  PROVE  /\ BptAddrs(b) \subseteq Addr
         /\ \A m \in Memory : PutBackTable(m, b) \in Memory
         /\ \A m \in Memory : RestoreTable(m, b) \in Memory
<1>1. BptAddrs(b) \subseteq Addr
  BY DEF BptAddrs, Table, SlotRec, NO_BPT
<1>2. \A a \in BptAddrs(b) : b[SlotAt(b, a)].value \in AnyWord
  BY SlotAtFact DEF Table, SlotRec
<1>3. QED
  BY <1>1, <1>2 DEF PutBackTable, RestoreTable, Memory

(* setTrcbp yields addresses, and never the same one twice.                *)
LEMMA TargetFact ==
  ASSUME NEW m \in Memory, NEW adr \in Addr, NEW over \in BOOLEAN
  PROVE  /\ setTrcbp(m, adr, over) \in Targets
         /\ setTrcbp(m, adr, over).trc # setTrcbp(m, adr, over).trcb
<1> DEFINE w == m[adr]
           target == IF w.to = adr THEN Plus(adr, 2) ELSE w.to
<1>1. w.to \in Addr /\ w.link \in Addr
  BY Basics DEF Memory, AnyWord, Word, BPT_CODE
<1>2. target \in Addr /\ Plus(adr, 1) \in Addr /\ Plus(adr, 2) \in Addr
  BY <1>1, Basics
<1>3. NO_BPT \notin Addr
  BY Basics
<1> HIDE DEF w
<1>4. CASE ~md_is_branch(w)
  BY <1>2, <1>3, <1>4 DEF setTrcbp, Targets, w
<1>5. CASE md_is_branch(w)
  BY <1>1, <1>2, <1>3, <1>5 DEF setTrcbp, Targets, w
<1>6. QED
  BY <1>4, <1>5
-----------------------------------------------------------------------------
(* The inductive invariant.                                                *)

(* No two slots of the table hold the same breakpoint (cmd_setbp).         *)
Distinct(b) ==
  \A i, j \in Slots : b[i].addr # NO_BPT /\ b[i].addr = b[j].addr => i = j

(* Nothing is planted: the records of the tracer are empty.                *)
Quiet ==
  /\ mem = Text
  /\ BptTrc.addr = NO_BPT /\ BptTrcb.addr = NO_BPT

(* A record holds the program's word for its address, if it has one.       *)
Holds(r) == r.addr # NO_BPT => r.value = Text[r.addr]

(* What store_breakpoint leaves when memory was clean: the table and the   *)
(* temporary breakpoint are planted, at different addresses.               *)
GBShape ==
  /\ BptTrc.addr = NO_BPT /\ BptTrcb.addr = NO_BPT
  /\ BptTmp.addr \notin BptAddrs(Bpt)
  /\ mem = Plant(Text, BptAddrs(Bpt) \cup {BptTmp.addr})
  /\ Holds(BptTmp)
  /\ \A i \in Slots : Holds(Bpt[i])

(* What store_trace_breakpoint leaves when memory was clean: the one or    *)
(* two trace breakpoints and nothing else.                                 *)
TrShape ==
  /\ BptTrc.addr # BptTrcb.addr
  /\ mem = Plant(Text, {BptTrc.addr, BptTrcb.addr})
  /\ Holds(BptTrc) /\ Holds(BptTrcb)

Shape ==
  /\ phase \in {"prompt", "hung"} => Quiet
  /\ phase = "client" => CASE trace_mode = TRACE_GB -> GBShape
                           [] trace_mode = TRACE_NO -> FALSE
                           [] OTHER -> TrShape
  /\ phase = "stopcmd" => /\ trace_mode = TRACE_NO
                          /\ Quiet \/ (GBShape /\ stopcmd = "show")

IInv == TypeOK /\ Distinct(Bpt) /\ (~suspect => Shape)


-----------------------------------------------------------------------------
(* Type correctness.                                                       *)

(* store_trace_breakpoint leaves well-formed records and memory.           *)
LEMMA StoreTraceType ==
  ASSUME NEW m \in Memory, NEW t \in Targets, store_trace_breakpoint(m, t)
  PROVE  BptTrc' \in Rec /\ BptTrcb' \in Rec /\ mem' \in Memory
<1> DEFINE m1 == Plant(m, {t.trc})
<1>1. m1 \in Memory /\ Plant(m1, {t.trcb}) \in Memory
  BY PlantType
<1>2. Planted(m, NoRec, t.trc) \in Rec
  BY Basics DEF Planted, NoRec, Rec, Targets, Memory, AnyWord
<1> HIDE DEF m1
<1>3. Planted(m1, NoRec, t.trcb) \in Rec
  BY <1>1, Basics DEF Planted, NoRec, Rec, Targets, Memory, AnyWord
<1>4. QED
  BY <1>1, <1>2, <1>3 DEF store_trace_breakpoint, m1

(* store_breakpoint leaves a well-formed table, records and memory, and    *)
(* the addresses of the table as they were.                                *)
LEMMA StoreType ==
  ASSUME NEW m \in Memory, NEW b \in Table, NEW tmp \in Rec, NEW t \in Targets,
         store_breakpoint(m, b, tmp, t)
  PROVE  /\ Bpt' \in Table /\ (\A i \in Slots : Bpt'[i].addr = b[i].addr)
         /\ BptTmp' \in Rec /\ BptTrc' \in Rec /\ BptTrcb' \in Rec
         /\ mem' \in Memory
<1> DEFINE A     == BptAddrs(b)
           tmpA  == IF tmp.addr \in A THEN NO_BPT ELSE tmp.addr
           trcA  == IF t.trc \in A \cup {tmpA} THEN NO_BPT ELSE t.trc
           trcbA == IF t.trcb \in A \cup {tmpA, trcA} THEN NO_BPT ELSE t.trcb
           m1    == Plant(m, A)
           tt    == [trc |-> trcA, trcb |-> trcbA]
<1>1. m1 \in Memory /\ Plant(m1, {tmpA}) \in Memory
  BY PlantType
<1>2. tmpA \in Addr \cup {NO_BPT}
  BY DEF Rec
<1>3. trcA \in Addr \cup {NO_BPT}
  BY DEF Targets
<1>4. trcbA \in Addr \cup {NO_BPT}
  BY DEF Targets
<1>5. tt \in Targets
  BY <1>3, <1>4 DEF Targets
<1>6. Bpt' = [i \in Slots |->
                [b[i] EXCEPT !.value = IF b[i].addr = NO_BPT THEN @ ELSE m[b[i].addr]]]
  BY DEF store_breakpoint
<1>7. BptTmp' = Planted(m1, tmp, tmpA) /\ store_trace_breakpoint(Plant(m1, {tmpA}), tt)
  BY DEF store_breakpoint
<1> HIDE DEF m1, tmpA, tt
<1>8. BptTrc' \in Rec /\ BptTrcb' \in Rec /\ mem' \in Memory
  BY <1>1, <1>5, <1>7, StoreTraceType
<1>9. BptTmp' \in Rec
  BY <1>1, <1>2, <1>7 DEF Planted, Rec, Memory, AnyWord
<1>10. Bpt' \in Table /\ (\A i \in Slots : Bpt'[i].addr = b[i].addr)
  <2>1. ASSUME NEW i \in Slots
        PROVE  Bpt'[i] \in SlotRec /\ Bpt'[i].addr = b[i].addr
    BY <1>6 DEF Table, SlotRec, Memory
  <2>2. QED
    BY <1>6, <2>1 DEF Table
<1>11. QED
  BY <1>8, <1>9, <1>10

(* goclient starts the client in one of two modes, with a well-formed      *)
(* state and the same breakpoints in the table.                            *)
LEMMA GoclientType ==
  ASSUME NEW m \in Memory, NEW b \in Table, NEW tmp \in Rec, NEW t \in Targets,
         NEW p \in Addr, goclient(b, tmp, t, m, p)
  PROVE  /\ Bpt' \in Table /\ (\A i \in Slots : Bpt'[i].addr = b[i].addr)
         /\ BptTmp' \in Rec /\ BptTrc' \in Rec /\ BptTrcb' \in Rec
         /\ mem' \in Memory /\ pc' = p /\ phase' = "client"
         /\ trace_mode' \in {TRACE_TG, TRACE_GB}
         /\ steps' = 0 /\ ran' = 0
<1>1. pc' = p /\ phase' = "client" /\ steps' = 0 /\ ran' = 0
  BY DEF goclient
<1>2. CASE is_break_point(b, tmp, p)
  <2>1. setTrcbp(m, p, FALSE) \in Targets
    BY TargetFact
  <2>2. store_trace_breakpoint(m, setTrcbp(m, p, FALSE))
    BY <1>2 DEF goclient
  <2>3. BptTrc' \in Rec /\ BptTrcb' \in Rec /\ mem' \in Memory
    BY <2>1, <2>2, StoreTraceType
  <2>4. QED
    BY <1>1, <1>2, <2>3 DEF goclient
<1>3. CASE ~is_break_point(b, tmp, p)
  <2>1. store_breakpoint(m, b, tmp, t) /\ trace_mode' = TRACE_GB
    BY <1>3 DEF goclient
  <2>2. QED
    BY <1>1, <2>1, StoreType
<1>4. QED
  BY <1>2, <1>3

(* TypeOK in terms of the sets above.                                      *)
LEMMA TypeSets ==
  TypeOK <=> /\ Bpt \in Table /\ BptTmp \in Rec /\ BptTrc \in Rec /\ BptTrcb \in Rec
             /\ mem \in Memory /\ pc \in Addr /\ trace_mode \in TraceModes
             /\ trace_count \in Nat /\ trace_over \in BOOLEAN /\ armed \in BOOLEAN
             /\ phase \in {"prompt", "client", "stopcmd", "hung"}
             /\ stopcmd \in {"show", "c"}
             /\ steps \in 0 .. StepCap /\ ran \in 0 .. StepCap /\ want \in Nat
             /\ suspect \in BOOLEAN
BY DEF TypeOK, Table, SlotRec, Memory, AnyWord

(* The values variables are reset to have the right types.                 *)
LEMMA ConstTypes ==
  /\ NoRec \in Rec /\ NoTrcAddrs \in Targets
  /\ Text \in Memory
  /\ [i \in Slots |-> EmptySlot] \in Table
<1>1. NoRec \in Rec
  BY Basics DEF NoRec, Rec
<1>2. NoTrcAddrs \in Targets
  BY DEF NoTrcAddrs, Targets
<1>3. Text \in Memory
  BY TextAssumption DEF Memory, AnyWord
<1>4. [i \in Slots |-> EmptySlot] \in Table
  BY Basics DEF EmptySlot, AnyWord, NoStr, Table, SlotRec
<1>5. QED
  BY <1>1, <1>2, <1>3, <1>4

(* The parts of a successor state that every command and exception sets in *)
(* the same ways keep their types: memory without breaks, emptied records, *)
(* a cleared table.                                                        *)
LEMMA HelperTypes ==
  ASSUME TypeOK
  PROVE  /\ NoRec \in Rec /\ NoTrcAddrs \in Targets
         /\ [trc |-> BptTrc.addr, trcb |-> BptTrcb.addr] \in Targets
         /\ Text \in Memory
         /\ clrbpts \in Table
         /\ RemoveTrace(mem) \in Memory /\ rm_bpts(mem) \in Memory
         /\ StopString \in {"show", "c"}
         /\ \A a \in Addr \cup {NO_BPT} : [BptTmp EXCEPT !.addr = a] \in Rec
<1> USE DEF Table, SlotRec
<1>2. [trc |-> BptTrc.addr, trcb |-> BptTrcb.addr] \in Targets
  BY TypeSets DEF Targets, Rec
<1>4. clrbpts \in Table
  BY TypeSets DEF clrbpts
<1>6. \A m \in Memory : RemoveTrace(m) \in Memory
  BY TypeSets, PutBackType DEF RemoveTrace
<1>7. rm_bpts(mem) \in Memory
  <2>1. PutBack(mem, BptTmp) \in Memory
    BY TypeSets, PutBackType
  <2>2. PutBackTable(PutBack(mem, BptTmp), Bpt) \in Memory
    BY <2>1, TypeSets, TableType
  <2>3. QED
    BY <1>6, <2>2 DEF rm_bpts
<1>8. StopString \in {"show", "c"}
  BY TypeSets, SlotAtFact DEF StopString, brkcmd, NoStr
<1>9. \A a \in Addr \cup {NO_BPT} : [BptTmp EXCEPT !.addr = a] \in Rec
  BY TypeSets DEF Rec
<1>10. QED
  BY <1>2, <1>4, <1>6, <1>7, <1>8, <1>9, TypeSets, ConstTypes

(* The commands of the shell preserve the types.                           *)
LEMMA CommandTypes ==
  ASSUME TypeOK, Command
  PROVE  TypeOK'
<1> USE DEF ghosts, tracing
<1>1. ASSUME NEW adr \in UserBpts, NEW str \in CmdStrs \cup {NoStr}, cmd_setbp(adr, str)
      PROVE  TypeOK'
  <2>1. PICK i \in Slots : Bpt' = SetSlot(i, adr, str)
    BY <1>1 DEF cmd_setbp, SlotFor
  <2>2. adr \in Addr \cup {NO_BPT} /\ str \in {NoStr, "show", "c"}
    BY InputAssumption
  <2>3. Bpt' \in Table
    BY <2>1, <2>2, TypeSets DEF SetSlot, Table, SlotRec
  <2>4. QED
    BY <1>1, <2>3, TypeSets DEF cmd_setbp, TypeOK, Table, SlotRec, AnyWord
<1>2. ASSUME NEW i \in Slots, cmd_clrbp(i)
      PROVE  TypeOK'
  <2>1. Bpt' \in Table
    BY <1>2, TypeSets DEF cmd_clrbp, Table, SlotRec
  <2>2. QED
    BY <1>2, <2>1, TypeSets DEF cmd_clrbp, TypeOK, Table, SlotRec, AnyWord
<1>3. CASE cmd_clrbp_all
  BY <1>3, HelperTypes DEF cmd_clrbp_all, TypeOK, Table, SlotRec, AnyWord
<1>4. CASE FreeBug(Slots)
  BY <1>4 DEF FreeBug, TypeOK
<1>5. ASSUME NEW keep \in BOOLEAN, cmd_load(keep)
      PROVE  TypeOK'
  <2>1. Bpt' \in Table /\ mem' \in Memory /\ pc' \in Addr /\ suspect' \in BOOLEAN
    BY <1>5, HelperTypes, TypeSets, Basics DEF cmd_load, Reloaded
  <2>2. QED
    BY <1>5, <2>1 DEF cmd_load, TypeOK, Table, SlotRec, Memory, AnyWord
<1>5a. ASSUME NEW keep \in BOOLEAN, NEW k \in Cuts, cmd_load_fails(keep, k)
       PROVE  TypeOK'
  <2>1. Bpt' \in Table
    BY <1>5a, HelperTypes, TypeSets DEF cmd_load_fails
  <2>2. mem' \in Memory
    BY <1>5a, TypeSets, ConstTypes DEF cmd_load_fails, Memory
  <2>3. QED
    BY <1>5a, <2>1, <2>2 DEF cmd_load_fails, TypeOK, Table, SlotRec, Memory, AnyWord
<1>6. ASSUME NEW keep \in BOOLEAN, cmd_boot(keep)
      PROVE  TypeOK'
  <2> DEFINE b == IF keep THEN Bpt ELSE clrbpts
             t == [trc |-> BptTrc.addr, trcb |-> BptTrcb.addr]
  <2>1. b \in Table /\ t \in Targets /\ Text \in Memory /\ BptTmp \in Rec /\ 1 \in Addr
    BY HelperTypes, TypeSets, Basics
  <2>2. goclient(b, BptTmp, t, Text, 1)
    BY <1>6 DEF cmd_boot
  <2> HIDE DEF b, t
  <2>3. /\ Bpt' \in Table /\ BptTmp' \in Rec /\ BptTrc' \in Rec /\ BptTrcb' \in Rec
        /\ mem' \in Memory /\ pc' = 1 /\ phase' = "client"
        /\ trace_mode' \in {TRACE_TG, TRACE_GB} /\ steps' = 0 /\ ran' = 0
    BY <2>1, <2>2, GoclientType
  <2>4. QED
    BY <1>6, <2>1, <2>3, SizeAssumption
       DEF cmd_boot, TypeOK, Table, SlotRec, Memory, AnyWord, TraceModes, Reloaded
<1>7. ASSUME NEW adr \in UserTmps \cup {NO_BPT}, cmd_cont(adr)
      PROVE  TypeOK'
  <2>1. [BptTmp EXCEPT !.addr = adr] \in Rec /\ NoTrcAddrs \in Targets
    BY HelperTypes, InputAssumption
  <2>2. goclient(Bpt, [BptTmp EXCEPT !.addr = adr], NoTrcAddrs, mem, pc)
    BY <1>7 DEF cmd_cont
  <2>3. /\ Bpt' \in Table /\ BptTmp' \in Rec /\ BptTrc' \in Rec /\ BptTrcb' \in Rec
        /\ mem' \in Memory /\ pc' = pc /\ phase' = "client"
        /\ trace_mode' \in {TRACE_TG, TRACE_GB} /\ steps' = 0 /\ ran' = 0
    BY <2>1, <2>2, GoclientType, TypeSets
  <2>4. QED
    BY <1>7, <2>3, SizeAssumption
       DEF cmd_cont, TypeOK, Table, SlotRec, Memory, AnyWord, TraceModes
<1>8. ASSUME NEW adr \in UserTmps \cup {NO_BPT}, NEW entry \in Entries, cmd_go(adr, entry)
      PROVE  TypeOK'
  <2>1. /\ [BptTmp EXCEPT !.addr = adr] \in Rec /\ NoTrcAddrs \in Targets
        /\ entry \in Addr
    BY HelperTypes, InputAssumption
  <2>2. goclient(Bpt, [BptTmp EXCEPT !.addr = adr], NoTrcAddrs, mem, entry)
    BY <1>8 DEF cmd_go
  <2>3. /\ Bpt' \in Table /\ BptTmp' \in Rec /\ BptTrc' \in Rec /\ BptTrcb' \in Rec
        /\ mem' \in Memory /\ pc' = entry /\ phase' = "client"
        /\ trace_mode' \in {TRACE_TG, TRACE_GB} /\ steps' = 0 /\ ran' = 0
    BY <2>1, <2>2, GoclientType, TypeSets
  <2>4. QED
    BY <1>8, <2>1, <2>3, SizeAssumption
       DEF cmd_go, TypeOK, Table, SlotRec, Memory, AnyWord, TraceModes
<1>9. ASSUME NEW adr \in UserTmps \cup {NO_BPT}, cmd_go_badarg(adr)
      PROVE  TypeOK'
  <2>1. adr \in Addr \cup {NO_BPT}
    BY InputAssumption
  <2>2. BptTmp' \in Rec /\ BptTrc' \in Rec /\ BptTrcb' \in Rec
    BY <1>9, <2>1, HelperTypes DEF cmd_go_badarg
  <2>3. QED
    BY <1>9, <2>2 DEF cmd_go_badarg, TypeOK
<1>10. ASSUME NEW t \in TraceArgs, cmd_trace(t)
       PROVE  TypeOK'
  <2>1. t.over \in BOOLEAN /\ t.cnt \in Nat /\ t.multi \in BOOLEAN /\ t.cond \in BOOLEAN
    BY InputAssumption
  <2>2. BptTrc' \in Rec /\ BptTrcb' \in Rec /\ mem' \in Memory
    BY <1>10, <2>1, TypeSets, TargetFact, StoreTraceType DEF cmd_trace
  <2>3. QED
    BY <1>10, <2>1, <2>2, SizeAssumption
       DEF cmd_trace, TypeOK, Memory, AnyWord, TraceModes
<1>11. ASSUME NEW t \in TraceArgs, cmd_trace_badarg(t)
       PROVE  TypeOK'
  <2>1. t.over \in BOOLEAN /\ t.cnt \in Nat /\ t.multi \in BOOLEAN /\ t.cond \in BOOLEAN
    BY InputAssumption
  <2>2. QED
    BY <1>11, <2>1 DEF cmd_trace_badarg, TypeOK
<1>12. CASE pmon_intr
  BY <1>12, HelperTypes DEF pmon_intr, TypeOK, Memory, AnyWord
<1>13. QED
  BY <1>1, <1>2, <1>3, <1>4, <1>5, <1>5a, <1>6, <1>7, <1>8, <1>9, <1>10, <1>11, <1>12
     DEF Command

(* The steps of the client, the exception handler and the reset preserve   *)
(* the types.                                                              *)
LEMMA ClientTypes ==
  ASSUME TypeOK, ClientStep \/ ClientReturn \/ Exception \/ Reset
  PROVE  TypeOK'
<1> USE DEF ghosts, tracing
<1>1. CASE ClientStep
  <2>1. mem[pc].to \in Addr /\ mem[pc].link \in Addr
    BY TypeSets, Basics DEF Memory, AnyWord, Word, BPT_CODE
  <2>2. pc' \in Addr
    BY <1>1, <2>1, TypeSets, Basics DEF ClientStep, Successors
  <2>3. steps' \in 0 .. StepCap /\ ran' \in 0 .. StepCap
    BY <1>1, TypeSets, SizeAssumption DEF ClientStep, Tick
  <2>4. QED
    BY <1>1, <2>2, <2>3 DEF ClientStep, TypeOK
<1>2. CASE ClientReturn
  BY <1>2, SizeAssumption DEF ClientReturn, TypeOK
<1>3. CASE ExceptionOther
  BY <1>3, SizeAssumption DEF ExceptionOther, pmon_stop, brkcmd, TypeOK, TraceModes
<1>4. CASE ExceptionGB
  <2> DEFINE m == IF BptTmp.addr = NO_BPT THEN mem ELSE [mem EXCEPT ![BptTmp.addr] = BptTmp.value]
  <2>1. m \in Memory
    BY TypeSets DEF Rec, Memory, AnyWord
  <2>2. mem' = RestoreTable(m, Bpt)
    BY <1>4 DEF ExceptionGB
  <2> HIDE DEF m
  <2>3. mem' \in Memory
    BY <2>1, <2>2, TypeSets, TableType
  <2>4. BptTmp' \in Rec
    BY <1>4, HelperTypes DEF ExceptionGB
  <2>5. stopcmd' \in {"show", "c"}
    BY <1>4, HelperTypes DEF ExceptionGB, pmon_stop
  <2>6. /\ trace_mode' = TRACE_NO /\ phase' = "stopcmd"
        /\ steps' = 0 /\ ran' = 0 /\ want' = 0
        /\ UNCHANGED <<Bpt, BptTrc, BptTrcb, pc, tracing, suspect>>
    BY <1>4 DEF ExceptionGB, pmon_stop
  <2>7. QED
    BY <2>3, <2>4, <2>5, <2>6, SizeAssumption
       DEF TypeOK, Memory, AnyWord, TraceModes
<1>5. CASE ExceptionTraceStop
  <2>1. BptTrc' \in Rec /\ BptTrcb' \in Rec /\ mem' \in Memory
    BY <1>5, HelperTypes DEF ExceptionTraceStop
  <2>2. stopcmd' \in {"show", "c"}
    BY <1>5, HelperTypes DEF ExceptionTraceStop, pmon_stop, brkcmd
  <2>3. QED
    BY <1>5, <2>1, <2>2, SizeAssumption
       DEF ExceptionTraceStop, pmon_stop, TypeOK, Memory, AnyWord, TraceModes
<1>6. CASE ExceptionTraceNext
  <2> DEFINE m == RemoveTrace(mem)
  <2>1. m \in Memory /\ pc \in Addr /\ trace_over \in BOOLEAN
    BY HelperTypes, TypeSets
  <2>2. store_trace_breakpoint(m, setTrcbp(m, pc, trace_over))
    BY <1>6 DEF ExceptionTraceNext
  <2> HIDE DEF m
  <2>3. BptTrc' \in Rec /\ BptTrcb' \in Rec /\ mem' \in Memory
    BY <2>1, <2>2, TargetFact, StoreTraceType
  <2>4. trace_count' \in Nat /\ trace_mode' \in TraceModes
    BY <1>6, TypeSets DEF ExceptionTraceNext, count_down, mode_after, TraceModes
  <2>5. QED
    BY <1>6, <2>3, <2>4, SizeAssumption DEF ExceptionTraceNext, TypeOK, Memory, AnyWord
<1>7. CASE ExceptionTG
  <2> DEFINE m == RemoveTrace(mem)
  <2>1. m \in Memory /\ Bpt \in Table /\ BptTmp \in Rec /\ NoTrcAddrs \in Targets
    BY HelperTypes, TypeSets
  <2>2. store_breakpoint(m, Bpt, BptTmp, NoTrcAddrs)
    BY <1>7 DEF ExceptionTG
  <2> HIDE DEF m
  <2>3. /\ Bpt' \in Table /\ BptTmp' \in Rec /\ BptTrc' \in Rec /\ BptTrcb' \in Rec
        /\ mem' \in Memory
    BY <2>1, <2>2, StoreType
  <2>4. QED
    BY <1>7, <2>3, SizeAssumption
       DEF ExceptionTG, TypeOK, Table, SlotRec, Memory, AnyWord, TraceModes
<1>7a. CASE ExceptionEmulated
  <2> DEFINE m == RemoveTrace(mem)
  <2>1. m \in Memory /\ Bpt \in Table /\ BptTmp \in Rec /\ NoTrcAddrs \in Targets
    BY HelperTypes, TypeSets
  <2>2. store_breakpoint(m, Bpt, BptTmp, NoTrcAddrs)
    BY <1>7a DEF ExceptionEmulated
  <2> HIDE DEF m
  <2>3. /\ Bpt' \in Table /\ BptTmp' \in Rec /\ BptTrc' \in Rec /\ BptTrcb' \in Rec
        /\ mem' \in Memory
    BY <2>1, <2>2, StoreType
  <2>4. suspect' \in BOOLEAN
    BY <1>7a DEF ExceptionEmulated, TypeOK
  <2>5. QED
    BY <1>7a, <2>3, <2>4, SizeAssumption
       DEF ExceptionEmulated, TypeOK, Table, SlotRec, Memory, AnyWord, TraceModes
<1>8. CASE EnterMain
  BY <1>8, HelperTypes DEF EnterMain, TypeOK, Memory, AnyWord
<1>9. CASE Reset
  <2>1. Bpt' \in Table /\ BptTmp' \in Rec /\ BptTrc' \in Rec /\ BptTrcb' \in Rec
    BY <1>9, ConstTypes DEF Reset
  <2>2. mem' \in Memory /\ pc' \in Addr
    BY <1>9, ConstTypes, Basics DEF Reset
  <2>3. trace_over' \in BOOLEAN /\ armed' \in BOOLEAN /\ suspect' \in BOOLEAN
    BY <1>9, Zenon DEF Reset
  <2>4. /\ trace_mode' = TRACE_NO /\ trace_count' = 0
        /\ phase' = "prompt" /\ stopcmd' = "show"
        /\ steps' = 0 /\ ran' = 0 /\ want' = 0
    BY <1>9, Zenon DEF Reset, brkcmd
  <2>5. QED
    BY <2>1, <2>2, <2>3, <2>4, SizeAssumption
       DEF TypeOK, Table, SlotRec, Memory, AnyWord, TraceModes
<1>10. QED
  BY <1>1, <1>2, <1>3, <1>4, <1>5, <1>6, <1>7, <1>7a, <1>8, <1>9 DEF Exception

(* The initial state has the right types.                                  *)
LEMMA InitTypes ==
  ASSUME Init
  PROVE  TypeOK
<1>1. /\ Bpt \in Table /\ BptTmp \in Rec /\ BptTrc \in Rec /\ BptTrcb \in Rec
      /\ mem \in Memory /\ pc \in Addr
  BY ConstTypes, Basics DEF Init
<1>2. trace_over \in BOOLEAN /\ armed \in BOOLEAN /\ suspect \in BOOLEAN
  BY Zenon DEF Init
<1>3. /\ trace_mode = TRACE_NO /\ trace_count = 0
      /\ phase = "prompt" /\ stopcmd = "show"
      /\ steps = 0 /\ ran = 0 /\ want = 0
  BY Zenon DEF Init, brkcmd
<1>4. QED
  BY <1>1, <1>2, <1>3, SizeAssumption
     DEF TypeOK, Table, SlotRec, Memory, AnyWord, TraceModes

(* Every variable keeps its type: in particular no record, table slot or   *)
(* memory word ever holds anything but an instruction or a break, and the  *)
(* trace count is never decremented below zero (exception).                *)
THEOREM TypeCorrect == Spec => []TypeOK
<1>1. Init => TypeOK
  BY InitTypes
<1>2. TypeOK /\ [Next]_vars => TypeOK'
  <2>1. TypeOK /\ Next => TypeOK'
    BY CommandTypes, ClientTypes DEF Next
  <2>2. TypeOK /\ UNCHANGED vars => TypeOK'
    BY DEF TypeOK, vars
  <2>3. QED
    BY <2>1, <2>2
<1>3. QED
  BY <1>1, <1>2, PTL DEF Spec

-----------------------------------------------------------------------------
(* Planting and restoring.                                                 *)

(* Planting in a clean memory and putting every word back yields the       *)
(* program: tracing.                                                       *)
LEMMA RemoveTraceText ==
  ASSUME TypeOK, TrShape
  PROVE  RemoveTrace(mem) = Text
<1> DEFINE m1 == PutBack(mem, BptTrc)
<1>1. m1 = Plant(Text, {BptTrcb.addr})
  <2>1. CASE BptTrc.addr = NO_BPT
    BY <2>1, TypeSets, Basics, ConstTypes DEF PutBack, TrShape, Plant
  <2>2. CASE BptTrc.addr # NO_BPT
    <3>1. BptTrc.addr \in Addr /\ mem[BptTrc.addr] = BPT_CODE
      BY <2>2, TypeSets DEF TrShape, Plant, Rec
    <3>2. m1 = [mem EXCEPT ![BptTrc.addr] = Text[BptTrc.addr]]
      BY <2>2, <3>1 DEF PutBack, TrShape, Holds
    <3>3. QED
      BY <2>2, <3>1, <3>2, ConstTypes DEF TrShape, Plant, Memory
  <2>3. QED
    BY <2>1, <2>2
<1> HIDE DEF m1
<1>2. PutBack(m1, BptTrcb) = Text
  <2>1. CASE BptTrcb.addr = NO_BPT
    BY <1>1, <2>1, Basics, ConstTypes DEF PutBack, Plant, Memory
  <2>2. CASE BptTrcb.addr # NO_BPT
    <3>1. BptTrcb.addr \in Addr /\ m1[BptTrcb.addr] = BPT_CODE
      BY <1>1, <2>2, TypeSets DEF Plant, Rec
    <3>2. PutBack(m1, BptTrcb) = [m1 EXCEPT ![BptTrcb.addr] = Text[BptTrcb.addr]]
      BY <2>2, <3>1 DEF PutBack, TrShape, Holds
    <3>3. QED
      BY <1>1, <3>1, <3>2, ConstTypes DEF Plant, Memory
  <2>3. QED
    BY <2>1, <2>2
<1>3. QED
  BY <1>2 DEF RemoveTrace, m1

(* The same for go & break: rm_bpts and the restore loops of exception.    *)
LEMMA RestoreText ==
  ASSUME TypeOK, GBShape
  PROVE  /\ rm_bpts(mem) = Text
         /\ RestoreTable(IF BptTmp.addr = NO_BPT THEN mem
                         ELSE [mem EXCEPT ![BptTmp.addr] = BptTmp.value], Bpt) = Text
<1> DEFINE A  == BptAddrs(Bpt)
           mA == Plant(Text, A)
           m1 == IF BptTmp.addr = NO_BPT THEN mem
                 ELSE [mem EXCEPT ![BptTmp.addr] = BptTmp.value]
<1>1. \A a \in A : Bpt[SlotAt(Bpt, a)].value = Text[a]
  BY SlotAtFact, TypeSets DEF GBShape, Holds, BptAddrs
<1>2. m1 = mA /\ PutBack(mem, BptTmp) = mA
  <2>1. CASE BptTmp.addr = NO_BPT
    BY <2>1, Basics DEF GBShape, Plant, PutBack
  <2>2. CASE BptTmp.addr # NO_BPT
    <3>1. BptTmp.addr \in Addr /\ mem[BptTmp.addr] = BPT_CODE
      BY <2>2, TypeSets DEF GBShape, Plant, Rec
    <3>2. m1 = [mem EXCEPT ![BptTmp.addr] = Text[BptTmp.addr]] /\ PutBack(mem, BptTmp) = m1
      BY <2>2, <3>1 DEF PutBack, GBShape, Holds
    <3> HIDE DEF m1
    <3>3. QED
      BY <3>1, <3>2, ConstTypes DEF GBShape, Plant, Memory
  <2>3. QED
    BY <2>1, <2>2
<1>3. RestoreTable(mA, Bpt) = Text /\ PutBackTable(mA, Bpt) = Text
  BY <1>1, ConstTypes DEF RestoreTable, PutBackTable, Plant, Memory
<1>4. RemoveTrace(Text) = Text
  BY DEF RemoveTrace, PutBack, GBShape
<1>5. QED
  BY <1>2, <1>3, <1>4 DEF rm_bpts

(* Nothing is taken out of a clean memory.                                 *)
LEMMA RestoreQuiet ==
  ASSUME TypeOK, Quiet
  PROVE  rm_bpts(mem) = Text
<1>1. \A r \in Rec : PutBack(Text, r) = Text
  BY Basics DEF PutBack, Rec
<1>2. PutBackTable(Text, Bpt) = Text
  BY Basics, ConstTypes DEF PutBackTable, Memory
<1>3. QED
  BY <1>1, <1>2, TypeSets DEF rm_bpts, RemoveTrace, Quiet

(* store_trace_breakpoint on a clean memory plants the trace addresses.    *)
LEMMA StoreTraceShape ==
  ASSUME NEW t \in Targets, t.trc # t.trcb, store_trace_breakpoint(Text, t)
  PROVE  TrShape'
<1>1. BptTrc'.addr = t.trc /\ BptTrcb'.addr = t.trcb
  BY DEF store_trace_breakpoint, Planted
<1>2. mem' = Plant(Text, {t.trc, t.trcb})
  BY ConstTypes DEF store_trace_breakpoint, Plant, Memory
<1>3. t.trc # NO_BPT => BptTrc'.value = Text[t.trc]
  BY DEF store_trace_breakpoint, Planted
<1>4. t.trcb # NO_BPT => BptTrcb'.value = Text[t.trcb]
  <2>1. t.trcb # NO_BPT => Plant(Text, {t.trc})[t.trcb] = Text[t.trcb]
    BY DEF Plant, Targets
  <2>2. QED
    BY <2>1 DEF store_trace_breakpoint, Planted
<1>5. QED
  BY <1>1, <1>2, <1>3, <1>4 DEF TrShape, Holds

(* store_breakpoint on a clean memory, with no trace address, plants the   *)
(* table and the temporary breakpoint.                                     *)
LEMMA StoreShape ==
  ASSUME NEW b \in Table, NEW tmp \in Rec,
         store_breakpoint(Text, b, tmp, NoTrcAddrs)
  PROVE  GBShape'
<1> DEFINE A     == BptAddrs(b)
           tmpA  == IF tmp.addr \in A THEN NO_BPT ELSE tmp.addr
           m1    == Plant(Text, A)
           m2    == Plant(m1, {tmpA})
<1>1. tmpA \in Addr \cup {NO_BPT} /\ tmpA \notin A /\ NO_BPT \notin A
  BY DEF Rec, BptAddrs
<1>2. /\ Bpt' = [i \in Slots |->
                [b[i] EXCEPT !.value = IF b[i].addr = NO_BPT THEN @ ELSE Text[b[i].addr]]]
      /\ BptTmp' = Planted(m1, tmp, tmpA)
      /\ store_trace_breakpoint(m2, NoTrcAddrs)
  <2>1. LET trcA  == IF NoTrcAddrs.trc \in A \cup {tmpA} THEN NO_BPT ELSE NoTrcAddrs.trc
            trcbA == IF NoTrcAddrs.trcb \in A \cup {tmpA, trcA} THEN NO_BPT ELSE NoTrcAddrs.trcb
        IN [trc |-> trcA, trcb |-> trcbA] = NoTrcAddrs
    BY DEF NoTrcAddrs
  <2>2. QED
    BY <2>1 DEF store_breakpoint
<1>3. \A i \in Slots : /\ Bpt'[i].addr = b[i].addr
                       /\ b[i].addr # NO_BPT => Bpt'[i].value = Text[b[i].addr]
  BY <1>2 DEF Table, SlotRec
<1>4. BptAddrs(Bpt)' = A
  BY <1>3 DEF BptAddrs
<1> HIDE DEF A, tmpA
<1>5. BptTmp'.addr = tmpA /\ (tmpA # NO_BPT => BptTmp'.value = Text[tmpA])
  <2>1. tmpA # NO_BPT => m1[tmpA] = Text[tmpA]
    BY <1>1 DEF Plant
  <2> HIDE DEF m1
  <2>2. QED
    BY <1>2, <2>1 DEF Planted
<1>6. BptTrc'.addr = NO_BPT /\ BptTrcb'.addr = NO_BPT
  BY <1>2 DEF store_trace_breakpoint, NoTrcAddrs, Planted
<1>7. mem' = Plant(Text, A \cup {tmpA})
  <2>1. mem' = Plant(Plant(m2, {NO_BPT}), {NO_BPT})
    BY <1>2 DEF store_trace_breakpoint, NoTrcAddrs
  <2>2. QED
    BY <2>1, Basics, ConstTypes DEF Plant, Memory
<1>8. QED
  BY <1>1, <1>3, <1>4, <1>5, <1>6, <1>7 DEF GBShape, Holds

-----------------------------------------------------------------------------
(* The invariant is inductive.                                             *)

(* goclient on a clean memory, without left-over trace addresses.          *)
LEMMA GoclientShape ==
  ASSUME NEW b \in Table, NEW tmp \in Rec, NEW p \in Addr,
         goclient(b, tmp, NoTrcAddrs, Text, p)
  PROVE  Shape'
<1>1. phase' = "client"
  BY DEF goclient
<1>2. CASE is_break_point(b, tmp, p)
  <2>1. trace_mode' = TRACE_TG /\ store_trace_breakpoint(Text, setTrcbp(Text, p, FALSE))
    BY <1>2 DEF goclient
  <2>2. TrShape'
    BY <2>1, TargetFact, ConstTypes, StoreTraceShape
  <2>3. QED
    BY <1>1, <2>1, <2>2 DEF Shape, TRACE_TG, TRACE_GB, TRACE_NO
<1>3. CASE ~is_break_point(b, tmp, p)
  <2>1. trace_mode' = TRACE_GB /\ store_breakpoint(Text, b, tmp, NoTrcAddrs)
    BY <1>3 DEF goclient
  <2>2. GBShape'
    BY <2>1, StoreShape
  <2>3. QED
    BY <1>1, <2>1, <2>2 DEF Shape, TRACE_GB, TRACE_NO
<1>4. QED
  BY <1>2, <1>3

(* No command or exception puts one address into two slots.                *)
LEMMA DistinctStep ==
  ASSUME TypeOK, Distinct(Bpt), Next
  PROVE  Distinct(Bpt')
<1>1. ASSUME NEW b \in Table, Distinct(b), \A i \in Slots : Bpt'[i].addr = b[i].addr
      PROVE  Distinct(Bpt')
  BY <1>1 DEF Distinct
<1>2. clrbpts \in Table /\ Distinct(clrbpts) /\ Bpt \in Table
  BY HelperTypes, TypeSets DEF clrbpts, Distinct, Table, SlotRec
<1>3. ASSUME NEW adr \in UserBpts, NEW str, cmd_setbp(adr, str)
      PROVE  Distinct(Bpt')
  <2>1. PICK i \in Slots : Bpt' = SetSlot(i, adr, str)
    BY <1>3 DEF cmd_setbp, SlotFor
  <2>2. \A j \in Slots : \/ j = i /\ Bpt'[j].addr = adr
                         \/ j # i /\ Bpt[j].addr = adr /\ Bpt'[j].addr = NO_BPT
                         \/ j # i /\ Bpt[j].addr # adr /\ Bpt'[j].addr = Bpt[j].addr
    BY <2>1, TypeSets DEF SetSlot, Table, SlotRec
  <2>3. QED
    BY <2>2 DEF Distinct
<1>4. ASSUME NEW i \in Slots, cmd_clrbp(i)
      PROVE  Distinct(Bpt')
  <2>1. \A j \in Slots : Bpt'[j].addr = IF j = i THEN NO_BPT ELSE Bpt[j].addr
    BY <1>4, TypeSets DEF cmd_clrbp, Table, SlotRec
  <2>2. QED
    BY <2>1 DEF Distinct
<1>5. ASSUME NEW m \in Memory, NEW b \in Table, Distinct(b), NEW tmp \in Rec, NEW t \in Targets,
             NEW p \in Addr, goclient(b, tmp, t, m, p)
      PROVE  Distinct(Bpt')
  BY <1>1, <1>5, GoclientType
<1>6. ASSUME NEW keep \in BOOLEAN, cmd_boot(keep)
      PROVE  Distinct(Bpt')
  <2> DEFINE b == IF keep THEN Bpt ELSE clrbpts
             t == [trc |-> BptTrc.addr, trcb |-> BptTrcb.addr]
  <2>1. b \in Table /\ Distinct(b) /\ t \in Targets
    BY <1>2, HelperTypes
  <2>2. goclient(b, BptTmp, t, Text, 1)
    BY <1>6 DEF cmd_boot
  <2> HIDE DEF b, t
  <2>3. QED
    BY <1>5, <2>1, <2>2, TypeSets, ConstTypes, Basics
<1>7. ASSUME NEW adr \in UserTmps \cup {NO_BPT}, NEW p \in Addr,
             goclient(Bpt, [BptTmp EXCEPT !.addr = adr], NoTrcAddrs, mem, p)
      PROVE  Distinct(Bpt')
  <2>1. [BptTmp EXCEPT !.addr = adr] \in Rec
    BY HelperTypes, InputAssumption
  <2>2. QED
    BY <1>5, <1>7, <2>1, TypeSets, ConstTypes
<1>8. CASE Command
  <2>1. ASSUME NEW adr \in UserTmps \cup {NO_BPT}, cmd_cont(adr)
        PROVE  Distinct(Bpt')
    BY <1>7, <2>1, TypeSets DEF cmd_cont
  <2>2. ASSUME NEW adr \in UserTmps \cup {NO_BPT}, NEW entry \in Entries, cmd_go(adr, entry)
        PROVE  Distinct(Bpt')
    BY <1>7, <2>2, InputAssumption DEF cmd_go
  <2>3. CASE cmd_clrbp_all \/ FreeBug(Slots) \/ pmon_intr
    BY <1>2, <2>3 DEF cmd_clrbp_all, FreeBug, pmon_intr
  <2>4. ASSUME NEW keep \in BOOLEAN, cmd_load(keep)
        PROVE  Distinct(Bpt')
    BY <1>2, <2>4 DEF cmd_load
  <2>4a. ASSUME NEW keep \in BOOLEAN, NEW k \in Cuts, cmd_load_fails(keep, k)
         PROVE  Distinct(Bpt')
    BY <1>2, <2>4a DEF cmd_load_fails
  <2>5. ASSUME NEW adr \in UserTmps \cup {NO_BPT}, cmd_go_badarg(adr)
        PROVE  Distinct(Bpt')
    BY <2>5 DEF cmd_go_badarg
  <2>6. ASSUME NEW t \in TraceArgs, cmd_trace(t) \/ cmd_trace_badarg(t)
        PROVE  Distinct(Bpt')
    BY <2>6 DEF cmd_trace, cmd_trace_badarg
  <2>7. QED
    BY <1>3, <1>4, <1>6, <1>8, <2>1, <2>2, <2>3, <2>4, <2>4a, <2>5, <2>6
       DEF Command
<1>9. CASE ExceptionTG \/ ExceptionEmulated
  <2>1. store_breakpoint(RemoveTrace(mem), Bpt, BptTmp, NoTrcAddrs)
    BY <1>9 DEF ExceptionTG, ExceptionEmulated
  <2>2. QED
    BY <1>1, <2>1, StoreType, HelperTypes, TypeSets
<1>10. CASE Reset
  BY <1>10 DEF Reset, EmptySlot, Distinct
<1>11. CASE \/ ClientStep \/ ClientReturn
            \/ Exception /\ ~ExceptionTG /\ ~ExceptionEmulated
  <2>1. Bpt' = Bpt
    BY <1>11 DEF ClientStep, ClientReturn, Exception, ExceptionOther, ExceptionGB,
                 ExceptionTraceStop, ExceptionTraceNext, EnterMain
  <2>2. QED
    BY <2>1
<1>12. QED
  BY <1>8, <1>9, <1>10, <1>11 DEF Next, Exception

(* Every command keeps the shape of memory, or leaves it suspect.          *)
LEMMA CommandShape ==
  ASSUME IInv, Command, ~suspect'
  PROVE  Shape'
<1> USE DEF IInv, ghosts, tracing
<1>1. ASSUME NEW adr \in UserBpts, NEW str, cmd_setbp(adr, str)
      PROVE  Shape'
  BY <1>1 DEF cmd_setbp, Shape, Quiet
<1>2. ASSUME NEW i \in Slots, cmd_clrbp(i)
      PROVE  Shape'
  BY <1>2 DEF cmd_clrbp, Shape, Quiet
<1>3. CASE cmd_clrbp_all
  BY <1>3 DEF cmd_clrbp_all, Shape, Quiet
<1>4. CASE FreeBug(Slots)
  BY <1>4 DEF FreeBug, Shape, Quiet
<1>5. ASSUME NEW keep \in BOOLEAN, cmd_load(keep)
      PROVE  Shape'
  BY <1>5 DEF cmd_load, Reloaded, Shape, Quiet
<1>5a. ASSUME NEW keep \in BOOLEAN, NEW k \in Cuts, cmd_load_fails(keep, k)
       PROVE  Shape'
  <2>1. mem = Text
    BY <1>5a DEF cmd_load_fails, Shape, Quiet
  <2>2. mem' = Text
    BY <1>5a, <2>1, ConstTypes DEF cmd_load_fails, Memory
  <2>3. QED
    BY <1>5a, <2>2 DEF cmd_load_fails, Shape, Quiet
<1>6. ASSUME NEW keep \in BOOLEAN, cmd_boot(keep)
      PROVE  Shape'
  <2> DEFINE b == IF keep THEN Bpt ELSE clrbpts
             t == [trc |-> BptTrc.addr, trcb |-> BptTrcb.addr]
  <2>1. b \in Table /\ BptTmp \in Rec
    BY HelperTypes, TypeSets
  <2>2. BptTrc.addr = NO_BPT /\ BptTrcb.addr = NO_BPT
    BY <1>6 DEF cmd_boot, Reloaded, Shape, Quiet
  <2>3. t = NoTrcAddrs
    BY <2>2 DEF NoTrcAddrs
  <2>4. goclient(b, BptTmp, t, Text, 1)
    BY <1>6 DEF cmd_boot
  <2> HIDE DEF b, t
  <2>5. QED
    BY <2>1, <2>3, <2>4, GoclientShape, Basics
<1>7. ASSUME NEW adr \in UserTmps \cup {NO_BPT}, cmd_cont(adr)
      PROVE  Shape'
  <2>1. [BptTmp EXCEPT !.addr = adr] \in Rec /\ Bpt \in Table /\ pc \in Addr
    BY HelperTypes, TypeSets, InputAssumption
  <2>2. mem = Text
    BY <1>7 DEF cmd_cont, Shape, Quiet
  <2>3. goclient(Bpt, [BptTmp EXCEPT !.addr = adr], NoTrcAddrs, mem, pc)
    BY <1>7 DEF cmd_cont
  <2>4. QED
    BY <2>1, <2>2, <2>3, GoclientShape
<1>8. ASSUME NEW adr \in UserTmps \cup {NO_BPT}, NEW entry \in Entries, cmd_go(adr, entry)
      PROVE  Shape'
  <2>1. [BptTmp EXCEPT !.addr = adr] \in Rec /\ Bpt \in Table /\ entry \in Addr
    BY HelperTypes, TypeSets, InputAssumption
  <2>2. mem = Text
    BY <1>8 DEF cmd_go, Shape, Quiet
  <2>3. goclient(Bpt, [BptTmp EXCEPT !.addr = adr], NoTrcAddrs, mem, entry)
    BY <1>8 DEF cmd_go
  <2>4. QED
    BY <2>1, <2>2, <2>3, GoclientShape
<1>9. ASSUME NEW adr \in UserTmps \cup {NO_BPT}, cmd_go_badarg(adr)
      PROVE  Shape'
  BY <1>9 DEF cmd_go_badarg, Shape, Quiet, NoRec
<1>10. ASSUME NEW t \in TraceArgs, cmd_trace(t)
       PROVE  Shape'
  <2>1. mem = Text /\ t.over \in BOOLEAN /\ pc \in Addr
    BY <1>10, TypeSets, InputAssumption DEF cmd_trace, Shape, Quiet
  <2>2. store_trace_breakpoint(Text, setTrcbp(Text, pc, t.over))
    BY <1>10, <2>1 DEF cmd_trace
  <2>3. TrShape'
    BY <2>1, <2>2, TargetFact, ConstTypes, StoreTraceShape
  <2>4. phase' = "client" /\ trace_mode' \in {TRACE_TN, TRACE_TB}
    BY <1>10 DEF cmd_trace
  <2>5. QED
    BY <2>3, <2>4 DEF Shape, TRACE_TN, TRACE_TB, TRACE_GB, TRACE_NO
<1>11. ASSUME NEW t \in TraceArgs, cmd_trace_badarg(t)
       PROVE  Shape'
  BY <1>11 DEF cmd_trace_badarg, Shape, Quiet
<1>12. CASE pmon_intr
  <2>1. mem' = Text
    BY <1>12, RestoreQuiet DEF pmon_intr, Shape
  <2>2. QED
    BY <1>12, <2>1 DEF pmon_intr, Shape, Quiet, NoRec
<1>13. QED
  BY <1>1, <1>2, <1>3, <1>4, <1>5, <1>5a, <1>6, <1>7, <1>8, <1>9, <1>10, <1>11, <1>12
     DEF Command

(* So do the steps of the client and of the exception handler.             *)
LEMMA ClientShape ==
  ASSUME IInv, ClientStep \/ ClientReturn \/ Exception \/ Reset, ~suspect'
  PROVE  Shape'
<1> USE DEF IInv, ghosts, tracing
<1>1. CASE ClientStep
  <2>1. ~suspect /\ phase = "client" /\ phase' = "client" /\ trace_mode' = trace_mode
    BY <1>1 DEF ClientStep
  <2>2. GBShape => GBShape'
    BY <1>1 DEF ClientStep, GBShape, BptAddrs, Holds
  <2>3. TrShape => TrShape'
    BY <1>1 DEF ClientStep, TrShape, Holds
  <2>4. QED
    BY <2>1, <2>2, <2>3 DEF Shape
<1>2. CASE ClientReturn
  BY <1>2 DEF ClientReturn
<1>3. CASE ExceptionOther
  <2>1. ~suspect /\ trace_mode = TRACE_GB /\ phase = "client"
    BY <1>3 DEF ExceptionOther
  <2>2. GBShape
    BY <2>1 DEF Shape, TRACE_GB, TRACE_NO
  <2>3. GBShape'
    BY <1>3, <2>2 DEF ExceptionOther, GBShape, BptAddrs, Holds
  <2>4. QED
    BY <1>3, <2>3 DEF ExceptionOther, pmon_stop, brkcmd, Shape
<1>4. CASE ExceptionGB
  <2>1. ~suspect /\ GBShape
    BY <1>4 DEF ExceptionGB, Shape, TRACE_GB, TRACE_NO
  <2>2. mem' = Text
    BY <1>4, <2>1, RestoreText DEF ExceptionGB
  <2>3. Quiet'
    BY <1>4, <2>1, <2>2 DEF ExceptionGB, GBShape, Quiet
  <2>4. QED
    BY <1>4, <2>3 DEF ExceptionGB, pmon_stop, Shape
<1>5. CASE ExceptionTraceStop
  <2>1. ~suspect /\ TrShape
    BY <1>5 DEF ExceptionTraceStop, TracerRuns, Shape, TRACE_GB, TRACE_NO, TRACE_TB, TRACE_TN
  <2>2. Quiet'
    BY <1>5, <2>1, RemoveTraceText DEF ExceptionTraceStop, Quiet, NoRec
  <2>3. QED
    BY <1>5, <2>2 DEF ExceptionTraceStop, pmon_stop, Shape
<1>6. CASE ExceptionTraceNext
  <2>1. ~suspect /\ TrShape
    BY <1>6 DEF ExceptionTraceNext, TracerRuns, Shape, TRACE_GB, TRACE_NO, TRACE_TN
  <2>2. store_trace_breakpoint(Text, setTrcbp(Text, pc, trace_over))
    BY <1>6, <2>1, RemoveTraceText DEF ExceptionTraceNext
  <2>3. TrShape'
    BY <2>2, TypeSets, TargetFact, ConstTypes, StoreTraceShape
  <2>4. phase' = "client" /\ trace_mode' \in {TRACE_TN, TRACE_TB}
    BY <1>6 DEF ExceptionTraceNext, TracerRuns, mode_after
  <2>5. QED
    BY <2>3, <2>4 DEF Shape, TRACE_TN, TRACE_TB, TRACE_GB, TRACE_NO
<1>7. CASE ExceptionTG
  <2>1. ~suspect /\ TrShape
    BY <1>7 DEF ExceptionTG, TracerRuns, Shape, TRACE_GB, TRACE_NO, TRACE_TG
  <2>2. store_breakpoint(Text, Bpt, BptTmp, NoTrcAddrs)
    BY <1>7, <2>1, RemoveTraceText DEF ExceptionTG
  <2>3. GBShape'
    BY <2>2, TypeSets, StoreShape
  <2>4. phase' = "client" /\ trace_mode' = TRACE_GB
    BY <1>7 DEF ExceptionTG, TracerRuns
  <2>5. QED
    BY <2>3, <2>4 DEF Shape, TRACE_GB, TRACE_NO
<1>7a. CASE ExceptionEmulated
  <2>1. ~suspect /\ GBShape /\ BptAddrs(Bpt) = {} /\ BptTmp.addr = NO_BPT
    BY <1>7a DEF ExceptionEmulated, Shape, TRACE_GB, TRACE_NO
  <2>2. RemoveTrace(mem) = Text
    <3>1. mem = Plant(Text, {NO_BPT})
      BY <2>1 DEF GBShape
    <3>2. mem = Text
      BY <3>1, Basics, ConstTypes DEF Plant, Memory
    <3>3. QED
      BY <2>1, <3>2 DEF RemoveTrace, PutBack, GBShape
  <2>3. store_breakpoint(Text, Bpt, BptTmp, NoTrcAddrs)
    BY <1>7a, <2>2 DEF ExceptionEmulated
  <2>4. GBShape'
    BY <2>3, TypeSets, StoreShape
  <2>5. phase' = "client" /\ trace_mode' = TRACE_GB
    BY <1>7a DEF ExceptionEmulated
  <2>6. QED
    BY <2>4, <2>5 DEF Shape, TRACE_GB, TRACE_NO
<1>8. CASE EnterMain
  <2>1. ~suspect /\ (Quiet \/ GBShape)
    BY <1>8 DEF EnterMain, Shape
  <2>2. mem' = Text
    BY <1>8, <2>1, RestoreQuiet, RestoreText DEF EnterMain
  <2>3. QED
    BY <1>8, <2>2 DEF EnterMain, Shape, Quiet, NoRec
<1>9. CASE Reset
  BY <1>9 DEF Reset, Shape, Quiet, NoRec
<1>10. QED
  BY <1>1, <1>2, <1>3, <1>4, <1>5, <1>6, <1>7, <1>7a, <1>8, <1>9 DEF Exception

(* The invariant holds throughout: between any two steps memory is the     *)
(* program plus exactly the breaks of the current trace mode, and the      *)
(* records hold the words underneath (goclient, exception, rm_bpts).       *)
THEOREM Invariance == Spec => []IInv
<1>1. Init => IInv
  <2> SUFFICES ASSUME Init PROVE IInv
    OBVIOUS
  <2>1. TypeOK
    BY InitTypes
  <2>2. Distinct(Bpt)
    BY DEF Init, EmptySlot, Distinct
  <2>3. Shape
    BY DEF Init, Shape, Quiet, NoRec
  <2>4. QED
    BY <2>1, <2>2, <2>3 DEF IInv
<1>2. IInv /\ [Next]_vars => IInv'
  <2>1. ASSUME IInv, Next
        PROVE  IInv'
    <3>1. TypeOK'
      BY <2>1, CommandTypes, ClientTypes DEF IInv, Next
    <3>2. Distinct(Bpt)'
      BY <2>1, DistinctStep DEF IInv
    <3>3. ~suspect' => Shape'
      BY <2>1, CommandShape, ClientShape DEF Next
    <3>4. QED
      BY <3>1, <3>2, <3>3 DEF IInv
  <2>2. ASSUME IInv, UNCHANGED vars
        PROVE  IInv'
    <3>1. TypeOK' /\ Distinct(Bpt)'
      BY <2>2 DEF IInv, TypeOK, Distinct, vars
    <3>2. Shape => Shape'
      BY <2>2 DEF Shape, Quiet, GBShape, TrShape, Holds, BptAddrs, vars
    <3>3. QED
      BY <2>2, <3>1, <3>2 DEF IInv, vars
  <2>3. QED
    BY <2>1, <2>2
<1>3. QED
  BY <1>1, <1>2, PTL DEF Spec

(* Whenever the shell has control, client memory is the program, for every *)
(* program, table size and sequence of commands and exceptions.            *)
THEOREM PromptCleanCorrect == Spec => []PromptClean
<1>1. IInv => PromptClean
  BY DEF IInv, Shape, Quiet, PromptClean
<1>2. QED
  BY <1>1, Invariance, PTL

(* No instruction of the client is ever lost: every word is intact or under*)
(* a break whose record, in force in the current mode, holds it.           *)
THEOREM TextRecoverableCorrect == Spec => []TextRecoverable
<1>1. IInv => TextRecoverable
  <2> SUFFICES ASSUME IInv, ~suspect, NEW a \in Addr
               PROVE  mem[a] = Text[a] \/ (mem[a] = BPT_CODE /\ Saved(a) = {Text[a]})
    BY DEF TextRecoverable
  <2>1. a # NO_BPT
    BY Basics
  <2>2. CASE Quiet
    BY <2>2 DEF Quiet
  <2>3. CASE GBShape /\ trace_mode \in {TRACE_GB, TRACE_NO}
    <3> DEFINE Hit == {j \in Slots : Bpt[j].addr = a}
               Tmp == {x \in {BptTmp} : x.addr = a}
    <3>1. Saved(a) = {Bpt[i].value : i \in Hit} \cup {r.value : r \in Tmp}
      BY <2>3 DEF Saved, TRACE_GB, TRACE_NO, TRACE_TB, TRACE_TN, TRACE_TG
    <3>2. CASE a \notin BptAddrs(Bpt) \cup {BptTmp.addr}
      BY <2>3, <3>2 DEF GBShape, Plant
    <3>3. CASE a \in BptAddrs(Bpt)
      <4>1. Tmp = {}
        BY <2>3, <3>3 DEF GBShape
      <4>2. \A i \in Hit : Bpt[i].value = Text[a]
        BY <2>1, <2>3 DEF GBShape, Holds
      <4>3. \E i \in Slots : i \in Hit
        BY <3>3 DEF BptAddrs
      <4> HIDE DEF Hit, Tmp
      <4>4. Saved(a) = {Text[a]}
        BY <3>1, <4>1, <4>2, <4>3
      <4>5. mem[a] = BPT_CODE
        BY <2>3, <3>3 DEF GBShape, Plant
      <4>6. QED
        BY <4>4, <4>5
    <3>4. CASE a \notin BptAddrs(Bpt) /\ a = BptTmp.addr
      <4>1. Hit = {}
        BY <2>1, <3>4 DEF BptAddrs
      <4>2. Tmp = {BptTmp} /\ BptTmp.value = Text[a]
        BY <2>1, <2>3, <3>4 DEF GBShape, Holds
      <4> HIDE DEF Hit, Tmp
      <4>3. Saved(a) = {Text[a]}
        BY <3>1, <4>1, <4>2
      <4>4. mem[a] = BPT_CODE
        BY <2>3, <3>4 DEF GBShape, Plant
      <4>5. QED
        BY <4>3, <4>4
    <3>5. QED
      BY <3>2, <3>3, <3>4
  <2>4. CASE TrShape /\ trace_mode \in {TRACE_TB, TRACE_TN, TRACE_TG}
    <3> DEFINE Hit == {x \in {BptTrc, BptTrcb} : x.addr = a}
    <3>1. Saved(a) = {r.value : r \in Hit}
      BY <2>4 DEF Saved
    <3>2. CASE a \notin {BptTrc.addr, BptTrcb.addr}
      BY <2>4, <3>2 DEF TrShape, Plant
    <3>3. CASE a \in {BptTrc.addr, BptTrcb.addr}
      <4>1. \A r \in Hit : r.value = Text[a]
        BY <2>1, <2>4 DEF TrShape, Holds
      <4>2. \E r : r \in Hit
        BY <3>3
      <4> HIDE DEF Hit
      <4>3. Saved(a) = {Text[a]}
        BY <3>1, <4>1, <4>2
      <4>4. mem[a] = BPT_CODE
        BY <2>4, <3>3 DEF TrShape, Plant
      <4>5. QED
        BY <4>3, <4>4
    <3>4. QED
      BY <3>2, <3>3
  <2>5. Quiet \/ (GBShape /\ trace_mode \in {TRACE_GB, TRACE_NO})
              \/ (TrShape /\ trace_mode \in {TRACE_TB, TRACE_TN, TRACE_TG})
    BY TypeSets DEF IInv, Shape, TraceModes, TRACE_GB, TRACE_NO, TRACE_TB, TRACE_TN, TRACE_TG
  <2>6. QED
    BY <2>2, <2>3, <2>4, <2>5
<1>2. QED
  BY <1>1, Invariance, PTL
-----------------------------------------------------------------------------
(* Tracing and resuming.                                                   *)

(* The trace breakpoints are those of address a.                           *)
StartOf(a, over) ==
  LET t == setTrcbp(Text, a, over) IN BptTrc.addr = t.trc /\ BptTrcb.addr = t.trcb
Started     == StartOf(pc, FALSE)
StartedOver == StartOf(pc, TRUE)

(* Only a running client has executed anything, or has a count to obey.    *)
Resting == phase # "client" => want = 0 /\ steps = 0 /\ ran = 0

(* A traced client is where the trace breakpoints were set for, or has     *)
(* executed one instruction and is on one of them; while a call is stepped *)
(* over it may be anywhere.  It is on a breakpoint of the user only at the *)
(* very start.                                                             *)
Traced ==
  phase = "client" /\ trace_mode # TRACE_GB =>
    /\ \/ ran = 0 /\ ~SteppingOver /\ Started
       \/ ran = 0 /\ SteppingOver /\ StartedOver
       \/ ran = 1 /\ ~SteppingOver /\ mem[pc] = BPT_CODE
       \/ ran # 0 /\ SteppingOver
    /\ ran = 0 => steps = 0 \/ (pc \notin BptAddrs(Bpt) /\ trace_mode # TRACE_TG)
    /\ ran <= steps

(* A client that goes on freely was not started on a planted break, unless *)
(* its first instruction was emulated in the place of the step off it.     *)
Going ==
  phase = "client" /\ trace_mode = TRACE_GB /\ steps = 0 /\ ~Reserved(Text, pc) =>
    pc \notin BptAddrs(Bpt) \cup {BptTmp.addr}

(* The count of t goes down at each trap, from the second on.              *)
Counting ==
  want > 1 /\ ~trace_over =>
    /\ \/ trace_mode = TRACE_TN /\ trace_count \in 2 .. want
       \/ trace_mode = TRACE_TB /\ trace_count = 1
    /\ steps <= want - trace_count + ran

TInv == IInv /\ Resting /\ (~suspect => Traced /\ Going /\ Counting)

(* The breakpoints setTrcbp sets are neither on the instruction nor in its *)
(* delay slot.                                                             *)
LEMMA TargetsElsewhere ==
  ASSUME NEW a \in Addr, NEW over \in BOOLEAN
  PROVE  LET t == setTrcbp(Text, a, over)
         IN  /\ a \notin {t.trc, t.trcb}
             /\ md_is_branch(Text[a]) => Plus(a, 1) \notin {t.trc, t.trcb}
<1> DEFINE w      == Text[a]
           target == IF w.to = a THEN Plus(a, 2) ELSE w.to
           t      == setTrcbp(Text, a, over)
<1>1. /\ Plus(a, 1) \in Addr /\ Plus(a, 2) \in Addr
      /\ a # Plus(a, 1) /\ a # Plus(a, 2) /\ Plus(a, 1) # Plus(a, 2)
      /\ Plus(a, 1) = IF a = N THEN 1 ELSE a + 1
  BY SizeAssumption, Basics DEF Addr, Plus
<1>2. a # NO_BPT /\ Plus(a, 1) # NO_BPT
  BY <1>1, Basics
<1>3. md_is_branch(w) => /\ w.to # Plus(a, 1)
                         /\ w.op = "jr" => w.link \notin {a, Plus(a, 1)}
  BY <1>1, FlowAssumption DEF md_is_branch
<1>4. target # a /\ (md_is_branch(w) => target # Plus(a, 1))
  BY <1>1, <1>3
<1>5. t.trc \in {Plus(a, 1), Plus(a, 2), NO_BPT, w.link} /\ t.trcb \in {NO_BPT, target}
  BY DEF setTrcbp
<1>6. t.trc = w.link => (md_is_branch(w) /\ w.op = "jr") \/ t.trc \in {Plus(a, 1), Plus(a, 2), NO_BPT}
  BY DEF setTrcbp
<1>7. md_is_branch(w) => t.trc \in {Plus(a, 2), NO_BPT} \/ (w.op = "jr" /\ t.trc = w.link)
  BY DEF setTrcbp
<1> HIDE DEF w, target, t
<1>8. QED
  BY <1>1, <1>2, <1>3, <1>4, <1>5, <1>6, <1>7 DEF t, w

(* setTrcbp predicts where the instruction at pc continues.                *)
LEMMA Predicts ==
  ASSUME pc \in Addr, Text[pc].op # "exit"
  PROVE  LET t == setTrcbp(Text, pc, FALSE)
         IN  Successors(Text[pc]) \subseteq {pc, t.trc, t.trcb}
<1> DEFINE w      == Text[pc]
           target == IF w.to = pc THEN Plus(pc, 2) ELSE w.to
           t      == setTrcbp(Text, pc, FALSE)
<1>1. w.op \in {"seq", "ri"} \cup Branches
  BY Basics DEF Word
<1>2. md_is_branch(w) /\ w.op = "jr" /\ w.to = pc => pc \notin Rom
  BY FlowAssumption DEF md_is_branch
<1>2a. SUFFICES Successors(w) \subseteq {pc, t.trc, t.trcb}
  OBVIOUS
<1> HIDE DEF w, t
<1>3. CASE ~md_is_branch(w)
  <2>1. t = [trc |-> Plus(pc, 1), trcb |-> NO_BPT]
    BY <1>3 DEF setTrcbp, w, t
  <2>2. Successors(w) = {Plus(pc, 1)}
    BY <1>1, <1>3 DEF Successors, md_is_branch, Branches
  <2>3. QED
    BY <2>1, <2>2
<1>4. CASE w.op = "cond"
  <2>1. t = [trc |-> IF target # Plus(pc, 2) THEN Plus(pc, 2) ELSE NO_BPT, trcb |-> target]
    BY <1>4 DEF setTrcbp, w, t, md_is_branch, Branches
  <2>2. Successors(w) = {w.to, Plus(pc, 2)}
    BY <1>4 DEF Successors
  <2>3. QED
    BY <2>1, <2>2
<1>5. CASE w.op \in {"jump", "call"}
  <2>1. t = [trc |-> NO_BPT, trcb |-> target]
    BY <1>5 DEF setTrcbp, w, t, md_is_branch, Branches
  <2>2. Successors(w) = {w.to}
    BY <1>5 DEF Successors
  <2>3. QED
    BY <2>1, <2>2
<1>6. CASE w.op = "jr"
  <2>1. t = IF target \in Rom THEN [trc |-> w.link, trcb |-> NO_BPT]
            ELSE [trc |-> NO_BPT, trcb |-> target]
    BY <1>6 DEF setTrcbp, w, t, md_is_branch, Branches
  <2>2. Successors(w) = {IF w.to \in Rom THEN w.link ELSE w.to}
    BY <1>6 DEF Successors
  <2>3. md_is_branch(w)
    BY <1>6 DEF md_is_branch, Branches
  <2>4. CASE w.to = pc
    BY <2>2, <2>3, <2>4, <1>2, <1>6
  <2>5. CASE w.to # pc
    BY <2>1, <2>2, <2>5
  <2>6. QED
    BY <2>4, <2>5
<1>7. QED
  BY <1>1, <1>3, <1>4, <1>5, <1>6 DEF Branches, md_is_branch

(* A traced client does not trap on the instruction it was started on.     *)
LEMMA StartRuns ==
  ASSUME TypeOK, TrShape, NEW over \in BOOLEAN, StartOf(pc, over)
  PROVE  mem[pc] = Text[pc] /\ ~Trapped
<1> DEFINE t == setTrcbp(Text, pc, over)
<1>1. pc \in Addr /\ Plus(pc, 1) \in Addr
  BY Basics DEF TypeOK
<1>2. mem = Plant(Text, {t.trc, t.trcb})
  BY DEF TrShape, StartOf
<1>3. /\ pc \notin {t.trc, t.trcb}
      /\ md_is_branch(Text[pc]) => Plus(pc, 1) \notin {t.trc, t.trcb}
  BY <1>1, TargetsElsewhere
<1> HIDE DEF t
<1>4. mem[pc] = Text[pc]
  BY <1>1, <1>2, <1>3 DEF Plant
<1>5. md_is_branch(Text[pc]) => mem[Plus(pc, 1)] = Text[Plus(pc, 1)]
  BY <1>1, <1>2, <1>3 DEF Plant
<1>6. QED
  BY <1>1, <1>4, <1>5, Basics DEF Trapped

(* goclient starts the client where it traces, or off every planted break. *)
LEMMA GoclientTraced ==
  ASSUME NEW b \in Table, NEW tmp \in Rec, NEW p \in Addr,
         goclient(b, tmp, NoTrcAddrs, Text, p)
  PROVE  Traced' /\ Going'
<1>1. /\ phase' = "client" /\ pc' = p /\ steps' = 0 /\ ran' = 0
      /\ p # NO_BPT
  BY Basics DEF goclient
<1>2. CASE is_break_point(b, tmp, p)
  <2>1. trace_mode' = TRACE_TG /\ store_trace_breakpoint(Text, setTrcbp(Text, p, FALSE))
    BY <1>2 DEF goclient
  <2>2. Started'
    BY <1>1, <2>1 DEF Started, StartOf, store_trace_breakpoint, Planted
  <2>3. ~SteppingOver'
    BY <2>1 DEF SteppingOver, TRACE_TG, TRACE_TB, TRACE_TN
  <2>4. QED
    BY <1>1, <2>1, <2>2, <2>3 DEF Traced, Going, TRACE_TG, TRACE_GB
<1>3. CASE ~is_break_point(b, tmp, p)
  <2>1. trace_mode' = TRACE_GB /\ store_breakpoint(Text, b, tmp, NoTrcAddrs)
    BY <1>3 DEF goclient
  <2>2. \A i \in Slots : Bpt'[i].addr = b[i].addr
    BY <2>1, StoreType, ConstTypes
  <2>3. BptAddrs(Bpt)' = BptAddrs(b)
    BY <2>2 DEF BptAddrs
  <2>4. BptTmp'.addr \in {tmp.addr, NO_BPT}
    BY <2>1 DEF store_breakpoint, Planted
  <2>5. p \notin BptAddrs(b) /\ p # tmp.addr
    BY <1>3 DEF is_break_point
  <2>6. QED
    BY <1>1, <2>1, <2>3, <2>4, <2>5 DEF Traced, Going
<1>4. QED
  BY <1>2, <1>3

(* A client at rest has nothing to show.                                   *)
LEMMA RestingTraced ==
  ASSUME phase' # "client", want' = 0
  PROVE  Traced' /\ Going' /\ Counting'
BY DEF Traced, Going, Counting

(* Only a running client has steps or a count, after every step.           *)
LEMMA RestingStep ==
  ASSUME Resting, Next
  PROVE  Resting'
<1> USE DEF Resting, ghosts
<1>1. ASSUME Command PROVE Resting'
  <2>1. ASSUME phase' = phase \/ phase = "prompt", UNCHANGED <<steps, ran, want>>
        PROVE  Resting'
    BY <2>1
  <2>2. ASSUME NEW adr \in UserBpts, NEW str \in CmdStrs \cup {NoStr}, cmd_setbp(adr, str)
        PROVE  Resting'
    BY <2>2 DEF cmd_setbp
  <2>3. ASSUME NEW i \in Slots, cmd_clrbp(i)
        PROVE  Resting'
    BY <2>3 DEF cmd_clrbp
  <2>4. CASE cmd_clrbp_all \/ FreeBug(Slots) \/ pmon_intr
    BY <2>4 DEF cmd_clrbp_all, FreeBug, pmon_intr
  <2>5. ASSUME NEW keep \in BOOLEAN, cmd_load(keep)
        PROVE  Resting'
    BY <2>5 DEF cmd_load
  <2>6. ASSUME NEW keep \in BOOLEAN, NEW k \in Cuts, cmd_load_fails(keep, k)
        PROVE  Resting'
    BY <2>6 DEF cmd_load_fails
  <2>7. ASSUME NEW keep \in BOOLEAN, cmd_boot(keep)
        PROVE  Resting'
    BY <2>7 DEF cmd_boot, goclient
  <2>8. ASSUME NEW adr \in UserTmps \cup {NO_BPT}, cmd_cont(adr)
        PROVE  Resting'
    BY <2>8 DEF cmd_cont, goclient
  <2>9. ASSUME NEW adr \in UserTmps \cup {NO_BPT}, NEW entry \in Entries, cmd_go(adr, entry)
        PROVE  Resting'
    BY <2>9 DEF cmd_go, goclient
  <2>10. ASSUME NEW adr \in UserTmps \cup {NO_BPT}, cmd_go_badarg(adr)
         PROVE  Resting'
    BY <2>10 DEF cmd_go_badarg
  <2>11. ASSUME NEW t \in TraceArgs, cmd_trace(t)
         PROVE  Resting'
    BY <2>11 DEF cmd_trace
  <2>12. ASSUME NEW t \in TraceArgs, cmd_trace_badarg(t)
         PROVE  Resting'
    BY <2>12 DEF cmd_trace_badarg
  <2>13. QED
    BY <1>1, <2>2, <2>3, <2>4, <2>5, <2>6, <2>7, <2>8, <2>9, <2>10, <2>11, <2>12
       DEF Command
<1>2. CASE ClientStep \/ ClientReturn \/ Reset
  BY <1>2 DEF ClientStep, ClientReturn, Reset
<1>3. CASE Exception
  BY <1>3 DEF Exception, ExceptionOther, ExceptionGB, ExceptionTraceStop,
              ExceptionTraceNext, ExceptionTG, ExceptionEmulated, EnterMain, pmon_stop,
              TracerRuns
<1>4. QED
  BY <1>1, <1>2, <1>3 DEF Next

(* The commands of the shell start the client as Traced and Going say.     *)
LEMMA CommandTraced ==
  ASSUME TInv, Command, ~suspect'
  PROVE  Traced' /\ Going' /\ Counting'
<1> USE DEF TInv, IInv, ghosts, tracing
<1>1. ASSUME phase = "prompt", UNCHANGED want, phase' # "client"
      PROVE  Traced' /\ Going' /\ Counting'
  BY <1>1, RestingTraced DEF Resting
<1>2. ASSUME NEW adr \in UserBpts, NEW str \in CmdStrs \cup {NoStr}, cmd_setbp(adr, str)
      PROVE  Traced' /\ Going' /\ Counting'
  BY <1>1, <1>2 DEF cmd_setbp
<1>3. ASSUME NEW i \in Slots, cmd_clrbp(i)
      PROVE  Traced' /\ Going' /\ Counting'
  BY <1>1, <1>3 DEF cmd_clrbp
<1>4. CASE cmd_clrbp_all \/ FreeBug(Slots) \/ pmon_intr
  BY <1>1, <1>4 DEF cmd_clrbp_all, FreeBug, pmon_intr
<1>5. ASSUME NEW keep \in BOOLEAN, cmd_load(keep)
      PROVE  Traced' /\ Going' /\ Counting'
  BY <1>1, <1>5 DEF cmd_load
<1>6. ASSUME NEW keep \in BOOLEAN, NEW k \in Cuts, cmd_load_fails(keep, k)
      PROVE  Traced' /\ Going' /\ Counting'
  BY <1>1, <1>6 DEF cmd_load_fails
<1>7. ASSUME want' = 0
      PROVE  Counting'
  BY <1>7 DEF Counting
<1>8. ASSUME NEW keep \in BOOLEAN, cmd_boot(keep)
      PROVE  Traced' /\ Going' /\ Counting'
  <2> DEFINE b == IF keep THEN Bpt ELSE clrbpts
             t == [trc |-> BptTrc.addr, trcb |-> BptTrcb.addr]
  <2>1. b \in Table /\ BptTmp \in Rec
    BY HelperTypes, TypeSets
  <2>2. BptTrc.addr = NO_BPT /\ BptTrcb.addr = NO_BPT
    BY <1>8 DEF cmd_boot, Reloaded, Shape, Quiet
  <2>3. t = NoTrcAddrs
    BY <2>2 DEF NoTrcAddrs
  <2>4. goclient(b, BptTmp, t, Text, 1) /\ want' = 0
    BY <1>8 DEF cmd_boot
  <2> HIDE DEF b, t
  <2>5. QED
    BY <2>1, <2>3, <2>4, <1>7, GoclientTraced, Basics
<1>9. ASSUME NEW adr \in UserTmps \cup {NO_BPT}, cmd_cont(adr)
      PROVE  Traced' /\ Going' /\ Counting'
  <2>1. [BptTmp EXCEPT !.addr = adr] \in Rec /\ Bpt \in Table /\ pc \in Addr
    BY HelperTypes, TypeSets, InputAssumption
  <2>2. mem = Text
    BY <1>9 DEF cmd_cont, Shape, Quiet
  <2>3. goclient(Bpt, [BptTmp EXCEPT !.addr = adr], NoTrcAddrs, mem, pc) /\ want' = 0
    BY <1>9 DEF cmd_cont
  <2>4. QED
    BY <2>1, <2>2, <2>3, <1>7, GoclientTraced
<1>10. ASSUME NEW adr \in UserTmps \cup {NO_BPT}, NEW entry \in Entries, cmd_go(adr, entry)
       PROVE  Traced' /\ Going' /\ Counting'
  <2>1. [BptTmp EXCEPT !.addr = adr] \in Rec /\ Bpt \in Table /\ entry \in Addr
    BY HelperTypes, TypeSets, InputAssumption
  <2>2. mem = Text
    BY <1>10 DEF cmd_go, Shape, Quiet
  <2>3. goclient(Bpt, [BptTmp EXCEPT !.addr = adr], NoTrcAddrs, mem, entry) /\ want' = 0
    BY <1>10 DEF cmd_go
  <2>4. QED
    BY <2>1, <2>2, <2>3, <1>7, GoclientTraced
<1>11. ASSUME NEW adr \in UserTmps \cup {NO_BPT}, cmd_go_badarg(adr)
       PROVE  Traced' /\ Going' /\ Counting'
  BY <1>1, <1>11 DEF cmd_go_badarg
<1>12. ASSUME NEW t \in TraceArgs, cmd_trace(t)
       PROVE  Traced' /\ Going' /\ Counting'
  <2>1. /\ mem = Text /\ pc \in Addr
        /\ t.over \in BOOLEAN /\ t.cnt \in Nat /\ (t.cnt # 0 => t.multi)
    BY <1>12, TypeSets, InputAssumption DEF cmd_trace, Shape, Quiet
  <2>2. /\ phase' = "client" /\ pc' = pc /\ steps' = 0 /\ ran' = 0
        /\ want' = t.cnt /\ trace_over' = t.over
        /\ trace_mode' = IF t.multi THEN TRACE_TN ELSE TRACE_TB
        /\ trace_count' = IF t.multi THEN t.cnt ELSE trace_count
    BY <1>12 DEF cmd_trace
  <2>3. StartOf(pc, t.over)'
    BY <1>12, <2>1, <2>2 DEF cmd_trace, StartOf, store_trace_breakpoint, Planted
  <2>4. SteppingOver' <=> t.over
    BY <2>2 DEF SteppingOver
  <2>5. Traced'
    <3>1. CASE t.over = TRUE
      <4>1. StartedOver'
        BY <2>3, <3>1 DEF StartedOver
      <4>2. QED
        BY <2>2, <2>4, <3>1, <4>1 DEF Traced
    <3>2. CASE t.over = FALSE
      <4>1. Started'
        BY <2>3, <3>2 DEF Started
      <4>2. QED
        BY <2>2, <2>4, <3>2, <4>1 DEF Traced
    <3>3. QED
      BY <2>1, <3>1, <3>2
  <2>6. Going'
    BY <2>2 DEF Going, TRACE_GB, TRACE_TN, TRACE_TB
  <2>7. Counting'
    BY <2>1, <2>2 DEF Counting
  <2>8. QED
    BY <2>5, <2>6, <2>7
<1>13. ASSUME NEW t \in TraceArgs, cmd_trace_badarg(t)
       PROVE  Traced' /\ Going' /\ Counting'
  BY <1>1, <1>13 DEF cmd_trace_badarg
<1>14. QED
  BY <1>2, <1>3, <1>4, <1>5, <1>6, <1>8, <1>9, <1>10, <1>11, <1>12, <1>13 DEF Command

(* Where a client starts, it does not trap.                                *)
LEMMA StartedRuns ==
  ASSUME TypeOK, TrShape, Started \/ StartedOver
  PROVE  mem[pc] = Text[pc] /\ ~Trapped
BY StartRuns DEF Started, StartedOver

(* A traced client has executed at most one instruction.                   *)
LEMMA TracedOnce ==
  ASSUME TInv, ~suspect, phase = "client", trace_mode # TRACE_GB, ~SteppingOver
  PROVE  ran \in 0 .. 1
<1>1. Traced /\ StepCap \in Nat /\ ran \in 0 .. StepCap
  BY SizeAssumption DEF TInv, IInv, TypeOK
<1>2. QED
  BY <1>1 DEF Traced

(* The client's own step.                                                  *)
LEMMA ClientStepTraced ==
  ASSUME TInv, ClientStep, ~suspect
  PROVE  Traced' /\ Going' /\ Counting'
<1>1. /\ TypeOK /\ Shape /\ Traced /\ Going /\ Counting
      /\ steps \in Nat /\ ran \in Nat /\ StepCap \in Nat \ {0} /\ want \in Nat
      /\ steps <= StepCap /\ ran <= StepCap
      /\ pc \in Addr
  BY SizeAssumption DEF TInv, IInv, TypeOK
<1>2. /\ phase = "client" /\ phase' = "client"
      /\ ~Trapped /\ mem[pc].op # "exit" /\ pc' \in Successors(mem[pc])
      /\ UNCHANGED <<Bpt, BptTmp, BptTrc, BptTrcb, mem, trace_mode, want,
                     trace_count, trace_over>>
  BY DEF ClientStep, tracing
<1>3. \/ pc' = pc /\ steps' = steps /\ ran' = ran
      \/ pc' # pc /\ steps' = Tick(steps) /\ ran' = Tick(ran)
  BY DEF ClientStep
<1>4. /\ Tick(steps) \in Nat /\ Tick(steps) > 0 /\ Tick(steps) <= steps + 1
      /\ Tick(ran) \in Nat /\ Tick(ran) > 0 /\ (ran = 0 => Tick(ran) = 1)
      /\ ran <= steps => Tick(ran) <= Tick(steps)
  BY <1>1 DEF Tick
<1>5. SteppingOver' = SteppingOver
  BY <1>2 DEF SteppingOver
<1>6. mem[pc] # BPT_CODE
  BY <1>2 DEF Trapped
<1>7. pc' \in Addr
  <2>1. TypeOK'
    BY <1>1, ClientTypes
  <2>2. QED
    BY <2>1 DEF TypeOK
<1>8. trace_mode # TRACE_GB => TrShape
  BY <1>1, <1>2 DEF Shape, TRACE_NO
<1>9. CASE pc' = pc
  <2>1. steps' = steps /\ ran' = ran
    BY <1>3, <1>4, <1>9
  <2>2. Traced'
    <3>1. (Started => Started') /\ (StartedOver => StartedOver')
      BY <1>2, <1>9 DEF Started, StartedOver, StartOf
    <3>2. QED
      BY <1>1, <1>2, <1>5, <1>9, <2>1, <3>1 DEF Traced
  <2>3. Going' /\ Counting'
    BY <1>1, <1>2, <1>9, <2>1 DEF Going, Counting
  <2>4. QED
    BY <2>2, <2>3
<1>10. CASE pc' # pc
  <2>1. steps' = Tick(steps) /\ ran' = Tick(ran) /\ ran' # 0 /\ steps' # 0
    BY <1>3, <1>4, <1>10
  <2>2. Going'
    BY <2>1 DEF Going
  <2>3. trace_mode # TRACE_GB /\ ~SteppingOver => ran = 0 /\ Started
    BY <1>1, <1>2, <1>6 DEF Traced
  <2>4. trace_mode # TRACE_GB /\ ~SteppingOver => ran' = 1 /\ mem'[pc'] = BPT_CODE
    <3>1. SUFFICES ASSUME trace_mode # TRACE_GB, ~SteppingOver
                   PROVE  ran' = 1 /\ mem'[pc'] = BPT_CODE
      OBVIOUS
    <3>2. ran' = 1
      BY <2>1, <2>3, <3>1, <1>4
    <3>3. TrShape /\ mem[pc] = Text[pc]
      BY <1>1, <1>8, <2>3, <3>1, StartedRuns
    <3> DEFINE t == setTrcbp(Text, pc, FALSE)
    <3>4. pc' \in {pc, t.trc, t.trcb}
      BY <1>1, <1>2, <3>3, Predicts
    <3>5. BptTrc.addr = t.trc /\ BptTrcb.addr = t.trcb
      BY <2>3, <3>1 DEF Started, StartOf
    <3> HIDE DEF t
    <3>6. pc' \in {BptTrc.addr, BptTrcb.addr}
      BY <1>10, <3>4, <3>5
    <3>7. mem[pc'] = BPT_CODE
      BY <1>7, <3>3, <3>6 DEF TrShape, Plant
    <3>8. QED
      BY <1>2, <3>2, <3>7
  <2>5. ran <= steps /\ trace_mode # TRACE_GB => ran' <= steps'
    BY <1>4, <2>1
  <2>6. Traced'
    BY <1>1, <1>2, <1>5, <2>1, <2>4, <2>5 DEF Traced
  <2>7. Counting'
    <3>1. SUFFICES ASSUME want > 1, ~trace_over
                   PROVE  Counting'
      BY <1>2 DEF Counting
    <3>2. /\ \/ trace_mode = TRACE_TN /\ trace_count \in 2 .. want
             \/ trace_mode = TRACE_TB /\ trace_count = 1
          /\ steps <= want - trace_count + ran
      BY <1>1, <3>1 DEF Counting
    <3>3. ran = 0 /\ ran' = 1
      BY <2>3, <2>4, <3>1, <3>2 DEF SteppingOver, TRACE_GB, TRACE_TN, TRACE_TB
    <3>4. steps' <= want - trace_count + ran'
      BY <1>1, <1>4, <2>1, <3>2, <3>3
    <3>5. QED
      BY <1>2, <3>2, <3>4 DEF Counting
  <2>8. QED
    BY <2>2, <2>6, <2>7
<1>11. QED
  BY <1>9, <1>10

(* The next trap of a multiple trace.                                      *)
LEMMA TraceNextTraced ==
  ASSUME TInv, ExceptionTraceNext, ~suspect
  PROVE  Traced' /\ Going' /\ Counting'
<1>1. /\ TypeOK /\ Shape /\ Counting
      /\ steps \in Nat /\ ran \in Nat /\ want \in Nat /\ trace_count \in Nat
      /\ pc \in Addr /\ trace_over \in BOOLEAN
  BY SizeAssumption DEF TInv, IInv, TypeOK
<1>2. /\ phase = "client" /\ phase' = "client" /\ trace_mode = TRACE_TN
      /\ ~AtBreakpoint
      /\ trace_count' = count_down(trace_count)
      /\ trace_mode' = mode_after(trace_count')
      /\ ran' = 0
      /\ UNCHANGED <<Bpt, pc, trace_over, steps, want>>
      /\ store_trace_breakpoint(RemoveTrace(mem), setTrcbp(RemoveTrace(mem), pc, trace_over))
  BY DEF ExceptionTraceNext, TracerRuns
<1>3. TrShape
  BY <1>1, <1>2 DEF Shape, TRACE_GB, TRACE_NO, TRACE_TN
<1>4. store_trace_breakpoint(Text, setTrcbp(Text, pc, trace_over))
  BY <1>1, <1>2, <1>3, RemoveTraceText
<1>5. StartOf(pc, trace_over)'
  BY <1>2, <1>4 DEF StartOf, store_trace_breakpoint, Planted
<1>6. trace_mode' \in {TRACE_TB, TRACE_TN} /\ (SteppingOver' <=> trace_over)
  BY <1>2 DEF mode_after, SteppingOver
<1>7. (trace_over => StartedOver') /\ (~trace_over => Started')
  <2>1. CASE trace_over = TRUE
    BY <1>2, <1>5, <2>1 DEF StartedOver
  <2>2. CASE trace_over = FALSE
    BY <1>2, <1>5, <2>2 DEF Started
  <2>3. QED
    BY <1>1, <2>1, <2>2
<1>8. pc' \notin BptAddrs(Bpt')
  BY <1>2 DEF AtBreakpoint
<1>9. Traced'
  BY <1>1, <1>2, <1>6, <1>7, <1>8 DEF Traced, TRACE_TG, TRACE_TB, TRACE_TN
<1>10. Going'
  BY <1>6 DEF Going, TRACE_GB, TRACE_TB, TRACE_TN
<1>11. Counting'
  <2>1. SUFFICES ASSUME want > 1, ~trace_over
                 PROVE  Counting'
    BY <1>2 DEF Counting
  <2>2. trace_count \in 2 .. want /\ steps <= want - trace_count + ran
    BY <1>1, <1>2, <2>1 DEF Counting, TRACE_TN, TRACE_TB
  <2>3. ran <= 1
    BY <1>2, <2>1, TracedOnce DEF SteppingOver, TRACE_GB, TRACE_TN
  <2>4. trace_count' = trace_count - 1 /\ steps <= want - trace_count' + 0
    BY <1>1, <1>2, <2>2, <2>3 DEF count_down
  <2>5. \/ trace_mode' = TRACE_TN /\ trace_count' \in 2 .. want
        \/ trace_mode' = TRACE_TB /\ trace_count' = 1
    BY <1>1, <1>2, <2>2, <2>4 DEF mode_after
  <2>6. QED
    BY <1>2, <2>4, <2>5 DEF Counting
<1>12. QED
  BY <1>9, <1>10, <1>11

(* A reserved instruction in memory is one of the program.                 *)
LEMMA ReservedText ==
  ASSUME pc \in Addr, NEW S, mem = Plant(Text, S), Unimplemented
  PROVE  Reserved(Text, pc)
<1>1. \A a \in Addr : mem[a] \in {Text[a], BPT_CODE}
  BY DEF Plant
<1>2. BPT_CODE.op = "break"
  BY DEF BPT_CODE
<1>3. Plus(pc, 1) \in Addr
  BY Basics
<1>4. CASE mem[pc].op = "ri"
  BY <1>1, <1>2, <1>4 DEF Reserved
<1>5. CASE md_is_branch(mem[pc]) /\ mem[Plus(pc, 1)].op = "ri"
  <2>1. mem[pc] = Text[pc]
    BY <1>1, <1>2, <1>5 DEF md_is_branch, Branches
  <2>2. mem[Plus(pc, 1)] = Text[Plus(pc, 1)]
    BY <1>1, <1>2, <1>3, <1>5
  <2>3. QED
    BY <1>5, <2>1, <2>2 DEF Reserved
<1>6. QED
  BY <1>4, <1>5 DEF Unimplemented, Reserved

(* The trap behind the instruction that goclient stepped over, or the      *)
(* emulation that is taken for it.                                         *)
LEMMA TGTraced ==
  ASSUME TInv, ExceptionTG, ~suspect
  PROVE  Traced' /\ Going' /\ Counting'
<1>1. /\ TypeOK /\ Shape /\ Traced /\ Counting
      /\ steps \in Nat /\ ran \in Nat /\ pc \in Addr
  BY SizeAssumption DEF TInv, IInv, TypeOK
<1>2. /\ phase = "client" /\ trace_mode = TRACE_TG /\ (Trapped \/ Unimplemented)
      /\ trace_mode' = TRACE_GB
      /\ UNCHANGED <<pc, steps, want, trace_over>>
  BY DEF ExceptionTG, TracerRuns, tracing
<1>3. TrShape
  BY <1>1, <1>2 DEF Shape, TRACE_GB, TRACE_NO, TRACE_TG
<1>4. Trapped => steps # 0
  <2>1. Trapped => ~SteppingOver /\ ~Started
    BY <1>1, <1>2, <1>3, StartedRuns DEF SteppingOver, TRACE_TG, TRACE_TB, TRACE_TN
  <2>2. QED
    BY <1>1, <1>2, <2>1 DEF Traced, TRACE_TG, TRACE_GB
<1>5. Unimplemented => Reserved(Text, pc)
  BY <1>1, <1>3, ReservedText DEF TrShape
<1>6. Going' /\ Traced'
  BY <1>2, <1>4, <1>5 DEF Going, Traced, Reserved
<1>7. ~(want > 1 /\ ~trace_over)
  BY <1>1, <1>2 DEF Counting, TRACE_TG, TRACE_TN, TRACE_TB
<1>8. Counting'
  BY <1>2, <1>7 DEF Counting
<1>9. QED
  BY <1>6, <1>8

(* An instruction emulated while the client goes on freely, with no        *)
(* breakpoint planted.                                                     *)
LEMMA EmulatedTraced ==
  ASSUME TInv, ExceptionEmulated, ~suspect'
  PROVE  Traced' /\ Going' /\ Counting'
<1>1. /\ ~suspect /\ Counting /\ TypeOK /\ Shape
      /\ trace_mode = TRACE_GB /\ phase = "client"
      /\ UNCHANGED <<pc, trace_mode, steps, want, trace_over>>
      /\ BptAddrs(Bpt) = {} /\ BptTmp.addr = NO_BPT
  BY DEF ExceptionEmulated, TInv, IInv, tracing
<1>2. GBShape
  BY <1>1 DEF Shape, TRACE_GB, TRACE_NO
<1>3. mem = Plant(Text, {NO_BPT}) /\ pc \in Addr /\ Unimplemented
  BY <1>1, <1>2 DEF GBShape, TypeOK, ExceptionEmulated
<1>4. Reserved(Text, pc)
  BY <1>3, ReservedText
<1>5. Going' /\ Traced'
  BY <1>1, <1>4 DEF Going, Traced, Reserved
<1>6. Counting'
  BY <1>1 DEF Counting, TRACE_GB, TRACE_TN, TRACE_TB
<1>7. QED
  BY <1>5, <1>6

(* The client and the exception handler.                                   *)
LEMMA ClientTraced ==
  ASSUME TInv, ClientStep \/ ClientReturn \/ Exception \/ Reset, ~suspect'
  PROVE  Traced' /\ Going' /\ Counting'
<1>1. CASE ClientStep
  BY <1>1, ClientStepTraced DEF ClientStep
<1>2. CASE ClientReturn
  BY <1>2 DEF ClientReturn
<1>3. CASE ExceptionOther \/ ExceptionGB \/ ExceptionTraceStop \/ Reset
  <2>1. phase' # "client" /\ want' = 0
    BY <1>3 DEF ExceptionOther, ExceptionGB, ExceptionTraceStop, Reset, pmon_stop
  <2>2. QED
    BY <2>1, RestingTraced
<1>4. CASE EnterMain
  <2>1. phase' # "client" /\ want' = 0
    BY <1>4 DEF EnterMain, ghosts, TInv, Resting
  <2>2. QED
    BY <2>1, RestingTraced
<1>5. CASE ExceptionTraceNext
  BY <1>5, TraceNextTraced DEF ExceptionTraceNext
<1>6. CASE ExceptionTG
  BY <1>6, TGTraced DEF ExceptionTG
<1>7. CASE ExceptionEmulated
  BY <1>7, EmulatedTraced
<1>8. QED
  BY <1>1, <1>2, <1>3, <1>4, <1>5, <1>6, <1>7 DEF Exception

(* The invariant with the tracer's progress in it: a traced client is      *)
(* where its trace breakpoints were set for or on one of them, and the     *)
(* count of t is spent one instruction at a time (exception, goclient, t). *)
THEOREM TraceInvariance == Spec => []TInv
<1>1. Init => TInv
  <2> SUFFICES ASSUME Init PROVE TInv
    OBVIOUS
  <2>1. IInv
    <3>1. TypeOK
      BY InitTypes
    <3>2. Distinct(Bpt)
      BY DEF Init, EmptySlot, Distinct
    <3>3. Shape
      BY DEF Init, Shape, Quiet, NoRec
    <3>4. QED
      BY <3>1, <3>2, <3>3 DEF IInv
  <2>2. Resting /\ Traced /\ Going /\ Counting
    BY DEF Init, Resting, Traced, Going, Counting
  <2>3. QED
    BY <2>1, <2>2 DEF TInv
<1>2. TInv /\ IInv' /\ [Next]_vars => TInv'
  <2>1. ASSUME TInv, IInv', Next
        PROVE  TInv'
    <3>1. Resting'
      BY <2>1, RestingStep DEF TInv
    <3>2. ~suspect' => Traced' /\ Going' /\ Counting'
      BY <2>1, CommandTraced, ClientTraced DEF Next
    <3>3. QED
      BY <2>1, <3>1, <3>2 DEF TInv
  <2>2. ASSUME TInv, IInv', UNCHANGED vars
        PROVE  TInv'
    <3>1. Resting => Resting'
      BY <2>2 DEF Resting, vars
    <3>2. Traced => Traced'
      <4>1. (Started => Started') /\ (StartedOver => StartedOver') /\ SteppingOver' = SteppingOver
        BY <2>2 DEF Started, StartedOver, StartOf, SteppingOver, vars
      <4>2. QED
        BY <2>2, <4>1 DEF Traced, vars
    <3>3. suspect' = suspect
      BY <2>2 DEF vars
    <3>4. (Going => Going') /\ (Counting => Counting')
      BY <2>2 DEF Going, Counting, vars
    <3>5. QED
      BY <2>2, <3>1, <3>2, <3>3, <3>4 DEF TInv
  <2>3. QED
    BY <2>1, <2>2
<1>3. QED
  BY <1>1, <1>2, Invariance, PTL DEF Spec

(* setTrcbp predicts every successor, for every program: a client started  *)
(* in a trace mode executes one instruction and traps.                     *)
THEOREM TraceStepsOnceCorrect == Spec => []TraceStepsOnce
<1>1. TInv => TraceStepsOnce
  BY TracedOnce DEF TraceStepsOnce
<1>2. QED
  BY <1>1, TraceInvariance, PTL

(* t cnt executes no more than cnt instructions, from cnt 2 on, for every  *)
(* count and program (cmd_trace, exception).                               *)
THEOREM TraceCountCorrect == Spec => []TraceCountObeyed
<1>1. TInv => TraceCountObeyed
  <2> SUFFICES ASSUME TInv, want > 1, ~trace_over, ~suspect
               PROVE  steps <= want
    BY DEF TraceCountObeyed
  <2>1. /\ trace_mode = TRACE_TN \/ trace_mode = TRACE_TB
        /\ trace_count \in Nat /\ trace_count >= 1
        /\ steps <= want - trace_count + ran
        /\ steps \in Nat /\ want \in Nat /\ ran \in Nat
    BY SizeAssumption DEF TInv, IInv, TypeOK, Counting
  <2>2. phase = "client"
    BY <2>1 DEF TInv, Resting
  <2>3. ran \in 0 .. 1
    BY <2>1, <2>2, TracedOnce DEF SteppingOver, TRACE_TN, TRACE_TB, TRACE_GB
  <2>4. QED
    BY <2>1, <2>3
<1>2. QED
  BY <1>1, TraceInvariance, PTL

(* A client that is resumed gets off the breakpoint it stands on, whatever *)
(* breakpoints the user has set around it, unless the instruction there is *)
(* one that was emulated (goclient, exception).                            *)
THEOREM ResumeProgressesCorrect == Spec => []ResumeProgresses
<1>1. TInv => ResumeProgresses
  <2> SUFFICES ASSUME TInv, phase = "client", Trapped, steps = 0, ~suspect,
                      ~Reserved(Text, pc)
               PROVE  /\ md_is_branch(Text[pc])
                      /\ Plus(pc, 1) \in BptAddrs(Bpt) \cup {BptTmp.addr, BptTrc.addr, BptTrcb.addr}
    BY DEF ResumeProgresses
  <2>1. /\ TypeOK /\ Shape /\ Traced /\ Going
        /\ ran \in Nat /\ pc \in Addr /\ Plus(pc, 1) \in Addr
    BY SizeAssumption, Basics DEF TInv, IInv, TypeOK
  <2>2. CASE trace_mode # TRACE_GB
    <3>1. TrShape
      BY <2>1, <2>2 DEF Shape, TRACE_NO
    <3>2. ran = 0
      BY <2>1, <2>2 DEF Traced
    <3>3. Started \/ StartedOver
      BY <2>1, <2>2, <3>2 DEF Traced
    <3>4. QED
      BY <2>1, <3>1, <3>3, StartedRuns
  <2>3. CASE trace_mode = TRACE_GB
    <3>1. mem = Plant(Text, BptAddrs(Bpt) \cup {BptTmp.addr})
      BY <2>1, <2>3 DEF Shape, GBShape, TRACE_GB, TRACE_NO
    <3>2. mem[pc] = Text[pc]
      BY <2>1, <2>3, <3>1 DEF Going, Plant
    <3>3. md_is_branch(Text[pc]) /\ mem[Plus(pc, 1)] = BPT_CODE
      BY <2>1, <3>2, Basics DEF Trapped
    <3>4. mem[Plus(pc, 1)] # Text[Plus(pc, 1)]
      BY <2>1, <3>3, Basics
    <3>5. Plus(pc, 1) \in BptAddrs(Bpt) \cup {BptTmp.addr}
      BY <2>1, <3>1, <3>4 DEF Plant
    <3>6. QED
      BY <3>3, <3>5
  <2>4. QED
    BY <2>2, <2>3
<1>2. QED
  BY <1>1, TraceInvariance, PTL

(* A running client never passes a breakpoint of the user, but for the one *)
(* it was resumed on and those in a call that is stepped over.             *)
THEOREM BreakpointsTakenCorrect == Spec => BreakpointsTaken
<1>1. TInv /\ [Next]_vars =>
        [(ClientStep /\ pc \in BptAddrs(Bpt) /\ ~suspect) => (steps = 0 \/ SteppingOver)]_vars
  <2> SUFFICES ASSUME TInv, ClientStep, pc \in BptAddrs(Bpt), ~suspect
               PROVE  steps = 0 \/ SteppingOver
    OBVIOUS
  <2>1. /\ Shape /\ Traced /\ pc \in Addr /\ phase = "client" /\ ~Trapped
    BY DEF TInv, IInv, TypeOK, ClientStep
  <2>2. mem[pc] # BPT_CODE
    BY <2>1 DEF Trapped
  <2>3. CASE trace_mode = TRACE_GB
    <3>1. mem = Plant(Text, BptAddrs(Bpt) \cup {BptTmp.addr})
      BY <2>1, <2>3 DEF Shape, GBShape, TRACE_GB, TRACE_NO
    <3>2. mem[pc] = BPT_CODE
      BY <2>1, <3>1 DEF Plant
    <3>3. QED
      BY <2>2, <3>2
  <2>4. CASE trace_mode # TRACE_GB
    BY <2>1, <2>2, <2>4 DEF Traced
  <2>5. QED
    BY <2>3, <2>4
<1>2. QED
  BY <1>1, TraceInvariance, PTL DEF Spec, BreakpointsTaken
=============================================================================
