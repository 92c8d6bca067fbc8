# A verification project for PMON

PMON is a boot monitor for MIPS/Loongson boards: a shell on a serial line that
sets up the board, keeps an environment in flash, downloads a program (the
*client*) over a network or a serial line, starts it and debugs it with
breakpoints and single steps. It runs in one thread. It has no interrupts while
the shell is in control: the clock and the network are polled whenever the
interrupt level is lowered. What makes it hard to get right is state that
outlives the operation that created it: break instructions in somebody else's
memory, two copies of the environment, a clock that must count ticks nobody was
there to see, sleeps and signals of processes that all share one stack, and
transfers over lines that lose what is sent.

The modules here model that core and TLC checks them on small instances. TLAPS
proves what the debugger, the callouts, the processes, the heap, the environment
and the two transfers promise for every program, queue, process table, heap,
sector and file.

## 1. Inventory

| Component | State | Operations | Hard because | Correct when |
|---|---|---|---|---|
| Breakpoint debugger (`pmon/common/debugger.c`, `exception.c`, `pmon/cmds/debuggercmds.c`) | breakpoint table, temporary and trace records, trace mode and count, client memory, saved pc | `b`, `db`, `c`, `t`, `to`, `exception`, `rm_bpts`, `pmon_stop` | each way of leaving the client restores a different part of memory; starting on a breakpoint takes two starts | no client instruction is lost, the prompt sees no break, no breakpoint is run over, a step is one step |
| Client start and return (`pmon/cmds/cmd_go.c`) | the jump buffer for `_exit` | `g`, return of the client | the client comes back by a long jump, past `main` | as above |
| Download and boot (`pmon/cmds/boot.c`, `load.c`, `pmon/loaders`) | client memory, start address | `load`, `boot` | a download can fail in the middle | as above; file formats are data |
| Environment (`pmon/common/env.c`, `pmon/cmds/cmd_env.c`) | `envvar` | `set`, `eset`, `unset`, `envinit` | names are compared without regard to case here and exactly in flash | one slot per variable; standard variables always have a value |
| NVRAM store (`pmon/dev/fl_nvram.c`) | a flash sector, `nvram_invalid` | `tgt_setenv`, `tgt_unsetenv`, `tgt_mapenv` | several erase/program cycles per operation, power failures | what was saved survives, what was removed stays away |
| Callouts and the polled clock (`sys/kern/kern_clock.c`, `kern_misc.c`, `pmon/arch/mips/mips_machdep.c`) | delta list, counter values, soft interrupt flag | `timeout`, `untimeout`, `tgt_clkpoll`, `hardclock`, `softclock`, `splx` | polls are nested in one another, ticks are missed, the counter wraps | order and time of calls; nothing due is forgotten |
| Processes, sleeping and signals (`sys/kern/kern_proc.c`, `kern_synch.c`, `kern_sig.c`, `kern_syscall.c`, `sys_generic.c`) | process slots, `p_stat`, `p_wchan`, `p_flag`, pending and blocked signals, the stack | `spawn`, `exit1`, system calls, `tsleep`, `wakeup`, `endtsleep`, `psignal`, handlers | a timeout races a wakeup and a signal; handlers call the kernel, jump out of it or exit | a wakeup is not lost, an old timeout does not end a new sleep, `^C` always works |
| Network boot (`pmon/netio`, `pmon/cmds/tftpd.c`) | block numbers, buffers, timers | TFTP, bootp, HTTP | lost, repeated and late packets | the file arrives once, in order, or an error is reported |
| Serial downloads (`pmon/cmds/xmodem.c`) | block number, buffer | `xmodem` | bytes lost in the middle of a packet, lost answers | the same |
| Heap (`lib/libc/malloc.c`, `realloc.c`, `pmon/common/sbrk.c`) | free list, heap top | `malloc`, `free`, `realloc`, `sbrk` | a ring that wraps, splits and joins | no overlap, nothing lost, the walk ends |
| Files and terminals (`pmon/fs`, `lib/libc`) | descriptor table, queues | open/close/read/write, polling | two users of one queue | bytes in order, limits respected |
| Command shell (`pmon/common/cmdparser.c`, `main.c`, `pmon/cmds/hist.c`) | line, history ring | parse, dispatch, `^C` | text processing | – |
| Flash drivers, board start-up, boot menu, vendored stacks | hardware, text | – | hardware timing; third party | – |

How they interact: the shell calls commands; `g`, `c`, `t` and `boot` give the
CPU to the client through `goclient`; an exception comes back through
`exception` and `pmon_stop` into `main`, which calls `rm_bpts`; the environment
is read by all of them and written through to flash; everything that waits
calls `idle`/`splx`, which polls the clock and the network and runs the
callouts.

PROJECT.json lists the hazards, each at its line with the properties aimed at
it.

## 2. Modules

| Module | Models |
|---|---|
| `Debugger` | breakpoint debugger, client start and return, what `load` and `boot` do to it |
| `MCDebugger` | the small programs its runs debug |
| `DebuggerProofs`, `EnvProofs`, `CalloutProofs`, `ProcProofs`, `MallocProofs`, `TftpProofs`, `XmodemProofs` | the proofs about these seven |
| `Induction` | induction over the naturals and recursive functions, for the proofs |
| `Env`, `MCEnv` | environment and NVRAM store together, with power failures |
| `Timers` | abstract: what `timeout` and `untimeout` promise |
| `Callout`, `MCCallout` | the delta list and the polled clock, shown to implement `Timers` |
| `Proc`, `MCProc` | processes, system calls, sleeping, time-outs and signals |
| `Malloc`, `MCMalloc` | the heap |
| `Tftp`, `MCTftp` | TFTP client and server with the network between them |
| `Xmodem`, `MCXmodem` | the command `xmodem` with the line and its sender |

### Debugger

Client memory is a function from addresses (counted in words, arithmetic wraps)
to words. A word has an operation class (sequential, conditional branch, jump,
call, jump to register, exit, one the CPU does not have), a target, and an id
that keeps different words apart; nothing else about an instruction matters to a
breakpoint. `Bpt`,
`BptTmp`, `BptTrc`, `BptTrcb`, `trace_mode`, `trace_count` keep their names.
Each command is an action that models the whole handler: `cmd_go` clears the
trace records, takes the temporary breakpoint and runs `goclient`, which plants
the table or, starting on a breakpoint, steps first (`TRACE_TG`). Each branch of
`exception` is an action. `phase` says who has the CPU: the shell ("prompt"),
the client, the command string that `pmon_stop` runs before `main` is entered
("stopcmd"), or nobody ("hung": `free` found a block that is already free).
A breakpoint's command string either displays something or is `c`, the one that
matters to control.

The client is the environment: `ClientStep` executes one instruction with its
delay slot, a branch goes either way, and any other exception may come at any
point (`ExceptionOther`). A break in a delay slot traps with the branch as pc.
An instruction the CPU does not have (op "ri") raises a reserved instruction
exception; when `do_ri` emulates it, `exception` goes on into its tracing code as
after a breakpoint (`TracerRuns`): in a trace the step counts or ends, in
go-and-break mode everything is planted once more (`ExceptionEmulated`). `do_ri`
works on a copy of the registers that nobody copies back, so the pc stays; when
it fails, that is an `ExceptionOther`.

Ghosts: `steps` and `ran` count instructions (up to `StepCap`), `want` is the
count of the last `t`, `suspect` is set when the client returned, when it
faulted while it was traced, and when an instruction is emulated in go-and-break
mode with breakpoints planted (the breaks are then saved as the words they
replaced): from there the code leaves breaks behind (see the findings), and the
properties make no promise until the program has been loaded again.

Abstractions: the loaded program is always the same; `bal` is a conditional
branch to the tracer as to the model and is not stepped over as a call; `brkcmd`
only displays; the conditions of `t -i` and the others are "one is armed", and
it may hold at any step. SMP variants, the remote debug mode (compiled out) and
the pc history are left out.

### Env

`envvar` is an array of slots; `nvram` is the sector: checksum right or not, the
entries in order, and whether the last one was cut off. An operation is a
function that yields both copies, what it returns and *every content the sector
has on the way* (`way`): `PowerFailsInSet`, `PowerFailsInUnset` and
`PowerFailsInBoot` pick one of those, so a power failure hits between any two
flash operations of any command. `Var` maps a spelling to its variable: `env.c`
compares `Var`, `fl_nvram.c` compares the spelling. `envinit` is written as the
code runs it: `Mapped` feeds `_setenv` the entries of the sector and then the
board's own variables, `Filled` sets each default that is still missing, and
every one of those settings may touch the sector. `chg_heaptop` moves the top
of the heap and refuses to go back. Ghosts: `stored`, what a successful `set`
owes to the next start (a value, `NoVal` for nothing, `Lost` for a variable that
went with the whole sector); `removed`; `respelled`. A power failure costs all or
one: every variable when it finds the sector erased, since the flash has no
second copy (fl_nvram.c:189-193, 319-322), otherwise the one that was being set
or unset.

Left out: display, wildcards in `unset`, the client's copy of the environment,
errors reported by the flash chip. An entry too many runs over the end of a
buffer on the stack; the model cuts it off and restarts the board. The next start
finds a sector that ran over (`cut`): it is read, nothing is ever removed from it
(`tgt_unsetenv` returns when `nvram_invalid` is set), and the next entry stored
wipes it.

### Timers and Callout

`Timers` is the promise: pending calls with the ticks they have left, called one
at a time in the order of their ticks, never with a tick left. `Callout` is the
code: a list of differences, overdue entries in front, a counter that is read
now and then. One thread runs nested procedures; `ctl` says where it is and
`back` where the poll in progress returns to:

    main --timeout/untimeout/idle--> poll --> hard (hardclock per tick) --> splx
    splx --netisr, level 0--> soft --due--> poll --> call --> (timeout) poll --> ret --> soft
                              soft --nothing due--> poll --> main

`timeout` and `untimeout` restore their caller's level: 7 (no poll), 1 (poll,
but no softclock) or 0. `Run` lets counts pass without a poll. `lag` is a ghost:
the true distance from the last tick that was counted; `promise` is what the
caller of a `timeout` of n ticks may count on: n - 1 whole ticks, less those
that had passed uncounted before the call (`Promised`; the next poll takes them
off the new timeout). In the
refinement a pending call's ticks are the sum of the positive differences up to
it. Left out: time of day and interval timers in `hardclock`, `ifpoll` and the
network's soft interrupts, `tgt_poll`.

### Proc

There is one thread: a spawned process runs on top of the one that spawned it
and a handler on top of what it interrupted. `stack` is that stack, of frames
"user" (code outside the kernel), "sys" (a system call and how far it is) and
"hand" (a signal being handled). `proc` has of each slot `p_stat`, `p_wchan`,
the flags `SSINTR`, `STIMO`, `P_SELECT`, and the signals pending, blocked and
caught. `sleepq` and `alarmq` are the callouts of `endtsleep` and
`realitexpire`; that they run, and only when due, is `Callout`'s business.

The kernel's procedures keep their names. `Call` is `gensyscall` up to the
function, `gensyscall_end` what comes after it; `tsleep` ends in the frame's pc
"idle", `tsleep_resume` goes on when somebody has cleared `p_wchan`. `select` is
three actions because the clock and the network are polled between its look at
the socket and its sleep ("window"). What a handler does is one of four things:
`pmon_intr` unblocks and jumps to `main`, bootp's `finish` jumps to
`boot_bootp`, ping's `catcher` installs itself (or, after the last packet,
`finish`) and sets the timer again, ping's `finish` ignores both signals and
exits. `Datagram`, `Interrupt`, `endtsleep` and `realitexpire` are what a poll
finds (`CanPoll`).

Abstractions: one socket; two signals; a command waits in `select` (with or
without a limit) or `recv`, as often as it likes; `boot_bootp` runs in the
monitor's own process, ping in a spawned one. The console is not looked at
between `signal` and `setjmp` in `boot_bootp` (bootp.c:189-190): only `idle` and
console I/O call `scandevs`.

### Malloc

Addresses count headers; `ptr` and `size` are the two fields of every unit, also
of those that are no header just now, so that `free` of a stale pointer reads
what is really there. The searches of `malloc` and `free` take one step per
node. `morecore` calls `sbrk` and `free` and goes on searching. `asked` and
`avail` are ghosts: the blocks handed out with the bytes asked for, and the free
ones. `Room` bounds what `sbrk` can give; the code has no bound.

### Tftp

A file is the sequence of its units, `SEG` of them to a block. Block numbers are
counted without a limit and compared modulo `Wire`, so the model can tell apart
what the code cannot. `cl` is `struct tftpfile` with the request in progress:
`tftprrq` and `tftpwrq` are the state "wait" with `client_timeout` and
`client_recv`. `sv` is the server with its two buffers (`read_ahead`,
`write_behind` and the rest as functions of it). Every session has a new port.
The network queues at most `Cap` packets each way and loses, repeats or delays
up to `MaxFaults` of them; what a sender puts into a full queue is lost too, so
that both ends may repeat themselves without limit. `synchnet` throws away some
of what is queued. `cl.fail` has the first request that failed. The caller is
told by `tftpread` and `tftpwrite`; the failures of the last blocks, which
`tftpclose` sends, are "unsaid", since it drops them and returns 0
(tftplib.c:421-427). A server whose packet is refused because the client is gone
listens again after a download and ends after an upload (`server_refused`;
tftpd.c:236-239). Left out: options, netascii, the flash and CRC themselves (a
job says whether the check succeeds), `myifup`.

### Xmodem

A block has one byte of data, a packet is then six bytes, as the code's is
`BLOCKSIZE` + 5. Bytes are sent one at a time and the monitor may find the line
empty between any two (`get_pause`), twice per packet before it gives up. Each
byte also says what it was sent as, which only the properties read. Control bytes
and block numbers are small values and can be taken for one another, as in the
code. The noise loses, changes and adds bytes and answers. A changed or added
byte has any value of `Noise`, the next number, its inverse, EOT and CAN among
them, and an ACK may become a NAK or a NAK an ACK. `changed` counts such bytes,
`forged` says that there was an ACK the monitor has not sent. Data and the two
CRC bytes are values apart from numbers and control bytes (`Apart`), each block's
its own: data that look like a number or a control byte, and two blocks of the
same CRC, are left out. The sender is the program on the host and not part of the
repository: it does what the protocol says.

## 3. Runs

| Run | Expect | Shows |
|---|---|---|
| `dbg` | pass | any order of commands, steps and exceptions on a looping program of sixteen words with two breakpoint slots |
| `dbg_fault`, `dbg_return`, `dbg_free` | violation | three findings, each on a program of three or four words |
| `env` | pass | any order of `set`, `eset`, `unset`, restart and power failure |
| `env_case` | violation | one finding |
| `callout` | pass | the delta list implements the timer service; the clock loses no tick; liveness |
| `proc` | pass | the monitor and a spawned process with datagrams, `^C` and alarms at every poll; liveness |
| `malloc` | pass | any order of `malloc`, `free` and `realloc` on a heap of seven units; termination |
| `tftp` | pass | ten transfers over an unreliable network; liveness |
| `tftp_final` | violation | one finding |
| `xmodem` | pass | a file of five blocks over a noisy line |

`dbg` (about 660,000 states). Properties: `TextRecoverable` (every word is
intact, or a break stands there and the record in force holds the original),
`PromptClean` (at the prompt memory is the program), `BreakpointsTaken` (an
instruction with a breakpoint is only executed as the first one after a resume,
or in a call that is stepped over), `TraceStepsOnce` (`setTrcbp` predicts every
successor), `TraceCountObeyed` (from `t 2` on), `ResumeProgresses` (a client that
is resumed does not stop where it was, except for a breakpoint in a delay slot
and on an instruction the CPU does not have, whose emulation may take the place
of the step off it). None promises anything while `suspect`. Bounds: two slots
are enough for "some slot, but not the first"; the program has a call, a branch
to itself, a loop and a return into the ROM, the four cases of `setTrcbp`, and an
instruction to emulate, which is reached by a branch and in a delay slot; a user
may put breakpoints on the callee and on a delay slot and the temporary one on
top of one of the table;
`t 2` is the smallest count that works (`t 1` is typed too). `StepCap` = 3 is one
more than any count. `SuspectBound` does not follow a client that is started on
suspect memory. No deadlock: the prompt accepts a command in every state.

`env` (about 58,000 states). Properties: `SetSurvives`, `RemovedOnce`,
`NoDuplicates`, `StartStable` (a second start changes nothing), `StdAlwaysSet`.
Bounds: one user variable in two spellings, another that is never saved, a
standard variable with a list of values, `heaptop`, one variable set by
`tgt_mapenv`; four slots and room for three entries, so that both fill up; a new
sector and one whose `heaptop` is below the heap of a newer monitor. The user
does not unset what the board itself sets (`memsize`): its slot, given away, can
push a standard variable out at the next start, and `StdAlwaysSet` is not claimed
for that (`LeavesBoardAlone`, and `FactoryFits` for the slots; TLC evaluates
both). Five cases are excepted by the properties because the code does not keep
the promise there. The run reaches three: a power failure with the sector erased,
or a set that runs over its end, after which every variable is lost (`SetSurvives`;
`Lost`); a power failure at another moment of a set or an unset, which costs the
variable it was about and no other (`SetSurvives`); a sector that ran over
(`RemovedOnce`). Two lie beyond its bounds, and what the properties say of all the
rest is the theorems' business there: a sector that names more variables than
memory has slots (`SetSurvives`), and a `heaptop` whose default lies below the
heap (`StdAlwaysSet`).

`callout` (about 148,000 states). Properties: `Refines`
(`Timers!Spec` as a property), `ClockKeepsTime`, `DueIsScheduled`,
`NotEarly`, `EventuallyRuns`. Bounds: a pool of three callouts, which overflows into
`panic`; ticks of two counts, stretches of three counts without a poll and a
race of two, so that a poll finds zero, one or more ticks and the second read
finds another; the counter wraps at 16. `MaxLag` bounds what passes without a
poll; `MaxLate` = 1 bounds how late a call gets while the main program stays at
level 1.

`proc` (about 132,000 states). Properties: `NoPanic`, `NothingLeftBehind` (of a
sleep that is over, of a process that is gone), `NoLostWakeup`,
`PromptInterruptible`, `TimeoutEnds`, `SignalDelivered`. Bounds: one process on
top of the monitor's own, which is the deepest the commands go; `Depth` = 8
leaves room for a call, a handler of either signal in it, and the call and
handler inside that one; two datagrams, so that one is left after `recv`.

`malloc` (about 26,000 states). Properties: `NoOverlap`, `NothingLost`,
`FreeListRight` (ordered, and joined), `MoreOnlyWhenNeeded`, `Terminates`. Bounds:
seven units, `morecore` takes two at a time: three blocks and the gaps between
them, so that a block is freed below, above and between free ones, touching
either, both or neither; a request that wraps (`W` = 16); pointers that have
been freed are freed again.

`tftp` (about 86,000 states). Properties: `ReadRight`, `WriteRight`,
`GivesUpWithCause`, `TransferEnds`. `WriteRight` says that the server writes a
beginning of the file as long as the writer was told of no failure, and that all
of it is stored once every block, the last included, was acknowledged. It does
not say so of a `tftpclose` that returned 0, which it always does: the run reaches
a last block that was refused, and one given up, with every call of the writer a
success. Bounds: blocks of two units and numbers
modulo four, files of two blocks (one short, one full and an empty one after it)
and of four and an empty one, where the numbers wrap; a file that is not there;
uploads whose check succeeds and fails; two packets in flight each way and two
faults, enough for a doubled request to meet a session in progress.
`CHECK_DEADLOCK FALSE`: the transfer ends.

`xmodem` (about 10.8 million states). Properties: `StoredPrefix`,
`SuccessMeansAll`, `EndsWithCause`. Bounds: block numbers modulo five and five
blocks, so that a number is that of EOT and the numbers wrap past zero; two
faults, one byte on the line, each packet repeated once. Noise makes the bytes 1
and 3: SOH, the number of the block that follows a wrap, and its inverse.
`StoredPrefix` and the half of `SuccessMeansAll` that says "nothing besides" are
claimed while `Harm` < `Size`, that is, while fewer bytes and answers were lost or
wrong than a model's packet has bytes, six, and none changed or added, or one byte
was changed or added and nothing else went wrong; and while no ACK was `forged`.
Every block is stored after a success whatever is lost, changed or added, `forged`
ACKs and a false EOT ("mistaken") excepted. Beyond that the code does store false
blocks, and the run reaches one with two changed bytes, a success with a block
missing and a false EOT. The run has two faults, the proof covers the others, for
any `Noise`.
`CHECK_DEADLOCK FALSE`: the transfer ends.

Fairness. `Debugger`, `Env` and `Xmodem` are safety only: nothing obliges a user
to type, or a sender to send.
In `Callout` the one thread goes on with what it is doing (`WF(Internal)`), and
the main program waits now and then: every wait of the monitor, reading the
console included, goes through `idle` or `scandevs`, which lower the level to
zero (`WF(idle)`). Nothing obliges it to request or cancel anything. In `Proc`
the thread goes on with the call or handler it is in (`WF(Thread)`) and a sleep's
callout runs when it is due (`WF` of `endtsleep`; `EventuallyRuns` of `Callout`);
commands, datagrams, `^C` and alarms need not happen. In `Malloc` a call that was
started goes on. In `Tftp` both programs handle a packet that has arrived, and
their `select` times out; the user need not call anything, and a fault need not
happen, but only `MaxFaults` can.

### Findings

1. `dbg_fault`: a foreign exception during a trace step lets `rm_bpts` write a
   stale value into the program.
2. `dbg_return`: a client that returns leaves the breaks in memory.
3. `dbg_free`: a command string is freed twice.
4. `env_case`: a variable removed under one spelling is back after a restart.
5. `tftp_final`: the final acknowledgement is not repeated, because the wrong
   buffer is looked at.

PROJECT.json quotes the lines they disagree with. Met on the way, plain in the
code and not given a run of their own: `t 1` traces without limit
(exception.c:249); after an instruction that `do_ri` has emulated, `exception`
plants every breakpoint again in go-and-break mode and saves the breaks that
stand there as the original words (exception.c:125, 265), the results of the
emulation stay in a copy of the registers that is allocated at every exception
and never freed (exception.c:78), and `do_ri` may return a `sig` it never set
(ri.c:671); `set` prints "cannot set" after it has set a variable to its
default (env.c:302); a timeout requested after a stretch without a poll is short
by the ticks missed before it (kern_clock.c:306); `tsleep` tests
`sigmask(sig)` with a `sig` of zero for a signal that came during the sleep
(kern_synch.c:68; nobody calls `siginterrupt`); a TFTP block numbered zero that
comes twice ends the transfer (tftplib.c:556); `tftpclose` returns 0 whatever
became of the last block (tftplib.c:421-427, 453); a request that was delayed truncates
the file just written (tftpd.c:673); `xmodem` reports "Load successfully!"
however the transfer ended, and a block 4 whose SOH was lost as its end
(xmodem.c:185); the number of an `xmodem` packet and its inverse are not covered
by the CRC, so a block that is sent again and has these two bytes changed is
stored twice, and two copies that lose bytes between them can be put together to
a packet nobody sent (xmodem.c:209-222); a NAK that becomes an ACK leaves out its
block; a power failure between the erasing of the environment's sector and its
programming loses every variable (fl_nvram.c:189-193, 319-322); a saved variable is lost at the next start when the sector names
more variables than `envvar` has slots, 64 (env.c:151); an unset after the sector
ran over removes nothing from it (fl_nvram.c:164); a size of almost 2^32 bytes gets
one unit (malloc.c:68).

## 4. Proofs

TLAPS proves, for every value of the constants that the assumptions allow:

| Module | Invariants | Action properties, refinement |
|---|---|---|
| `DebuggerProofs` | `TypeOK`, `IInv`, `TextRecoverable`, `PromptClean`, `TraceStepsOnce`, `TraceCountObeyed`, `ResumeProgresses`, `TInv` | `BreakpointsTaken` |
| `CalloutProofs` | `TypeOK`, `IInv`, `ClockKeepsTime`, `DueIsScheduled`, `NotEarly` | `Spec => Refines`: the delta list and the polled clock implement `Timers!Spec` |
| `ProcProofs` | `TypeOK`, `IInv`, `NoPanic`, `NothingLeftBehind`, `NoLostWakeup`, `PromptInterruptible` | |
| `MallocProofs` | `TypeOK`, `IInv`, `NoOverlap`, `NothingLost`, `FreeListRight` | `MoreOnlyWhenNeeded` |
| `EnvProofs` | `TypeOK`, `IInv`, `NoDuplicates`, `StartStable`, `SetSurvives`, `RemovedOnce`, `StdAlwaysSet` | |
| `TftpProofs` | `TypeOK`, `IInv`, `ReadRight` and `WriteRight` for files that are `Short`, `Calm` | `GivesUpWithCause` |
| `XmodemProofs` | `AInv`, `Speaks /\ Kept`, `StoredPrefix`, `SuccessMeansAll`, `Clean`, `EndsWithCause` | |

The theorem about `P` is called `PCorrect`, that about the inductive invariant
`Invariance` (`TypeCorrect`, `ReadRightCorrect`, `TraceInvariance`). Each inductive
invariant was checked with TLC on the component's run before it was proved.

### Debugger

None of the properties is inductive. A state in which memory is recoverable may
hold a stray break that the next `g` would save as an original, or two slots for
one address of which the wrong one is put back. `IInv` therefore says what memory
*is*: the table's addresses are `Distinct`, and unless `suspect`, the `Shape`
belongs to the phase and mode: `Quiet` at the prompt (memory is the program, the
trace records are empty), `GBShape` in go-and-break mode (the program with
exactly the table and the temporary breakpoint planted, each record holding the
original word), `TrShape` while tracing (the same with the one or two trace
breakpoints), and before `main` is entered one of `Quiet` and `GBShape`. The
argument: planting on `Quiet` memory gives `GBShape` or `TrShape` because
`store_breakpoint` drops clashing records first and `setTrcbp` never yields one
address twice; each exception takes the shape of its mode back to `Quiet`; a
foreign exception in go-and-break mode keeps `GBShape` until `rm_bpts`, which
undoes it. While tracing, `rm_bpts` would meet the table's stale values: that is
the finding `dbg_fault`, and why `suspect` is part of the invariant. An emulated
instruction takes the step of its mode without a break having been met. In a
trace that is harmless, since memory is `TrShape` all the same. In go-and-break
mode it keeps `GBShape` only if no breakpoint is planted, and is `suspect`
otherwise. `ReservedText`: what memory shows to be
such an instruction is one in the program.

Tracing needs more, because it is about where the client is. `TInv` adds
`Traced`: a traced client is where the trace breakpoints were set for, or has
executed one instruction and stands on one of them, and it is on a breakpoint of
the user only at the very start; `Going`: one that runs freely was not started
on a planted break, unless its first instruction was emulated; `Counting`: what is left of the count plus what has been
executed never exceeds what was asked for. The lemmas `TargetsElsewhere` and
those after it say that the successors of an instruction are exactly where
`setTrcbp` plants, and never on it or in its delay slot.

Assumptions: `SizeAssumption` (at least three words and one slot),
`TextAssumption` (the program is made of words, of which the break is none),
`InputAssumption` (types of the inputs) and `FlowAssumption`: no branch goes to
its own delay slot, no jump to a register returns to itself or its slot, and no
such jump within the ROM is to itself. The MIPS architecture leaves a branch into
its own delay slot without use, no compiler produces one, and the code plants a
single breakpoint there. A branch to itself is allowed and is in the program of
the run.

### Callout

`IInv` joins `Ordered` (overdue entries, whose difference is negative, are in
front of all that have time left),
`Clock`, `Counting`, `Running`, `DueIsScheduled` and `Early`. Counter values are
related by congruence modulo `Wrap` (`Cong`): `Clock` says that `softcompare` is
the counter's value at the next tick, that `old_count` is one it has had since
the last, and that no more has passed since than a poll can still tell. From
this `MissedIs` and `MissedCounts` give the number of ticks each poll finds,
whatever passes between its two reads and wherever the counter wraps, and
`ClockKeepsTime` follows. `NotEarly` is not inductive: an entry's promise is
compared with what the whole list in front of it makes it wait. `Early` bounds
every promise by `Wait` (the sum of the positive differences up to it) less the
ticks that are found but not yet taken off and the counts since the last; one
lemma per operation of the list says what it does to `Wait`.

`RefinesCorrect` maps `Init` to `Init` and every step to a step of `Timers` or a
stutter: `timeout` and `call_again` to an insertion, `untimeout` to a removal,
`hardclock` to a tick, `softclock_take` to the call of the first entry, all else
to a stutter. Insertion and the promise to go behind the entries of the same tick
make the place unique (`PlaceOf`), whereby the walk of the code and the
declarative choice of `Timers` agree.

`Left` is a recursive function. What it computes is proved from its equation:
existence by induction over the length, then the function's values
(`LeftFacts`). Everything else uses these facts only. Module `Induction` has what
this takes: the least element of a set of naturals (`Least`), induction as a
consequence of it (`Induct`, `InductTo`), and that a function with a recursion
equation exists and obeys it (`Recursion`).

`CalloutAssumption` states types and the bounds on time that the code's unsigned
32-bit differences need: the gap between two polls, and a tick with a poll, take
less than the counter's range, and the second read of a poll comes no more than
a tick after the first. At 400 MHz the range is about ten seconds, a tick ten
milliseconds. Beyond them the comparison value can lie in the past, and the clock
stands still until the counter has wrapped.

### Proc

`NothingLeftBehind` and `NoLostWakeup` say what is true of a process that is not
asleep and of one that is; what makes them true is where the one thread is.
`Chain` says which frames may stand on which in the stack, `Current` that the
current process is the top frame's, `Sleeping` that only the top frame's process
can have a wait channel, a timeout or a select flag, and that it is "idle" then,
with an empty socket that knows of it. Every step cuts the stack at a frame,
which it changes, or pushes one, and one lemma for each says what becomes of
`Chain`. `PromptInterruptible` takes the history of `boot_bootp`: `Monitor` says
for each of its steps which handler `SIGINT` has and that it is blocked only
while a handler runs and from its long jump to the end of `boot_bootp`; `Others`
that no spawned process has a handler of the monitor's. `NoPanic` and `Others`
make the invariant closed under `exit1`. The only assumption is that the bounds
are positive.

### Malloc

`IInv` adds to the three properties what `free`'s check of the header rests on,
`SelfLinked` (a unit points to itself exactly if it is the header of a block in
use), and where the loops of `malloc` and `free` are: `Searching` (the nodes the
search has left behind are too small, and one batch of `morecore` will do) and
`Placing`. The free list is described by `Follows` and one lemma for each change
of the ring (a node taken out, put in, moved up when a block is split). The only
assumption is `MallocAssumption`, the types of the constants.

### Env

`IInv` is `TypeOK` and `NoDuplicates`, and it is inductive: `_setenv` uses the
slot of the variable if there is one (`SetFacts`), `tgt_setenv` removes the entry
of the spelling before it adds one, and every content the sector has on the way
is as sound as the one it ends with (`StoreFacts`). `envinit` runs both over the
sector and over the standard variables, so its two loops are taken from their
recursion equations with the lemmas of `Induction` (`MappedFacts`,
`FilledFacts`).

`StartStable` is about two runs of `envinit`, the second on the sector the first
leaves. The first writes to it only where a standard variable found no value,
and a default is removed from the sector, never stored. What is removed is an
entry that was read in vain: `_setenv` refused it, or found no slot. `CutSame`
follows the two sectors entry by entry and shows that without it `Mapped` yields
the same memory, provided that a slot was left at the end; one was, since the
default then took it (`FillSettles`). So the second start maps the same memory,
misses the same variables, and finds nothing left to remove.

The other three properties speak of the next start, that is of the sector.

`SetSurvives`: `Ledger` says that for each variable that is owed a value the
sector `Holds` it in the entry that counts (the variable's last; of `heaptop` the
highest), that such a variable is none of the board's own, and, while the sector
is in use, that no entry of `heaptop` lies above the heap. Every content on the
way is erased, and then every variable is `Lost` and owed nothing, or has the
entries of the old sector with those of one variable left out, so it holds what
is not being changed. At the start a slot is free when the entry is read, since
memory then has no more variables than the sector names.

`RemovedOnce`: `Spelt` says that every entry is in its own spelling or its
variable is `respelled`, so after a removal the sector does not name the
variable. What is left is to compare the start with the one of an empty sector:
both take the same steps (`Moves`) after the sector's entries have been read, and
each keeps the two memories `Near`: the one that started with entries is fuller,
and where it has the removed variable it has the same value.

`StdAlwaysSet` is a matter of counting. With one spelling for each variable the
sector's variables, the board's own and the standard ones together fit into the
slots (`Few`): nothing is stored that has no slot in memory, and while the
monitor runs memory has all of these (`Held`). A standard variable that is
missing at the start therefore finds a slot (`Needed`).

`EnvAssumption` says of the constants what the code's tables are: a spelling
belongs to one variable, `stdenvtab` has no name twice, each default is a value
on the variable's own list (env.c:59-95);
of the sector at the first start it says that it fits and has no spelling twice,
which is how every sector looks that `tgt_setenv` wrote.

### Tftp

`IInv` is about the two programs one by one: what the client repeats (`Plays`),
that the server's buffers are where `sendfile` and `recvfile` expect them
(`Reading`: the block being sent and the next one; `Writing`: one to fill, one
emptied), and which packets there can be. Three operators sum up what the many
branches of the code can do to what is transferred: `ServerStep`, `ClientStep`
and `Fault`; `Steps` maps every action to one of them, and all further
invariants are proved of those.

`ReadRight` and `WriteRight` are claimed for a file that is `Short`: its blocks
all have different numbers, below 32 MB with blocks of 512 bytes. The key is
`DataRight`: a data packet is determined by its number, whoever sends it and
whenever, so a packet that was doubled, delayed or left from another session
does no harm, and what decides is that equal numbers are equal blocks
(`Distinct`). `ServerReads` and `ClientReads` say which units are in the two
ends' buffers; `Writes` that the server has written exactly the blocks before
the one it expects, and that an acknowledgement of the last block exists only
when the file is `Whole`. `WriteRight` follows as far as the client knows: it has
a prefix while the writer was `Told` of no failure, and the whole file when no
request failed, those of `tftpclose` included. Nothing bounds the faults.

`GivesUpWithCause` holds for long files too, where numbers wrap, but only while
the network is quiet. Then order takes the place of distinctness: packets `Climb`,
that is, they are under way in the order of their numbers, and both ends are
within a block of each other. `Stage` says which of five situations a transfer
is in (not started, the request under way, in a session, the last block said,
the session over, plus the two ends of the client), and in each how old and how
new what is under way can be. Repeating a packet, `synchnet` and a full queue
keep that. So what reaches the client is the block it waits for or the one
before (`CalmAnswer`), and the one before is recognised unless `block - 1` is
negative (`Before`).

`TftpAssumption` gives the constants their types; `Wire` > 2.

### Xmodem

`AInv` says that nothing is acknowledged that is not stored, unless an ACK was
`forged`: an ACK on its way has the `Credit` of one block more than the sender has
counted (there may be several on their way, and any may be lost), and an EOT is
sent only when the last block was acknowledged. It holds whatever bytes are lost,
changed or added, and with it the first half of `SuccessMeansAll`, that every
block is stored. A byte that was not sent as EOT is excepted by the property
itself.

`StoredPrefix` is about bytes that are read as something else. `Kept` says that
there is a `Trace` of the bytes in the buffer and on the line: for each byte the
packet and the place it was sent from, or that it is noise, and how much had gone
wrong by then, a lost byte or answer counting one and a changed or added byte five
(`Harm`). Packets come in order, only the block stored last and the next one are
there besides what ends the file, and between two bytes of copies of the same
packet at least `Gap` bytes were lost, the number that is missing between their
places. The lemmas look at six bytes that pass the code's checks, and `SixBytes`
says that their data are those of the block that is due. If one of them is noise,
all the harm is used up: nothing is missing between the others (`OneSpoilt`), and
one of number and inverse, and the data or the CRC, are as they were sent
(`SpoiltPacket`). If none is (`NoneSpoilt`), they are the next packet whole, or
come from copies of the block before, the inverse read as the number and the
number of a later copy as the inverse, and then six bytes were lost
(`SixLost`). Beyond it the promise fails: two changed bytes, both of the copy of a
stored block, make it the next one, because the CRC is that of the data alone.

`EndsWithCause` is about a line without faults and two sides in time. `Clean` says
that the transfer is then a stop-and-wait: the bytes of one packet are somewhere
between the two sides (`Sending`; where they are put together again they are
that packet), or its ACK is (`Answered`), or it has not begun or is complete.
`XmodemAssumption` gives the constants their types; the numbers reach beyond EOT
(`W` > 4).

### Only model-checked

- Liveness: `EventuallyRuns`, `TimeoutEnds`, `SignalDelivered`, `Terminates`,
  `TransferEnds` (out of the prover's reach).
- `Tftp!ReadRight` and `WriteRight` for files that are not `Short` depend on the
  bound of faults: numbers are compared modulo `Wire`, and the more a
  network may delay, the older a packet can be that is taken for a new one.

Every invariant and the action properties of the passing runs are otherwise
stated by a theorem; what `xmodem` stores when more goes wrong than `Harm` < `Size`
allows is not claimed.

## 5. Plan

Done: the seven components and the proofs about them. Next:

1. Proofs: `ReadRight` and `WriteRight` of `Tftp` for long files over a quiet
   network.
2. *Bootp/DHCP* retries, terminal queues, the descriptor table, the history ring.

### Not modelled

File formats, flash chip command sequences, board start-up code, text parsing of
the shell and the boot menu, and vendored code (the BSD network stack's
protocols, USB, YAFFS, UBI, x86emu, zlib, firmware images, which together are
nearly all of the repository's lines): data conversion, hardware access or third
party. PROJECT.json gives the reason for each component.
