-------------------------------- MODULE Tftp --------------------------------
(***************************************************************************)
(* A file transferred by TFTP: the client of pmon/netio/tftplib.c, the     *)
(* server of pmon/cmds/tftpd.c and the network between them, which loses,  *)
(* repeats and reorders packets.                                           *)
(*                                                                         *)
(* A file is the sequence of its units, SEG of them to a block.  Both ends *)
(* count blocks without a limit here and compare the numbers as they are   *)
(* on the wire, modulo Wire: what the code cannot tell apart the model     *)
(* keeps apart.  The server has one session at a time, each with a port of *)
(* its own; nobody listens to the well-known port during a session.        *)
(***************************************************************************)
EXTENDS Integers, Sequences, SequencesExt

CONSTANTS
    SEG,        \* units in a full block
    Wire,       \* block numbers on the wire (65536 in the code)
    Jobs,       \* the transfers: [op, len, ok, crc]
    Sizes,      \* units asked for by one read or write
    Cap,        \* bound: packets in flight in one direction
    MaxFaults   \* bound: packets lost, repeated or delayed

ASSUME TftpAssumption ==
    /\ SEG \in Nat \ {0} /\ Wire \in Nat \ {0, 1, 2}
    /\ Cap \in Nat \ {0} /\ MaxFaults \in Nat
    /\ Sizes \subseteq Nat \ {0}
    /\ \A j \in Jobs : /\ j.op \in {"RRQ", "WRQ"} /\ j.len \in Nat
                       /\ j.ok \in BOOLEAN /\ j.crc \in {"none", "good", "bad"}

VARIABLES
    job,        \* what is transferred; never changes
    cl,         \* the client's struct tftpfile and where it is
    sv,         \* the server's v, its buffers and where it is
    file,       \* the units the server has written
    stored,     \* the units it had written when it closed the file
    toS, toC,   \* packets on their way to the server, to the client
    faults

vars == <<job, cl, sv, file, stored, toS, toC, faults>>

NotYet == <<"not yet">>
Source == [i \in 1 .. job.len |-> i - 1]
Unit(from, len) == [i \in 1 .. len |-> from + i - 1]
min(a, b) == IF a < b THEN a ELSE b

(* A packet: the block it is about, the units it carries, and the port of  *)
(* the server's end.  Port 0 is the one requests go to.                    *)
Packet(op, n, from, len, port) ==
    [op |-> op, n |-> n, from |-> from, len |-> len, port |-> port]
Bare(op, n, port) == Packet(op, n, 0, 0, port)

(* sendto: what does not fit is lost. *)
Put(net, m) == IF Len(net) < Cap THEN Append(net, m) ELSE net

(* synchnet: the packets that have arrived by then are thrown away. *)
Flushed(net) == {SubSeq(net, i, Len(net)) : i \in 2 .. Len(net) + 1}

Same(a, b) == a % Wire = b % Wire

(* Mutant: a packet that comes twice is taken for one from another time. *)
Previous_off(a, block) == a % Wire = (block % Wire) - 2

(* th_block == block - 1, where block - 1 is an int: for block 0 it is not *)
(* a number on the wire.                                                   *)
Previous(a, block) == a % Wire = (block % Wire) - 1

BF_ALLOC == -3
BF_FREE == -2
Unset == -1
EmptyBuf(c) == [counter |-> c, from |-> 0, n |-> Unset]

Idle == [pc |-> "listen", op |-> "RRQ", port |-> 1, block |-> 0, rd |-> 0,
         bfs |-> [i \in 0 .. 1 |-> EmptyBuf(BF_FREE)], current |-> 0, nextone |-> 0]

Init ==
    /\ job \in Jobs
    /\ cl = [pc |-> "start", why |-> "open", block |-> 0, start |-> 0, end |-> 0,
             foffs |-> 0, eof |-> FALSE, port |-> 0, buf |-> 0, nb |-> 0,
             fail |-> "no", req |-> Bare("RRQ", 0, 0)]
    /\ sv = Idle
    /\ file = <<>>
    /\ stored = NotYet
    /\ toS = <<>>
    /\ toC = <<>>
    /\ faults = 0

-----------------------------------------------------------------------------
(* The client. *)

(* The request of tftprrq or tftpwrq is sent, and the answer waited for.   *)
Ask(c, why, m) ==
    /\ cl' = [c EXCEPT !.pc = "wait", !.why = why, !.req = m]
    /\ toS' = Put(toS, [m EXCEPT !.port = c.port])

server == <<job, sv, file, stored, faults>>

tftpopen ==
    /\ cl.pc = "start"
    /\ Ask([cl EXCEPT !.block = IF job.op = "RRQ" THEN 1 ELSE 0], "open",
           Bare(job.op, 0, 0))
    /\ UNCHANGED <<server, toC>>

Usable == cl.pc = "user" /\ cl.fail = "no"

(* A call of tftpread, or of tftpwrite. *)
call ==
    /\ Usable
    /\ job.op = "WRQ" => cl.foffs < job.len
    /\ \E n \in Sizes :
          cl' = [cl EXCEPT !.pc = "loop",
                           !.nb = IF job.op = "RRQ" THEN n ELSE min(n, job.len - cl.foffs)]
    /\ UNCHANGED <<server, toS, toC>>

tftplseek ==
    /\ Usable
    /\ job.op = "RRQ"
    /\ \E noffs \in cl.start .. cl.end + 1 : cl' = [cl EXCEPT !.foffs = noffs]
    /\ UNCHANGED <<server, toS, toC>>

(* One turn of tftpread's loop: what is in the buffer is used; when        *)
(* nothing is left, the block is acknowledged and the next one waited for, *)
(* unless this was the last.                                               *)
tftpread ==
    LET n == IF cl.foffs \in cl.start .. cl.end - 1
             THEN min(cl.end - cl.foffs, cl.nb) ELSE 0
        c == [cl EXCEPT !.foffs = @ + n, !.nb = @ - n]
        ack == Bare("ACK", cl.block, 0)
    IN  /\ cl.pc = "loop" /\ job.op = "RRQ"
        /\ IF cl.nb = 0 \/ cl.start >= cl.end
              THEN cl' = [cl EXCEPT !.pc = "user"] /\ UNCHANGED toS
              ELSE IF c.foffs < c.end
              THEN cl' = c /\ UNCHANGED toS
              ELSE IF c.eof
              THEN /\ cl' = [c EXCEPT !.block = @ + 1, !.start = c.end]
                   /\ toS' = Put(toS, [ack EXCEPT !.port = c.port])
              ELSE Ask([c EXCEPT !.block = @ + 1], "read", ack)
        /\ UNCHANGED <<server, toC>>

(* The block in the buffer, sent as block n. *)
Block(c, len) == Packet("DATA", c.block, c.foffs - c.end, len, 0)

(* Mutant: more is put into the buffer than it holds. *)
tftpwrite_all ==
    LET c == [cl EXCEPT !.end = @ + cl.nb, !.foffs = @ + cl.nb, !.nb = 0]
        d == [c EXCEPT !.block = @ + 1]
    IN  /\ cl.pc = "loop" /\ job.op = "WRQ"
        /\ IF cl.nb = 0
              THEN cl' = [cl EXCEPT !.pc = "user"] /\ UNCHANGED toS
              ELSE IF c.end < SEG
              THEN cl' = c /\ UNCHANGED toS
              ELSE Ask(d, "write", Block(d, min(SEG, d.end)))
        /\ UNCHANGED <<server, toC>>

(* One turn of tftpwrite's loop: the buffer is filled, and sent when full. *)
tftpwrite ==
    LET n == min(SEG - cl.end, cl.nb)
        c == [cl EXCEPT !.end = @ + n, !.foffs = @ + n, !.nb = @ - n]
        d == [c EXCEPT !.block = @ + 1]
    IN  /\ cl.pc = "loop" /\ job.op = "WRQ"
        /\ IF cl.nb = 0
              THEN cl' = [cl EXCEPT !.pc = "user"] /\ UNCHANGED toS
              ELSE IF c.end < SEG
              THEN cl' = c /\ UNCHANGED toS
              ELSE Ask(d, "write", Block(d, d.end))
        /\ UNCHANGED <<server, toC>>

(* tftpclose: a reader that has not reached the end says so; a writer      *)
(* sends what is left, a short block or an empty one, and waits.           *)
tftpclose ==
    LET d == [cl EXCEPT !.block = @ + 1]
    IN  /\ cl.pc = "user"
        /\ \/ /\ job.op = "RRQ"
              /\ cl' = [cl EXCEPT !.pc = "done"]
              /\ toS' = IF cl.foffs < cl.end \/ ~cl.eof
                        THEN Put(toS, Bare("ERROR", cl.block, cl.port)) ELSE toS
           \/ /\ job.op = "WRQ"
              /\ cl.foffs = job.len \/ cl.fail # "no"
              /\ Ask(d, "close", Block(d, d.end))
        /\ UNCHANGED <<server, toC>>

(* Mutant: nothing is sent again. *)
client_timeout_silent ==
    /\ cl.pc = "wait"
    /\ UNCHANGED vars

(* select's two seconds are over: once more. *)
client_timeout ==
    /\ cl.pc = "wait"
    /\ Ask(cl, cl.why, cl.req)
    /\ UNCHANGED <<server, toC>>

(* The first request that failed, and whether the caller is told: read,    *)
(* write and open return -1, but tftpclose drops what tftpwrq returns for  *)
(* its last blocks, and returns 0.                                         *)
Unsaid(why) == IF why = "error" THEN "unsaid error" ELSE "unsaid window"
Told == cl.fail \in {"error", "window", "intr"}
GaveUp == cl.fail \in {"window", "unsaid window"}

(* What tftprrq and tftpwrq return to when they fail. *)
Failed(c, why) ==
    LET closing == c.why \in {"close", "empty"}
    IN  [c EXCEPT !.fail = IF @ # "no" THEN @ ELSE IF closing THEN Unsaid(why) ELSE why,
                  !.pc = IF closing \/ c.why = "open" THEN "done" ELSE "user"]

Accepted(c, m) ==
    CASE c.why = "open" /\ m.op = "ACK" -> [c EXCEPT !.pc = "user"]
      [] c.why = "write" -> [c EXCEPT !.pc = "loop", !.end = 0]
      [] c.why \in {"close", "empty"} -> [c EXCEPT !.pc = "done"]
      [] OTHER -> [c EXCEPT !.pc = IF c.why = "open" THEN "user" ELSE "loop",
                            !.start = c.end, !.end = c.end + m.len,
                            !.buf = m.from, !.eof = m.len < SEG]

(* A packet for the client.  The server's port is the one the first answer *)
(* comes from.                                                             *)
client_recv ==
    LET m == Head(toC)
        first == IF job.op = "RRQ" THEN {0, 1} ELSE {0}
        c == IF cl.block % Wire \in first THEN [cl EXCEPT !.port = m.port] ELSE cl
        answer == IF job.op = "RRQ" THEN "DATA" ELSE "ACK"
        again == Ask(c, c.why, c.req)
        empty == [c EXCEPT !.block = @ + 1]
    IN  /\ cl.pc = "wait" /\ toC # <<>>
        /\ IF m.port # c.port \/ m.op \notin {"ERROR", answer}
              THEN again /\ toC' = Tail(toC)
              ELSE IF m.op = "ERROR"
              THEN /\ cl' = Failed(c, "error")
                   /\ toC' = Tail(toC) /\ UNCHANGED toS
              ELSE IF Same(m.n, c.block)
              THEN /\ toC' = Tail(toC)
                   /\ IF c.why = "close" /\ c.end = SEG
                         THEN Ask(empty, "empty", Block(empty, 0))
                         ELSE cl' = Accepted(c, m) /\ UNCHANGED toS
              ELSE /\ toC' \in Flushed(toC)
                   /\ IF Previous(m.n, c.block)
                         THEN again
                         ELSE cl' = Failed(c, "window") /\ UNCHANGED toS
        /\ UNCHANGED server

(* ^C while it waits: the command is gone, and its socket with it. *)
client_break ==
    /\ cl.pc = "wait"
    /\ cl' = [cl EXCEPT !.pc = "done", !.fail = "intr"]
    /\ UNCHANGED <<server, toS, toC>>

(* Nobody has the socket any more. *)
client_gone ==
    /\ cl.pc = "done" /\ toC # <<>>
    /\ toC' = Tail(toC)
    /\ UNCHANGED <<server, cl, toS>>

-----------------------------------------------------------------------------
(* The server's two buffers. *)

rw_init(s, x) == [s EXCEPT !.bfs = [i \in 0 .. 1 |-> EmptyBuf(IF i = 0 THEN BF_ALLOC ELSE BF_FREE)],
                           !.current = 0, !.nextone = x]

(* Mutant: the next buffer is filled though it is in use. *)
read_ahead_over(s) ==
    LET n == min(SEG, job.len - s.rd)
    IN  [s EXCEPT !.bfs[s.nextone] = [counter |-> n, from |-> s.rd, n |-> Unset],
                  !.nextone = 1 - @, !.rd = @ + n]

(* read_ahead fills the next buffer, if it is free. *)
read_ahead(s) ==
    LET n == min(SEG, job.len - s.rd)
    IN  IF s.bfs[s.nextone].counter # BF_FREE
        THEN s
        ELSE [s EXCEPT !.bfs[s.nextone] = [counter |-> n, from |-> s.rd, n |-> Unset],
                       !.nextone = 1 - @, !.rd = @ + n]

readit(s) ==
    LET t == [s EXCEPT !.bfs[s.current].counter = BF_FREE, !.current = 1 - @]
    IN  IF t.bfs[t.current].counter = BF_FREE THEN read_ahead(t) ELSE t

(* write_behind empties the next buffer, if it has something: the new      *)
(* state, and what is written.                                             *)
write_behind(s) ==
    LET b == s.bfs[s.nextone]
    IN  IF b.counter < -1
        THEN [s |-> s, out |-> <<>>]
        ELSE [s |-> [s EXCEPT !.bfs[s.nextone].counter = BF_FREE, !.nextone = 1 - @],
              out |-> Unit(b.from, b.counter)]

writeit(s, ct) ==
    LET t == [s EXCEPT !.bfs[s.current].counter = ct, !.current = 1 - @]
        w == IF t.bfs[t.current].counter # BF_FREE
             THEN write_behind(t) ELSE [s |-> t, out |-> <<>>]
    IN  [w EXCEPT !.s.bfs[t.current].counter = BF_ALLOC]

-----------------------------------------------------------------------------
(* The server. *)

client == <<job, cl, faults>>

(* The block sendfile is at, and the acknowledgement recvfile is at. *)
Data(s) == LET b == s.bfs[s.current]
           IN  Packet("DATA", s.block, b.from, b.counter, s.port)
Ack(s) == Bare("ACK", s.block - 1, s.port)

(* send_data and send_ack, with the buffer that is filled or emptied       *)
(* behind them.                                                            *)
Serve(s, net) ==
    LET r == read_ahead(s)
        w == write_behind(s)
    IN  IF s.op = "RRQ"
        THEN /\ sv' = r
             /\ toC' = Put(toC, Data(r))
             /\ toS' = net
             /\ UNCHANGED <<file, stored>>
        ELSE /\ sv' = w.s
             /\ file' = file \o w.out
             /\ toC' = Put(toC, Ack(s))
             /\ toS' = net
             /\ UNCHANGED stored

(* The session is over; the next one has another port. *)
Listening(s) == [Idle EXCEPT !.port = 3 - s.port]

(* nak. *)
nak(net) ==
    /\ sv' = Listening(sv)
    /\ toC' = Put(toC, Bare("ERROR", sv.block, sv.port))
    /\ toS' = net

(* tftpd_server has a request: tftpd_exec, with validate_access, which     *)
(* truncates the file that will be written.                                *)
tftpd_exec ==
    LET m == Head(toS)
        s == [Idle EXCEPT !.pc = "busy", !.op = m.op, !.port = sv.port, !.block = 1]
    IN  /\ sv.pc = "listen"
        /\ toS # <<>> /\ m.port = 0
        /\ IF ~job.ok
              THEN nak(Tail(toS)) /\ UNCHANGED <<file, stored>>
              ELSE IF m.op = "RRQ"
              THEN Serve(readit(rw_init(s, 1)), Tail(toS))
              ELSE /\ sv' = rw_init(s, 0)
                   /\ file' = <<>>
                   /\ toC' = Put(toC, Ack(s))
                   /\ toS' = Tail(toS)
                   /\ UNCHANGED stored
        /\ UNCHANGED client

(* tftpd_select's time is over: once more, for ever. *)
server_timeout ==
    /\ sv.pc = "busy"
    /\ Serve(sv, toS)
    /\ UNCHANGED client

Mine(pc) == sv.pc = pc /\ toS # <<>> /\ Head(toS).port = sv.port

(* A packet for sendfile. *)
sendfile ==
    LET m == Head(toS)
        more == readit([sv EXCEPT !.block = @ + 1])
    IN  /\ Mine("busy") /\ sv.op = "RRQ"
        /\ IF m.op = "ERROR"
              THEN /\ sv' = Listening(sv)
                   /\ toS' = Tail(toS) /\ UNCHANGED <<toC, file, stored>>
              ELSE IF m.op # "ACK"
              THEN toS' = Tail(toS) /\ UNCHANGED <<sv, toC, file, stored>>
              ELSE IF Same(m.n, sv.block)
              THEN IF sv.bfs[sv.current].counter = SEG
                   THEN Serve(more, Tail(toS))
                   ELSE /\ sv' = Listening(sv)
                        /\ toS' = Tail(toS) /\ UNCHANGED <<toC, file, stored>>
              ELSE \E net \in Flushed(toS) :
                     IF Previous(m.n, sv.block)
                     THEN Serve(sv, net)
                     ELSE toS' = net /\ UNCHANGED <<sv, toC, file, stored>>
        /\ UNCHANGED client

(* Mutant: the last block is still in its buffer when the file is closed. *)
Finish_unflushed(s, out) ==
    /\ file' = file \o out
    /\ IF job.crc = "bad"
          THEN nak(Tail(toS)) /\ stored' = <<"refused">>
          ELSE /\ sv' = [s EXCEPT !.pc = "last"]
               /\ toC' = Put(toC, Bare("ACK", s.block, s.port))
               /\ toS' = Tail(toS)
               /\ stored' = file'

(* The last block is written and the file closed; the contents of an       *)
(* upload to memory are checked before it is acknowledged.                 *)
Finish(s, out) ==
    LET w == write_behind(s)
    IN  /\ file' = file \o out \o w.out
        /\ IF job.crc = "bad"
              THEN nak(Tail(toS)) /\ stored' = <<"refused">>
              ELSE /\ sv' = [w.s EXCEPT !.pc = "last"]
                   /\ toC' = Put(toC, Bare("ACK", s.block, s.port))
                   /\ toS' = Tail(toS)
                   /\ stored' = file'

(* A packet for recvfile. *)
recvfile ==
    LET m == Head(toS)
        got == [sv EXCEPT !.bfs[sv.current].from = m.from, !.bfs[sv.current].n = m.n]
        w == writeit(got, m.len)
        next == [w.s EXCEPT !.block = @ + 1]
        f == write_behind(next)
    IN  /\ Mine("busy") /\ sv.op = "WRQ"
        /\ IF m.op = "ERROR"
              THEN /\ sv' = Listening(sv)
                   /\ toS' = Tail(toS) /\ UNCHANGED <<toC, file, stored>>
              ELSE IF m.op # "DATA"
              THEN toS' = Tail(toS) /\ UNCHANGED <<sv, toC, file, stored>>
              ELSE IF Same(m.n, sv.block)
              THEN IF m.len = SEG
                   THEN /\ sv' = f.s
                        /\ file' = file \o w.out \o f.out
                        /\ toC' = Put(toC, Ack(next))
                        /\ toS' = Tail(toS) /\ UNCHANGED stored
                   ELSE Finish(w.s, w.out)
              ELSE \E net \in Flushed(toS) :
                     IF Previous(m.n, sv.block)
                     THEN Serve(sv, net)
                     ELSE toS' = net /\ UNCHANGED <<sv, toC, file, stored>>
        /\ UNCHANGED client

(* After the final acknowledgement the server waits once, for a packet or  *)
(* for five seconds.  A packet is put into cmdbuf, but it is dp, the other *)
(* buffer by now, that is looked at: the block before, or memory that was  *)
(* never written.  A program that was uploaded is then started.            *)
recvfile_end ==
    LET dp == sv.bfs[sv.current]
        over == IF job.crc = "good" THEN [Idle EXCEPT !.pc = "off"] ELSE Listening(sv)
    IN  /\ sv.pc = "last"
        /\ sv' = over
        /\ \/ UNCHANGED <<toS, toC>>
           \/ /\ Mine("last")
              /\ toS' = Tail(toS)
              /\ \E again \in IF dp.n = Unset THEN BOOLEAN ELSE {Same(dp.n, sv.block)} :
                    toC' = IF again THEN Put(toC, Bare("ACK", sv.block, sv.port)) ELSE toC
        /\ UNCHANGED <<client, file, stored>>

(* A packet for a port that nobody has. *)
server_gone ==
    /\ toS # <<>>
    /\ Head(toS).port # IF sv.pc = "listen" THEN 0 ELSE IF sv.pc = "off" THEN -1 ELSE sv.port
    /\ toS' = Tail(toS)
    /\ UNCHANGED <<client, sv, file, stored, toC>>

(* The client's host says that nobody has the port: send fails.  sendfile  *)
(* returns a code and tftpd listens again; recvfile returns -1, and tftpd  *)
(* ends.                                                                   *)
server_refused ==
    /\ sv.pc = "busy" /\ cl.pc = "done"
    /\ sv' = IF sv.op = "RRQ" THEN Listening(sv) ELSE [Idle EXCEPT !.pc = "off"]
    /\ UNCHANGED <<client, file, stored, toS, toC>>

-----------------------------------------------------------------------------
(* The network: the first packet is lost, comes again later, or comes      *)
(* later.                                                                  *)
Disturbed(net) ==
    {Tail(net), Append(Tail(net), Head(net))}
        \cup IF Len(net) < Cap THEN {Append(net, Head(net))} ELSE {}

Fault ==
    /\ faults < MaxFaults
    /\ faults' = faults + 1
    /\ \/ toS # <<>> /\ toS' \in Disturbed(toS) /\ UNCHANGED toC
       \/ toC # <<>> /\ toC' \in Disturbed(toC) /\ UNCHANGED toS
    /\ UNCHANGED <<job, cl, sv, file, stored>>

(* The client goes on, or has a packet.  The server has a packet. *)
ClientRuns == tftpread \/ tftpwrite \/ client_recv \/ client_gone
ServerHas == tftpd_exec \/ sendfile \/ recvfile \/ server_gone

Next ==
    \/ tftpopen \/ call \/ tftplseek \/ tftpclose \/ client_break
    \/ ClientRuns \/ client_timeout
    \/ ServerHas \/ recvfile_end \/ server_timeout \/ server_refused
    \/ Fault

(* Packets arrive unless the network disturbs them, and both ends wait for *)
(* them no longer than their time.                                         *)
Spec ==
    /\ Init /\ [][Next]_vars
    /\ WF_vars(ClientRuns) /\ WF_vars(client_timeout)
    /\ WF_vars(ServerHas) /\ WF_vars(recvfile_end) /\ WF_vars(server_timeout)

-----------------------------------------------------------------------------
Packets == [op : {"RRQ", "WRQ", "DATA", "ACK", "ERROR"}, n : Nat, from : Nat,
            len : 0 .. SEG, port : 0 .. 2]

TypeOK ==
    /\ job \in Jobs
    /\ cl.pc \in {"start", "user", "loop", "wait", "done"}
    /\ cl.why \in {"open", "read", "write", "close", "empty"}
    /\ cl.fail \in {"no", "error", "window", "intr", "unsaid error", "unsaid window"}
    /\ cl.end \in Nat /\ cl.nb \in Nat /\ cl.port \in 0 .. 2
    /\ job.op = "WRQ" => cl.end <= SEG
    /\ sv.pc \in {"listen", "busy", "last", "off"}
    /\ \A i \in 0 .. 1 : sv.bfs[i].counter \in {BF_ALLOC, BF_FREE} \cup 0 .. SEG
    /\ \A m \in Range(toS) \cup Range(toC) : m \in Packets
    /\ Len(toS) <= Cap /\ Len(toC) <= Cap /\ faults \in 0 .. MaxFaults

(* What tftpread copies is the file: the buffer holds the units of the     *)
(* source from start to end, and the end of the file is reported there and *)
(* nowhere else, whatever was lost, repeated, delayed or sent twice.       *)
ReadRight ==
    (job.op = "RRQ" /\ cl.fail = "no" /\ cl.pc \in {"user", "loop"}) =>
        /\ cl.end = min(job.len, cl.start + SEG) \/ cl.start = cl.end
        /\ cl.start < cl.end => cl.buf = cl.start
        /\ cl.start = cl.end => cl.start = job.len

(* What the server writes is the beginning of the source, in order, no     *)
(* block twice and none left out, as long as the writer has been told of   *)
(* no failure; and the whole of it is stored when the client is done and   *)
(* every block was acknowledged, the last ones among them.  The second is  *)
(* more than a writer can know: of a last block that is refused or given   *)
(* up tftpclose says nothing, and then the file need not be stored.        *)
WriteRight ==
    /\ ~Told => IsPrefix(file, Source)
    /\ (job.op = "WRQ" /\ cl.pc = "done" /\ cl.fail = "no") => stored = Source

(* The client gives up only when it is told to, when the network has       *)
(* disturbed a packet, or at the block whose number is zero again: packets *)
(* that both ends sent twice because they would not wait do not confuse    *)
(* it.                                                                     *)
GivesUpWithCause ==
    [][(cl.fail = "no" /\ GaveUp') =>
           faults > 0 \/ cl.block % Wire = 0]_vars

(* A transfer gets on: the client does not wait for ever, unless the       *)
(* server has done its work and gone.                                      *)
TransferEnds ==
    cl.pc = "wait" ~> (cl.pc # "wait" \/ stored # NotYet)

(* The comments in recvfile: a block that is read after the final          *)
(* acknowledgement means "my last ack was lost", and "resend final ack".   *)
FinalAckAgain ==
    [][(/\ sv.pc = "last" /\ sv' # sv
        /\ toS # <<>> /\ toS' = Tail(toS)
        /\ Head(toS).op = "DATA" /\ Same(Head(toS).n, sv.block)) =>
           toC' = Put(toC, Bare("ACK", sv.block, sv.port))]_vars

=============================================================================
