----------------------------- MODULE TftpProofs ------------------------------
(***************************************************************************)
(* Proofs about the TFTP client, the server and the network between them,  *)
(* for every file, every size of a block and any number of faults.         *)
(***************************************************************************)
EXTENDS Tftp, TLAPS, SequenceTheorems

Outcomes == {"no", "error", "window", "intr", "unsaid error", "unsaid window"}
Clients ==
  [pc : {"start", "user", "loop", "wait", "done"},
   why : {"open", "read", "write", "close", "empty"},
   block : Nat, start : Nat, end : Nat, foffs : Nat, eof : BOOLEAN,
   port : 0 .. 2, buf : Nat, nb : Nat,
   fail : Outcomes, req : Packets]

Buffers == [counter : {BF_ALLOC, BF_FREE} \cup 0 .. SEG, from : Nat, n : Nat \cup {Unset}]

Servers ==
  [pc : {"listen", "busy", "last", "off"}, op : {"RRQ", "WRQ"}, port : 1 .. 2,
   block : Nat, rd : 0 .. job.len, bfs : [0 .. 1 -> Buffers],
   current : 0 .. 1, nextone : 0 .. 1]

(* The request that tftprrq or tftpwrq repeats, and the server's end.      *)
Plays(c) ==
  /\ c \in Clients
  /\ c.pc = "start" => /\ c.why = "open" /\ c.fail = "no" /\ ~c.eof
                        /\ c.end = 0 /\ c.foffs = 0 /\ c.start = 0
  /\ c.pc = "wait" => c.block = c.req.n + IF job.op = "RRQ" THEN 1 ELSE 0
  /\ c.pc = "wait" => c.req.op # "ERROR"
  /\ c.pc = "wait" /\ c.why = "open" => c.req = Bare(job.op, 0, 0)
  /\ c.pc \in {"user", "loop"} \/ (c.pc = "wait" /\ c.why # "open") => c.port # 0
  /\ job.op = "RRQ" => c.why \in {"open", "read"}
  /\ job.op = "WRQ" => /\ c.why # "read" /\ c.end <= SEG
                       /\ c.end <= c.foffs /\ c.foffs <= job.len
                       /\ c.pc = "loop" \/ (c.pc = "wait" /\ c.why = "write") =>
                            c.foffs + c.nb <= job.len
Client == Plays(cl)

(* The server's buffers: sendfile has the block it sends and the next one, *)
(* recvfile has one to fill and has emptied the other.                     *)
Reading(s) ==
  /\ s.nextone = s.current
  /\ s.bfs[0].counter >= 0 /\ s.bfs[1].counter >= 0
Writing(s) ==
  /\ s.nextone = s.current
  /\ s.bfs[s.current].counter = BF_ALLOC /\ s.bfs[1 - s.current].counter = BF_FREE

Runs(s) ==
  /\ s \in Servers
  /\ s.pc \in {"busy", "last"} => s.op = job.op /\ s.block > 0
  /\ s.pc = "last" => job.op = "WRQ"
  /\ ~job.ok => s.pc = "listen"
  /\ s.pc = "busy" /\ job.op = "RRQ" => Reading(s)
  /\ s.pc = "busy" /\ job.op = "WRQ" => Writing(s)
Server == Runs(sv)

(* The packets there can be: only requests go to port 0, and the answers   *)
(* are of the kind that was asked for.                                     *)
ToServer == {m \in Packets : /\ m.port = 0 => m.op = job.op /\ m.n = 0
                             /\ m.op = "ERROR" => cl.pc = "done"}
ToClient == {m \in Packets : /\ m.port # 0
                             /\ m.op # "ERROR" =>
                                  job.ok /\ m.op = IF job.op = "RRQ" THEN "DATA" ELSE "ACK"}

Nets ==
  /\ toS \in Seq(ToServer) /\ toC \in Seq(ToClient)
  /\ Len(toS) <= Cap /\ Len(toC) <= Cap
  /\ faults \in 0 .. MaxFaults

File == file \in Seq(Nat) /\ (job.op = "RRQ" => file = <<>>)

IInv == job \in Jobs /\ Client /\ Server /\ Nets /\ File

-----------------------------------------------------------------------------
(* What is transferred.  Block n begins at unit Start(n); as long as the   *)
(* file is Short its blocks all have different numbers on the wire.        *)
Start(n) == (n - 1) * SEG
Short == job.len < SEG * (Wire - 1)

(* A block is the same whoever sends it and whenever.                      *)
DataRight(m) ==
  m.op = "DATA" => /\ m.n > 0 /\ m.from = Start(m.n) /\ m.from <= job.len
                   /\ m.len = min(SEG, job.len - m.from)
Blocks == {m \in Packets : DataRight(m)}

(* The block that is sent is in one buffer, and what follows it in the     *)
(* other.                                                                  *)
ServerReads ==
  LET b == sv.bfs[sv.current]
      a == sv.bfs[1 - sv.current]
  IN  sv.pc = "busy" =>
        /\ b.from = Start(sv.block) /\ b.from <= job.len
        /\ b.counter = min(SEG, job.len - b.from)
        /\ a.from = b.from + b.counter /\ a.counter = min(SEG, job.len - a.from)
        /\ sv.rd = a.from + a.counter

ClientReads ==
  cl.fail = "no" =>
    /\ cl.pc = "wait" => /\ ~cl.eof /\ cl.end = Start(cl.block) /\ cl.end <= job.len
                         /\ cl.why = "open" => cl.block = 1
    /\ cl.pc \in {"user", "loop"} =>
         \/ /\ cl.start = Start(cl.block) /\ cl.start <= job.len /\ cl.buf = cl.start
            /\ cl.end = min(job.len, cl.start + SEG)
            /\ cl.eof <=> cl.end < cl.start + SEG
         \/ cl.start = job.len /\ cl.end = job.len

Reads ==
  job.op = "RRQ" => /\ toC \in Seq(Blocks)
                    /\ ServerReads /\ ClientReads

(* The units the server has written are those of the blocks before the one *)
(* it expects.                                                             *)
Prefix == Len(file) <= job.len /\ \A i \in 1 .. Len(file) : file[i] = i - 1
ServerWrites == sv.pc = "busy" => Len(file) = Start(sv.block)

ClientWrites ==
  /\ cl.pc = "start" => cl.end = 0 /\ cl.foffs = 0
  /\ cl.pc \in {"user", "loop"} => cl.foffs - cl.end = Start(cl.block + 1) /\ cl.end < SEG
  /\ cl.pc = "wait" =>
       /\ DataRight(cl.req) /\ cl.why # "empty"
       /\ cl.why = "open" => cl.block = 0 /\ cl.foffs = 0 /\ cl.end = 0
       /\ cl.why # "open" => cl.foffs - cl.end = Start(cl.block)
       /\ cl.why = "write" => cl.end = SEG
       /\ cl.why = "close" => cl.foffs = job.len /\ cl.end < SEG

(* The last block is acknowledged when the whole file is stored.           *)
Whole == stored = Source /\ job.crc # "bad"
AckRight(m) == m.op = "ACK" => Start(m.n) <= job.len /\ (Start(m.n + 1) <= job.len \/ Whole)
Acks == {m \in Packets : AckRight(m)}

Writes ==
  job.op = "WRQ" /\ ~Told =>
    /\ Prefix /\ ServerWrites /\ ClientWrites
    /\ toS \in Seq(Blocks)
    /\ toC \in Seq(Acks)
    /\ sv.pc = "last" => Whole /\ Start(sv.block) <= job.len
    /\ cl.pc = "done" /\ cl.fail = "no" => Whole
    /\ cl.fail # "no" => cl.pc = "done"

-----------------------------------------------------------------------------
(* As long as the network disturbs nothing, the packets that are under way *)
(* are in the order of their numbers and not older than what their         *)
(* receiver has already had.                                               *)
Climbs(q, lo, hi) ==
  /\ \A i \in 1 .. Len(q) : lo <= q[i].n /\ q[i].n <= hi
  /\ \A i, j \in 1 .. Len(q) : i <= j => q[i].n <= q[j].n

Asked == cl.block - IF job.op = "RRQ" THEN 1 ELSE 0
Got   == cl.block - IF cl.pc = "wait" THEN 1 ELSE 0
Heard == sv.block - 1
Said  == IF job.op = "RRQ" \/ sv.pc = "last" THEN sv.block ELSE sv.block - 1

NotStarted == cl.pc = "start" /\ toS = <<>> /\ toC = <<>> /\ sv.pc = "listen"
Opening ==
  /\ cl.pc = "wait" /\ cl.why = "open" /\ Asked = 0
  /\ sv.pc = "listen" /\ toC = <<>> /\ Climbs(toS, 0, 0)
InSession ==
  /\ sv.pc = "busy" /\ Heard <= Asked /\ Got <= Said
  /\ Climbs(toS, Heard, Asked) /\ Climbs(toC, Got, Said)
LastSaid ==
  /\ sv.pc = "last" /\ Got <= Said /\ Said <= Asked
  /\ Climbs(toS, 1, Asked) /\ Climbs(toC, Got, Said)
SessionOver ==
  /\ sv.pc \in {"listen", "off"} /\ 1 <= Asked
  /\ Climbs(toS, 1, Asked) /\ Climbs(toC, Got, cl.block)
AtEnd == job.op = "RRQ" /\ cl.pc \in {"user", "loop"} /\ cl.start >= cl.end

Stage ==
  \/ NotStarted \/ Opening \/ AtEnd \/ cl.pc = "done"
  \/ /\ cl.pc \in {"user", "loop", "wait"}
     /\ InSession \/ LastSaid \/ SessionOver
Calm == faults = 0 /\ cl.fail = "no" /\ job.ok => Stage
-----------------------------------------------------------------------------
(* What the operations on packets in flight keep.                          *)

LEMMA PutFacts ==
  ASSUME NEW S, NEW q \in Seq(S), NEW m \in S
  PROVE  Put(q, m) \in Seq(S) /\ (Len(q) <= Cap => Len(Put(q, m)) <= Cap)
<1>1. Cap \in Nat /\ Len(q) \in Nat
  BY TftpAssumption
<1>2. Append(q, m) \in Seq(S) /\ Len(Append(q, m)) = Len(q) + 1
  OBVIOUS
<1>3. QED
  BY <1>1, <1>2 DEF Put

LEMMA TakeFacts ==
  ASSUME NEW S, NEW q \in Seq(S), q # <<>>
  PROVE  Head(q) \in S /\ Tail(q) \in Seq(S) /\ Len(Tail(q)) <= Len(q)
OBVIOUS

LEMMA FlushFacts ==
  ASSUME NEW S, NEW q \in Seq(S), NEW r \in Flushed(q)
  PROVE  r \in Seq(S) /\ Len(r) <= Len(q)
<1>1. PICK i \in 2 .. Len(q) + 1 : r = SubSeq(q, i, Len(q))
  BY DEF Flushed
<1>2. QED
  BY <1>1

LEMMA DisturbFacts ==
  ASSUME NEW S, NEW q \in Seq(S), q # <<>>, Len(q) <= Cap, NEW r \in Disturbed(q)
  PROVE  r \in Seq(S) /\ Len(r) <= Cap
<1>1. Cap \in Nat /\ Len(q) \in Nat \ {0}
  BY TftpAssumption
<1>2. Head(q) \in S /\ Tail(q) \in Seq(S) /\ Len(Tail(q)) = Len(q) - 1
  OBVIOUS
<1>3. Append(Tail(q), Head(q)) \in Seq(S) /\ Len(Append(Tail(q), Head(q))) = Len(q)
  BY <1>2
<1>4. Append(q, Head(q)) \in Seq(S) /\ Len(Append(q, Head(q))) = Len(q) + 1
  BY <1>2
<1>5. r \in {Tail(q), Append(Tail(q), Head(q))} \/ (Len(q) < Cap /\ r = Append(q, Head(q)))
  BY DEF Disturbed
<1>6. QED
  BY <1>1, <1>2, <1>3, <1>4, <1>5

LEMMA Widen ==
  ASSUME NEW S, NEW T, NEW q \in Seq(S), S \subseteq T
  PROVE  q \in Seq(T)
OBVIOUS

LEMMA NothingSent ==
  ASSUME NEW S
  PROVE  <<>> \in Seq(S) /\ Len(<<>>) = 0
OBVIOUS

LEMMA Constant ==
  /\ SEG \in Nat \ {0} /\ Wire \in Nat /\ Wire > 2 /\ Cap \in Nat \ {0} /\ MaxFaults \in Nat
  /\ \A n \in Sizes : n \in Nat
<1>1. SEG \in Nat \ {0} /\ Wire \in Nat \ {0, 1, 2} /\ Cap \in Nat \ {0} /\ MaxFaults \in Nat
  BY TftpAssumption
<1>2. Sizes \subseteq Nat \ {0}
  BY TftpAssumption
<1>3. QED
  BY <1>1, <1>2

LEMMA JobFacts ==
  ASSUME job \in Jobs
  PROVE  job.op \in {"RRQ", "WRQ"} /\ job.len \in Nat
         /\ job.ok \in BOOLEAN /\ job.crc \in {"none", "good", "bad"}
<1>1. \A j \in Jobs : /\ j.op \in {"RRQ", "WRQ"} /\ j.len \in Nat
                      /\ j.ok \in BOOLEAN /\ j.crc \in {"none", "good", "bad"}
  BY TftpAssumption, Zenon
<1>2. QED
  BY <1>1, Zenon

(* The packets that are sent. *)
LEMMA PacketFacts ==
  ASSUME NEW op \in {"RRQ", "WRQ", "DATA", "ACK", "ERROR"}, NEW n \in Nat,
         NEW from \in Nat, NEW len \in 0 .. SEG, NEW port \in 0 .. 2
  PROVE  LET m == Packet(op, n, from, len, port) IN
         /\ m \in Packets /\ m.op = op /\ m.n = n /\ m.from = from
         /\ m.len = len /\ m.port = port
BY DEF Packet, Packets

LEMMA BareFacts ==
  ASSUME NEW op \in {"RRQ", "WRQ", "DATA", "ACK", "ERROR"}, NEW n \in Nat,
         NEW port \in 0 .. 2
  PROVE  LET m == Bare(op, n, port) IN
         /\ m \in Packets /\ m.op = op /\ m.n = n /\ m.from = 0
         /\ m.len = 0 /\ m.port = port
<1>1. 0 \in Nat /\ 0 \in 0 .. SEG
  BY Constant
<1>2. QED
  BY <1>1 DEF Bare, Packet, Packets

LEMMA Readdressed ==
  ASSUME NEW m \in Packets, NEW p \in 0 .. 2
  PROVE  LET r == [m EXCEPT !.port = p] IN
         /\ r \in Packets /\ r.op = m.op /\ r.n = m.n /\ r.from = m.from
         /\ r.len = m.len /\ r.port = p
BY DEF Packets
-----------------------------------------------------------------------------
(* The server's buffers.                                                   *)

LEMMA Other ==
  ASSUME NEW i \in 0 .. 1
  PROVE  1 - i \in 0 .. 1 /\ 1 - i # i /\ 1 - (1 - i) = i /\ \A k \in 0 .. 1 : k = i \/ k = 1 - i
OBVIOUS

LEMMA FillFacts ==
  ASSUME job \in Jobs, NEW s \in Servers, s.bfs[s.nextone].counter = BF_FREE
  PROVE  LET r == read_ahead(s)
             n == min(SEG, job.len - s.rd)
         IN  /\ r \in Servers /\ n \in 0 .. SEG
             /\ r.pc = s.pc /\ r.op = s.op /\ r.port = s.port /\ r.block = s.block
             /\ r.current = s.current /\ r.nextone = 1 - s.nextone /\ r.rd = s.rd + n
             /\ r.bfs[s.nextone] = [counter |-> n, from |-> s.rd, n |-> Unset]
             /\ r.bfs[1 - s.nextone] = s.bfs[1 - s.nextone]
<1> DEFINE n == min(SEG, job.len - s.rd)
           b == [counter |-> n, from |-> s.rd, n |-> Unset]
           x == s.nextone
<1>1. job.len \in Nat /\ SEG \in Nat
  BY JobFacts, Constant
<1>2. s.rd \in 0 .. job.len /\ x \in 0 .. 1 /\ s.bfs \in [0 .. 1 -> Buffers]
  BY DEF Servers
<1>3. n \in 0 .. SEG /\ s.rd + n \in 0 .. job.len
  BY <1>1, <1>2 DEF min
<1>4. b \in Buffers
  BY <1>2, <1>3 DEF Buffers
<1>5. read_ahead(s) = [s EXCEPT !.bfs = [@ EXCEPT ![x] = b], !.nextone = 1 - x, !.rd = s.rd + n]
  BY DEF read_ahead, Servers
<1>6. 1 - x \in 0 .. 1 /\ 1 - x # x
  BY <1>2
<1>7. [s.bfs EXCEPT ![x] = b] \in [0 .. 1 -> Buffers]
  BY <1>2, <1>4
<1> HIDE DEF b, n, x
<1>8. QED
  BY <1>2, <1>3, <1>5, <1>6, <1>7 DEF b, n, x, Servers

LEMMA FullStays ==
  ASSUME NEW s \in Servers, s.bfs[s.nextone].counter # BF_FREE
  PROVE  read_ahead(s) = s
BY DEF read_ahead

LEMMA TurnFacts ==
  ASSUME NEW s \in Servers
  PROVE  LET t == [s EXCEPT !.bfs[s.current].counter = BF_FREE, !.current = 1 - @]
         IN  /\ t \in Servers
             /\ t.pc = s.pc /\ t.op = s.op /\ t.port = s.port /\ t.block = s.block
             /\ t.current = 1 - s.current /\ t.nextone = s.nextone /\ t.rd = s.rd
             /\ t.bfs[s.current].counter = BF_FREE
             /\ t.bfs[1 - s.current] = s.bfs[1 - s.current]
<1> DEFINE c == s.current
           b == [s.bfs[c] EXCEPT !.counter = BF_FREE]
<1>1. c \in 0 .. 1 /\ s.bfs \in [0 .. 1 -> Buffers] /\ 1 - c \in 0 .. 1 /\ 1 - c # c
  BY DEF Servers
<1>2. b \in Buffers /\ b.counter = BF_FREE
  BY <1>1 DEF Buffers
<1>3. [s.bfs EXCEPT ![c] = b] \in [0 .. 1 -> Buffers]
  BY <1>1, <1>2
<1>4. [s EXCEPT !.bfs[s.current].counter = BF_FREE, !.current = 1 - @]
        = [s EXCEPT !.bfs = [@ EXCEPT ![c] = b], !.current = 1 - c]
  BY DEF Servers
<1> HIDE DEF b, c
<1>5. QED
  BY <1>1, <1>2, <1>3, <1>4 DEF b, c, Servers

(* sendfile goes on to the next block: it is there already, and the one    *)
(* after it is read.                                                       *)
NextBlock(s) == read_ahead(readit([s EXCEPT !.block = @ + 1]))

LEMMA NextBlockFacts ==
  ASSUME job \in Jobs, NEW s \in Servers, Reading(s)
  PROVE  LET r == NextBlock(s)
             n == min(SEG, job.len - s.rd)
         IN  /\ r \in Servers /\ Reading(r)
             /\ r.pc = s.pc /\ r.op = s.op /\ r.port = s.port /\ r.block = s.block + 1
             /\ r.current = 1 - s.current /\ r.rd = s.rd + n
             /\ r.bfs[1 - s.current] = s.bfs[1 - s.current]
             /\ r.bfs[s.current] = [counter |-> n, from |-> s.rd, n |-> Unset]
<1> DEFINE u == [s EXCEPT !.block = @ + 1]
           t == [u EXCEPT !.bfs[u.current].counter = BF_FREE, !.current = 1 - @]
           c == s.current
           n == min(SEG, job.len - s.rd)
<1>1. /\ u \in Servers /\ u.pc = s.pc /\ u.op = s.op /\ u.port = s.port
      /\ u.block = s.block + 1 /\ u.current = c /\ u.nextone = s.nextone /\ u.rd = s.rd
      /\ u.bfs = s.bfs
  BY DEF Servers
<1>2. c \in 0 .. 1 /\ 1 - c \in 0 .. 1 /\ 1 - c # c /\ 1 - (1 - c) = c /\ s.nextone = c
  BY DEF Servers, Reading
<1> HIDE DEF u
<1>3. /\ t \in Servers /\ t.pc = s.pc /\ t.op = s.op /\ t.port = s.port
      /\ t.block = s.block + 1 /\ t.current = 1 - c /\ t.nextone = c /\ t.rd = s.rd
      /\ t.bfs[c].counter = BF_FREE /\ t.bfs[1 - c] = s.bfs[1 - c]
  BY <1>1, <1>2, TurnFacts
<1>4. s.bfs[1 - c].counter >= 0 /\ s.bfs[1 - c].counter # BF_FREE
  BY <1>2 DEF Reading, BF_FREE
<1>5. readit(u) = t
  BY <1>3, <1>4 DEF readit
<1> HIDE DEF t
<1>6. t.bfs[t.nextone].counter = BF_FREE
  BY <1>3
<1> DEFINE r == read_ahead(t)
<1>7. /\ r \in Servers /\ n \in 0 .. SEG
      /\ r.pc = t.pc /\ r.op = t.op /\ r.port = t.port /\ r.block = t.block
      /\ r.current = t.current /\ r.nextone = 1 - t.nextone /\ r.rd = t.rd + n
      /\ r.bfs[t.nextone] = [counter |-> n, from |-> t.rd, n |-> Unset]
      /\ r.bfs[1 - t.nextone] = t.bfs[1 - t.nextone]
  BY <1>3, <1>6, FillFacts
<1>8. NextBlock(s) = r
  BY <1>5 DEF NextBlock, u
<1> HIDE DEF r, n
<1>9. /\ r.bfs[c].counter >= 0 /\ r.bfs[1 - c].counter >= 0 /\ r.nextone = r.current
  BY <1>3, <1>4, <1>7
<1>10. Reading(r)
  BY <1>2, <1>9 DEF Reading
<1>11. QED
  BY <1>2, <1>3, <1>7, <1>8, <1>10 DEF n

(* A session begins: tftpd_exec's s, and the first two blocks are read.    *)
Accepting(op) == [Idle EXCEPT !.pc = "busy", !.op = op, !.port = sv.port, !.block = 1]
FirstBlock == read_ahead(readit(rw_init(Accepting("RRQ"), 1)))

LEMMA IdleFacts ==
  ASSUME job \in Jobs
  PROVE  Idle \in Servers /\ Idle.pc = "listen" /\ Idle.rd = 0 /\ Idle.block = 0
<1> DEFINE z == [i \in 0 .. 1 |-> EmptyBuf(BF_FREE)]
<1>1. EmptyBuf(BF_FREE) \in Buffers
  BY DEF EmptyBuf, Buffers
<1>2. z \in [0 .. 1 -> Buffers]
  BY <1>1
<1>3. Idle = [pc |-> "listen", op |-> "RRQ", port |-> 1, block |-> 0, rd |-> 0,
              bfs |-> z, current |-> 0, nextone |-> 0]
  BY DEF Idle
<1>4. 0 \in 0 .. job.len /\ 0 \in 0 .. 1 /\ 1 \in 1 .. 2 /\ 0 \in Nat
  BY JobFacts
<1> HIDE DEF z
<1>5. QED
  BY <1>2, <1>3, <1>4 DEF Servers

LEMMA AcceptFacts ==
  ASSUME job \in Jobs, sv \in Servers, NEW op \in {"RRQ", "WRQ"}, NEW x \in 0 .. 1
  PROVE  LET i == rw_init(Accepting(op), x)
         IN  /\ Accepting(op).block = 1 /\ Accepting(op).op = op
             /\ Accepting(op).port = sv.port
             /\ i \in Servers /\ i.pc = "busy" /\ i.op = op /\ i.port = sv.port
             /\ i.block = 1 /\ i.rd = 0 /\ i.current = 0 /\ i.nextone = x
             /\ i.bfs[0].counter = BF_ALLOC /\ i.bfs[1].counter = BF_FREE
<1>1. job.len \in Nat /\ SEG \in Nat /\ sv.port \in 1 .. 2
  BY JobFacts, Constant DEF Servers
<1> DEFINE e == [i \in 0 .. 1 |-> EmptyBuf(IF i = 0 THEN BF_ALLOC ELSE BF_FREE)]
           a == Accepting(op)
           r == [a EXCEPT !.bfs = e, !.current = 0, !.nextone = x]
<1>2. EmptyBuf(BF_ALLOC) \in Buffers /\ EmptyBuf(BF_FREE) \in Buffers
      /\ EmptyBuf(BF_ALLOC).counter = BF_ALLOC /\ EmptyBuf(BF_FREE).counter = BF_FREE
  BY DEF EmptyBuf, Buffers
<1>3. e \in [0 .. 1 -> Buffers] /\ e[0] = EmptyBuf(BF_ALLOC) /\ e[1] = EmptyBuf(BF_FREE)
  BY <1>2
<1>4. Idle \in Servers /\ Idle.rd = 0
  BY IdleFacts
<1>a. ASSUME NEW s \in Servers
      PROVE  LET b == [s EXCEPT !.pc = "busy", !.op = op, !.port = sv.port, !.block = 1]
             IN  /\ b \in Servers /\ b.pc = "busy" /\ b.op = op /\ b.port = sv.port
                 /\ b.block = 1 /\ b.rd = s.rd
  BY <1>1 DEF Servers
<1>b. LET b == [Idle EXCEPT !.pc = "busy", !.op = op, !.port = sv.port, !.block = 1]
      IN  /\ b \in Servers /\ b.pc = "busy" /\ b.op = op /\ b.port = sv.port
          /\ b.block = 1 /\ b.rd = Idle.rd
  BY <1>4, <1>a, Zenon
<1>5. /\ a \in Servers /\ a.pc = "busy" /\ a.op = op /\ a.port = sv.port
      /\ a.block = 1 /\ a.rd = 0
  BY <1>4, <1>b DEF Accepting
<1>6. rw_init(a, x) = r
  BY DEF rw_init
<1> HIDE DEF e, a
<1>7. /\ r \in Servers /\ r.pc = a.pc /\ r.op = a.op /\ r.port = a.port
      /\ r.block = a.block /\ r.rd = a.rd /\ r.bfs = e /\ r.current = 0 /\ r.nextone = x
  <2>1. ASSUME NEW s \in Servers, NEW f \in [0 .. 1 -> Buffers]
        PROVE  LET t == [s EXCEPT !.bfs = f, !.current = 0, !.nextone = x]
               IN  t \in Servers /\ t.bfs = f /\ t.current = 0 /\ t.nextone = x
    <3>1. [s EXCEPT !.bfs = f] \in Servers
      BY DEF Servers
    <3>2. ASSUME NEW t \in Servers, NEW y \in 0 .. 1
          PROVE  [t EXCEPT !.current = y] \in Servers /\ [t EXCEPT !.nextone = y] \in Servers
      BY DEF Servers
    <3>a. 0 \in 0 .. 1
      OBVIOUS
    <3>b. [[s EXCEPT !.bfs = f] EXCEPT !.current = 0] \in Servers
      BY <3>1, <3>2, <3>a, Zenon
    <3>3. [[[s EXCEPT !.bfs = f] EXCEPT !.current = 0] EXCEPT !.nextone = x] \in Servers
      BY <3>b, <3>2, Zenon
    <3>4. QED
      BY <3>3 DEF Servers
  <2>2. ASSUME NEW s \in Servers, NEW f \in [0 .. 1 -> Buffers]
        PROVE  LET t == [s EXCEPT !.bfs = f, !.current = 0, !.nextone = x]
               IN  t.pc = s.pc /\ t.op = s.op /\ t.port = s.port
                   /\ t.block = s.block /\ t.rd = s.rd
    BY DEF Servers
  <2>3. QED
    BY <1>3, <1>5, <2>1, <2>2
<1> HIDE DEF r
<1>8. QED
  BY <1>2, <1>3, <1>5, <1>6, <1>7 DEF a

LEMMA FirstBlockFacts ==
  ASSUME job \in Jobs, sv \in Servers
  PROVE  LET r == FirstBlock
             b == r.bfs[r.current]
             a == r.bfs[1 - r.current]
         IN  /\ r \in Servers /\ Reading(r)
             /\ r.pc = "busy" /\ r.op = "RRQ" /\ r.port = sv.port /\ r.block = 1
             /\ b.from = 0 /\ b.counter = min(SEG, job.len)
             /\ a.from = b.counter /\ a.counter = min(SEG, job.len - b.counter)
             /\ r.rd = a.from + a.counter
<1> DEFINE i == rw_init(Accepting("RRQ"), 1)
           t == [i EXCEPT !.bfs[i.current].counter = BF_FREE, !.current = 1 - @]
           u == read_ahead(t)
           r == read_ahead(u)
           n == min(SEG, job.len - 0)
           k == min(SEG, job.len - n)
<1>1. /\ i \in Servers /\ i.pc = "busy" /\ i.op = "RRQ" /\ i.port = sv.port
      /\ i.block = 1 /\ i.rd = 0 /\ i.current = 0 /\ i.nextone = 1
      /\ i.bfs[1].counter = BF_FREE
  BY AcceptFacts
<1> HIDE DEF i
<1>a. /\ t \in Servers
      /\ t.pc = i.pc /\ t.op = i.op /\ t.port = i.port /\ t.block = i.block
      /\ t.current = 1 - i.current /\ t.nextone = i.nextone /\ t.rd = i.rd
      /\ t.bfs[i.current].counter = BF_FREE
      /\ t.bfs[1 - i.current] = i.bfs[1 - i.current]
  BY <1>1, TurnFacts
<1>b. readit(i) = IF t.bfs[t.current].counter = BF_FREE THEN u ELSE t
  BY DEF readit
<1> HIDE DEF t
<1>2. /\ t \in Servers /\ t.pc = "busy" /\ t.op = "RRQ" /\ t.port = sv.port
      /\ t.block = 1 /\ t.rd = 0 /\ t.current = 1 /\ t.nextone = 1
      /\ t.bfs[0].counter = BF_FREE /\ t.bfs[1].counter = BF_FREE
  BY <1>1, <1>a
<1>3. readit(i) = u
  BY <1>2, <1>b
<1>4. t.bfs[t.nextone].counter = BF_FREE
  BY <1>2
<1>5. /\ u \in Servers /\ n \in 0 .. SEG
      /\ u.pc = t.pc /\ u.op = t.op /\ u.port = t.port /\ u.block = t.block
      /\ u.current = t.current /\ u.nextone = 1 - t.nextone /\ u.rd = t.rd + n
      /\ u.bfs[t.nextone] = [counter |-> n, from |-> t.rd, n |-> Unset]
      /\ u.bfs[1 - t.nextone] = t.bfs[1 - t.nextone]
  BY <1>2, <1>4, FillFacts
<1> HIDE DEF u, n
<1>6. /\ u \in Servers /\ u.pc = "busy" /\ u.op = "RRQ" /\ u.port = sv.port
      /\ u.block = 1 /\ u.rd = n /\ u.current = 1 /\ u.nextone = 0
      /\ u.bfs[0].counter = BF_FREE
      /\ u.bfs[1] = [counter |-> n, from |-> 0, n |-> Unset]
  BY <1>2, <1>5
<1>7. u.bfs[u.nextone].counter = BF_FREE
  BY <1>6
<1>8. /\ r \in Servers /\ k \in 0 .. SEG
      /\ r.pc = u.pc /\ r.op = u.op /\ r.port = u.port /\ r.block = u.block
      /\ r.current = u.current /\ r.nextone = 1 - u.nextone /\ r.rd = u.rd + k
      /\ r.bfs[u.nextone] = [counter |-> k, from |-> u.rd, n |-> Unset]
      /\ r.bfs[1 - u.nextone] = u.bfs[1 - u.nextone]
  BY <1>6, <1>7, FillFacts
<1>9. FirstBlock = r
  BY <1>3 DEF FirstBlock, i
<1> HIDE DEF r, k
<1>10. /\ r.bfs[1] = [counter |-> n, from |-> 0, n |-> Unset]
       /\ r.bfs[0] = [counter |-> k, from |-> n, n |-> Unset]
       /\ r.current = 1 /\ r.nextone = 1 /\ r.rd = n + k /\ k >= 0 /\ n >= 0
  BY <1>5, <1>6, <1>8
<1>11. Reading(r)
  BY <1>10 DEF Reading
<1>12. n = min(SEG, job.len)
  BY JobFacts DEF n
<1>13. QED
  BY <1>6, <1>8, <1>9, <1>10, <1>11, <1>12 DEF k

(* recvfile puts a block into the buffer at hand, turns to the other one,  *)
(* and write_behind empties the first.                                     *)
Received(s, m) ==
  writeit([s EXCEPT !.bfs[s.current].from = m.from, !.bfs[s.current].n = m.n], m.len)
Turned(s, m) == [Received(s, m).s EXCEPT !.block = @ + 1]

Kept(t, s) ==
  /\ t \in Servers /\ t.pc = s.pc /\ t.op = s.op /\ t.port = s.port /\ t.block = s.block
  /\ t.rd = s.rd /\ t.current = s.current /\ t.nextone = s.nextone

LEMMA BufferSet ==
  ASSUME NEW s \in Servers, NEW i \in 0 .. 1, NEW b \in Buffers
  PROVE  LET t == [s EXCEPT !.bfs = [@ EXCEPT ![i] = b]]
         IN  Kept(t, s) /\ t.bfs[i] = b /\ t.bfs[1 - i] = s.bfs[1 - i]
<1> DEFINE f == [s.bfs EXCEPT ![i] = b]
<1>1. s.bfs \in [0 .. 1 -> Buffers] /\ 1 - i \in 0 .. 1 /\ 1 - i # i
  BY DEF Servers
<1>2. f \in [0 .. 1 -> Buffers] /\ f[i] = b /\ f[1 - i] = s.bfs[1 - i]
  BY <1>1
<1> HIDE DEF f
<1>3. LET t == [s EXCEPT !.bfs = f]
      IN  Kept(t, s) /\ t.bfs[i] = b /\ t.bfs[1 - i] = s.bfs[1 - i]
  BY <1>2 DEF Kept, Servers
<1>4. QED
  BY <1>3 DEF f

LEMMA BufferFrom ==
  ASSUME NEW s \in Servers, NEW i \in 0 .. 1, NEW k \in Nat
  PROVE  LET t == [s EXCEPT !.bfs[i].from = k]
         IN  Kept(t, s) /\ t.bfs[i] = [s.bfs[i] EXCEPT !.from = k]
             /\ t.bfs[1 - i] = s.bfs[1 - i]
<1>1. s.bfs[i] \in Buffers
  BY DEF Servers
<1>2. [s.bfs[i] EXCEPT !.from = k] \in Buffers
  BY <1>1 DEF Buffers
<1>3. QED
  BY <1>2, BufferSet

LEMMA BufferN ==
  ASSUME NEW s \in Servers, NEW i \in 0 .. 1, NEW k \in Nat
  PROVE  LET t == [s EXCEPT !.bfs[i].n = k]
         IN  Kept(t, s) /\ t.bfs[i] = [s.bfs[i] EXCEPT !.n = k]
             /\ t.bfs[1 - i] = s.bfs[1 - i]
<1>1. s.bfs[i] \in Buffers
  BY DEF Servers
<1>2. [s.bfs[i] EXCEPT !.n = k] \in Buffers
  BY <1>1 DEF Buffers
<1>3. QED
  BY <1>2, BufferSet

LEMMA BufferCounter ==
  ASSUME NEW s \in Servers, NEW i \in 0 .. 1,
         NEW k \in {BF_ALLOC, BF_FREE} \cup 0 .. SEG
  PROVE  LET t == [s EXCEPT !.bfs[i].counter = k]
         IN  Kept(t, s) /\ t.bfs[i] = [s.bfs[i] EXCEPT !.counter = k]
             /\ t.bfs[1 - i] = s.bfs[1 - i]
<1>1. s.bfs[i] \in Buffers
  BY DEF Servers
<1>2. [s.bfs[i] EXCEPT !.counter = k] \in Buffers
  BY <1>1 DEF Buffers
<1>3. QED
  BY <1>2, BufferSet

LEMMA ReceivedFacts ==
  ASSUME NEW s \in Servers, Writing(s), NEW m \in Packets
  PROVE  LET w == Received(s, m)
         IN  /\ w.out = <<>>
             /\ w.s \in Servers
             /\ w.s.pc = s.pc /\ w.s.op = s.op /\ w.s.port = s.port /\ w.s.block = s.block
             /\ w.s.current = 1 - s.current /\ w.s.nextone = s.current
             /\ w.s.bfs[s.current] = [counter |-> m.len, from |-> m.from, n |-> m.n]
             /\ w.s.bfs[1 - s.current].counter = BF_ALLOC
<1> DEFINE c == s.current
           d == [s EXCEPT !.bfs[c].from = m.from]
           g == [d EXCEPT !.bfs[c].n = m.n]
           u == [g EXCEPT !.bfs[c].counter = m.len]
           t == [u EXCEPT !.current = 1 - @]
           v == [t EXCEPT !.bfs[1 - c].counter = BF_ALLOC]
<1>1. /\ c \in 0 .. 1 /\ 1 - c \in 0 .. 1 /\ 1 - (1 - c) = c /\ s.nextone = c
      /\ s.bfs[c] \in Buffers /\ s.bfs[1 - c].counter = BF_FREE
  BY DEF Servers, Writing
<1>2. m.len \in 0 .. SEG /\ m.from \in Nat /\ m.n \in Nat
  BY DEF Packets
<1>3. Kept(d, s) /\ d.bfs[c] = [s.bfs[c] EXCEPT !.from = m.from]
      /\ d.bfs[1 - c] = s.bfs[1 - c]
  BY <1>1, <1>2, BufferFrom
<1> HIDE DEF d
<1>a. d \in Servers /\ d.current = c /\ d.bfs[c] = [s.bfs[c] EXCEPT !.from = m.from]
  BY <1>3 DEF Kept
<1>4. Kept(g, d) /\ g.bfs[c] = [d.bfs[c] EXCEPT !.n = m.n] /\ g.bfs[1 - c] = d.bfs[1 - c]
  BY <1>1, <1>2, <1>a, BufferN
<1>5. [s EXCEPT !.bfs[s.current].from = m.from, !.bfs[s.current].n = m.n] = g
  BY DEF d
<1> HIDE DEF g
<1>b. g \in Servers /\ g.current = c
  BY <1>a, <1>4 DEF Kept
<1>6. Kept(u, g) /\ u.bfs[c] = [g.bfs[c] EXCEPT !.counter = m.len]
      /\ u.bfs[1 - c] = g.bfs[1 - c]
  BY <1>1, <1>2, <1>b, BufferCounter
<1>8. [g EXCEPT !.bfs[g.current].counter = m.len, !.current = 1 - @] = t
  BY <1>b
<1> HIDE DEF u
<1>9. /\ u \in Servers /\ u.pc = s.pc /\ u.op = s.op /\ u.port = s.port
      /\ u.block = s.block /\ u.current = c /\ u.nextone = c
      /\ u.bfs[1 - c] = s.bfs[1 - c]
  BY <1>1, <1>3, <1>4, <1>6 DEF Kept
<1>10. u.bfs[c] = [counter |-> m.len, from |-> m.from, n |-> m.n]
  BY <1>1, <1>3, <1>4, <1>6 DEF Buffers
<1>11. /\ t \in Servers /\ t.pc = s.pc /\ t.op = s.op /\ t.port = s.port
       /\ t.block = s.block /\ t.current = 1 - c /\ t.nextone = c /\ t.bfs = u.bfs
  BY <1>1, <1>9 DEF Servers
<1> HIDE DEF t
<1>12. BF_ALLOC \in {BF_ALLOC, BF_FREE} \cup 0 .. SEG
  OBVIOUS
<1>13. Kept(v, t) /\ v.bfs[1 - c] = [t.bfs[1 - c] EXCEPT !.counter = BF_ALLOC]
       /\ v.bfs[c] = t.bfs[c]
  BY <1>1, <1>11, <1>12, BufferCounter
<1>14. Received(s, m) = [[s |-> t, out |-> <<>>] EXCEPT !.s.bfs[1 - c].counter = BF_ALLOC]
  BY <1>1, <1>5, <1>8, <1>9, <1>11 DEF Received, writeit
<1>15. Received(s, m) = [s |-> v, out |-> <<>>]
  BY <1>14
<1> HIDE DEF v
<1>16. t.bfs[1 - c] \in Buffers
  BY <1>1, <1>11 DEF Servers
<1>17. v.bfs[1 - c].counter = BF_ALLOC
  BY <1>13, <1>16 DEF Buffers
<1>18. v.bfs[c] = [counter |-> m.len, from |-> m.from, n |-> m.n]
  BY <1>10, <1>11, <1>13
<1>19. /\ v \in Servers /\ v.pc = s.pc /\ v.op = s.op /\ v.port = s.port
       /\ v.block = s.block /\ v.current = 1 - c /\ v.nextone = c
  BY <1>11, <1>13 DEF Kept
<1>20. Received(s, m).s = v /\ Received(s, m).out = <<>>
  BY <1>15
<1>21. QED
  BY <1>17, <1>18, <1>19, <1>20

LEMMA TurnedFacts ==
  ASSUME NEW s \in Servers, Writing(s), NEW m \in Packets
  PROVE  LET w == Received(s, m)
             h == Turned(s, m)
             f == write_behind(h)
             g == write_behind(w.s)
         IN  /\ w.out = <<>> /\ f.out = Unit(m.from, m.len) /\ g.out = Unit(m.from, m.len)
             /\ h.block = s.block + 1 /\ h.port = s.port /\ h.op = s.op
             /\ f.s \in Servers /\ Writing(f.s)
             /\ f.s.pc = s.pc /\ f.s.op = s.op /\ f.s.port = s.port
             /\ f.s.block = s.block + 1
             /\ g.s \in Servers /\ g.s.op = s.op /\ g.s.port = s.port
             /\ g.s.block = s.block /\ w.s.block = s.block /\ w.s.port = s.port
<1> DEFINE c == s.current
           w == Received(s, m)
           h == Turned(s, m)
           f == write_behind(h)
           g == write_behind(w.s)
           b == [counter |-> m.len, from |-> m.from, n |-> m.n]
           e == [b EXCEPT !.counter = BF_FREE]
<1>1. /\ w.out = <<>>
      /\ w.s \in Servers
      /\ w.s.pc = s.pc /\ w.s.op = s.op /\ w.s.port = s.port /\ w.s.block = s.block
      /\ w.s.current = 1 - c /\ w.s.nextone = c
      /\ w.s.bfs[c] = b /\ w.s.bfs[1 - c].counter = BF_ALLOC
  BY ReceivedFacts
<1>2. c \in 0 .. 1 /\ 1 - c \in 0 .. 1 /\ 1 - c # c /\ 1 - (1 - c) = c
  BY DEF Servers
<1>3. m.len \in 0 .. SEG /\ m.from \in Nat /\ m.n \in Nat /\ SEG \in Nat
  BY Constant DEF Packets
<1>4. b.counter = m.len /\ b.from = m.from /\ ~(b.counter < -1)
      /\ e \in Buffers /\ e.counter = BF_FREE
  BY <1>3 DEF Buffers
<1> HIDE DEF w, b, e
<1>5. h = [w.s EXCEPT !.block = @ + 1]
  BY DEF Turned, w
<1>6. /\ h \in Servers /\ h.pc = s.pc /\ h.op = s.op /\ h.port = s.port
      /\ h.block = s.block + 1
      /\ h.current = 1 - c /\ h.nextone = c /\ h.bfs = w.s.bfs
  BY <1>1, <1>5 DEF Servers
<1> HIDE DEF h
<1>7. ASSUME NEW x \in Servers, x.current = 1 - c, x.nextone = c, x.bfs = w.s.bfs
      PROVE  LET y == write_behind(x)
             IN  /\ y.out = Unit(m.from, m.len) /\ y.s \in Servers /\ Writing(y.s)
                 /\ y.s.pc = x.pc /\ y.s.op = x.op /\ y.s.port = x.port
                 /\ y.s.block = x.block
  <2> DEFINE z == [x EXCEPT !.bfs = [@ EXCEPT ![c] = e], !.nextone = 1 - c]
  <2>1. x.bfs \in [0 .. 1 -> Buffers] /\ x.bfs[c] = b /\ x.bfs[1 - c].counter = BF_ALLOC
    BY <1>1, <1>7 DEF Servers
  <2>2. [x EXCEPT !.bfs[x.nextone].counter = BF_FREE, !.nextone = 1 - @] = z
    BY <1>2, <1>7, <2>1 DEF Servers, e
  <2>3. write_behind(x) = [s |-> z, out |-> Unit(m.from, m.len)]
    BY <1>4, <1>7, <2>1, <2>2 DEF write_behind
  <2>4. [x.bfs EXCEPT ![c] = e] \in [0 .. 1 -> Buffers]
        /\ [x.bfs EXCEPT ![c] = e][c] = e /\ [x.bfs EXCEPT ![c] = e][1 - c] = x.bfs[1 - c]
    BY <1>2, <1>4, <2>1
  <2>5. z \in Servers /\ z.pc = x.pc /\ z.op = x.op /\ z.port = x.port
        /\ z.block = x.block /\ z.current = 1 - c /\ z.nextone = 1 - c
        /\ z.bfs = [x.bfs EXCEPT ![c] = e]
    BY <1>2, <1>7, <2>4 DEF Servers
  <2> HIDE DEF z
  <2>6. Writing(z)
    BY <1>2, <1>4, <2>1, <2>4, <2>5 DEF Writing
  <2>7. QED
    BY <2>3, <2>5, <2>6
<1>8. /\ f.out = Unit(m.from, m.len) /\ f.s \in Servers /\ Writing(f.s)
      /\ f.s.pc = h.pc /\ f.s.op = h.op /\ f.s.port = h.port /\ f.s.block = h.block
  BY <1>6, <1>7
<1>9. /\ g.out = Unit(m.from, m.len) /\ g.s \in Servers
      /\ g.s.op = w.s.op /\ g.s.port = w.s.port /\ g.s.block = w.s.block
  BY <1>1, <1>7
<1> HIDE DEF f, g
<1>10. QED
  BY <1>1, <1>6, <1>8, <1>9 DEF f, g, w, h

(* A server that repeats itself writes nothing. *)
LEMMA NothingBehind ==
  ASSUME NEW s \in Servers, Writing(s)
  PROVE  write_behind(s).s = s /\ write_behind(s).out = <<>>
BY DEF write_behind, Writing, BF_ALLOC
-----------------------------------------------------------------------------
(* What the server can do, without the turns of its buffers.               *)

Answer(s) == IF job.op = "RRQ" THEN Data(s) ELSE Ack(s)

Skips ==
  /\ toS # <<>> /\ toS' \in {Tail(toS)} \cup Flushed(toS)
  /\ UNCHANGED <<sv, toC, file, stored>>
Repeats ==
  /\ sv.pc = "busy" /\ sv' = sv /\ UNCHANGED <<file, stored>>
  /\ toS' \in {toS} \cup Flushed(toS) /\ toC' = Put(toC, Answer(sv))
Takes == toS # <<>> /\ toS' = Tail(toS)
Hears(op) == sv.pc = "busy" /\ Takes /\ Head(toS).op = op /\ Same(Head(toS).n, sv.block)
Refuses ==
  /\ ~job.ok /\ sv.pc = "listen" /\ Takes /\ sv' = Listening(sv)
  /\ toC' = Put(toC, Bare("ERROR", sv.block, sv.port)) /\ UNCHANGED <<file, stored>>
Begins ==
  /\ job.ok /\ sv.pc = "listen" /\ Takes /\ Head(toS).port = 0 /\ UNCHANGED stored
  /\ \/ /\ job.op = "RRQ" /\ sv' = FirstBlock
        /\ toC' = Put(toC, Data(FirstBlock)) /\ file' = file
     \/ /\ job.op = "WRQ" /\ sv' = rw_init(Accepting("WRQ"), 0)
        /\ toC' = Put(toC, Bare("ACK", 0, sv.port)) /\ file' = <<>>
Ends ==
  /\ sv.pc = "busy" /\ UNCHANGED <<toC, file, stored>>
  /\ sv' \in {[Idle EXCEPT !.pc = "off"], Listening(sv)}
  /\ job.op = "RRQ" => sv' = Listening(sv)
  /\ \/ toS' = toS /\ cl.pc = "done"
     \/ Takes /\ Head(toS).op = "ERROR"
     \/ job.op = "RRQ" /\ Hears("ACK")
SendsNext ==
  /\ job.op = "RRQ" /\ Hears("ACK") /\ sv.bfs[sv.current].counter = SEG
  /\ sv' = NextBlock(sv) /\ toC' = Put(toC, Data(NextBlock(sv)))
  /\ UNCHANGED <<file, stored>>
WritesNext ==
  LET m == Head(toS)
  IN  /\ job.op = "WRQ" /\ Hears("DATA") /\ m.len = SEG
      /\ sv' = write_behind(Turned(sv, m)).s
      /\ file' = file \o Unit(m.from, m.len) /\ stored' = stored
      /\ toC' = Put(toC, Bare("ACK", sv.block, sv.port))
WritesLast ==
  LET m == Head(toS)
  IN  /\ job.op = "WRQ" /\ Hears("DATA") /\ m.len # SEG
      /\ file' = file \o Unit(m.from, m.len)
      /\ \/ /\ job.crc = "bad" /\ sv' = Listening(sv) /\ stored' = <<"refused">>
            /\ toC' = Put(toC, Bare("ERROR", sv.block, sv.port))
         \/ /\ job.crc # "bad" /\ stored' = file'
            /\ sv' = [write_behind(Received(sv, m).s).s EXCEPT !.pc = "last"]
            /\ toC' = Put(toC, Bare("ACK", sv.block, sv.port))
Leaves ==
  /\ sv.pc = "last" /\ sv' \in {[Idle EXCEPT !.pc = "off"], Listening(sv)}
  /\ UNCHANGED <<file, stored>>
  /\ \/ UNCHANGED <<toS, toC>>
     \/ /\ toS # <<>> /\ toS' = Tail(toS)
        /\ toC' \in {toC, Put(toC, Bare("ACK", sv.block, sv.port))}

ServerStep ==
  /\ UNCHANGED client
  /\ \/ Skips \/ Repeats \/ Refuses \/ Begins \/ Ends
     \/ SendsNext \/ WritesNext \/ WritesLast \/ Leaves

LEMMA Serves ==
  ASSUME IInv, sv.pc = "busy", NEW net, Serve(sv, net)
  PROVE  sv' = sv /\ toC' = Put(toC, Answer(sv)) /\ toS' = net /\ UNCHANGED <<file, stored>>
<1>1. sv \in Servers /\ sv.op = job.op /\ job.op \in {"RRQ", "WRQ"} /\ file \in Seq(Nat)
  BY JobFacts DEF IInv, Server, Runs, File
<1>2. CASE job.op = "RRQ"
  <2>1. Reading(sv)
    BY <1>2 DEF IInv, Server, Runs
  <2>2. sv.bfs[sv.nextone].counter # BF_FREE
    BY <1>1, <2>1 DEF Reading, Servers, BF_FREE
  <2>3. read_ahead(sv) = sv
    BY <1>1, <2>2, FullStays
  <2>4. QED
    BY <1>1, <1>2, <2>3 DEF Serve, Answer
<1>3. CASE job.op = "WRQ"
  <2>1. write_behind(sv).s = sv /\ write_behind(sv).out = <<>>
    BY <1>1, <1>3, NothingBehind DEF IInv, Server, Runs
  <2>2. file \o <<>> = file
    BY <1>1
  <2>3. QED
    BY <1>1, <1>3, <2>1, <2>2 DEF Serve, Answer
<1>4. QED
  BY <1>1, <1>2, <1>3

LEMMA ExecSteps ==
  ASSUME IInv, tftpd_exec
  PROVE  ServerStep
<1> DEFINE m == Head(toS)
           s == [Idle EXCEPT !.pc = "busy", !.op = m.op, !.port = sv.port, !.block = 1]
<1>1. sv.pc = "listen" /\ toS # <<>> /\ m.port = 0 /\ UNCHANGED client
  BY DEF tftpd_exec
<1>2. toS \in Seq(ToServer) /\ m \in ToServer /\ m.op = job.op /\ job.op \in {"RRQ", "WRQ"}
      /\ sv \in Servers
  BY <1>1, JobFacts, TakeFacts DEF IInv, Nets, ToServer, Server, Runs
<1>3. CASE ~job.ok
  BY <1>1, <1>3 DEF tftpd_exec, nak, ServerStep, Refuses, Takes
<1>4. CASE job.ok /\ job.op = "RRQ"
  <2>1. Serve(readit(rw_init(Accepting("RRQ"), 1)), Tail(toS))
    BY <1>1, <1>2, <1>4 DEF tftpd_exec, Accepting
  <2>2. FirstBlock.op = "RRQ" /\ readit(rw_init(Accepting("RRQ"), 1)).op = "RRQ"
    <3>1. FirstBlock.op = "RRQ"
      BY <1>2, FirstBlockFacts DEF IInv
    <3>2. rw_init(Accepting("RRQ"), 1).op = "RRQ" /\ rw_init(Accepting("RRQ"), 1) \in Servers
      BY <1>2, AcceptFacts DEF IInv
    <3>3. ASSUME NEW t \in Servers PROVE readit(t).op = t.op
      BY DEF readit, read_ahead, Servers
    <3>4. QED
      BY <3>1, <3>2, <3>3
  <2>3. sv' = FirstBlock /\ toC' = Put(toC, Data(FirstBlock)) /\ toS' = Tail(toS)
        /\ UNCHANGED <<file, stored>>
    BY <2>1, <2>2 DEF Serve, FirstBlock
  <2>4. QED
    BY <1>1, <1>4, <2>3 DEF ServerStep, Begins, Takes
<1>5. CASE job.ok /\ job.op = "WRQ"
  <2>1. s = Accepting("WRQ") /\ Ack(s) = Bare("ACK", 0, sv.port)
    <3>1. s = Accepting("WRQ")
      BY <1>2, <1>5 DEF Accepting
    <3>2. Accepting("WRQ").block = 1 /\ Accepting("WRQ").port = sv.port
      BY <1>2, AcceptFacts DEF IInv
    <3>3. QED
      BY <3>1, <3>2 DEF Ack
  <2>2. /\ sv' = rw_init(s, 0) /\ file' = <<>> /\ toC' = Put(toC, Ack(s))
        /\ toS' = Tail(toS) /\ UNCHANGED stored
    BY <1>1, <1>2, <1>5 DEF tftpd_exec
  <2>3. QED
    BY <1>1, <1>5, <2>1, <2>2 DEF ServerStep, Begins, Takes
<1>6. QED
  BY <1>2, <1>3, <1>4, <1>5

LEMMA SendSteps ==
  ASSUME IInv, sendfile
  PROVE  ServerStep
<1> DEFINE m == Head(toS)
           more == readit([sv EXCEPT !.block = @ + 1])
<1>1. sv.pc = "busy" /\ sv.op = "RRQ" /\ toS # <<>> /\ UNCHANGED client
  BY DEF sendfile, Mine
<1>2. sv \in Servers /\ job.op = "RRQ" /\ Reading(sv) /\ job \in Jobs
  BY <1>1 DEF IInv, Server, Runs
<1>3. CASE m.op = "ERROR"
  BY <1>1, <1>3 DEF sendfile, ServerStep, Ends, Takes
<1>4. CASE m.op # "ERROR" /\ m.op # "ACK"
  BY <1>1, <1>4 DEF sendfile, ServerStep, Skips
<1>5. CASE m.op = "ACK" /\ Same(m.n, sv.block)
  <2>1. CASE sv.bfs[sv.current].counter = SEG
    <3>1. Serve(more, Tail(toS))
      BY <1>1, <1>5, <2>1 DEF sendfile
    <3>2. NextBlock(sv) = read_ahead(more)
      BY DEF NextBlock
    <3>3. more.op = "RRQ"
      <4>1. [sv EXCEPT !.block = @ + 1] \in Servers /\ [sv EXCEPT !.block = @ + 1].op = "RRQ"
        BY <1>1, <1>2 DEF Servers
      <4>2. ASSUME NEW t \in Servers PROVE readit(t).op = t.op
        BY DEF readit, read_ahead, Servers
      <4>3. QED
        BY <4>1, <4>2
    <3> HIDE DEF more
    <3>4. sv' = NextBlock(sv) /\ toC' = Put(toC, Data(NextBlock(sv))) /\ toS' = Tail(toS)
          /\ UNCHANGED <<file, stored>>
      BY <3>1, <3>2, <3>3 DEF Serve
    <3>5. QED
      BY <1>1, <1>2, <1>5, <2>1, <3>4 DEF ServerStep, SendsNext, Hears, Takes
  <2>2. CASE sv.bfs[sv.current].counter # SEG
    BY <1>1, <1>2, <1>5, <2>2 DEF sendfile, ServerStep, Ends, Hears, Takes
  <2>3. QED
    BY <2>1, <2>2
<1>6. CASE m.op = "ACK" /\ ~Same(m.n, sv.block)
  <2>1. PICK net \in Flushed(toS) :
          IF Previous(m.n, sv.block) THEN Serve(sv, net)
          ELSE toS' = net /\ UNCHANGED <<sv, toC, file, stored>>
    BY <1>1, <1>6 DEF sendfile
  <2>2. CASE Previous(m.n, sv.block)
    <3>1. sv' = sv /\ toC' = Put(toC, Answer(sv)) /\ toS' = net /\ UNCHANGED <<file, stored>>
      BY <1>1, <2>1, <2>2, Serves
    <3>2. QED
      BY <1>1, <3>1 DEF ServerStep, Repeats
  <2>3. CASE ~Previous(m.n, sv.block)
    BY <1>1, <2>1, <2>3 DEF ServerStep, Skips
  <2>4. QED
    BY <2>2, <2>3
<1>7. QED
  BY <1>3, <1>4, <1>5, <1>6

LEMMA RecvSteps ==
  ASSUME IInv, recvfile
  PROVE  ServerStep
<1> DEFINE m == Head(toS)
           got == [sv EXCEPT !.bfs[sv.current].from = m.from, !.bfs[sv.current].n = m.n]
           w == writeit(got, m.len)
           next == [w.s EXCEPT !.block = @ + 1]
           f == write_behind(next)
           g == write_behind(w.s)
<1>1. sv.pc = "busy" /\ sv.op = "WRQ" /\ toS # <<>> /\ UNCHANGED client
  BY DEF recvfile, Mine
<1>2. sv \in Servers /\ job.op = "WRQ" /\ Writing(sv) /\ job \in Jobs /\ file \in Seq(Nat)
      /\ m \in Packets
  <2>1. toS \in Seq(ToServer)
    BY DEF IInv, Nets
  <2>2. m \in ToServer
    BY <1>1, <2>1, TakeFacts
  <2>3. QED
    BY <1>1, <2>2 DEF IInv, Server, Runs, File, ToServer
<1>3. CASE m.op = "ERROR"
  BY <1>1, <1>3 DEF recvfile, ServerStep, Ends, Takes
<1>4. CASE m.op # "ERROR" /\ m.op # "DATA"
  BY <1>1, <1>4 DEF recvfile, ServerStep, Skips
<1>5. CASE m.op = "DATA" /\ Same(m.n, sv.block)
  <2>1. w = Received(sv, m) /\ next = Turned(sv, m)
    BY DEF Received, Turned
  <2>2. /\ w.out = <<>> /\ f.out = Unit(m.from, m.len) /\ g.out = Unit(m.from, m.len)
        /\ next.block = sv.block + 1 /\ next.port = sv.port
        /\ w.s.block = sv.block /\ w.s.port = sv.port /\ g.s.block = sv.block
    BY <1>2, <2>1, TurnedFacts
  <2>3. file \o <<>> = file
    BY <1>2
  <2>4. CASE m.len = SEG
    <3>1. /\ sv' = f.s /\ file' = file \o w.out \o f.out /\ toC' = Put(toC, Ack(next))
          /\ toS' = Tail(toS) /\ UNCHANGED stored
      BY <1>1, <1>5, <2>4 DEF recvfile
    <3> HIDE DEF w, next
    <3>2. Ack(next) = Bare("ACK", sv.block, sv.port)
      <4>1. next.block - 1 = sv.block
        BY <1>2, <2>2 DEF Servers
      <4>2. QED
        BY <2>2, <4>1 DEF Ack
    <3>3. WritesNext
      BY <1>1, <1>2, <1>5, <2>1, <2>2, <2>3, <2>4, <3>1, <3>2
         DEF WritesNext, Hears, Takes
    <3>4. QED
      BY <1>1, <3>3 DEF ServerStep
  <2>5. CASE m.len # SEG
    <3>1. Finish(w.s, w.out)
      BY <1>1, <1>5, <2>5 DEF recvfile
    <3> HIDE DEF w
    <3>2. /\ file' = file \o w.out \o g.out
          /\ IF job.crc = "bad"
                THEN nak(Tail(toS)) /\ stored' = <<"refused">>
                ELSE /\ sv' = [g.s EXCEPT !.pc = "last"]
                     /\ toC' = Put(toC, Bare("ACK", w.s.block, w.s.port))
                     /\ toS' = Tail(toS)
                     /\ stored' = file'
      BY <3>1 DEF Finish
    <3>3. file' = file \o Unit(m.from, m.len)
      BY <2>2, <2>3, <3>2
    <3>4. CASE job.crc = "bad"
      BY <1>1, <1>2, <1>5, <2>5, <3>2, <3>3, <3>4
         DEF WritesLast, Hears, Takes, nak, ServerStep
    <3>5. CASE job.crc # "bad"
      <4>1. /\ sv' = [write_behind(Received(sv, m).s).s EXCEPT !.pc = "last"]
            /\ toC' = Put(toC, Bare("ACK", sv.block, sv.port))
            /\ toS' = Tail(toS) /\ stored' = file'
        BY <2>1, <2>2, <3>2, <3>5
      <4>2. WritesLast
        BY <1>1, <1>2, <1>5, <2>5, <3>3, <3>5, <4>1 DEF WritesLast, Hears, Takes
      <4>3. QED
        BY <1>1, <4>2 DEF ServerStep
    <3>6. QED
      BY <3>4, <3>5
  <2>6. QED
    BY <2>4, <2>5
<1>6. CASE m.op = "DATA" /\ ~Same(m.n, sv.block)
  <2>1. PICK net \in Flushed(toS) :
          IF Previous(m.n, sv.block) THEN Serve(sv, net)
          ELSE toS' = net /\ UNCHANGED <<sv, toC, file, stored>>
    BY <1>1, <1>6 DEF recvfile
  <2>2. CASE Previous(m.n, sv.block)
    <3>1. sv' = sv /\ toC' = Put(toC, Answer(sv)) /\ toS' = net /\ UNCHANGED <<file, stored>>
      BY <1>1, <2>1, <2>2, Serves
    <3>2. QED
      BY <1>1, <3>1 DEF ServerStep, Repeats
  <2>3. CASE ~Previous(m.n, sv.block)
    BY <1>1, <2>1, <2>3 DEF ServerStep, Skips
  <2>4. QED
    BY <2>2, <2>3
<1>7. QED
  BY <1>3, <1>4, <1>5, <1>6

LEMMA EndSteps ==
  ASSUME IInv, recvfile_end
  PROVE  ServerStep
<1>1. sv.pc = "last" /\ UNCHANGED client /\ UNCHANGED <<file, stored>>
      /\ sv' \in {[Idle EXCEPT !.pc = "off"], Listening(sv)}
  BY DEF recvfile_end
<1>2. CASE UNCHANGED <<toS, toC>>
  BY <1>1, <1>2 DEF ServerStep, Leaves
<1>3. CASE Mine("last") /\ toS' = Tail(toS)
           /\ toC' \in {toC, Put(toC, Bare("ACK", sv.block, sv.port))}
  BY <1>1, <1>3 DEF ServerStep, Leaves, Mine
<1>4. QED
  BY <1>1, <1>2, <1>3 DEF recvfile_end

LEMMA ServerSteps ==
  ASSUME IInv,
         tftpd_exec \/ sendfile \/ recvfile \/ recvfile_end
           \/ server_timeout \/ server_gone \/ server_refused
  PROVE  ServerStep
<1>1. CASE server_timeout
  <2>1. sv.pc = "busy" /\ Serve(sv, toS) /\ UNCHANGED client
    BY <1>1 DEF server_timeout
  <2>2. sv' = sv /\ toC' = Put(toC, Answer(sv)) /\ toS' = toS /\ UNCHANGED <<file, stored>>
    BY <2>1, Serves
  <2>3. QED
    BY <2>1, <2>2 DEF ServerStep, Repeats
<1>2. CASE server_gone
  BY <1>2 DEF server_gone, ServerStep, Skips, client
<1>3. CASE server_refused
  <2>1. sv.op = job.op
    BY <1>3 DEF server_refused, IInv, Server, Runs
  <2>2. QED
    BY <1>3, <2>1 DEF server_refused, ServerStep, Ends, client
<1>4. QED
  BY <1>1, <1>2, <1>3, ExecSteps, SendSteps, RecvSteps, EndSteps
-----------------------------------------------------------------------------
(* The invariant.                                                          *)

LEMMA ListeningFacts ==
  ASSUME job \in Jobs, sv \in Servers
  PROVE  /\ Listening(sv) \in Servers /\ Listening(sv).pc = "listen"
         /\ [Idle EXCEPT !.pc = "off"] \in Servers /\ [Idle EXCEPT !.pc = "off"].pc = "off"
<1>1. Idle \in Servers /\ Idle.pc = "listen" /\ sv.port \in 1 .. 2
  BY IdleFacts DEF Servers
<1>2. ASSUME NEW s \in Servers, NEW p \in 1 .. 2
      PROVE  [s EXCEPT !.port = p] \in Servers /\ [s EXCEPT !.port = p].pc = s.pc
  BY DEF Servers
<1>3. ASSUME NEW s \in Servers
      PROVE  [s EXCEPT !.pc = "off"] \in Servers /\ [s EXCEPT !.pc = "off"].pc = "off"
  BY DEF Servers
<1>4. 3 - sv.port \in 1 .. 2
  BY <1>1
<1>5. QED
  BY <1>1, <1>2, <1>3, <1>4, Zenon DEF Listening

LEMMA DataFacts ==
  ASSUME NEW s \in Servers, Reading(s)
  PROVE  /\ Data(s) \in Packets /\ Data(s).op = "DATA" /\ Data(s).n = s.block
         /\ Data(s).from = s.bfs[s.current].from
         /\ Data(s).len = s.bfs[s.current].counter /\ Data(s).port # 0
<1> DEFINE b == s.bfs[s.current]
<1>1. b \in Buffers /\ b.counter >= 0 /\ s.block \in Nat /\ s.port \in 0 .. 2 /\ s.port # 0
  BY DEF Servers, Reading
<1>2. b.from \in Nat /\ b.counter \in 0 .. SEG
  BY <1>1, Constant DEF Buffers, BF_ALLOC, BF_FREE
<1>3. Data(s) = Packet("DATA", s.block, b.from, b.counter, s.port)
  BY DEF Data
<1> HIDE DEF b
<1>4. /\ Data(s) \in Packets /\ Data(s).op = "DATA" /\ Data(s).n = s.block
      /\ Data(s).from = b.from /\ Data(s).len = b.counter /\ Data(s).port # 0
  BY <1>1, <1>2, <1>3 DEF Packet, Packets
<1>5. QED
  BY <1>4 DEF b

LEMMA AckFacts ==
  ASSUME NEW s \in Servers, s.block > 0
  PROVE  Ack(s) \in Packets /\ Ack(s).op = "ACK" /\ Ack(s).n = s.block - 1
         /\ Ack(s).port # 0
<1>1. s.block - 1 \in Nat /\ s.port \in 0 .. 2 /\ s.port # 0
  BY DEF Servers
<1>2. QED
  BY <1>1, BareFacts DEF Ack

LEMMA AnswerFacts ==
  ASSUME IInv, sv.pc = "busy"
  PROVE  Answer(sv) \in ToClient
<1>1. job.op \in {"RRQ", "WRQ"} /\ job.ok
  BY JobFacts DEF IInv, Server, Runs
<1>2. CASE job.op = "RRQ"
  <2>1. Data(sv) \in Packets /\ Data(sv).op = "DATA" /\ Data(sv).port # 0
    BY <1>2, DataFacts DEF IInv, Server, Runs
  <2>2. QED
    BY <1>1, <1>2, <2>1 DEF Answer, ToClient
<1>3. CASE job.op = "WRQ"
  <2>1. Ack(sv) \in Packets /\ Ack(sv).op = "ACK" /\ Ack(sv).port # 0
    BY <1>3, AckFacts DEF IInv, Server, Runs
  <2>2. QED
    BY <1>1, <1>3, <2>1 DEF Answer, ToClient
<1>4. QED
  BY <1>1, <1>2, <1>3

(* The server's state after each of its steps, and the packets it sends. *)
LEMMA ServerRuns ==
  ASSUME IInv, ServerStep
  PROVE  /\ Runs(sv')
         /\ toC' = toC \/ \E m \in ToClient : toC' = Put(toC, m)
         /\ toS' = toS \/ (toS # <<>> /\ toS' = Tail(toS)) \/ toS' \in Flushed(toS)
<1>1. /\ job \in Jobs /\ job.op \in {"RRQ", "WRQ"} /\ job.ok \in BOOLEAN
      /\ sv \in Servers /\ Runs(sv) /\ sv.port \in 0 .. 2 /\ sv.port # 0 /\ sv.block \in Nat
  BY JobFacts DEF IInv, Server, Runs, Servers
<1>2. Runs(Listening(sv)) /\ (job.ok => Runs([Idle EXCEPT !.pc = "off"]))
  BY <1>1, ListeningFacts DEF Runs
<1>3. Bare("ERROR", sv.block, sv.port) \in ToClient
      /\ (job.ok /\ job.op = "WRQ" => Bare("ACK", sv.block, sv.port) \in ToClient)
      /\ (job.ok /\ job.op = "WRQ" => Bare("ACK", 0, sv.port) \in ToClient)
  <2>1. Bare("ERROR", sv.block, sv.port) \in Packets /\ Bare("ERROR", sv.block, sv.port).op = "ERROR"
        /\ Bare("ERROR", sv.block, sv.port).port # 0
    BY <1>1, BareFacts
  <2>2. Bare("ACK", sv.block, sv.port) \in Packets /\ Bare("ACK", sv.block, sv.port).op = "ACK"
        /\ Bare("ACK", sv.block, sv.port).port # 0
    BY <1>1, BareFacts
  <2>3. Bare("ACK", 0, sv.port) \in Packets /\ Bare("ACK", 0, sv.port).op = "ACK"
        /\ Bare("ACK", 0, sv.port).port # 0
    BY <1>1, BareFacts
  <2>4. QED
    BY <2>1, <2>2, <2>3 DEF ToClient
<1>4. sv.pc # "listen" => job.ok
  BY <1>1 DEF Runs
<1>5. CASE Skips
  BY <1>1, <1>5 DEF Skips
<1>6. CASE Repeats
  BY <1>1, <1>6, AnswerFacts DEF Repeats
<1>7. CASE Refuses
  BY <1>2, <1>3, <1>7 DEF Refuses, Takes
<1>8. CASE Begins
  <2>1. CASE job.op = "RRQ"
    <3>1. sv' = FirstBlock /\ toC' = Put(toC, Data(FirstBlock)) /\ job.ok /\ Takes
      BY <1>8, <2>1 DEF Begins
    <3>2. FirstBlock \in Servers /\ Reading(FirstBlock) /\ FirstBlock.pc = "busy"
          /\ FirstBlock.op = "RRQ" /\ FirstBlock.block = 1
      BY <1>1, FirstBlockFacts
    <3>3. Runs(FirstBlock)
      BY <2>1, <3>1, <3>2 DEF Runs
    <3>4. Data(FirstBlock) \in Packets /\ Data(FirstBlock).op = "DATA" /\ Data(FirstBlock).port # 0
      BY <3>2, DataFacts
    <3>5. Data(FirstBlock) \in ToClient
      BY <2>1, <3>1, <3>4 DEF ToClient
    <3>6. QED
      BY <3>1, <3>3, <3>5 DEF Takes
  <2>2. CASE job.op = "WRQ"
    <3>1. sv' = rw_init(Accepting("WRQ"), 0) /\ toC' = Put(toC, Bare("ACK", 0, sv.port))
          /\ job.ok /\ Takes
      BY <1>8, <2>2 DEF Begins
    <3> DEFINE i == rw_init(Accepting("WRQ"), 0)
    <3>2. i \in Servers /\ i.pc = "busy" /\ i.op = "WRQ" /\ i.block = 1 /\ i.current = 0
          /\ i.nextone = 0 /\ i.bfs[0].counter = BF_ALLOC /\ i.bfs[1].counter = BF_FREE
      BY <1>1, AcceptFacts
    <3> HIDE DEF i
    <3>3. Writing(i)
      BY <3>2 DEF Writing
    <3>4. Runs(i)
      BY <2>2, <3>1, <3>2, <3>3 DEF Runs
    <3>5. QED
      BY <1>3, <2>2, <3>1, <3>4 DEF Takes, i
  <2>3. QED
    BY <1>1, <2>1, <2>2
<1>9. CASE Ends
  <2>1. job.ok
    BY <1>9 DEF Ends, IInv, Server, Runs
  <2>2. Runs(sv') /\ toC' = toC /\ (toS' = toS \/ Takes) /\ UNCHANGED <<file, stored>>
    BY <1>2, <1>9, <2>1 DEF Ends, Hears, Takes
  <2>3. QED
    BY <1>9, <2>2 DEF Takes
<1>10. CASE SendsNext
  <2>1. /\ job.op = "RRQ" /\ sv.pc = "busy" /\ Takes
        /\ sv' = NextBlock(sv) /\ toC' = Put(toC, Data(NextBlock(sv)))
    BY <1>10 DEF SendsNext, Hears
  <2>2. Reading(sv) /\ sv.op = job.op
    BY <1>1, <2>1 DEF Runs
  <2> DEFINE r == NextBlock(sv)
  <2>3. r \in Servers /\ Reading(r) /\ r.pc = "busy" /\ r.op = job.op /\ r.block = sv.block + 1
    BY <1>1, <2>1, <2>2, NextBlockFacts
  <2> HIDE DEF r
  <2>4. Runs(r)
    BY <1>1, <1>4, <2>1, <2>3 DEF Runs
  <2>5. Data(r) \in Packets /\ Data(r).op = "DATA" /\ Data(r).port # 0
    BY <2>3, DataFacts
  <2>6. Data(r) \in ToClient
    BY <1>4, <2>1, <2>5 DEF ToClient
  <2>7. QED
    BY <2>1, <2>4, <2>6 DEF Takes, r
<1>11. CASE WritesNext
  <2> DEFINE m == Head(toS)
             r == write_behind(Turned(sv, m)).s
  <2>1. /\ job.op = "WRQ" /\ sv.pc = "busy" /\ Takes
        /\ sv' = r /\ toC' = Put(toC, Bare("ACK", sv.block, sv.port))
    BY <1>11 DEF WritesNext, Hears
  <2>2. Writing(sv) /\ sv.op = job.op
    BY <1>1, <2>1 DEF Runs
  <2>3. m \in Packets
    BY <2>1, TakeFacts DEF IInv, Nets, ToServer, Takes
  <2>4. r \in Servers /\ Writing(r) /\ r.pc = "busy" /\ r.op = job.op /\ r.block = sv.block + 1
    BY <1>1, <2>1, <2>2, <2>3, TurnedFacts
  <2> HIDE DEF r
  <2>5. Runs(r)
    BY <1>1, <1>4, <2>1, <2>4 DEF Runs
  <2>6. QED
    BY <1>3, <1>4, <2>1, <2>5 DEF Takes
<1>12. CASE WritesLast
  <2> DEFINE m == Head(toS)
             g == write_behind(Received(sv, m).s).s
             r == [g EXCEPT !.pc = "last"]
  <2>1. /\ job.op = "WRQ" /\ sv.pc = "busy" /\ Takes
        /\ \/ sv' = Listening(sv) /\ toC' = Put(toC, Bare("ERROR", sv.block, sv.port))
           \/ sv' = r /\ toC' = Put(toC, Bare("ACK", sv.block, sv.port))
    BY <1>12 DEF WritesLast, Hears
  <2>2. Writing(sv) /\ sv.op = job.op /\ sv.block > 0
    BY <1>1, <2>1 DEF Runs
  <2>3. m \in Packets
    BY <2>1, TakeFacts DEF IInv, Nets, ToServer, Takes
  <2>4. g \in Servers /\ g.op = job.op /\ g.block = sv.block
    BY <1>1, <2>1, <2>2, <2>3, TurnedFacts
  <2> HIDE DEF g
  <2>5. r \in Servers /\ r.pc = "last" /\ r.op = job.op /\ r.block = sv.block
    BY <2>4 DEF Servers
  <2> HIDE DEF r
  <2>6. Runs(r)
    BY <1>1, <1>4, <2>1, <2>2, <2>5 DEF Runs
  <2>7. QED
    BY <1>2, <1>3, <1>4, <2>1, <2>6 DEF Takes
<1>13. CASE Leaves
  <2>1. sv.pc = "last" /\ job.op = "WRQ" /\ job.ok
    BY <1>1, <1>4, <1>13 DEF Leaves, Runs
  <2>2. Runs(sv')
    BY <1>2, <1>13, <2>1 DEF Leaves
  <2>3. /\ toC' \in {toC, Put(toC, Bare("ACK", sv.block, sv.port))}
        /\ toS' = toS \/ (toS # <<>> /\ toS' = Tail(toS))
    BY <1>13 DEF Leaves
  <2>4. Bare("ACK", sv.block, sv.port) \in ToClient
    BY <1>3, <2>1
  <2>5. QED
    BY <2>2, <2>3, <2>4
<1>14. QED
  BY <1>5, <1>6, <1>7, <1>8, <1>9, <1>10, <1>11, <1>12, <1>13 DEF ServerStep

LEMMA UnitFacts ==
  ASSUME NEW from \in Nat, NEW len \in Nat
  PROVE  /\ Unit(from, len) \in Seq(Nat) /\ Len(Unit(from, len)) = len
         /\ \A i \in 1 .. len : Unit(from, len)[i] = from + i - 1
<1>1. \A i \in 1 .. len : from + i - 1 \in Nat
  OBVIOUS
<1>2. QED
  BY <1>1 DEF Unit

LEMMA SameSets ==
  ASSUME UNCHANGED <<job, cl>>
  PROVE  ToServer' = ToServer /\ ToClient' = ToClient /\ Servers' = Servers
         /\ (Client => Client')
<1>1. ToServer' = ToServer /\ ToClient' = ToClient /\ Servers' = Servers
  BY DEF ToServer, ToClient, Servers, Packets
<1>2. Client' = Client
  BY DEF Client, Plays, Packets, Clients
<1>3. QED
  BY <1>1, <1>2

LEMMA IServer ==
  ASSUME IInv, ServerStep
  PROVE  IInv'
<1>1. /\ job \in Jobs /\ toS \in Seq(ToServer) /\ toC \in Seq(ToClient)
      /\ Len(toS) <= Cap /\ Len(toC) <= Cap /\ faults \in 0 .. MaxFaults
      /\ file \in Seq(Nat) /\ (job.op = "RRQ" => file = <<>>)
      /\ Cap \in Nat /\ Len(toS) \in Nat
  BY Constant DEF IInv, Nets, File
<1>2. UNCHANGED <<job, cl, faults>>
  BY DEF ServerStep, client
<1>3. ToServer' = ToServer /\ ToClient' = ToClient /\ Servers' = Servers /\ Client'
  BY <1>2, SameSets DEF IInv
<1>4. /\ Runs(sv')
      /\ toC' = toC \/ \E m \in ToClient : toC' = Put(toC, m)
      /\ toS' = toS \/ (toS # <<>> /\ toS' = Tail(toS)) \/ toS' \in Flushed(toS)
  BY ServerRuns
<1>5. Server'
  BY <1>2, <1>3, <1>4 DEF Server, Runs
<1>6. toC' \in Seq(ToClient) /\ Len(toC') <= Cap
  BY <1>1, <1>4, PutFacts
<1>7. toS' \in Seq(ToServer) /\ Len(toS') <= Cap
  <2>1. CASE toS # <<>> /\ toS' = Tail(toS)
    <3>1. toS' \in Seq(ToServer) /\ Len(toS') <= Len(toS) /\ Len(toS') \in Nat
      BY <1>1, <2>1, TakeFacts
    <3>2. QED
      BY <1>1, <3>1
  <2>2. CASE toS' \in Flushed(toS)
    <3>1. toS' \in Seq(ToServer) /\ Len(toS') <= Len(toS) /\ Len(toS') \in Nat
      BY <1>1, <2>2, FlushFacts
    <3>2. QED
      BY <1>1, <3>1
  <2>3. QED
    BY <1>1, <1>4, <2>1, <2>2
<1>8. Nets'
  BY <1>1, <1>2, <1>3, <1>6, <1>7 DEF Nets
<1>9. file' \in Seq(Nat) /\ (job.op = "RRQ" => file' = <<>>)
  <2>1. CASE WritesNext \/ WritesLast
    <3> DEFINE m == Head(toS)
    <3>1. file' = file \o Unit(m.from, m.len) /\ job.op = "WRQ" /\ toS # <<>>
      BY <2>1 DEF WritesNext, WritesLast, Hears, Takes
    <3>2. m \in ToServer
      BY <1>1, <3>1, TakeFacts
    <3>3. m.from \in Nat /\ m.len \in Nat
      BY <3>2, Constant DEF ToServer, Packets
    <3>4. Unit(m.from, m.len) \in Seq(Nat)
      BY <3>3, UnitFacts
    <3>5. ASSUME NEW u \in Seq(Nat)
          PROVE  file \o u \in Seq(Nat)
      BY <1>1, <3>1
    <3>6. file \o Unit(m.from, m.len) \in Seq(Nat)
      BY <3>4, <3>5, Zenon
    <3>7. QED
      BY <3>1, <3>6, Zenon
  <2>2. CASE Begins
    <3>1. file' = file \/ file' = <<>>
      BY <2>2 DEF Begins
    <3>2. <<>> \in Seq(Nat)
      OBVIOUS
    <3>3. QED
      BY <1>1, <3>1, <3>2
  <2>3. CASE Skips \/ Repeats \/ Refuses \/ Ends \/ SendsNext \/ Leaves
    BY <1>1, <2>3 DEF Skips, Repeats, Refuses, Ends, SendsNext, Leaves
  <2>4. QED
    BY <2>1, <2>2, <2>3 DEF ServerStep
<1>10. File'
  BY <1>2, <1>9 DEF File
<1>11. QED
  BY <1>1, <1>2, <1>3, <1>5, <1>8, <1>10 DEF IInv
-----------------------------------------------------------------------------
(* What the client can do.                                                 *)

Held(d, c) ==
  /\ d.start = c.start /\ d.eof = c.eof /\ d.port = c.port /\ d.buf = c.buf
  /\ d.fail = c.fail

Asks == cl'.pc = "wait" /\ toS' = Put(toS, [cl'.req EXCEPT !.port = cl'.port])
Has  == cl.pc = "wait" /\ toC # <<>>

Opens ==
  /\ cl.pc = "start" /\ Asks /\ cl'.why = "open" /\ Held(cl', cl)
  /\ cl'.end = cl.end /\ cl'.foffs = cl.foffs /\ toC' = toC
Moves ==
  /\ cl.pc \in {"user", "loop"} /\ cl'.pc \in {"user", "loop"} /\ Held(cl', cl)
  /\ cl'.block = cl.block /\ UNCHANGED <<toS, toC>>
  /\ job.op = "RRQ" => cl'.end = cl.end
  /\ job.op = "WRQ" => /\ cl'.foffs - cl'.end = cl.foffs - cl.end
                       /\ cl'.end = cl.end \/ cl'.end < SEG
AcksLast ==
  /\ job.op = "RRQ" /\ cl.pc = "loop" /\ cl.eof /\ cl.start < cl.end
  /\ cl'.pc = "loop" /\ cl'.block = cl.block + 1 /\ cl'.start = cl.end /\ cl'.end = cl.end
  /\ cl'.fail = cl.fail /\ toC' = toC
  /\ toS' = Put(toS, Bare("ACK", cl.block, cl.port))
AsksNext ==
  /\ job.op = "RRQ" /\ cl.pc = "loop" /\ ~cl.eof /\ cl.start < cl.end
  /\ Asks /\ cl'.why = "read" /\ cl'.block = cl.block + 1 /\ cl'.end = cl.end
  /\ Held(cl', cl) /\ toC' = toC
SendsFull ==
  /\ job.op = "WRQ" /\ cl.pc = "loop"
  /\ Asks /\ cl'.why = "write" /\ cl'.block = cl.block + 1 /\ cl'.end = SEG
  /\ cl'.foffs - cl'.end = cl.foffs - cl.end
  /\ cl'.req = Packet("DATA", cl'.block, cl'.foffs - cl'.end, SEG, 0)
  /\ Held(cl', cl) /\ toC' = toC
HangsUp ==
  /\ job.op = "RRQ" /\ cl.pc = "user" /\ cl'.pc = "done" /\ Held(cl', cl) /\ toC' = toC
  /\ toS' = toS \/ toS' = Put(toS, Bare("ERROR", cl.block, cl.port))
SendsRest ==
  /\ job.op = "WRQ" /\ cl.pc = "user" /\ (cl.foffs = job.len \/ cl.fail # "no")
  /\ Asks /\ cl'.why = "close" /\ cl'.block = cl.block + 1
  /\ cl'.end = cl.end /\ cl'.foffs = cl.foffs
  /\ cl'.req = Packet("DATA", cl'.block, cl.foffs - cl.end, cl.end, 0)
  /\ Held(cl', cl) /\ toC' = toC
AsksAgain ==
  /\ cl.pc = "wait" /\ Asks /\ cl'.why = cl.why /\ cl'.req = cl.req
  /\ cl'.block = cl.block /\ cl'.end = cl.end /\ cl'.foffs = cl.foffs
  /\ cl'.eof = cl.eof /\ cl'.fail = cl.fail
  /\ toC' = toC \/ (toC # <<>> /\ toC' \in {Tail(toC)} \cup Flushed(toC))
Fails ==
  /\ Has /\ cl'.fail # "no" /\ cl'.pc \in {"user", "done"} /\ toS' = toS
  /\ cl.fail = "no" => Told' \/ cl'.pc = "done"
  /\ cl.fail # "no" => cl'.fail = cl.fail
  /\ toC' \in {Tail(toC)} \cup Flushed(toC)
  /\ cl.fail = "no" /\ GaveUp' =>
       /\ Head(toC).op # "ERROR"
       /\ ~Same(Head(toC).n, cl.block) /\ ~Previous(Head(toC).n, cl.block)
Answered ==
  /\ Has /\ Head(toC).op # "ERROR" /\ Same(Head(toC).n, cl.block)
  /\ cl'.fail = cl.fail /\ toC' = Tail(toC)
Accepts ==
  LET m == Head(toC)
  IN  /\ Answered /\ toS' = toS /\ cl'.block = cl.block
      /\ \/ /\ job.op = "RRQ" /\ cl'.pc \in {"user", "loop"}
            /\ cl'.start = cl.end /\ cl'.end = cl.end + m.len /\ cl'.buf = m.from
            /\ cl'.eof = (m.len < SEG)
         \/ /\ job.op = "WRQ" /\ cl.why = "open" /\ cl'.pc = "user"
            /\ cl'.end = cl.end /\ cl'.foffs = cl.foffs
         \/ /\ job.op = "WRQ" /\ cl.why = "write" /\ cl'.pc = "loop"
            /\ cl'.end = 0 /\ cl'.foffs = cl.foffs
         \/ job.op = "WRQ" /\ cl.why \in {"close", "empty"} /\ cl'.pc = "done"
SendsEmpty ==
  /\ job.op = "WRQ" /\ cl.why = "close" /\ cl.end = SEG /\ Answered
  /\ Asks /\ cl'.why = "empty" /\ cl'.block = cl.block + 1
Breaks == cl'.pc = "done" /\ cl'.fail = "intr" /\ UNCHANGED <<toS, toC>>
Drops  == cl.pc = "done" /\ toC # <<>> /\ toC' = Tail(toC) /\ UNCHANGED <<cl, toS>>

ClientStep ==
  /\ UNCHANGED server /\ Plays(cl') /\ (cl.pc = "done" => cl'.pc = "done")
  /\ \/ Opens \/ Moves \/ AcksLast \/ AsksNext \/ SendsFull \/ HangsUp \/ SendsRest
     \/ AsksAgain \/ Fails \/ Accepts \/ SendsEmpty \/ Breaks \/ Drops

(* Every request is one that Plays allows. *)
LEMMA AskPlays ==
  ASSUME job \in Jobs, NEW c \in Clients,
         NEW why \in {"open", "read", "write", "close", "empty"}, NEW m \in Packets,
         Ask(c, why, m),
         m.op # "ERROR",
         c.block = m.n + IF job.op = "RRQ" THEN 1 ELSE 0,
         why = "open" => m = Bare(job.op, 0, 0),
         why # "open" => c.port # 0,
         job.op = "RRQ" => why \in {"open", "read"},
         job.op = "WRQ" => /\ why # "read" /\ c.end <= SEG
                           /\ c.end <= c.foffs /\ c.foffs <= job.len
                           /\ why = "write" => c.foffs + c.nb <= job.len
  PROVE  /\ Plays(cl') /\ Asks /\ cl'.why = why /\ cl'.req = m /\ cl'.block = c.block
         /\ cl'.end = c.end /\ cl'.foffs = c.foffs /\ Held(cl', c)
<1> DEFINE d == [c EXCEPT !.pc = "wait", !.why = why, !.req = m]
<1>1. cl' = d /\ toS' = Put(toS, [m EXCEPT !.port = c.port])
  BY DEF Ask
<1>2. /\ d \in Clients /\ d.pc = "wait" /\ d.why = why /\ d.req = m
      /\ d.block = c.block /\ d.end = c.end /\ d.foffs = c.foffs /\ d.nb = c.nb
      /\ Held(d, c)
  <2>1. d \in Clients
    BY DEF Clients
  <2>2. /\ d.pc = "wait" /\ d.why = why /\ d.req = m
        /\ d.block = c.block /\ d.end = c.end /\ d.foffs = c.foffs /\ d.nb = c.nb
    BY DEF Clients
  <2>3. Held(d, c)
    BY DEF Clients, Held
  <2>4. QED
    BY <2>1, <2>2, <2>3
<1> HIDE DEF d
<1>3. d.port = c.port
  BY <1>2 DEF Held
<1>4. Plays(d)
  BY <1>2, <1>3 DEF Plays
<1>5. Asks
  BY <1>1, <1>2, <1>3 DEF Asks
<1>6. QED
  BY <1>1, <1>2, <1>4, <1>5

LEMMA PlaysFacts ==
  ASSUME IInv
  PROVE  /\ job \in Jobs /\ job.op \in {"RRQ", "WRQ"} /\ job.len \in Nat /\ Plays(cl)
         /\ cl \in Clients /\ cl.block \in Nat /\ cl.start \in Nat /\ cl.end \in Nat
         /\ cl.foffs \in Nat /\ cl.nb \in Nat /\ cl.port \in 0 .. 2 /\ cl.req \in Packets
         /\ SEG \in Nat \ {0}
<1>1. job \in Jobs /\ Plays(cl)
  BY DEF IInv, Client
<1>2. job.op \in {"RRQ", "WRQ"} /\ job.len \in Nat /\ SEG \in Nat \ {0}
  BY <1>1, JobFacts, Constant
<1>3. cl \in Clients
  BY <1>1 DEF Plays
<1>4. /\ cl.block \in Nat /\ cl.start \in Nat /\ cl.end \in Nat
      /\ cl.foffs \in Nat /\ cl.nb \in Nat /\ cl.port \in 0 .. 2 /\ cl.req \in Packets
  BY <1>3 DEF Clients
<1>5. QED
  BY <1>1, <1>2, <1>3, <1>4

LEMMA OpenSteps ==
  ASSUME IInv, tftpopen
  PROVE  ClientStep
<1> DEFINE b == IF job.op = "RRQ" THEN 1 ELSE 0
           c == [cl EXCEPT !.block = b]
           m == Bare(job.op, 0, 0)
<1>1. cl.pc = "start" /\ UNCHANGED <<server, toC>> /\ Ask(c, "open", m)
  BY DEF tftpopen
<1>2. c \in Clients /\ c.block = b /\ Held(c, cl) /\ c.end = cl.end /\ c.foffs = cl.foffs
  BY PlaysFacts DEF Clients, Held
<1>3. m \in Packets /\ m.op = job.op /\ m.n = 0
  BY PlaysFacts, BareFacts
<1>4. cl.end = 0 /\ cl.foffs = 0
  BY <1>1, PlaysFacts DEF Plays
<1>5. job \in Jobs /\ c.block = m.n + b /\ m.op # "ERROR" /\ c.end <= SEG /\ c.end <= c.foffs
      /\ c.foffs <= job.len
  BY <1>2, <1>3, <1>4, PlaysFacts
<1> HIDE DEF c, m
<1>6. Plays(cl') /\ Asks /\ cl'.why = "open" /\ cl'.end = c.end /\ cl'.foffs = c.foffs
      /\ Held(cl', c)
  BY <1>1, <1>2, <1>3, <1>5, AskPlays DEF m
<1>7. Opens
  BY <1>1, <1>2, <1>6 DEF Opens, Held
<1>8. QED
  BY <1>1, <1>6, <1>7 DEF ClientStep, server

LEMMA CallSteps ==
  ASSUME IInv, call \/ tftplseek
  PROVE  ClientStep
<1>1. cl.pc = "user" /\ UNCHANGED <<server, toS, toC>>
  BY DEF call, tftplseek, Usable
<1>2. CASE call
  <2>1. PICK n \in Sizes :
          cl' = [cl EXCEPT !.pc = "loop",
                   !.nb = IF job.op = "RRQ" THEN n ELSE min(n, job.len - cl.foffs)]
    BY <1>2 DEF call
  <2> DEFINE k == IF job.op = "RRQ" THEN n ELSE min(n, job.len - cl.foffs)
  <2>2. job.op = "WRQ" => cl.foffs < job.len
    BY <1>2 DEF call
  <2>3. n \in Nat
    BY Constant
  <2>4. k \in Nat /\ (job.op = "WRQ" => cl.foffs + k <= job.len)
    BY <2>2, <2>3, PlaysFacts DEF min
  <2>5. cl' = [cl EXCEPT !.pc = "loop", !.nb = k]
    BY <2>1
  <2> HIDE DEF k
  <2>6. /\ cl' \in Clients /\ cl'.pc = "loop" /\ cl'.nb = k /\ Held(cl', cl)
        /\ cl'.block = cl.block /\ cl'.end = cl.end /\ cl'.foffs = cl.foffs
        /\ cl'.why = cl.why
    BY <2>4, <2>5, PlaysFacts DEF Clients, Held
  <2>7. Plays(cl')
    BY <1>1, <2>4, <2>6, PlaysFacts DEF Plays, Held
  <2>8. Moves
    BY <1>1, <2>6 DEF Moves
  <2>9. QED
    BY <1>1, <2>7, <2>8 DEF ClientStep, server
<1>3. CASE tftplseek
  <2>1. PICK k \in cl.start .. cl.end + 1 : cl' = [cl EXCEPT !.foffs = k]
    BY <1>3 DEF tftplseek
  <2>2. k \in Nat /\ job.op = "RRQ"
    BY <1>3, PlaysFacts DEF tftplseek
  <2>3. /\ cl' \in Clients /\ cl'.pc = "user" /\ Held(cl', cl)
        /\ cl'.block = cl.block /\ cl'.end = cl.end /\ cl'.why = cl.why
    BY <1>1, <2>1, <2>2, PlaysFacts DEF Clients, Held
  <2>4. Plays(cl')
    BY <1>1, <2>2, <2>3, PlaysFacts DEF Plays, Held
  <2>5. Moves
    BY <1>1, <2>2, <2>3 DEF Moves
  <2>6. QED
    BY <1>1, <2>4, <2>5 DEF ClientStep, server
<1>4. QED
  BY <1>2, <1>3

LEMMA ReadSteps ==
  ASSUME IInv, tftpread
  PROVE  ClientStep
<1> DEFINE n == IF cl.foffs \in cl.start .. cl.end - 1
                THEN min(cl.end - cl.foffs, cl.nb) ELSE 0
           c == [cl EXCEPT !.foffs = @ + n, !.nb = @ - n]
           ack == Bare("ACK", cl.block, 0)
<1>1. cl.pc = "loop" /\ job.op = "RRQ" /\ UNCHANGED <<server, toC>>
  BY DEF tftpread
<1>2. n \in Nat /\ cl.foffs + n \in Nat /\ cl.nb - n \in Nat
  BY PlaysFacts DEF min
<1> HIDE DEF n
<1>3. /\ c \in Clients /\ c.pc = "loop" /\ c.block = cl.block /\ c.end = cl.end
      /\ c.why = cl.why /\ Held(c, cl)
  BY <1>1, <1>2, PlaysFacts DEF Clients, Held
<1>4. /\ ack \in Packets /\ ack.op = "ACK" /\ ack.n = cl.block
  BY PlaysFacts, BareFacts
<1>5. cl.port # 0
  BY <1>1, PlaysFacts DEF Plays
<1>6. CASE cl.nb = 0 \/ cl.start >= cl.end
  <2>1. cl' = [cl EXCEPT !.pc = "user"] /\ UNCHANGED toS
    BY <1>1, <1>6 DEF tftpread
  <2>2. /\ cl' \in Clients /\ cl'.pc = "user" /\ cl'.block = cl.block /\ cl'.end = cl.end
        /\ cl'.why = cl.why /\ Held(cl', cl)
    BY <2>1, PlaysFacts DEF Clients, Held
  <2>3. Plays(cl')
    BY <1>1, <2>2, PlaysFacts DEF Plays, Held
  <2>4. QED
    BY <1>1, <2>1, <2>2, <2>3 DEF ClientStep, Moves, server
<1>7. CASE ~(cl.nb = 0 \/ cl.start >= cl.end) /\ c.foffs < c.end
  <2>1. cl' = c /\ UNCHANGED toS
    BY <1>1, <1>7 DEF tftpread, n
  <2> HIDE DEF c
  <2>2. Plays(cl')
    BY <1>1, <1>3, <2>1, PlaysFacts DEF Plays, Held
  <2>3. QED
    BY <1>1, <1>3, <2>1, <2>2 DEF ClientStep, Moves, server
<1>8. CASE ~(cl.nb = 0 \/ cl.start >= cl.end) /\ ~(c.foffs < c.end) /\ c.eof
  <2>1. /\ cl' = [c EXCEPT !.block = @ + 1, !.start = c.end]
        /\ toS' = Put(toS, [ack EXCEPT !.port = c.port])
    BY <1>1, <1>8 DEF tftpread, n
  <2>2. cl.start < cl.end
    BY <1>8, PlaysFacts
  <2>3. c.eof = cl.eof /\ c.port = cl.port /\ c.fail = cl.fail
    BY <1>3 DEF Held
  <2>4. [ack EXCEPT !.port = c.port] = Bare("ACK", cl.block, cl.port)
    BY <2>3 DEF Bare, Packet
  <2> HIDE DEF c, ack
  <2>5. /\ cl' \in Clients /\ cl'.pc = "loop" /\ cl'.block = cl.block + 1
        /\ cl'.start = cl.end /\ cl'.end = cl.end /\ cl'.why = cl.why
        /\ cl'.fail = cl.fail /\ cl'.port = cl.port
    <3>1. cl' = [c EXCEPT !.block = cl.block + 1, !.start = cl.end]
      <4>1. c.block = cl.block /\ c.end = cl.end /\ cl' = [c EXCEPT !.block = @ + 1, !.start = c.end]
        BY <1>3, <2>1
      <4>2. QED
        BY ONLY <4>1
    <3>2. c \in Clients /\ cl.block + 1 \in Nat /\ cl.end \in Nat
      BY <1>3, PlaysFacts
    <3>3. cl' \in Clients
      BY <3>1, <3>2 DEF Clients
    <3>4. /\ cl'.pc = c.pc /\ cl'.block = cl.block + 1 /\ cl'.start = cl.end
          /\ cl'.end = c.end /\ cl'.why = c.why /\ cl'.fail = c.fail /\ cl'.port = c.port
      BY <3>1, <3>2 DEF Clients
    <3>5. QED
      BY <1>3, <2>3, <3>3, <3>4
  <2>6. Plays(cl')
    BY <1>1, <2>5, PlaysFacts DEF Plays
  <2>7. AcksLast
    BY <1>1, <1>8, <2>1, <2>2, <2>3, <2>4, <2>5 DEF AcksLast
  <2>8. QED
    BY <1>1, <2>6, <2>7 DEF ClientStep, server
<1>9. CASE ~(cl.nb = 0 \/ cl.start >= cl.end) /\ ~(c.foffs < c.end) /\ ~c.eof
  <2> DEFINE d == [c EXCEPT !.block = @ + 1]
  <2>1. Ask(d, "read", ack)
    BY <1>1, <1>9 DEF tftpread, n
  <2>2. cl.start < cl.end /\ ~cl.eof
    BY <1>3, <1>9, PlaysFacts DEF Held
  <2> HIDE DEF c, ack
  <2>3. /\ d \in Clients /\ d.block = cl.block + 1 /\ d.end = cl.end /\ Held(d, cl)
        /\ d.port = cl.port
    BY <1>3, PlaysFacts DEF Clients, Held
  <2> HIDE DEF d
  <2>4. /\ Plays(cl') /\ Asks /\ cl'.why = "read" /\ cl'.block = d.block
        /\ cl'.end = d.end /\ Held(cl', d)
    BY <1>1, <1>4, <1>5, <2>1, <2>3, PlaysFacts, AskPlays
  <2>5. AsksNext
    BY <1>1, <2>2, <2>3, <2>4 DEF AsksNext, Held
  <2>6. QED
    BY <1>1, <2>4, <2>5 DEF ClientStep, server
<1>10. QED
  BY <1>6, <1>7, <1>8, <1>9

LEMMA WriteSteps ==
  ASSUME IInv, tftpwrite
  PROVE  ClientStep
<1> DEFINE n == min(SEG - cl.end, cl.nb)
           c == [cl EXCEPT !.end = @ + n, !.foffs = @ + n, !.nb = @ - n]
           d == [c EXCEPT !.block = @ + 1]
<1>1. cl.pc = "loop" /\ job.op = "WRQ" /\ UNCHANGED <<server, toC>>
  BY DEF tftpwrite
<1>2. /\ cl.why # "read" /\ cl.end <= SEG /\ cl.end <= cl.foffs
      /\ cl.foffs + cl.nb <= job.len /\ cl.port # 0
  BY <1>1, PlaysFacts DEF Plays
<1>3. /\ n \in Nat /\ cl.end + n \in Nat /\ cl.foffs + n \in Nat /\ cl.nb - n \in Nat
      /\ cl.end + n <= SEG
  BY <1>2, PlaysFacts DEF min
<1> HIDE DEF n
<1>4. c \in Clients
  BY <1>3, PlaysFacts DEF Clients
<1>5. /\ c.pc = "loop" /\ c.block = cl.block /\ c.end = cl.end + n /\ c.foffs = cl.foffs + n
      /\ c.nb = cl.nb - n /\ c.why = cl.why
  BY <1>1, PlaysFacts DEF Clients
<1>6. Held(c, cl)
  BY PlaysFacts DEF Clients, Held
<1>7. CASE cl.nb = 0
  <2>1. cl' = [cl EXCEPT !.pc = "user"] /\ UNCHANGED toS
    BY <1>1, <1>7 DEF tftpwrite
  <2>2. /\ cl' \in Clients /\ cl'.pc = "user" /\ cl'.block = cl.block /\ cl'.end = cl.end
        /\ cl'.foffs = cl.foffs /\ cl'.why = cl.why /\ Held(cl', cl)
    BY <2>1, PlaysFacts DEF Clients, Held
  <2>3. Plays(cl')
    BY <1>1, <1>2, <2>2, PlaysFacts DEF Plays, Held
  <2>4. QED
    BY <1>1, <2>1, <2>2, <2>3 DEF ClientStep, Moves, server
<1>8. CASE cl.nb # 0 /\ c.end < SEG
  <2>1. cl' = c /\ UNCHANGED toS
    BY <1>1, <1>8 DEF tftpwrite, n
  <2> HIDE DEF c
  <2>2. Plays(cl')
    BY <1>1, <1>2, <1>3, <1>4, <1>5, <1>6, <1>8, <2>1, PlaysFacts DEF Plays, Held
  <2>3. cl'.foffs - cl'.end = cl.foffs - cl.end
    BY <1>3, <1>5, <2>1, PlaysFacts
  <2>4. Moves
    BY <1>1, <1>5, <1>6, <1>8, <2>1, <2>3 DEF Moves
  <2>5. QED
    BY <1>1, <2>2, <2>4 DEF ClientStep, server
<1>9. CASE cl.nb # 0 /\ ~(c.end < SEG)
  <2> DEFINE m == Block(d, d.end)
  <2>1. Ask(d, "write", m)
    BY <1>1, <1>9 DEF tftpwrite, n
  <2> HIDE DEF c
  <2>2. c.block + 1 \in Nat
    BY <1>5, PlaysFacts
  <2>3. /\ d \in Clients /\ d.block = cl.block + 1 /\ d.end = c.end /\ d.foffs = c.foffs
        /\ d.nb = c.nb
    BY <1>4, <1>5, <2>2 DEF Clients
  <2>4. Held(d, cl)
    BY <1>4, <1>6 DEF Clients, Held
  <2> HIDE DEF d
  <2>5. /\ d.end = SEG /\ d.foffs - d.end = cl.foffs - cl.end /\ d.foffs - d.end \in Nat
        /\ d.foffs <= job.len /\ d.end <= d.foffs /\ d.block \in Nat /\ d.port = cl.port
        /\ SEG \in 0 .. SEG /\ d.foffs + d.nb <= job.len
    BY <1>2, <1>3, <1>5, <1>9, <2>3, <2>4, PlaysFacts DEF Held
  <2>6. m = Packet("DATA", d.block, d.foffs - d.end, SEG, 0)
    BY <2>5 DEF Block
  <2>7. m \in Packets /\ m.op = "DATA" /\ m.n = d.block
    BY <2>5, <2>6 DEF Packet, Packets
  <2> HIDE DEF m
  <2>8. d.block = m.n + IF job.op = "RRQ" THEN 1 ELSE 0
    BY <1>1, <2>5, <2>7
  <2>9. d.end <= SEG
    BY <2>5, PlaysFacts
  <2>10. /\ Plays(cl') /\ Asks /\ cl'.why = "write" /\ cl'.req = m /\ cl'.block = d.block
         /\ cl'.end = d.end /\ cl'.foffs = d.foffs /\ Held(cl', d)
    BY <1>1, <1>2, <2>1, <2>3, <2>5, <2>7, <2>8, <2>9, PlaysFacts, AskPlays
  <2>11. SendsFull
    BY <1>1, <2>3, <2>4, <2>5, <2>6, <2>10 DEF SendsFull, Held
  <2>12. QED
    BY <1>1, <2>10, <2>11 DEF ClientStep, server
<1>10. QED
  BY <1>7, <1>8, <1>9

LEMMA CloseSteps ==
  ASSUME IInv, tftpclose
  PROVE  ClientStep
<1> DEFINE d == [cl EXCEPT !.block = @ + 1]
           m == Block(d, d.end)
<1>1. cl.pc = "user" /\ UNCHANGED <<server, toC>>
  BY DEF tftpclose
<1>2. cl.port # 0
  BY <1>1, PlaysFacts DEF Plays
<1>3. CASE job.op = "RRQ"
  <2>1. cl' = [cl EXCEPT !.pc = "done"]
        /\ (toS' = toS \/ toS' = Put(toS, Bare("ERROR", cl.block, cl.port)))
    BY <1>3 DEF tftpclose
  <2>2. /\ cl' \in Clients /\ cl'.pc = "done" /\ cl'.why = cl.why /\ Held(cl', cl)
    BY <2>1, PlaysFacts DEF Clients, Held
  <2>3. Plays(cl')
    BY <1>1, <1>3, <2>2, PlaysFacts DEF Plays
  <2>4. HangsUp
    BY <1>1, <1>3, <2>1, <2>2 DEF HangsUp
  <2>5. QED
    BY <1>1, <2>3, <2>4 DEF ClientStep, server
<1>4. CASE job.op = "WRQ"
  <2>1. (cl.foffs = job.len \/ cl.fail # "no") /\ Ask(d, "close", m)
    BY <1>4 DEF tftpclose
  <2>2. cl.end <= SEG /\ cl.end <= cl.foffs /\ cl.foffs <= job.len /\ cl.block + 1 \in Nat
    BY <1>4, PlaysFacts DEF Plays
  <2>3. /\ d \in Clients /\ d.block = cl.block + 1 /\ d.end = cl.end /\ d.foffs = cl.foffs
        /\ Held(d, cl)
    BY <2>2, PlaysFacts DEF Clients, Held
  <2> HIDE DEF d
  <2>4. m = Packet("DATA", d.block, cl.foffs - cl.end, cl.end, 0)
    BY <2>3 DEF Block
  <2>5. cl.foffs - cl.end \in Nat /\ cl.end \in 0 .. SEG /\ d.block \in Nat /\ d.port = cl.port
    BY <2>2, <2>3, PlaysFacts DEF Held
  <2>6. m \in Packets /\ m.op = "DATA" /\ m.n = d.block
    BY <2>4, <2>5 DEF Packet, Packets
  <2> HIDE DEF m
  <2>7. d.block = m.n + IF job.op = "RRQ" THEN 1 ELSE 0
    BY <1>4, <2>5, <2>6
  <2>8. /\ Plays(cl') /\ Asks /\ cl'.why = "close" /\ cl'.req = m /\ cl'.block = d.block
        /\ cl'.end = d.end /\ cl'.foffs = d.foffs /\ Held(cl', d)
    BY <1>2, <1>4, <2>1, <2>2, <2>3, <2>5, <2>6, <2>7, PlaysFacts, AskPlays
  <2>9. SendsRest
    BY <1>1, <1>4, <2>1, <2>3, <2>4, <2>8 DEF SendsRest, Held
  <2>10. QED
    BY <1>1, <2>8, <2>9 DEF ClientStep, server
<1>5. QED
  BY <1>3, <1>4, PlaysFacts

LEMMA AgainSteps ==
  ASSUME IInv, cl.pc = "wait", NEW p \in 0 .. 2, p # 0 \/ p = cl.port,
         Ask([cl EXCEPT !.port = p], cl.why, cl.req)
  PROVE  /\ Plays(cl') /\ Asks /\ cl'.why = cl.why /\ cl'.req = cl.req
         /\ cl'.block = cl.block /\ cl'.end = cl.end /\ cl'.foffs = cl.foffs
         /\ cl'.eof = cl.eof /\ cl'.fail = cl.fail
<1> DEFINE c == [cl EXCEPT !.port = p]
<1>1. /\ c \in Clients /\ c.block = cl.block /\ c.end = cl.end /\ c.foffs = cl.foffs
      /\ c.eof = cl.eof /\ c.fail = cl.fail /\ c.port = p /\ c.nb = cl.nb
  BY PlaysFacts DEF Clients
<1> HIDE DEF c
<1>2. /\ cl.req \in Packets /\ cl.req.op # "ERROR"
      /\ cl.block = cl.req.n + IF job.op = "RRQ" THEN 1 ELSE 0
      /\ cl.why = "open" => cl.req = Bare(job.op, 0, 0)
      /\ cl.why # "open" => cl.port # 0
      /\ job.op = "RRQ" => cl.why \in {"open", "read"}
      /\ job.op = "WRQ" => /\ cl.why # "read" /\ cl.end <= SEG
                           /\ cl.end <= cl.foffs /\ cl.foffs <= job.len
                           /\ cl.why = "write" => cl.foffs + cl.nb <= job.len
  BY PlaysFacts DEF Plays
<1>3. cl.why \in {"open", "read", "write", "close", "empty"} /\ Ask(c, cl.why, cl.req)
  BY PlaysFacts DEF Clients, c
<1>4. cl.why # "open" => c.port # 0
  BY <1>1, <1>2
<1>5. /\ Plays(cl') /\ Asks /\ cl'.why = cl.why /\ cl'.req = cl.req
      /\ cl'.block = c.block /\ cl'.end = c.end /\ cl'.foffs = c.foffs /\ Held(cl', c)
  BY <1>1, <1>2, <1>3, <1>4, PlaysFacts, AskPlays
<1>6. QED
  BY <1>1, <1>5 DEF Held

LEMMA TimeoutSteps ==
  ASSUME IInv, client_timeout
  PROVE  ClientStep
<1>1. cl.pc = "wait" /\ Ask(cl, cl.why, cl.req) /\ UNCHANGED <<server, toC>>
  BY DEF client_timeout
<1>2. [cl EXCEPT !.port = cl.port] = cl /\ cl.port \in 0 .. 2
  BY PlaysFacts DEF Clients
<1>3. /\ Plays(cl') /\ Asks /\ cl'.why = cl.why /\ cl'.req = cl.req
      /\ cl'.block = cl.block /\ cl'.end = cl.end /\ cl'.foffs = cl.foffs
      /\ cl'.eof = cl.eof /\ cl'.fail = cl.fail
  BY <1>1, <1>2, AgainSteps
<1>4. AsksAgain
  BY <1>1, <1>3 DEF AsksAgain
<1>5. QED
  BY <1>1, <1>3, <1>4 DEF ClientStep, server

LEMMA FailSteps ==
  ASSUME IInv, cl.pc = "wait", NEW p \in 0 .. 2, p # 0 \/ p = cl.port,
         NEW why \in {"error", "window"},
         cl' = Failed([cl EXCEPT !.port = p], why)
  PROVE  /\ Plays(cl') /\ cl'.fail # "no" /\ cl'.pc \in {"user", "done"}
         /\ cl.fail = "no" => cl'.fail \in {why, Unsaid(why)} /\ (Told' \/ cl'.pc = "done")
         /\ cl.fail # "no" => cl'.fail = cl.fail
<1> DEFINE c == [cl EXCEPT !.port = p]
           f == IF c.fail # "no" THEN c.fail
                ELSE IF c.why \in {"close", "empty"} THEN Unsaid(why) ELSE why
           k == IF c.why \in {"close", "empty"} \/ c.why = "open" THEN "done" ELSE "user"
<1>1. /\ c \in Clients /\ c.end = cl.end /\ c.foffs = cl.foffs /\ c.why = cl.why
      /\ c.fail = cl.fail /\ c.port = p
  BY PlaysFacts DEF Clients
<1>2. cl' = [c EXCEPT !.fail = f, !.pc = k]
  BY DEF Failed
<1> HIDE DEF c
<1>3. /\ f \in Outcomes \ {"no"} /\ k \in {"user", "done"}
      /\ (cl.fail = "no" => f \in {why, Unsaid(why)}) /\ (cl.fail # "no" => f = cl.fail)
      /\ (k = "user" => cl.why \notin {"open", "close", "empty"})
      /\ (k = "user" => f \in {"error", "window"} \/ f = cl.fail)
  BY <1>1 DEF Clients, Unsaid, Outcomes
<1> HIDE DEF f, k
<1>4. /\ cl' \in Clients /\ cl'.end = cl.end /\ cl'.foffs = cl.foffs /\ cl'.why = cl.why
      /\ cl'.fail = f /\ cl'.port = p /\ cl'.pc = k
  BY <1>1, <1>2, <1>3 DEF Clients
<1>5. /\ cl.why # "open" => cl.port # 0
      /\ job.op = "RRQ" => cl.why \in {"open", "read"}
      /\ job.op = "WRQ" => /\ cl.why # "read" /\ cl.end <= SEG
                           /\ cl.end <= cl.foffs /\ cl.foffs <= job.len
  BY PlaysFacts DEF Plays
<1>6. Plays(cl')
  BY <1>3, <1>4, <1>5 DEF Plays
<1>7. QED
  BY <1>3, <1>4, <1>6 DEF Told

LEMMA AcceptSteps ==
  ASSUME IInv, cl.pc = "wait", NEW p \in 0 .. 2, p # 0,
         NEW m \in Packets, m.op = IF job.op = "RRQ" THEN "DATA" ELSE "ACK",
         cl' = Accepted([cl EXCEPT !.port = p], m)
  PROVE  /\ Plays(cl') /\ cl'.block = cl.block /\ cl'.fail = cl.fail
         /\ \/ /\ job.op = "RRQ" /\ cl'.pc \in {"user", "loop"}
               /\ cl'.start = cl.end /\ cl'.end = cl.end + m.len /\ cl'.buf = m.from
               /\ cl'.eof = (m.len < SEG)
            \/ /\ job.op = "WRQ" /\ cl.why = "open" /\ cl'.pc = "user"
               /\ cl'.end = cl.end /\ cl'.foffs = cl.foffs
            \/ /\ job.op = "WRQ" /\ cl.why = "write" /\ cl'.pc = "loop"
               /\ cl'.end = 0 /\ cl'.foffs = cl.foffs
            \/ job.op = "WRQ" /\ cl.why \in {"close", "empty"} /\ cl'.pc = "done"
<1> DEFINE c == [cl EXCEPT !.port = p]
<1>1. /\ c \in Clients /\ c.end = cl.end /\ c.foffs = cl.foffs /\ c.why = cl.why
      /\ c.fail = cl.fail /\ c.port = p /\ c.block = cl.block /\ c.nb = cl.nb
  BY PlaysFacts DEF Clients
<1>2. cl' = Accepted(c, m)
  OBVIOUS
<1> HIDE DEF c
<1>3. /\ job.op = "RRQ" => cl.why \in {"open", "read"}
      /\ job.op = "WRQ" => /\ cl.why \in {"open", "write", "close", "empty"}
                           /\ cl.end <= SEG /\ cl.end <= cl.foffs /\ cl.foffs <= job.len
                           /\ cl.why = "write" => cl.foffs + cl.nb <= job.len
  BY PlaysFacts DEF Plays, Clients
<1>4. CASE job.op = "RRQ"
  <2> DEFINE k == IF c.why = "open" THEN "user" ELSE "loop"
             e == m.len < SEG
             x == c.end + m.len
  <2>1. cl' = [c EXCEPT !.pc = k, !.start = c.end, !.end = x, !.buf = m.from, !.eof = e]
    BY <1>1, <1>2, <1>3, <1>4 DEF Accepted
  <2>2. k \in {"user", "loop"} /\ x \in Nat /\ e \in BOOLEAN /\ m.from \in Nat
    BY <1>1, Constant DEF Clients, Packets
  <2> HIDE DEF k, e, x
  <2>3. c.end \in Nat /\ c \in Clients
    BY <1>1 DEF Clients
  <2> DEFINE f == [c EXCEPT !.pc = k, !.start = c.end]
             g == [f EXCEPT !.end = x, !.buf = m.from]
  <2>4. cl' = [g EXCEPT !.eof = e]
    BY ONLY <2>1
  <2>5. f \in Clients /\ f.pc = k /\ f.start = c.end
        /\ f.block = c.block /\ f.fail = c.fail /\ f.why = c.why /\ f.port = c.port
    BY ONLY <2>2, <2>3 DEF Clients
  <2> HIDE DEF f
  <2>6. g \in Clients /\ g.end = x /\ g.buf = m.from
    BY ONLY <2>2, <2>5 DEF Clients
  <2>7. /\ g.pc = k /\ g.start = c.end /\ g.block = c.block
        /\ g.fail = c.fail /\ g.why = c.why /\ g.port = c.port
    BY ONLY <2>5, <2>2 DEF Clients
  <2> HIDE DEF g
  <2>8. cl' \in Clients
    BY ONLY <2>2, <2>4, <2>6 DEF Clients
  <2>9. /\ cl'.pc = k /\ cl'.start = c.end /\ cl'.end = x /\ cl'.buf = m.from
        /\ cl'.eof = e /\ cl'.block = c.block /\ cl'.fail = c.fail
        /\ cl'.why = c.why /\ cl'.port = c.port
    BY ONLY <2>2, <2>4, <2>6, <2>7 DEF Clients
  <2>10. Plays(cl')
    BY <1>1, <1>3, <1>4, <2>2, <2>8, <2>9 DEF Plays
  <2>11. QED
    BY <1>1, <1>4, <2>2, <2>9, <2>10 DEF x, e
<1>5. CASE job.op = "WRQ" /\ cl.why = "open"
  <2>1. cl' = [c EXCEPT !.pc = "user"]
    BY <1>1, <1>2, <1>5 DEF Accepted
  <2>2. /\ cl' \in Clients /\ cl'.pc = "user" /\ cl'.end = cl.end /\ cl'.foffs = cl.foffs
        /\ cl'.block = cl.block /\ cl'.fail = cl.fail /\ cl'.why = cl.why /\ cl'.port = p
    BY <1>1, <2>1 DEF Clients
  <2>3. Plays(cl')
    BY <1>3, <1>5, <2>2 DEF Plays
  <2>4. QED
    BY <1>5, <2>2, <2>3
<1>6. CASE job.op = "WRQ" /\ cl.why = "write"
  <2>1. cl' = [c EXCEPT !.pc = "loop", !.end = 0]
    BY <1>1, <1>2, <1>6 DEF Accepted
  <2>2. c \in Clients /\ 0 \in Nat
    BY <1>1
  <2>3. cl' \in Clients
    BY ONLY <2>1, <2>2 DEF Clients
  <2>4. /\ cl'.pc = "loop" /\ cl'.end = 0 /\ cl'.foffs = c.foffs /\ cl'.block = c.block
        /\ cl'.fail = c.fail /\ cl'.why = c.why /\ cl'.port = c.port /\ cl'.nb = c.nb
    BY ONLY <2>1, <2>2 DEF Clients
  <2>5. job.op = "WRQ" /\ cl.foffs + cl.nb <= job.len
    BY <1>3, <1>6
  <2>6. cl'.end <= SEG /\ cl'.end <= cl'.foffs /\ cl'.foffs + cl'.nb <= job.len
    BY <1>1, <2>4, <2>5, PlaysFacts
  <2>7. Plays(cl')
    BY <1>1, <1>3, <1>6, <2>3, <2>4, <2>5, <2>6, PlaysFacts DEF Plays
  <2>8. QED
    BY <1>1, <1>6, <2>4, <2>7
<1>7. CASE job.op = "WRQ" /\ cl.why \in {"close", "empty"}
  <2>1. cl' = [c EXCEPT !.pc = "done"]
    BY <1>1, <1>2, <1>7 DEF Accepted
  <2>2. /\ cl' \in Clients /\ cl'.pc = "done" /\ cl'.end = cl.end /\ cl'.foffs = cl.foffs
        /\ cl'.block = cl.block /\ cl'.fail = cl.fail /\ cl'.why = cl.why /\ cl'.port = p
    BY <1>1, <2>1 DEF Clients
  <2>3. Plays(cl')
    BY <1>3, <1>7, <2>2 DEF Plays
  <2>4. QED
    BY <1>7, <2>2, <2>3
<1>8. QED
  BY <1>3, <1>4, <1>5, <1>6, <1>7, PlaysFacts

LEMMA AnswerSteps ==
  ASSUME IInv, client_recv
  PROVE  ClientStep
<1> DEFINE m == Head(toC)
           first == IF job.op = "RRQ" THEN {0, 1} ELSE {0}
           p == IF cl.block % Wire \in first THEN m.port ELSE cl.port
           c == [cl EXCEPT !.port = p]
           answer == IF job.op = "RRQ" THEN "DATA" ELSE "ACK"
           d == [c EXCEPT !.block = @ + 1]
           e == Block(d, 0)
<1>1. cl.pc = "wait" /\ toC # <<>> /\ UNCHANGED server
  BY DEF client_recv
<1>2. m \in Packets /\ m.port \in 0 .. 2 /\ m.port # 0 /\ m.n \in Nat
  BY <1>1, TakeFacts DEF IInv, Nets, ToClient, Packets
<1>3. p \in 0 .. 2 /\ (p # 0 \/ p = cl.port)
  BY <1>2, PlaysFacts
<1>4. c = IF cl.block % Wire \in first THEN [cl EXCEPT !.port = m.port] ELSE cl
  BY PlaysFacts DEF Clients
<1>5. /\ c \in Clients /\ c.block = cl.block /\ c.end = cl.end /\ c.foffs = cl.foffs
      /\ c.why = cl.why /\ c.req = cl.req /\ c.port = p /\ c.fail = cl.fail
  BY <1>3, PlaysFacts DEF Clients
<1> HIDE DEF m, p
<1>6. IF m.port # c.port \/ m.op \notin {"ERROR", answer}
         THEN Ask(c, cl.why, cl.req) /\ toC' = Tail(toC)
         ELSE IF m.op = "ERROR"
         THEN /\ cl' = Failed(c, "error")
              /\ toC' = Tail(toC) /\ UNCHANGED toS
         ELSE IF Same(m.n, cl.block)
         THEN /\ toC' = Tail(toC)
              /\ IF cl.why = "close" /\ cl.end = SEG
                    THEN Ask(d, "empty", e)
                    ELSE cl' = Accepted(c, m) /\ UNCHANGED toS
         ELSE /\ toC' \in Flushed(toC)
              /\ IF Previous(m.n, cl.block)
                    THEN Ask(c, cl.why, cl.req)
                    ELSE cl' = Failed(c, "window") /\ UNCHANGED toS
  <2>1. IF m.port # c.port \/ m.op \notin {"ERROR", answer}
           THEN Ask(c, c.why, c.req) /\ toC' = Tail(toC)
           ELSE IF m.op = "ERROR"
           THEN /\ cl' = Failed(c, "error")
                /\ toC' = Tail(toC) /\ UNCHANGED toS
           ELSE IF Same(m.n, c.block)
           THEN /\ toC' = Tail(toC)
                /\ IF c.why = "close" /\ c.end = SEG
                      THEN Ask(d, "empty", e)
                      ELSE cl' = Accepted(c, m) /\ UNCHANGED toS
           ELSE /\ toC' \in Flushed(toC)
                /\ IF Previous(m.n, c.block)
                      THEN Ask(c, c.why, c.req)
                      ELSE cl' = Failed(c, "window") /\ UNCHANGED toS
    BY <1>4, Zenon DEF client_recv, m
  <2> HIDE DEF c, d, e
  <2>2. QED
    BY <1>5, <2>1
<1>7. CASE Ask(c, cl.why, cl.req) /\ toC' \in {Tail(toC)} \cup Flushed(toC)
  <2>1. /\ Plays(cl') /\ Asks /\ cl'.why = cl.why /\ cl'.req = cl.req
        /\ cl'.block = cl.block /\ cl'.end = cl.end /\ cl'.foffs = cl.foffs
        /\ cl'.eof = cl.eof /\ cl'.fail = cl.fail
    BY <1>1, <1>3, <1>7, AgainSteps
  <2>2. AsksAgain
    BY <1>1, <1>7, <2>1 DEF AsksAgain
  <2>3. QED
    BY <1>1, <2>1, <2>2 DEF ClientStep
<1>8. ASSUME NEW why \in {"error", "window"}, cl' = Failed(c, why), toS' = toS,
             toC' \in {Tail(toC)} \cup Flushed(toC),
             why = "window" => /\ m.op # "ERROR"
                               /\ ~Same(m.n, cl.block) /\ ~Previous(m.n, cl.block)
      PROVE  ClientStep
  <2>1. /\ Plays(cl') /\ cl'.fail # "no" /\ cl'.pc \in {"user", "done"}
        /\ cl.fail = "no" => cl'.fail \in {why, Unsaid(why)} /\ (Told' \/ cl'.pc = "done")
        /\ cl.fail # "no" => cl'.fail = cl.fail
    BY <1>1, <1>3, <1>8, FailSteps
  <2>2. Fails
    BY <1>1, <1>8, <2>1 DEF Fails, Has, m, GaveUp, Unsaid
  <2>3. QED
    BY <1>1, <2>1, <2>2 DEF ClientStep
<1>9. CASE m.port = c.port /\ m.op = answer /\ Same(m.n, cl.block) /\ toC' = Tail(toC)
           /\ cl' = Accepted(c, m) /\ toS' = toS
  <2>1. p # 0
    BY <1>2, <1>5, <1>9
  <2> DEFINE Outcome ==
           \/ /\ job.op = "RRQ" /\ cl'.pc \in {"user", "loop"}
              /\ cl'.start = cl.end /\ cl'.end = cl.end + m.len /\ cl'.buf = m.from
              /\ cl'.eof = (m.len < SEG)
           \/ /\ job.op = "WRQ" /\ cl.why = "open" /\ cl'.pc = "user"
              /\ cl'.end = cl.end /\ cl'.foffs = cl.foffs
           \/ /\ job.op = "WRQ" /\ cl.why = "write" /\ cl'.pc = "loop"
              /\ cl'.end = 0 /\ cl'.foffs = cl.foffs
           \/ job.op = "WRQ" /\ cl.why \in {"close", "empty"} /\ cl'.pc = "done"
  <2>2. m.op = IF job.op = "RRQ" THEN "DATA" ELSE "ACK"
    BY <1>9
  <2>3. Plays(cl') /\ cl'.block = cl.block /\ cl'.fail = cl.fail /\ Outcome
    BY <1>1, <1>2, <1>3, <1>9, <2>1, <2>2, AcceptSteps, Zenon
  <2>4. m.op # "ERROR"
    BY <2>2
  <2>5. Accepts
    BY <1>1, <1>9, <2>3, <2>4 DEF Accepts, Answered, Has, m
  <2>6. QED
    BY <1>1, <2>3, <2>5 DEF ClientStep
<1>10. CASE /\ m.port = c.port /\ m.op = answer /\ Same(m.n, cl.block) /\ toC' = Tail(toC)
            /\ cl.why = "close" /\ cl.end = SEG /\ Ask(d, "empty", e)
  <2>1. p # 0 /\ m.op # "ERROR"
    BY <1>2, <1>5, <1>10
  <2>2. job.op = "WRQ" /\ cl.end <= cl.foffs /\ cl.foffs <= job.len
    BY <1>10, PlaysFacts DEF Plays
  <2>3. c.block + 1 \in Nat
    BY <1>5, PlaysFacts
  <2> HIDE DEF c
  <2>4. /\ d \in Clients /\ d.block = cl.block + 1 /\ d.end = cl.end /\ d.foffs = cl.foffs
        /\ d.port = p /\ d.fail = cl.fail
    BY <1>5, <2>3 DEF Clients
  <2> HIDE DEF d
  <2>5. d.block \in Nat /\ d.foffs - d.end \in Nat /\ 0 \in 0 .. SEG /\ d.end <= SEG
    BY <1>10, <2>2, <2>4, PlaysFacts
  <2>6. e \in Packets /\ e.op = "DATA" /\ e.n = d.block
    BY <2>5 DEF Block, Packet, Packets
  <2> HIDE DEF e
  <2>7. d.block = e.n + IF job.op = "RRQ" THEN 1 ELSE 0
    BY <2>2, <2>5, <2>6
  <2>8. Plays(cl') /\ Asks /\ cl'.why = "empty" /\ cl'.block = d.block /\ Held(cl', d)
    BY <1>10, <2>1, <2>2, <2>4, <2>5, <2>6, <2>7, PlaysFacts, AskPlays
  <2>9. SendsEmpty
    BY <1>1, <1>10, <2>1, <2>2, <2>4, <2>8 DEF SendsEmpty, Answered, Has, Held, m
  <2>10. QED
    BY <1>1, <2>8, <2>9 DEF ClientStep
<1> HIDE DEF c, d, e
<1>11. QED
  BY <1>6, <1>7, <1>8, <1>9, <1>10

LEMMA ClientSteps ==
  ASSUME IInv,
         tftpopen \/ call \/ tftplseek \/ tftpclose \/ client_break \/ tftpread \/ tftpwrite
           \/ client_recv \/ client_gone \/ client_timeout
  PROVE  ClientStep
<1>1. CASE client_break
  <2>1. cl' = [cl EXCEPT !.pc = "done", !.fail = "intr"] /\ UNCHANGED <<server, toS, toC>>
        /\ cl.pc = "wait"
    BY <1>1 DEF client_break
  <2>2. /\ cl' \in Clients /\ cl'.pc = "done" /\ cl'.fail = "intr" /\ cl'.why = cl.why
        /\ cl'.end = cl.end /\ cl'.foffs = cl.foffs
    BY <2>1, PlaysFacts DEF Clients, Outcomes
  <2>3. Plays(cl')
    BY <2>1, <2>2, PlaysFacts DEF Plays
  <2>4. QED
    BY <2>1, <2>2, <2>3 DEF ClientStep, Breaks, server
<1>2. CASE client_gone
  BY <1>2, PlaysFacts DEF client_gone, ClientStep, Drops, server
<1>3. QED
  BY <1>1, <1>2, OpenSteps, CallSteps, CloseSteps, ReadSteps, WriteSteps, AnswerSteps,
     TimeoutSteps

(* What the client sends may be sent, and what was under way still may be. *)
LEMMA ClientSends ==
  ASSUME IInv, ClientStep
  PROVE  /\ ToServer \subseteq ToServer' /\ ToClient' = ToClient
         /\ toS' = toS \/ \E m \in ToServer' : toS' = Put(toS, m)
         /\ toC' = toC \/ (toC # <<>> /\ toC' \in {Tail(toC)} \cup Flushed(toC))
<1>1. UNCHANGED <<job, sv, file, stored, faults>> /\ Plays(cl') /\ (cl.pc = "done" => cl'.pc = "done")
  BY DEF ClientStep, server
<1>2. ToServer \subseteq ToServer' /\ ToClient' = ToClient
  BY <1>1 DEF ToServer, ToClient, Packets
<1>3. job' = job /\ job.op \in {"RRQ", "WRQ"}
  BY <1>1, PlaysFacts
<1>4. ASSUME Asks PROVE \E m \in ToServer' : toS' = Put(toS, m)
  <2> DEFINE m == [cl'.req EXCEPT !.port = cl'.port]
  <2>1. cl'.pc = "wait" /\ toS' = Put(toS, m)
    BY <1>4 DEF Asks
  <2>2. cl' \in Clients
    BY <1>1 DEF Plays
  <2>3. cl'.req \in Packets /\ cl'.port \in 0 .. 2
    BY <2>2 DEF Clients
  <2>4. /\ m \in Packets /\ m.op = cl'.req.op /\ m.n = cl'.req.n /\ m.port = cl'.port
    BY <2>3, Readdressed
  <2>5. cl'.req.op # "ERROR"
    BY <1>1, <2>1 DEF Plays
  <2>6. cl'.port = 0 => cl'.req = Bare(job.op, 0, 0)
    BY <1>1, <2>1 DEF Plays
  <2>7. Bare(job.op, 0, 0).op = job.op /\ Bare(job.op, 0, 0).n = 0
    BY DEF Bare, Packet
  <2> HIDE DEF m
  <2>8. m \in ToServer'
    BY <1>3, <2>4, <2>5, <2>6, <2>7 DEF ToServer, Packets
  <2>9. QED
    BY <2>1, <2>8
<1>5. CASE AcksLast
  <2> DEFINE m == Bare("ACK", cl.block, cl.port)
  <2>1. cl.pc = "loop" /\ toS' = Put(toS, m) /\ toC' = toC
    BY <1>5 DEF AcksLast
  <2>2. cl.port # 0
    BY <2>1, PlaysFacts DEF Plays
  <2>3. m \in Packets /\ m.op = "ACK" /\ m.port = cl.port
    BY PlaysFacts, BareFacts
  <2> HIDE DEF m
  <2>4. m \in ToServer'
    BY <2>2, <2>3 DEF ToServer, Packets
  <2>5. QED
    BY <1>2, <2>1, <2>4
<1>6. CASE HangsUp
  <2> DEFINE m == Bare("ERROR", cl.block, cl.port)
  <2>1. /\ cl.pc = "user" /\ cl'.pc = "done" /\ toC' = toC
        /\ toS' = toS \/ toS' = Put(toS, m)
    BY <1>6 DEF HangsUp
  <2>2. cl.port # 0
    BY <2>1, PlaysFacts DEF Plays
  <2>3. m \in Packets /\ m.op = "ERROR" /\ m.port = cl.port
    BY PlaysFacts, BareFacts
  <2> HIDE DEF m
  <2>4. m \in ToServer'
    BY <2>1, <2>2, <2>3 DEF ToServer, Packets
  <2>5. QED
    BY <1>2, <2>1, <2>4
<1>7. CASE Opens \/ AsksNext \/ SendsFull \/ SendsRest
  BY <1>2, <1>4, <1>7 DEF Opens, AsksNext, SendsFull, SendsRest
<1>8. CASE AsksAgain
  BY <1>2, <1>4, <1>8 DEF AsksAgain
<1>9. CASE SendsEmpty
  BY <1>2, <1>4, <1>9 DEF SendsEmpty, Answered, Has
<1>10. CASE Moves \/ Fails \/ Accepts \/ Breaks \/ Drops
  BY <1>2, <1>10 DEF Moves, Fails, Accepts, Answered, Has, Breaks, Drops
<1>11. QED
  BY <1>5, <1>6, <1>7, <1>8, <1>9, <1>10 DEF ClientStep

LEMMA IClient ==
  ASSUME IInv, ClientStep
  PROVE  IInv'
<1>1. /\ job \in Jobs /\ toS \in Seq(ToServer) /\ toC \in Seq(ToClient)
      /\ Len(toS) <= Cap /\ Len(toC) <= Cap /\ faults \in 0 .. MaxFaults
      /\ Server /\ File /\ Cap \in Nat /\ Len(toC) \in Nat
  BY Constant DEF IInv, Nets
<1>2. UNCHANGED <<job, sv, file, stored, faults>> /\ Plays(cl')
  BY DEF ClientStep, server
<1>3. /\ ToServer \subseteq ToServer' /\ ToClient' = ToClient
      /\ toS' = toS \/ \E m \in ToServer' : toS' = Put(toS, m)
      /\ toC' = toC \/ (toC # <<>> /\ toC' \in {Tail(toC)} \cup Flushed(toC))
  BY ClientSends
<1>4. toS \in Seq(ToServer')
  BY <1>1, <1>3, Widen
<1>5. toS' \in Seq(ToServer') /\ Len(toS') <= Cap
  BY <1>1, <1>3, <1>4, PutFacts
<1>6. toC' \in Seq(ToClient') /\ Len(toC') <= Cap
  <2>1. CASE toC # <<>> /\ toC' = Tail(toC)
    <3>1. toC' \in Seq(ToClient) /\ Len(toC') <= Len(toC) /\ Len(toC') \in Nat
      BY <1>1, <2>1, TakeFacts
    <3>2. QED
      BY <1>1, <1>3, <3>1
  <2>2. CASE toC' \in Flushed(toC)
    <3>1. toC' \in Seq(ToClient) /\ Len(toC') <= Len(toC) /\ Len(toC') \in Nat
      BY <1>1, <2>2, FlushFacts
    <3>2. QED
      BY <1>1, <1>3, <3>1
  <2>3. QED
    BY <1>1, <1>3, <2>1, <2>2
<1>7. Nets'
  BY <1>1, <1>2, <1>5, <1>6 DEF Nets
<1>8. Server' /\ File'
  BY <1>1, <1>2 DEF Server, Runs, File, Servers
<1>9. Client'
  BY <1>2 DEF Client, Plays, Clients, Packets
<1>10. QED
  BY <1>1, <1>2, <1>7, <1>8, <1>9 DEF IInv

LEMMA FaultSteps ==
  ASSUME IInv, Fault
  PROVE  /\ UNCHANGED <<job, cl, sv, file, stored>> /\ faults' = faults + 1 /\ faults < MaxFaults
         /\ \A S : toS \in Seq(S) => toS' \in Seq(S) /\ Len(toS') <= Cap
         /\ \A S : toC \in Seq(S) => toC' \in Seq(S) /\ Len(toC') <= Cap
<1>1. /\ UNCHANGED <<job, cl, sv, file, stored>> /\ faults' = faults + 1 /\ faults < MaxFaults
      /\ Len(toS) <= Cap /\ Len(toC) <= Cap
  BY DEF Fault, IInv, Nets
<1>2. ASSUME NEW S, toS \in Seq(S)
      PROVE  toS' \in Seq(S) /\ Len(toS') <= Cap
  <2>1. toS' = toS \/ (toS # <<>> /\ toS' \in Disturbed(toS))
    BY DEF Fault
  <2>2. QED
    BY <1>1, <1>2, <2>1, DisturbFacts
<1>3. ASSUME NEW S, toC \in Seq(S)
      PROVE  toC' \in Seq(S) /\ Len(toC') <= Cap
  <2>1. toC' = toC \/ (toC # <<>> /\ toC' \in Disturbed(toC))
    BY DEF Fault
  <2>2. QED
    BY <1>1, <1>3, <2>1, DisturbFacts
<1>4. QED
  BY <1>1, <1>2, <1>3

LEMMA IFault ==
  ASSUME IInv, Fault
  PROVE  IInv'
<1>1. UNCHANGED <<job, cl, sv, file, stored>> /\ faults' = faults + 1 /\ faults < MaxFaults
  BY FaultSteps
<1>2. ToServer' = ToServer /\ ToClient' = ToClient /\ Servers' = Servers /\ Client'
  BY <1>1, SameSets DEF IInv
<1>3. toS' \in Seq(ToServer) /\ Len(toS') <= Cap /\ toC' \in Seq(ToClient) /\ Len(toC') <= Cap
  BY FaultSteps DEF IInv, Nets
<1>4. faults' \in 0 .. MaxFaults
  BY <1>1, Constant DEF IInv, Nets
<1>5. Nets'
  BY <1>2, <1>3, <1>4 DEF Nets
<1>6. Server' /\ File'
  BY <1>1, <1>2 DEF IInv, Server, Runs, File
<1>7. QED
  BY <1>1, <1>2, <1>5, <1>6 DEF IInv

LEMMA IStart == Init => IInv
<1> SUFFICES ASSUME Init PROVE IInv
  OBVIOUS
<1>1. job \in Jobs /\ sv = Idle /\ file = <<>> /\ toS = <<>> /\ toC = <<>> /\ faults = 0
  BY DEF Init
<1>2. Bare("RRQ", 0, 0) \in Packets
  BY BareFacts
<1>3. cl = [pc |-> "start", why |-> "open", block |-> 0, start |-> 0, end |-> 0,
            foffs |-> 0, eof |-> FALSE, port |-> 0, buf |-> 0, nb |-> 0,
            fail |-> "no", req |-> Bare("RRQ", 0, 0)]
  BY DEF Init
<1>4. cl \in Clients
  <2> DEFINE b == Bare("RRQ", 0, 0)
  <2>1. b \in Packets /\ 0 \in 0 .. 2 /\ FALSE \in BOOLEAN /\ 0 \in Nat
    BY <1>2
  <2>2. cl = [pc |-> "start", why |-> "open", block |-> 0, start |-> 0, end |-> 0,
              foffs |-> 0, eof |-> FALSE, port |-> 0, buf |-> 0, nb |-> 0,
              fail |-> "no", req |-> b]
    BY <1>3
  <2> HIDE DEF b
  <2>3. QED
    BY ONLY <2>1, <2>2 DEF Clients, Outcomes
<1>5. /\ cl.pc = "start" /\ cl.why = "open" /\ cl.fail = "no" /\ cl.eof = FALSE
      /\ cl.end = 0 /\ cl.foffs = 0 /\ cl.start = 0
  BY <1>3
<1>6. job.len \in Nat /\ SEG \in Nat
  BY <1>1, JobFacts, Constant
<1>7. Client
  BY <1>4, <1>5, <1>6 DEF Client, Plays
<1>8. sv \in Servers /\ sv.pc = "listen"
  BY <1>1, IdleFacts
<1>9. Server
  BY <1>8 DEF Server, Runs
<1>10. Nets
  BY <1>1, NothingSent, Constant DEF Nets
<1>11. File
  BY <1>1, NothingSent DEF File
<1>12. QED
  BY <1>1, <1>7, <1>9, <1>10, <1>11 DEF IInv

(* A step is one of the client, one of the server, or one of the network.  *)
LEMMA Steps ==
  ASSUME IInv, Next
  PROVE  ClientStep \/ ServerStep \/ Fault
BY ClientSteps, ServerSteps DEF Next, ClientRuns, ServerHas

LEMMA INext == IInv /\ [Next]_vars => IInv'
<1> SUFFICES ASSUME IInv, [Next]_vars PROVE IInv'
  OBVIOUS
<1>1. CASE Next
  BY <1>1, Steps, IClient, IServer, IFault
<1>2. CASE UNCHANGED vars
  <2>1. UNCHANGED <<job, cl, sv, file, toS, toC, faults>>
    BY <1>2 DEF vars
  <2>2. QED
    BY <2>1, SameSets DEF IInv, Client, Server, Runs, Nets, File, ToServer, ToClient, Servers
<1>3. QED
  BY <1>1, <1>2

(* What both ends of a transfer and the packets between them always are:   *)
(* the client of tftplib.c waits only for requests that it can answer for, *)
(* the server of tftpd.c has one buffer in use and one ahead of or behind  *)
(* it, requests alone go to the well-known port, and no packet but an      *)
(* error goes back that was not asked for.                                 *)
THEOREM Invariance == Spec => []IInv
<1>1. Init => IInv
  BY IStart
<1>2. IInv /\ [Next]_vars => IInv'
  BY INext
<1>3. QED
  BY <1>1, <1>2, PTL DEF Spec

(* Everything keeps its type: the client's buffer never holds more than a  *)
(* block, the counters of the server's buffers are sizes or the two marks  *)
(* BF_ALLOC and BF_FREE, and no packet exists that neither end can send.   *)
THEOREM TypeCorrect == Spec => []TypeOK
<1>1. IInv => TypeOK
  <2> SUFFICES ASSUME IInv PROVE TypeOK
    OBVIOUS
  <2>1. /\ job \in Jobs /\ toS \in Seq(Packets) /\ toC \in Seq(Packets)
        /\ Len(toS) <= Cap /\ Len(toC) <= Cap /\ faults \in 0 .. MaxFaults
    <3>1. ToServer \subseteq Packets /\ ToClient \subseteq Packets
      BY DEF ToServer, ToClient
    <3>2. QED
      BY <3>1, Widen DEF IInv, Nets
  <2>2. /\ cl.pc \in {"start", "user", "loop", "wait", "done"}
        /\ cl.why \in {"open", "read", "write", "close", "empty"}
        /\ cl.fail \in {"no", "error", "window", "intr", "unsaid error", "unsaid window"}
        /\ cl.end \in Nat /\ cl.nb \in Nat /\ cl.port \in 0 .. 2
        /\ job.op = "WRQ" => cl.end <= SEG
    BY PlaysFacts DEF Plays, Clients, Outcomes
  <2>3. /\ sv.pc \in {"listen", "busy", "last", "off"}
        /\ \A i \in 0 .. 1 : sv.bfs[i].counter \in {BF_ALLOC, BF_FREE} \cup 0 .. SEG
    BY DEF IInv, Server, Runs, Servers, Buffers
  <2>4. \A m \in Range(toS) \cup Range(toC) : m \in Packets
    BY <2>1 DEF Range
  <2>5. QED
    BY <2>1, <2>2, <2>3, <2>4 DEF TypeOK
<1>2. QED
  BY <1>1, Invariance, PTL
-----------------------------------------------------------------------------
(* What is read and what is written.                                       *)

LEMMA StartFacts ==
  ASSUME NEW n \in Nat
  PROVE  /\ Start(n) \in Int /\ Start(0) <= 0 /\ Start(1) = 0
         /\ Start(n + 1) = Start(n) + SEG /\ (n > 0 => Start(n) >= 0)
<1>1. SEG \in Nat
  BY Constant
<1>2. Start(n) \in Int /\ Start(0) = - SEG /\ Start(1) = 0
  BY <1>1 DEF Start
<1>3. Start(n + 1) = Start(n) + SEG
  BY <1>1 DEF Start
<1>4. n > 0 => Start(n) >= 0
  <2>1. ASSUME NEW a \in Nat, NEW b \in Nat PROVE a * b >= 0
    OBVIOUS
  <2>2. n > 0 => n - 1 \in Nat
    OBVIOUS
  <2>3. QED
    BY <1>1, <2>1, <2>2 DEF Start
<1>5. QED
  BY <1>1, <1>2, <1>3, <1>4

(* The blocks of a short file have different numbers on the wire. *)
LEMMA Distinct ==
  ASSUME Short, job \in Jobs, NEW a \in Nat, NEW b \in Nat,
         Start(a) <= job.len, Start(b) <= job.len, Same(a, b)
  PROVE  a = b
<1>1. SEG \in Nat \ {0} /\ Wire \in Nat /\ Wire > 2 /\ job.len \in Nat
  BY JobFacts, Constant
<1>2. ASSUME NEW n \in Nat, Start(n) <= job.len
      PROVE  n < Wire
  <2>1. SUFFICES ASSUME n >= Wire PROVE FALSE
    BY <1>1
  <2>2. PICK k \in Nat : n = Wire + k
    <3>1. n - Wire \in Nat /\ n = Wire + (n - Wire)
      BY <1>1, <2>1
    <3>2. QED
      BY <3>1
  <2>3. (n - 1) * SEG = SEG * (Wire - 1) + k * SEG
    BY <1>1, <2>2
  <2>4. k * SEG >= 0
    BY <1>1, <2>2
  <2>5. SEG * (Wire - 1) \in Int /\ k * SEG \in Int
    BY <1>1
  <2>6. QED
    BY <1>1, <1>2, <2>3, <2>4, <2>5 DEF Short, Start
<1>3. a < Wire /\ b < Wire
  BY <1>2
<1>4. a % Wire = a /\ b % Wire = b
  BY <1>1, <1>3
<1>5. QED
  BY <1>4 DEF Same

(* What is only dropped or disturbed stays what it was.                    *)
LEMMA Kinds ==
  ASSUME NEW S, NEW q \in Seq(S),
         NEW r, r = q \/ (q # <<>> /\ r = Tail(q)) \/ r \in Flushed(q)
  PROVE  r \in Seq(S)
BY TakeFacts, FlushFacts

LEMMA NoBlock ==
  ASSUME NEW m \in Packets, m.op # "DATA"
  PROVE  m \in Blocks
BY DEF Blocks, DataRight

LEMMA ReadsServer ==
  ASSUME IInv, Reads, ServerStep, job.op = "RRQ"
  PROVE  toC' \in Seq(Blocks) /\ ServerReads'
<1>1. /\ job \in Jobs /\ job' = job /\ job.len \in Nat /\ sv \in Servers
      /\ toC \in Seq(Blocks) /\ ServerReads /\ SEG \in Nat \ {0}
      /\ sv.port \in 0 .. 2 /\ sv.block \in Nat
  BY JobFacts, Constant DEF IInv, Server, Runs, Servers, ServerStep, client, Reads
<1>2. Bare("ERROR", sv.block, sv.port) \in Blocks
  BY <1>1, BareFacts, NoBlock
<1>3. ASSUME NEW s \in Servers, Reading(s), s.block > 0,
             s.bfs[s.current].from = Start(s.block), s.bfs[s.current].from <= job.len,
             s.bfs[s.current].counter = min(SEG, job.len - s.bfs[s.current].from)
      PROVE  Put(toC, Data(s)) \in Seq(Blocks)
  <2>1. Data(s) \in Blocks
    BY <1>3, DataFacts DEF Blocks, DataRight
  <2>2. QED
    BY <1>1, <2>1, PutFacts
<1>4. CASE Skips
  BY <1>1, <1>4 DEF Skips, ServerReads
<1>5. CASE Repeats
  <2>1. sv.pc = "busy" /\ sv' = sv /\ toC' = Put(toC, Data(sv))
    BY <1>5 DEF Repeats, Answer
  <2>2. Reading(sv) /\ sv.block > 0
    BY <2>1 DEF IInv, Server, Runs
  <2>3. toC' \in Seq(Blocks)
    BY <1>1, <1>3, <2>1, <2>2 DEF ServerReads
  <2>4. QED
    BY <1>1, <2>1, <2>3 DEF ServerReads
<1>6. CASE sv' = Listening(sv) /\ toC' \in {toC, Put(toC, Bare("ERROR", sv.block, sv.port))}
  <2>1. toC' \in Seq(Blocks)
    BY <1>1, <1>2, <1>6, PutFacts
  <2>2. sv'.pc = "listen"
    BY <1>1, <1>6, ListeningFacts
  <2>3. QED
    BY <2>1, <2>2 DEF ServerReads
<1>7. CASE Begins
  <2> DEFINE r == FirstBlock
  <2>1. sv' = r /\ toC' = Put(toC, Data(r))
    BY <1>7 DEF Begins
  <2>2. /\ r \in Servers /\ Reading(r) /\ r.block = 1
        /\ r.bfs[r.current].from = 0 /\ r.bfs[r.current].counter = min(SEG, job.len)
        /\ r.bfs[1 - r.current].from = r.bfs[r.current].counter
        /\ r.bfs[1 - r.current].counter = min(SEG, job.len - r.bfs[r.current].counter)
        /\ r.rd = r.bfs[1 - r.current].from + r.bfs[1 - r.current].counter
    BY <1>1, FirstBlockFacts
  <2> HIDE DEF r
  <2>3. Start(1) = 0
    BY StartFacts
  <2>4. 0 + min(SEG, job.len) = min(SEG, job.len) /\ job.len - 0 = job.len
    BY <1>1 DEF min
  <2>5. toC' \in Seq(Blocks)
    BY <1>1, <1>3, <2>1, <2>2, <2>3, <2>4
  <2>6. ServerReads'
    BY <1>1, <2>1, <2>2, <2>3, <2>4 DEF ServerReads
  <2>7. QED
    BY <2>5, <2>6
<1>8. CASE SendsNext
  <2> DEFINE r == NextBlock(sv)
             b == sv.bfs[sv.current]
             a == sv.bfs[1 - sv.current]
             n == min(SEG, job.len - sv.rd)
  <2>1. sv.pc = "busy" /\ sv' = r /\ toC' = Put(toC, Data(r)) /\ b.counter = SEG
    BY <1>8 DEF SendsNext, Hears
  <2>2. Reading(sv) /\ sv.block > 0
    BY <2>1 DEF IInv, Server, Runs
  <2>3. /\ r \in Servers /\ Reading(r) /\ r.block = sv.block + 1
        /\ r.current = 1 - sv.current /\ r.rd = sv.rd + n
        /\ r.bfs[1 - sv.current] = a
        /\ r.bfs[sv.current] = [counter |-> n, from |-> sv.rd, n |-> Unset]
    BY <1>1, <2>2, NextBlockFacts
  <2> HIDE DEF r
  <2>4. /\ b.from = Start(sv.block) /\ b.from <= job.len
        /\ b.counter = min(SEG, job.len - b.from)
        /\ a.from = b.from + b.counter /\ a.counter = min(SEG, job.len - a.from)
        /\ sv.rd = a.from + a.counter
    BY <1>1, <2>1 DEF ServerReads
  <2>5. sv.current \in 0 .. 1 /\ 1 - (1 - sv.current) = sv.current
    BY <1>1 DEF Servers
  <2>6. r.bfs[r.current] = a /\ r.bfs[1 - r.current].counter = n
        /\ r.bfs[1 - r.current].from = sv.rd
    BY <2>3, <2>5
  <2> HIDE DEF a, b, n
  <2>7. Start(sv.block) \in Int /\ Start(sv.block + 1) = Start(sv.block) + SEG
    BY <1>1, StartFacts
  <2>8. a.from = Start(sv.block + 1) /\ a.from <= job.len
    BY <1>1, <2>1, <2>4, <2>7 DEF min
  <2>9. toC' \in Seq(Blocks)
    BY <1>1, <1>3, <2>1, <2>2, <2>3, <2>4, <2>6, <2>8
  <2>10. ServerReads'
    BY <1>1, <2>1, <2>3, <2>4, <2>6, <2>8 DEF ServerReads, n
  <2>11. QED
    BY <2>9, <2>10
<1>9. CASE Leaves
  BY <1>9 DEF Leaves, IInv, Server, Runs
<1>10. QED
  BY <1>4, <1>5, <1>6, <1>7, <1>8, <1>9
     DEF ServerStep, Refuses, Ends, WritesNext, WritesLast

LEMMA ReadsClient ==
  ASSUME IInv, Short, Reads, ClientStep, job.op = "RRQ", IInv'
  PROVE  ClientReads'
<1> SUFFICES ASSUME cl'.fail = "no"
             PROVE  ClientReads'
  BY DEF ClientReads
<1>1. /\ job' = job /\ job.len \in Nat /\ SEG \in Nat \ {0} /\ Plays(cl') /\ job \in Jobs
      /\ cl.block \in Nat /\ cl.start \in Nat /\ cl.end \in Nat
  BY PlaysFacts DEF ClientStep, server
<1>2. ClientReads /\ toC \in Seq(Blocks)
  BY DEF Reads
<1>3. CASE Opens
  <2>1. /\ cl.pc = "start" /\ cl'.pc = "wait" /\ cl'.why = "open" /\ cl'.end = cl.end
        /\ cl'.eof = cl.eof
    BY <1>3 DEF Opens, Asks, Held
  <2>2. cl.end = 0 /\ ~cl.eof
    BY <2>1, PlaysFacts DEF Plays
  <2>3. cl'.req = Bare(job.op, 0, 0) /\ cl'.block = cl'.req.n + 1
    BY <1>1, <2>1 DEF Plays
  <2>4. cl'.block = 1
    BY <2>3 DEF Bare, Packet
  <2>5. Start(1) = 0
    BY StartFacts
  <2>6. QED
    BY <1>1, <2>1, <2>2, <2>4, <2>5 DEF ClientReads
<1>4. CASE Moves
  <2>1. /\ cl.pc \in {"user", "loop"} /\ cl'.pc \in {"user", "loop"} /\ cl'.end = cl.end
        /\ cl'.block = cl.block /\ cl'.start = cl.start /\ cl'.eof = cl.eof
        /\ cl'.buf = cl.buf /\ cl'.fail = cl.fail
    BY <1>4 DEF Moves, Held
  <2>2. QED
    BY <1>1, <1>2, <2>1 DEF ClientReads
<1>5. CASE AcksLast
  <2>1. /\ cl.pc = "loop" /\ cl.eof /\ cl.start < cl.end /\ cl'.pc = "loop"
        /\ cl'.start = cl.end /\ cl'.end = cl.end /\ cl'.fail = cl.fail
    BY <1>5 DEF AcksLast
  <2>2. cl.end = min(job.len, cl.start + SEG) /\ (cl.eof <=> cl.end < cl.start + SEG)
    BY <1>1, <1>2, <2>1 DEF ClientReads
  <2>3. cl.end = job.len
    BY <1>1, <2>1, <2>2 DEF min
  <2>4. QED
    BY <1>1, <2>1, <2>3 DEF ClientReads
<1>6. CASE AsksNext
  <2>1. /\ cl.pc = "loop" /\ ~cl.eof /\ cl.start < cl.end /\ cl'.pc = "wait"
        /\ cl'.why = "read" /\ cl'.block = cl.block + 1 /\ cl'.end = cl.end
        /\ cl'.eof = cl.eof /\ cl'.fail = cl.fail
    BY <1>6 DEF AsksNext, Asks, Held
  <2>2. /\ cl.start = Start(cl.block) /\ cl.start <= job.len
        /\ cl.end = min(job.len, cl.start + SEG) /\ (cl.eof <=> cl.end < cl.start + SEG)
    BY <1>1, <1>2, <2>1 DEF ClientReads
  <2>3. Start(cl.block + 1) = Start(cl.block) + SEG /\ Start(cl.block) \in Int
    BY <1>1, StartFacts
  <2>4. cl.end = Start(cl.block + 1) /\ cl.end <= job.len
    BY <1>1, <2>1, <2>2, <2>3 DEF min
  <2>5. QED
    BY <1>1, <2>1, <2>4 DEF ClientReads
<1>7. CASE HangsUp \/ Breaks \/ Fails
  BY <1>7 DEF HangsUp, Breaks, Fails, ClientReads
<1>8. CASE AsksAgain
  <2>1. /\ cl.pc = "wait" /\ cl'.pc = "wait" /\ cl'.why = cl.why /\ cl'.block = cl.block
        /\ cl'.end = cl.end /\ cl'.eof = cl.eof /\ cl'.fail = cl.fail
    BY <1>8 DEF AsksAgain, Asks
  <2>2. QED
    BY <1>1, <1>2, <2>1 DEF ClientReads
<1>9. CASE Accepts
  <2> DEFINE m == Head(toC)
  <2>1. /\ cl.pc = "wait" /\ toC # <<>> /\ m.op # "ERROR" /\ Same(m.n, cl.block)
        /\ cl'.fail = cl.fail /\ cl'.block = cl.block
        /\ cl'.pc \in {"user", "loop"}
        /\ cl'.start = cl.end /\ cl'.end = cl.end + m.len /\ cl'.buf = m.from
        /\ cl'.eof = (m.len < SEG)
    BY <1>9 DEF Accepts, Answered, Has
  <2>2. m \in Blocks /\ m \in ToClient
    BY <1>2, <2>1, TakeFacts DEF IInv, Nets
  <2>3. /\ m.n \in Nat /\ m.from \in Nat /\ m.len \in Nat
        /\ m.from = Start(m.n) /\ m.from <= job.len
        /\ m.len = min(SEG, job.len - m.from)
    BY <2>1, <2>2, Constant DEF Blocks, DataRight, ToClient, Packets
  <2>4. cl.end = Start(cl.block) /\ cl.end <= job.len
    BY <1>2, <2>1 DEF ClientReads
  <2>5. m.n = cl.block
    BY <1>1, <2>1, <2>3, <2>4, Distinct
  <2>6. m.from = cl.end
    BY <2>3, <2>4, <2>5
  <2>7. cl'.end = min(job.len, cl'.start + SEG)
    BY <1>1, <2>1, <2>3, <2>4, <2>6 DEF min
  <2>8. cl'.eof <=> cl'.end < cl'.start + SEG
    <3>1. cl'.end = cl.end + m.len /\ cl'.start = cl.end
      BY <2>1
    <3> HIDE DEF m
    <3>2. m.len < SEG <=> cl'.end < cl'.start + SEG
      BY <1>1, <2>3, <3>1
    <3>3. cl'.eof = (m.len < SEG)
      BY <2>1 DEF m
    <3>4. QED
      BY <3>2, <3>3, Zenon
  <2>9. cl'.start = Start(cl'.block) /\ cl'.start <= job.len /\ cl'.buf = cl'.start
    BY <2>1, <2>4, <2>6
  <2>10. QED
    BY <1>1, <2>1, <2>7, <2>8, <2>9 DEF ClientReads
<1>10. CASE Drops
  BY <1>1, <1>2, <1>10 DEF Drops, ClientReads
<1>11. QED
  BY <1>3, <1>4, <1>5, <1>6, <1>7, <1>8, <1>9, <1>10
     DEF ClientStep, SendsFull, SendsRest, SendsEmpty

LEMMA ReadsStart == Init => Reads
<1> SUFFICES ASSUME Init PROVE Reads
  OBVIOUS
<1>1. toC = <<>> /\ cl.pc = "start" /\ sv = Idle /\ job \in Jobs
  BY DEF Init
<1>2. sv.pc = "listen"
  BY <1>1, IdleFacts
<1>3. toC \in Seq(Blocks)
  BY <1>1, NothingSent
<1>4. QED
  BY <1>1, <1>2, <1>3 DEF Reads, ServerReads, ClientReads

LEMMA ReadsNext == IInv /\ IInv' /\ (Short => Reads) /\ [Next]_vars => (Short => Reads)'
<1> SUFFICES ASSUME IInv, IInv', Short => Reads, [Next]_vars, Short', job'.op = "RRQ"
             PROVE  Reads'
  BY DEF Reads
<1>1. job' = job
  <2>1. Next => job' = job
    BY Steps, FaultSteps DEF ClientStep, server, ServerStep, client
  <2>2. QED
    BY <2>1 DEF vars
<1>2. Short /\ Reads /\ job.op = "RRQ" /\ Blocks' = Blocks /\ toC \in Seq(Blocks)
  BY <1>1 DEF Short, Reads, Blocks, DataRight, Packets
<1>3. CASE ClientStep
  <2>1. ClientReads'
    BY <1>2, <1>3, ReadsClient
  <2>2. toC' \in Seq(Blocks)
    BY <1>2, <1>3, ClientSends, Kinds
  <2>3. sv' = sv
    BY <1>3 DEF ClientStep, server
  <2>4. QED
    BY <1>1, <1>2, <2>1, <2>2, <2>3 DEF Reads, ServerReads
<1>4. CASE ServerStep
  <2>1. cl' = cl
    BY <1>4 DEF ServerStep, client
  <2>2. QED
    BY <1>1, <1>2, <1>4, <2>1, ReadsServer DEF Reads, ClientReads
<1>5. CASE Fault
  <2>1. cl' = cl /\ sv' = sv /\ toC' \in Seq(Blocks)
    BY <1>2, <1>5, FaultSteps
  <2>2. QED
    BY <1>1, <1>2, <2>1 DEF Reads, ServerReads, ClientReads
<1>6. CASE UNCHANGED vars
  BY <1>1, <1>2, <1>6 DEF vars, Reads, ServerReads, ClientReads
<1>7. QED
  BY <1>3, <1>4, <1>5, <1>6, Steps

(* What tftpread copies to its caller is the file, as long as the file has *)
(* no two blocks with the same number on the wire: nothing that the        *)
(* network loses, repeats or delays and nothing that either end sends      *)
(* twice puts a wrong block into the buffer, or ends the file early.       *)
THEOREM ReadRightCorrect == Spec => [](Short => ReadRight)
<1>1. Init => (Short => Reads)
  BY ReadsStart
<1>2. IInv /\ IInv' /\ (Short => Reads) /\ [Next]_vars => (Short => Reads)'
  BY ReadsNext
<1>3. IInv /\ (Short => Reads) => (Short => ReadRight)
  <2> SUFFICES ASSUME IInv, Reads, job.op = "RRQ", cl.fail = "no", cl.pc \in {"user", "loop"}
               PROVE  /\ cl.end = min(job.len, cl.start + SEG) \/ cl.start = cl.end
                      /\ cl.start < cl.end => cl.buf = cl.start
                      /\ cl.start = cl.end => cl.start = job.len
    BY DEF ReadRight
  <2>1. \/ /\ cl.start <= job.len /\ cl.buf = cl.start
           /\ cl.end = min(job.len, cl.start + SEG)
        \/ cl.start = job.len /\ cl.end = job.len
    BY DEF Reads, ClientReads
  <2>2. QED
    BY <2>1, PlaysFacts DEF min
<1>4. QED
  BY <1>1, <1>2, <1>3, Invariance, PTL DEF Spec

LEMMA NoAck ==
  ASSUME NEW m \in Packets, m.op # "ACK"
  PROVE  m \in Acks
BY DEF Acks, AckRight

LEMMA Joined ==
  ASSUME NEW f \in Seq(Nat), NEW u \in Seq(Nat),
         \A i \in 1 .. Len(f) : f[i] = i - 1,
         \A i \in 1 .. Len(u) : u[i] = Len(f) + i - 1
  PROVE  /\ f \o u \in Seq(Nat) /\ Len(f \o u) = Len(f) + Len(u)
         /\ \A i \in 1 .. Len(f) + Len(u) : (f \o u)[i] = i - 1
<1>1. f \o u \in Seq(Nat)
  BY ConcatProperties, Zenon
<1>2. Len(f \o u) = Len(f) + Len(u) /\ Len(f) \in Nat /\ Len(u) \in Nat
  OBVIOUS
<1>3. ASSUME NEW i \in 1 .. Len(f) + Len(u) PROVE (f \o u)[i] = i - 1
  <2>1. i \in Int /\ (i <= Len(f) \/ i > Len(f))
    BY <1>2
  <2>2. CASE i <= Len(f)
    <3>1. i \in 1 .. Len(f)
      BY <1>2, <2>2
    <3>2. (f \o u)[i] = f[i]
      BY <3>1
    <3>3. QED
      BY <3>1, <3>2
  <2>3. CASE i > Len(f)
    <3>1. i - Len(f) \in 1 .. Len(u) /\ Len(f) + (i - Len(f)) = i
      BY <1>2, <2>3
    <3>2. (f \o u)[i] = u[i - Len(f)]
      BY <1>2, <2>3
    <3>3. u[i - Len(f)] = Len(f) + (i - Len(f)) - 1
      BY <3>1
    <3>4. QED
      BY <3>1, <3>2, <3>3
  <2>4. QED
    BY <2>1, <2>2, <2>3
<1>4. QED
  BY <1>1, <1>2, <1>3

LEMMA SourceFacts ==
  ASSUME job.len \in Nat
  PROVE  Source \in Seq(Int) /\ Len(Source) = job.len /\ \A i \in 1 .. job.len : Source[i] = i - 1
BY DEF Source

(* A block that follows what the file has makes it longer by its units.    *)
LEMMA Extends ==
  ASSUME file \in Seq(Nat), job.len \in Nat, Prefix, NEW len \in Nat, NEW from \in Nat,
         from = Len(file), from + len <= job.len, file' = file \o Unit(from, len), job' = job
  PROVE  Prefix' /\ Len(file') = from + len /\ (from + len = job.len => file' = Source)
<1> DEFINE u == Unit(from, len)
<1>1. u \in Seq(Nat) /\ Len(u) = len /\ \A i \in 1 .. len : u[i] = from + i - 1
  BY UnitFacts
<1> HIDE DEF u
<1>2. file' = file \o u
  BY DEF u
<1>a. (\A i \in 1 .. Len(file) : file[i] = i - 1) /\ \A i \in 1 .. Len(u) : u[i] = Len(file) + i - 1
  BY <1>1 DEF Prefix
<1>b. /\ file \o u \in Seq(Nat) /\ Len(file \o u) = Len(file) + Len(u)
      /\ \A i \in 1 .. Len(file) + Len(u) : (file \o u)[i] = i - 1
  BY <1>1, <1>a, Joined, Zenon
<1>3. Len(file') = from + len /\ file' \in Seq(Nat)
  BY <1>1, <1>2, <1>b, Zenon
<1>4. \A i \in 1 .. from + len : file'[i] = i - 1
  BY <1>1, <1>2, <1>b, Zenon
<1>5. Prefix'
  BY <1>3, <1>4 DEF Prefix
<1>6. from + len = job.len => file' = Source
  <2>1. SUFFICES ASSUME from + len = job.len PROVE file' = Source
    OBVIOUS
  <2>2. Source \in Seq(Int) /\ Len(Source) = job.len /\ \A i \in 1 .. job.len : Source[i] = i - 1
    BY SourceFacts
  <2>3. file' \in Seq(Int)
    BY <1>3, Widen
  <2>4. Len(file') = Len(Source)
    BY <1>3, <2>1, <2>2
  <2>5. \A i \in 1 .. Len(file') : file'[i] = Source[i]
    BY <1>3, <1>4, <2>1, <2>2
  <2>6. QED
    BY <2>2, <2>3, <2>4, <2>5, SeqEqual, Zenon
<1>7. QED
  BY <1>3, <1>5, <1>6

(* What the server has acknowledged it still has. *)
LEMMA AcksKeep ==
  ASSUME job' = job, Whole => Whole', NEW q \in Seq(Acks)
  PROVE  q \in Seq(Acks')
<1>1. Acks \subseteq Acks'
  BY DEF Acks, AckRight, Packets
<1>2. QED
  BY <1>1, Widen

LEMMA WritesServer ==
  ASSUME IInv, Short, Writes, ServerStep, job.op = "WRQ", ~Told
  PROVE  Writes'
<1>1. /\ job \in Jobs /\ job' = job /\ cl' = cl /\ job.len \in Nat /\ SEG \in Nat \ {0}
      /\ sv \in Servers /\ sv.port \in 0 .. 2 /\ sv.block \in Nat
      /\ file \in Seq(Nat) /\ toS \in Seq(Blocks) /\ toC \in Seq(Acks)
      /\ Prefix /\ ServerWrites /\ ClientWrites /\ (cl.pc = "done" /\ cl.fail = "no" => Whole)
      /\ (sv.pc = "last" => Whole /\ Start(sv.block) <= job.len)
  BY JobFacts, Constant
     DEF IInv, Server, Runs, Servers, File, ServerStep, client, Writes
<1>2. ClientWrites'
  BY <1>1 DEF ClientWrites, DataRight
<1>3. toS' \in Seq(Blocks')
  <2>1. toS' \in Seq(Blocks)
    BY <1>1, ServerRuns, Kinds
  <2>2. Blocks' = Blocks
    BY <1>1 DEF Blocks, DataRight, Packets
  <2>3. QED
    BY <2>1, <2>2
<1>4. SUFFICES /\ Prefix' /\ ServerWrites' /\ toC' \in Seq(Acks') /\ (Whole => Whole')
               /\ sv'.pc = "last" => Whole' /\ Start(sv'.block) <= job.len
  BY <1>1, <1>2, <1>3 DEF Writes
<1>5. ASSUME NEW n \in Nat
      PROVE  /\ Bare("ACK", n, sv.port) \in Packets /\ Bare("ACK", n, sv.port).n = n
             /\ Bare("ERROR", n, sv.port) \in Acks
  <2>1. sv.port \in 0 .. 2
    BY <1>1
  <2>2. Bare("ACK", n, sv.port) \in Packets /\ Bare("ACK", n, sv.port).n = n
    BY <2>1, BareFacts
  <2>3. Bare("ERROR", n, sv.port) \in Packets /\ Bare("ERROR", n, sv.port).op = "ERROR"
    BY <2>1, BareFacts
  <2>4. Bare("ERROR", n, sv.port) \in Acks
    BY <2>3, NoAck
  <2>5. QED
    BY <2>2, <2>4
<1>6. CASE sv' = sv /\ file' = file /\ stored' = stored /\ toC' = toC
  <2>1. Whole' = Whole /\ Acks' = Acks
    BY <1>1, <1>6 DEF Whole, Source, Acks, AckRight, Packets
  <2>2. QED
    BY <1>1, <1>6, <2>1 DEF Prefix, ServerWrites
<1>7. CASE Repeats
  <2>1. /\ sv.pc = "busy" /\ sv' = sv /\ file' = file /\ stored' = stored
        /\ toC' = Put(toC, Ack(sv))
    BY <1>7 DEF Repeats, Answer
  <2>2. sv.block > 0
    BY <2>1 DEF IInv, Server, Runs
  <2>3. /\ Ack(sv) \in Packets /\ Ack(sv).n = sv.block - 1
    BY <1>1, <2>2, AckFacts
  <2>4. sv.block - 1 \in Nat /\ (sv.block - 1) + 1 = sv.block
    BY <1>1, <2>2
  <2>5. Start(sv.block) = Len(file) /\ Len(file) <= job.len /\ Len(file) \in Nat
    BY <1>1, <2>1 DEF ServerWrites, Prefix
  <2>6. Start(sv.block) = Start(sv.block - 1) + SEG /\ Start(sv.block - 1) \in Int
    BY <2>4, StartFacts
  <2>7. Start(sv.block - 1) <= job.len /\ Start((sv.block - 1) + 1) <= job.len
    BY <1>1, <2>4, <2>5, <2>6
  <2>8. Ack(sv) \in Acks
    BY <2>3, <2>7 DEF Acks, AckRight
  <2>9. Whole' = Whole /\ Acks' = Acks
    BY <1>1, <2>1 DEF Whole, Source, Acks, AckRight, Packets
  <2>10. QED
    BY <1>1, <2>1, <2>8, <2>9, PutFacts DEF Prefix, ServerWrites
<1>8. CASE /\ sv' \in {[Idle EXCEPT !.pc = "off"], Listening(sv)}
           /\ file' = file /\ stored' = stored
           /\ toC' \in {toC, Put(toC, Bare("ERROR", sv.block, sv.port))}
  <2>1. Whole' = Whole /\ Acks' = Acks
    BY <1>1, <1>8 DEF Whole, Source, Acks, AckRight, Packets
  <2>2. sv'.pc \in {"listen", "off"}
    BY <1>1, <1>8, ListeningFacts
  <2>3. toC' \in Seq(Acks')
    BY <1>1, <1>5, <1>8, <2>1, PutFacts
  <2>4. QED
    BY <1>1, <1>8, <2>1, <2>2, <2>3 DEF Prefix, ServerWrites
<1>9. CASE Begins
  <2>1. /\ sv' = rw_init(Accepting("WRQ"), 0) /\ toC' = Put(toC, Bare("ACK", 0, sv.port))
        /\ file' = <<>> /\ stored' = stored
    BY <1>1, <1>9 DEF Begins
  <2>2. sv'.block = 1 /\ sv'.pc = "busy"
    BY <1>1, <2>1, AcceptFacts
  <2>3. Whole' = Whole /\ Acks' = Acks
    BY <1>1, <2>1 DEF Whole, Source, Acks, AckRight, Packets
  <2>4. Start(0) <= 0 /\ Start(1) = 0 /\ Start(0) \in Int /\ 0 + 1 = 1
    BY StartFacts
  <2>5. Start(0) <= job.len /\ Start(0 + 1) <= job.len
    BY <1>1, <2>4
  <2>6. Bare("ACK", 0, sv.port) \in Acks
    BY <1>5, <2>5 DEF Acks, AckRight
  <2>7. toC' \in Seq(Acks')
    BY <1>1, <2>1, <2>3, <2>6, PutFacts
  <2>8. Prefix'
    BY <1>1, <2>1 DEF Prefix
  <2>9. ServerWrites'
    BY <2>1, <2>2, <2>4 DEF ServerWrites
  <2>10. QED
    BY <2>2, <2>3, <2>7, <2>8, <2>9
<1>10. CASE WritesNext \/ WritesLast
  <2> DEFINE m == Head(toS)
  <2>1. /\ sv.pc = "busy" /\ toS # <<>> /\ m.op = "DATA" /\ Same(m.n, sv.block)
        /\ file' = file \o Unit(m.from, m.len)
    BY <1>10 DEF WritesNext, WritesLast, Hears, Takes
  <2>2. m \in Blocks
    BY <1>1, <2>1, TakeFacts
  <2>3. /\ m \in Packets /\ m.n \in Nat /\ m.from \in Nat /\ m.len \in Nat
        /\ m.from = Start(m.n) /\ m.from <= job.len
        /\ m.len = min(SEG, job.len - m.from)
    BY <1>1, <2>1, <2>2 DEF Blocks, DataRight, Packets
  <2>4. /\ Len(file) = Start(sv.block) /\ Len(file) <= job.len /\ Len(file) \in Nat
        /\ sv.block > 0
    BY <1>1, <2>1 DEF ServerWrites, Prefix, IInv, Server, Runs
  <2>5. m.n = sv.block
    BY <1>1, <2>1, <2>3, <2>4, Distinct
  <2>6. m.from = Len(file) /\ m.from + m.len <= job.len
    BY <1>1, <2>3, <2>4, <2>5 DEF min
  <2>7. Prefix' /\ Len(file') = m.from + m.len /\ (m.from + m.len = job.len => file' = Source)
    BY <1>1, <2>1, <2>3, <2>6, Extends
  <2>8. Start(sv.block + 1) = Start(sv.block) + SEG /\ Start(sv.block) \in Int
    BY <1>1, StartFacts
  <2>9. CASE WritesNext
    <3>1. /\ sv' = write_behind(Turned(sv, m)).s /\ m.len = SEG /\ stored' = stored
          /\ toC' = Put(toC, Bare("ACK", sv.block, sv.port))
      BY <2>9 DEF WritesNext
    <3>2. Writing(sv)
      BY <1>1, <2>1 DEF IInv, Server, Runs
    <3>3. sv'.block = sv.block + 1 /\ sv'.pc = "busy"
      BY <1>1, <2>1, <2>3, <3>1, <3>2, TurnedFacts
    <3>4. Start(sv.block) <= job.len /\ Start(sv.block + 1) <= job.len
          /\ Len(file') = Start(sv.block + 1)
      BY <1>1, <2>3, <2>4, <2>6, <2>7, <2>8, <3>1
    <3>5. Whole' = Whole /\ Acks' = Acks
      BY <1>1, <3>1 DEF Whole, Source, Acks, AckRight, Packets
    <3>6. Bare("ACK", sv.block, sv.port) \in Acks
      BY <1>1, <1>5, <3>4 DEF Acks, AckRight
    <3>7. toC' \in Seq(Acks')
      BY <1>1, <3>1, <3>5, <3>6, PutFacts
    <3>8. QED
      BY <2>7, <3>3, <3>4, <3>5, <3>7 DEF ServerWrites
  <2>10. CASE WritesLast /\ job.crc = "bad"
    <3>1. sv' = Listening(sv) /\ toC' = Put(toC, Bare("ERROR", sv.block, sv.port))
      BY <2>10 DEF WritesLast
    <3>2. sv'.pc = "listen" /\ ~Whole
      BY <1>1, <2>10, <3>1, ListeningFacts DEF Whole
    <3>3. toC \in Seq(Acks')
      BY <1>1, <3>2, AcksKeep
    <3>4. Bare("ERROR", sv.block, sv.port) \in Acks'
      <4>1. Bare("ERROR", sv.block, sv.port) \in Packets
            /\ Bare("ERROR", sv.block, sv.port).op = "ERROR"
        BY <1>1, BareFacts
      <4>2. QED
        BY <4>1 DEF Acks, AckRight, Packets
    <3>5. toC' \in Seq(Acks')
      BY <3>1, <3>3, <3>4, PutFacts
    <3>6. QED
      BY <2>7, <3>2, <3>5 DEF ServerWrites
  <2>11. CASE WritesLast /\ job.crc # "bad"
    <3> DEFINE g == write_behind(Received(sv, m).s).s
    <3>1. /\ m.len # SEG /\ stored' = file' /\ sv' = [g EXCEPT !.pc = "last"]
          /\ toC' = Put(toC, Bare("ACK", sv.block, sv.port))
      BY <2>11 DEF WritesLast
    <3>2. Writing(sv)
      BY <1>1, <2>1 DEF IInv, Server, Runs
    <3>3. g \in Servers /\ g.block = sv.block
      BY <1>1, <2>1, <2>3, <3>2, TurnedFacts
    <3> HIDE DEF g
    <3>4. sv'.pc = "last" /\ sv'.block = sv.block
      BY <3>1, <3>3 DEF Servers
    <3>5. m.from + m.len = job.len
      BY <1>1, <2>3, <3>1 DEF min
    <3>6. Whole'
      <4>1. stored' = Source /\ job'.crc # "bad" /\ Source' = Source
        BY <1>1, <2>7, <2>11, <3>1, <3>5 DEF Source
      <4>2. QED
        BY <4>1 DEF Whole
    <3>7. toC \in Seq(Acks')
      BY <1>1, <3>6, AcksKeep
    <3>8. Bare("ACK", sv.block, sv.port) \in Acks'
      <4>1. Start(sv.block) <= job'.len
        BY <1>1, <2>4
      <4>2. Bare("ACK", sv.block, sv.port) \in Packets
            /\ Bare("ACK", sv.block, sv.port).n = sv.block
        BY <1>1, <1>5
      <4>3. QED
        BY <3>6, <4>1, <4>2 DEF Acks, AckRight, Packets, Start
    <3>9. toC' \in Seq(Acks')
      BY <3>1, <3>7, <3>8, PutFacts
    <3>10. Start(sv'.block) <= job.len
      BY <2>4, <3>4
    <3>11. QED
      BY <2>7, <3>4, <3>6, <3>9, <3>10 DEF ServerWrites
  <2>12. QED
    BY <1>10, <2>9, <2>10, <2>11
<1>11. CASE Leaves
  <2>1. /\ sv.pc = "last" /\ file' = file /\ stored' = stored
        /\ sv' \in {[Idle EXCEPT !.pc = "off"], Listening(sv)}
        /\ toC' \in {toC, Put(toC, Bare("ACK", sv.block, sv.port))}
    BY <1>11 DEF Leaves
  <2>2. sv'.pc \in {"listen", "off"}
    BY <1>1, <2>1, ListeningFacts
  <2>3. Whole' = Whole /\ Acks' = Acks
    BY <1>1, <2>1 DEF Whole, Source, Acks, AckRight, Packets
  <2>4. Bare("ACK", sv.block, sv.port) \in Acks
    BY <1>1, <1>5, <2>1 DEF Acks, AckRight
  <2>5. toC' \in Seq(Acks')
    BY <1>1, <2>1, <2>3, <2>4, PutFacts
  <2>6. QED
    BY <1>1, <2>1, <2>2, <2>3, <2>5 DEF Prefix, ServerWrites
<1>12. QED
  BY <1>6, <1>7, <1>8, <1>9, <1>10, <1>11, <1>1
     DEF ServerStep, Skips, Refuses, Ends, SendsNext

(* A request that is a block of the file carries it wherever it is sent. *)
LEMMA BlockSent ==
  ASSUME IInv, cl' \in Clients, DataRight(cl'.req), toS \in Seq(Blocks), Asks
  PROVE  toS' \in Seq(Blocks)
<1> DEFINE m == [cl'.req EXCEPT !.port = cl'.port]
<1>1. cl'.req \in Packets /\ cl'.port \in 0 .. 2
  BY DEF Clients
<1>2. /\ m \in Packets /\ m.op = cl'.req.op /\ m.n = cl'.req.n /\ m.from = cl'.req.from
      /\ m.len = cl'.req.len
  BY <1>1, Readdressed
<1>3. toS' = Put(toS, m)
  BY DEF Asks
<1> HIDE DEF m
<1>4. m \in Blocks
  BY <1>2 DEF Blocks, DataRight
<1>5. QED
  BY <1>3, <1>4, PutFacts

LEMMA WritesClient ==
  ASSUME IInv, Short, Writes, ClientStep, job.op = "WRQ"
  PROVE  Writes'
<1>1. /\ job \in Jobs /\ job' = job /\ job.len \in Nat /\ SEG \in Nat \ {0}
      /\ sv' = sv /\ file' = file /\ stored' = stored /\ Plays(cl') /\ cl' \in Clients
      /\ cl.block \in Nat /\ cl.end \in Nat /\ cl.foffs \in Nat
  BY PlaysFacts DEF ClientStep, server, Plays
<1>2. Whole' = Whole /\ Acks' = Acks /\ Blocks' = Blocks
  BY <1>1 DEF Whole, Source, Acks, AckRight, Packets, Blocks, DataRight
<1>3. SUFFICES ASSUME ~Told' PROVE Writes'
  BY DEF Writes
<1>4. ~Told
  BY <1>3 DEF Told, ClientStep, Opens, Moves, AcksLast, AsksNext, SendsFull, HangsUp, SendsRest,
              AsksAgain, Fails, Accepts, Answered, SendsEmpty, Breaks, Drops, Held
<1>5. /\ Prefix /\ ServerWrites /\ ClientWrites
      /\ toS \in Seq(Blocks) /\ toC \in Seq(Acks)
      /\ (sv.pc = "last" => Whole /\ Start(sv.block) <= job.len)
      /\ (cl.pc = "done" /\ cl.fail = "no" => Whole) /\ (cl.fail # "no" => cl.pc = "done")
  BY <1>4 DEF Writes
<1>6. toC' \in Seq(Acks)
  BY <1>5, ClientSends, Kinds
<1>7. SUFFICES /\ toS' \in Seq(Blocks) /\ ClientWrites'
               /\ cl'.pc = "done" /\ cl'.fail = "no" => Whole
               /\ cl'.fail # "no" => cl'.pc = "done"
  <2>1. SUFFICES ASSUME toS' \in Seq(Blocks), ClientWrites',
                        cl'.pc = "done" /\ cl'.fail = "no" => Whole,
                        cl'.fail # "no" => cl'.pc = "done"
                 PROVE  Writes'
    BY <1>7
  <2>2. Prefix' /\ ServerWrites'
    BY <1>1, <1>5 DEF Prefix, ServerWrites
  <2>3. sv'.pc = "last" => Whole' /\ Start(sv'.block) <= job'.len
    BY <1>1, <1>2, <1>5
  <2>4. toS' \in Seq(Blocks') /\ toC' \in Seq(Acks') /\ (cl'.pc = "done" /\ cl'.fail = "no" => Whole')
    BY <1>2, <1>6, <2>1
  <2>5. Start(sv.block)' = Start(sv'.block)
    BY DEF Start
  <2>6. QED
    BY <2>1, <2>2, <2>3, <2>4, <2>5 DEF Writes
<1>8. Start(1) = 0 /\ Start(cl.block) \in Int /\ Start(cl.block + 1) = Start(cl.block) + SEG
  <2>1. cl.block \in Nat
    BY <1>1
  <2>2. QED
    BY ONLY <2>1, StartFacts
<1>18. CASE cl.fail # "no"
  <2>1. cl.pc = "done"
    BY <1>5, <1>18
  <2>2. UNCHANGED <<cl, toS>>
    BY <1>3, <2>1 DEF ClientStep, Opens, Moves, AcksLast, AsksNext, SendsFull, HangsUp, SendsRest,
              AsksAgain, Fails, Accepts, Answered, SendsEmpty, Breaks, Drops, Held, Has, Told
  <2>3. QED
    BY <1>1, <1>5, <1>18, <2>1, <2>2 DEF ClientWrites
<1>19. CASE Fails /\ cl.fail = "no"
  <2>1. toS' = toS /\ cl'.pc = "done" /\ cl'.fail # "no"
    BY <1>3, <1>19 DEF Fails
  <2>2. QED
    BY <1>5, <2>1 DEF ClientWrites
<1>20. cl.fail = "no" /\ ClientStep /\ ~Fails /\ ~Breaks => cl'.fail = "no"
  BY DEF ClientStep, Opens, Moves, AcksLast, AsksNext, SendsFull, HangsUp, SendsRest,
         AsksAgain, Accepts, Answered, SendsEmpty, Drops, Held
<1>21. ~Breaks
  BY <1>3 DEF Breaks, Told
<1> SUFFICES ASSUME cl.fail = "no", cl'.fail = "no", ~Fails
             PROVE  /\ toS' \in Seq(Blocks) /\ ClientWrites'
                    /\ cl'.pc = "done" /\ cl'.fail = "no" => Whole
                    /\ cl'.fail # "no" => cl'.pc = "done"
  BY <1>18, <1>19, <1>20, <1>21
<1>9. CASE Opens
  <2>1. /\ cl.pc = "start" /\ Asks /\ cl'.why = "open" /\ cl'.end = cl.end
        /\ cl'.foffs = cl.foffs /\ cl'.pc = "wait"
    BY <1>9 DEF Opens, Asks
  <2>2. cl.end = 0 /\ cl.foffs = 0
    BY <2>1, PlaysFacts DEF Plays
  <2>3. cl'.req = Bare("WRQ", 0, 0) /\ cl'.block = cl'.req.n + 0
    BY <1>1, <2>1 DEF Plays
  <2>4. cl'.block = 0 /\ cl'.req.op = "WRQ"
    BY <2>3 DEF Bare, Packet
  <2>5. DataRight(cl'.req) /\ DataRight(cl.req)'
    BY <2>4 DEF DataRight
  <2>6. toS' \in Seq(Blocks)
    BY <1>1, <1>5, <2>1, <2>5, BlockSent
  <2>7. QED
    BY <2>1, <2>2, <2>4, <2>5, <2>6 DEF ClientWrites
<1>10. CASE Moves
  <2>1. /\ cl.pc \in {"user", "loop"} /\ cl'.pc \in {"user", "loop"}
        /\ cl'.block = cl.block /\ toS' = toS
        /\ cl'.foffs - cl'.end = cl.foffs - cl.end
        /\ cl'.end = cl.end \/ cl'.end < SEG
    BY <1>10 DEF Moves
  <2>2. cl.foffs - cl.end = Start(cl.block + 1) /\ cl.end < SEG
    BY <1>5, <2>1 DEF ClientWrites
  <2>3. QED
    BY <1>5, <2>1, <2>2 DEF ClientWrites, Start
<1>11. CASE SendsFull
  <2>1. /\ cl.pc = "loop" /\ Asks /\ cl'.pc = "wait" /\ cl'.why = "write"
        /\ cl'.block = cl.block + 1 /\ cl'.end = SEG
        /\ cl'.foffs - cl'.end = cl.foffs - cl.end
        /\ cl'.req = Packet("DATA", cl'.block, cl'.foffs - cl'.end, SEG, 0)
    BY <1>11 DEF SendsFull, Asks
  <2>2. cl.foffs - cl.end = Start(cl.block + 1)
    BY <1>5, <2>1 DEF ClientWrites
  <2>3. cl'.foffs <= job.len /\ cl'.foffs \in Nat
    BY <1>1 DEF Plays, Clients
  <2>4. /\ cl'.req.n = cl'.block /\ cl'.req.from = cl'.foffs - cl'.end /\ cl'.req.len = SEG
    BY <2>1 DEF Packet
  <2>5. cl'.block > 0 /\ cl'.foffs - cl'.end = Start(cl'.block)
        /\ cl'.foffs - cl'.end <= job.len
        /\ SEG = min(SEG, job.len - (cl'.foffs - cl'.end))
    BY <1>1, <2>1, <2>2, <2>3 DEF min
  <2>6. DataRight(cl'.req) /\ DataRight(cl.req)'
    BY <1>1, <2>4, <2>5 DEF DataRight, Start, min
  <2>7. toS' \in Seq(Blocks)
    BY <1>1, <1>5, <2>1, <2>6, BlockSent
  <2>8. QED
    BY <2>1, <2>5, <2>6, <2>7 DEF ClientWrites, Start
<1>12. CASE SendsRest
  <2>1. /\ cl.pc = "user" /\ Asks /\ cl'.pc = "wait" /\ cl'.why = "close"
        /\ cl'.block = cl.block + 1 /\ cl'.end = cl.end /\ cl'.foffs = cl.foffs
        /\ cl'.req = Packet("DATA", cl'.block, cl.foffs - cl.end, cl.end, 0)
        /\ cl.foffs = job.len
    BY <1>12 DEF SendsRest, Asks
  <2>2. cl.foffs - cl.end = Start(cl.block + 1) /\ cl.end < SEG
    BY <1>5, <2>1 DEF ClientWrites
  <2>3. /\ cl'.req.n = cl'.block /\ cl'.req.from = cl.foffs - cl.end /\ cl'.req.len = cl.end
    BY <2>1 DEF Packet
  <2>4. /\ cl'.block > 0 /\ cl.foffs - cl.end = Start(cl'.block)
        /\ cl.foffs - cl.end <= job.len
        /\ cl.end = min(SEG, job.len - (cl.foffs - cl.end))
    BY <1>1, <2>1, <2>2 DEF min
  <2>5. DataRight(cl'.req) /\ DataRight(cl.req)'
    BY <1>1, <2>3, <2>4 DEF DataRight, Start, min
  <2>6. toS' \in Seq(Blocks)
    BY <1>1, <1>5, <2>1, <2>5, BlockSent
  <2>7. QED
    BY <1>1, <2>1, <2>2, <2>4, <2>5, <2>6 DEF ClientWrites, Start
<1>13. CASE AsksAgain
  <2>1. /\ cl.pc = "wait" /\ cl'.pc = "wait" /\ Asks /\ cl'.why = cl.why /\ cl'.req = cl.req
        /\ cl'.block = cl.block /\ cl'.end = cl.end /\ cl'.foffs = cl.foffs
    BY <1>13 DEF AsksAgain, Asks
  <2>2. DataRight(cl'.req) /\ DataRight(cl.req)'
    BY <1>1, <1>5, <2>1 DEF ClientWrites, DataRight, Start, min
  <2>3. toS' \in Seq(Blocks)
    BY <1>1, <1>5, <2>1, <2>2, BlockSent
  <2>4. QED
    BY <1>1, <1>5, <2>1, <2>2, <2>3 DEF ClientWrites, Start
<1>14. CASE Accepts
  <2> DEFINE m == Head(toC)
  <2>1. /\ cl.pc = "wait" /\ toC # <<>> /\ m.op # "ERROR" /\ Same(m.n, cl.block)
        /\ toS' = toS /\ cl'.block = cl.block
    BY <1>14 DEF Accepts, Answered, Has
  <2>2. CASE cl.why = "open" /\ cl'.pc = "user" /\ cl'.end = cl.end /\ cl'.foffs = cl.foffs
    <3>1. cl.block = 0 /\ cl.foffs = 0 /\ cl.end = 0
      BY <1>5, <2>1, <2>2 DEF ClientWrites
    <3>2. cl'.block + 1 = 1 /\ cl'.foffs - cl'.end = 0 /\ cl'.end < SEG
      BY <1>1, <2>1, <2>2, <3>1
    <3>3. cl'.foffs - cl'.end = Start(cl'.block + 1)
      BY <1>8, <3>2
    <3>4. QED
      BY <1>5, <2>1, <2>2, <3>2, <3>3 DEF ClientWrites, Start
  <2>3. CASE cl.why = "write" /\ cl'.pc = "loop" /\ cl'.end = 0 /\ cl'.foffs = cl.foffs
    <3>1. cl.foffs - cl.end = Start(cl.block) /\ cl.end = SEG
      BY <1>5, <2>1, <2>3 DEF ClientWrites
    <3>2. cl'.foffs - cl'.end = Start(cl'.block + 1) /\ cl'.end < SEG
      BY <1>1, <1>8, <2>1, <2>3, <3>1
    <3>3. QED
      BY <1>5, <2>1, <2>3, <3>2 DEF ClientWrites, Start
  <2>4. CASE cl.why = "close" /\ cl'.pc = "done"
    <3>1. cl.foffs - cl.end = Start(cl.block) /\ cl.foffs = job.len /\ cl.end < SEG
      BY <1>5, <2>1, <2>4 DEF ClientWrites
    <3>2. m \in Acks /\ m \in ToClient
      BY <1>5, <2>1, TakeFacts DEF IInv, Nets
    <3>3. m.n \in Nat /\ m.op = "ACK"
      BY <2>1, <3>2 DEF ToClient, Packets
    <3>4. Start(m.n) <= job.len /\ (Start(m.n + 1) <= job.len \/ Whole)
      BY <3>2, <3>3 DEF Acks, AckRight
    <3>5. Start(cl.block) <= job.len
      BY <1>1, <3>1
    <3>6. m.n = cl.block
      BY <1>1, <2>1, <3>3, <3>4, <3>5, Distinct
    <3>7. Whole
      BY <1>1, <1>8, <3>1, <3>4, <3>6
    <3>8. QED
      BY <1>5, <2>1, <2>4, <3>7 DEF ClientWrites
  <2>5. cl.why # "empty"
    BY <1>5, <2>1 DEF ClientWrites
  <2>6. QED
    BY <1>14, <2>2, <2>3, <2>4, <2>5 DEF Accepts
<1>15. CASE SendsEmpty
  <2>1. cl.pc = "wait" /\ cl.why = "close" /\ cl.end = SEG
    BY <1>15 DEF SendsEmpty, Answered, Has
  <2>2. QED
    BY <1>1, <1>5, <2>1 DEF ClientWrites
<1>16. CASE Drops
  BY <1>1, <1>5, <1>16 DEF Drops, ClientWrites, DataRight, Start, min
<1>17. QED
  BY <1>9, <1>10, <1>11, <1>12, <1>13, <1>14, <1>15, <1>16, <1>21
     DEF ClientStep, AcksLast, AsksNext, HangsUp

LEMMA WritesStart == Init => Writes
<1> SUFFICES ASSUME Init PROVE Writes
  OBVIOUS
<1>1. toC = <<>> /\ toS = <<>> /\ sv = Idle /\ job \in Jobs /\ file = <<>>
  BY DEF Init
<1>2. cl.pc = "start" /\ cl.end = 0 /\ cl.foffs = 0 /\ cl.fail = "no"
  BY DEF Init
<1>3. sv.pc = "listen" /\ job.len \in Nat
  BY <1>1, IdleFacts, JobFacts
<1>4. toC \in Seq(Acks) /\ toS \in Seq(Blocks) /\ Prefix
  BY <1>1, <1>3, NothingSent DEF Prefix
<1>5. ServerWrites /\ ClientWrites
  BY <1>2, <1>3 DEF ServerWrites, ClientWrites
<1>6. QED
  BY <1>2, <1>3, <1>4, <1>5 DEF Writes

LEMMA WritesStep == IInv /\ (Short => Writes) /\ [Next]_vars => (Short => Writes)'
<1> SUFFICES ASSUME IInv, Short => Writes, [Next]_vars, Short', job'.op = "WRQ",
                    ~Told'
             PROVE  Writes'
  BY DEF Writes
<1>1. job' = job
  <2>1. Next => job' = job
    BY Steps, FaultSteps DEF ClientStep, server, ServerStep, client
  <2>2. QED
    BY <2>1 DEF vars
<1>2. Short /\ Writes /\ job.op = "WRQ"
  BY <1>1 DEF Short
<1>3. CASE ClientStep
  BY <1>2, <1>3, WritesClient
<1>4. CASE ServerStep
  <2>1. ~Told
    BY <1>4 DEF ServerStep, client, Told
  <2>2. QED
    BY <1>2, <1>4, <2>1, WritesServer
<1>5. CASE UNCHANGED <<cl, sv, file, stored>> /\ (toS \in Seq(Blocks) => toS' \in Seq(Blocks))
           /\ (toC \in Seq(Acks) => toC' \in Seq(Acks))
  <2>1. Whole' = Whole /\ Acks' = Acks /\ Blocks' = Blocks
    BY <1>1, <1>5 DEF Whole, Source, Acks, AckRight, Packets, Blocks, DataRight
  <2>2. Prefix' = Prefix /\ ServerWrites' = ServerWrites /\ ClientWrites' = ClientWrites
    BY <1>1, <1>5 DEF Prefix, ServerWrites, ClientWrites, DataRight
  <2>3. QED
    BY <1>1, <1>2, <1>5, <2>1, <2>2 DEF Writes, Told
<1>6. CASE Fault
  BY <1>5, <1>6, FaultSteps
<1>7. CASE UNCHANGED vars
  BY <1>5, <1>7 DEF vars
<1>8. QED
  BY <1>3, <1>4, <1>6, <1>7, Steps

(* What the server has written is the beginning of the file, in order,     *)
(* with no block twice and none left out, as long as the writer has been   *)
(* told of no failure, and the whole file is stored once every block was   *)
(* acknowledged, as long as the file has no two blocks with the same       *)
(* number on the wire: the final acknowledgement stands for a file that is *)
(* closed and, for an upload to memory, checked.                           *)
THEOREM WriteRightCorrect == Spec => [](Short => WriteRight)
<1>1. Init => (Short => Writes)
  BY WritesStart
<1>2. IInv /\ (Short => Writes) /\ [Next]_vars => (Short => Writes)'
  BY WritesStep
<1>3. IInv /\ (Short => Writes) => (Short => WriteRight)
  <2> SUFFICES ASSUME IInv, Writes, ~Told
               PROVE  /\ IsPrefix(file, Source)
                      /\ job.op = "WRQ" /\ cl.pc = "done" /\ cl.fail = "no" => stored = Source
    BY DEF WriteRight, Told
  <2>1. job.op \in {"RRQ", "WRQ"} /\ job.len \in Nat /\ file \in Seq(Nat)
    BY PlaysFacts DEF IInv, File
  <2>2. Len(file) <= job.len /\ \A i \in 1 .. Len(file) : file[i] = i - 1
    <3>1. CASE job.op = "RRQ"
      BY <2>1, <3>1 DEF IInv, File
    <3>2. CASE job.op = "WRQ"
      BY <3>2 DEF Writes, Prefix
    <3>3. QED
      BY <2>1, <3>1, <3>2
  <2>3. Source \in Seq(Int) /\ Len(Source) = job.len /\ \A i \in 1 .. job.len : Source[i] = i - 1
    BY <2>1, SourceFacts
  <2>4. file \in Seq(Int) /\ Len(file) \in Nat
    BY <2>1, Widen
  <2> HIDE DEF Source
  <2>5. IsPrefix(file, Source)
    <3> DEFINE n == Len(file)
               a == SubSeq(file, 1, n)
               b == SubSeq(Source, 1, n)
    <3>1. /\ a \in Seq(Int) /\ Len(a) = n /\ \A i \in 1 .. n : a[i] = file[i]
      BY <2>4
    <3>2. /\ b \in Seq(Int) /\ Len(b) = n /\ \A i \in 1 .. n : b[i] = Source[i]
      BY <2>2, <2>3, <2>4
    <3>3. \A i \in 1 .. n : a[i] = b[i]
      BY <2>1, <2>2, <2>3, <3>1, <3>2
    <3> HIDE DEF a, b
    <3>4. a = b
      BY <3>1, <3>2, <3>3, SeqEqual, Zenon
    <3>5. Len(file) <= Len(Source)
      BY <2>2, <2>3
    <3>6. QED
      BY <3>4, <3>5 DEF a, b, IsPrefix
  <2>6. job.op = "WRQ" /\ cl.pc = "done" /\ cl.fail = "no" => stored = Source
    BY DEF Writes, Whole
  <2>7. QED
    BY <2>5, <2>6
<1>4. QED
  BY <1>1, <1>2, <1>3, Invariance, PTL DEF Spec
-----------------------------------------------------------------------------
(* The order of the packets when the network disturbs nothing.             *)

LEMMA Numbered ==
  ASSUME NEW q \in Seq(Packets)
  PROVE  \A i \in 1 .. Len(q) : q[i].n \in Nat
<1>1. \A m \in Packets : m.n \in Nat
  BY DEF Packets
<1>2. \A i \in 1 .. Len(q) : q[i] \in Packets
  OBVIOUS
<1>3. QED
  BY <1>1, <1>2

LEMMA ClimbsPut ==
  ASSUME NEW q \in Seq(Packets), NEW lo \in Int, NEW hi \in Int, NEW m \in Packets,
         NEW top \in Int, Climbs(q, lo, hi), lo <= m.n, hi <= m.n, m.n <= top
  PROVE  Climbs(Put(q, m), lo, top)
<1>1. Cap \in Nat /\ Len(q) \in Nat /\ m.n \in Nat /\ hi <= top
  BY Constant DEF Packets
<1>2. \A i \in 1 .. Len(q) : q[i].n \in Nat
  BY Numbered
<1>3. CASE Put(q, m) = q
  BY <1>1, <1>2, <1>3 DEF Climbs
<1>4. CASE Put(q, m) = Append(q, m)
  <2> DEFINE r == Append(q, m)
  <2>1. /\ Len(r) = Len(q) + 1 /\ r[Len(q) + 1] = m /\ \A i \in 1 .. Len(q) : r[i] = q[i]
    OBVIOUS
  <2> HIDE DEF r
  <2>2. \A i \in 1 .. Len(r) : i \in 1 .. Len(q) \/ i = Len(q) + 1
    BY <1>1, <2>1
  <2>3. \A i \in 1 .. Len(q) : lo <= r[i].n /\ r[i].n <= hi /\ r[i].n \in Nat
    BY <1>2, <2>1 DEF Climbs
  <2>4. ASSUME NEW i \in 1 .. Len(r) PROVE lo <= r[i].n /\ r[i].n <= top
    BY <1>1, <2>1, <2>2, <2>3
  <2>5. ASSUME NEW i \in 1 .. Len(r), NEW j \in 1 .. Len(r), i <= j PROVE r[i].n <= r[j].n
    <3>1. CASE j \in 1 .. Len(q)
      <4>1. i \in 1 .. Len(q)
        BY <1>1, <2>1, <2>5, <3>1
      <4>2. q[i].n <= q[j].n
        BY <2>5, <3>1, <4>1 DEF Climbs
      <4>3. QED
        BY <2>1, <3>1, <4>1, <4>2
    <3>2. CASE j = Len(q) + 1
      <4>1. r[j].n = m.n
        BY <2>1, <3>2
      <4>2. r[i].n <= m.n
        BY <1>1, <2>1, <2>2, <2>3
      <4>3. QED
        BY <4>1, <4>2
    <3>3. QED
      BY <2>2, <3>1, <3>2
  <2>6. QED
    BY <1>4, <2>4, <2>5 DEF Climbs, r
<1>5. QED
  BY <1>3, <1>4 DEF Put

(* What is left when the first packet is taken is not older than it. *)
LEMMA ClimbsTake ==
  ASSUME NEW q \in Seq(Packets), q # <<>>, NEW lo \in Int, NEW hi \in Int, Climbs(q, lo, hi),
         NEW r, r = Tail(q) \/ r \in Flushed(q)
  PROVE  /\ Head(q).n \in Nat /\ lo <= Head(q).n /\ Head(q).n <= hi
         /\ Climbs(r, Head(q).n, hi)
<1>1. PICK k \in 2 .. Len(q) + 1 : r = SubSeq(q, k, Len(q))
  <2>1. CASE r = Tail(q)
    <3>1. Tail(q) = SubSeq(q, 2, Len(q)) /\ 2 \in 2 .. Len(q) + 1
      OBVIOUS
    <3>2. QED
      BY <2>1, <3>1
  <2>2. CASE r \in Flushed(q)
    BY <2>2 DEF Flushed
  <2>3. QED
    BY <2>1, <2>2
<1>2. Len(q) \in Nat \ {0} /\ k \in Nat /\ k >= 2 /\ k <= Len(q) + 1 /\ Head(q) = q[1]
  OBVIOUS
<1>3. Len(r) = Len(q) - k + 1 /\ \A i \in 1 .. Len(r) : r[i] = q[i + k - 1]
  BY <1>1, <1>2
<1>4. \A i \in 1 .. Len(q) : q[i].n \in Nat
  BY Numbered
<1>5. \A i \in 1 .. Len(r) : i + k - 1 \in 1 .. Len(q) /\ 1 <= i + k - 1
  BY <1>2, <1>3
<1>6. 1 \in 1 .. Len(q) /\ lo <= q[1].n /\ q[1].n <= hi
  BY <1>2 DEF Climbs
<1>7. ASSUME NEW i \in 1 .. Len(r) PROVE q[1].n <= r[i].n /\ r[i].n <= hi
  BY <1>3, <1>5, <1>6 DEF Climbs
<1>8. ASSUME NEW i \in 1 .. Len(r), NEW j \in 1 .. Len(r), i <= j PROVE r[i].n <= r[j].n
  <2>1. i + k - 1 \in 1 .. Len(q) /\ j + k - 1 \in 1 .. Len(q) /\ i + k - 1 <= j + k - 1
    BY <1>2, <1>5, <1>8
  <2>2. q[i + k - 1].n <= q[j + k - 1].n
    BY <2>1 DEF Climbs
  <2>3. QED
    BY <1>3, <2>2
<1>9. QED
  BY <1>2, <1>4, <1>6, <1>7, <1>8 DEF Climbs

LEMMA ClimbsWiden ==
  ASSUME NEW q \in Seq(Packets), NEW lo \in Int, NEW hi \in Int, Climbs(q, lo, hi),
         NEW low \in Int, NEW high \in Int, low <= lo, hi <= high
  PROVE  Climbs(q, low, high)
<1>1. \A i \in 1 .. Len(q) : q[i].n \in Nat
  BY Numbered
<1>2. QED
  BY <1>1 DEF Climbs

LEMMA ClimbsNot ==
  ASSUME NEW lo, NEW hi
  PROVE  Climbs(<<>>, lo, hi)
BY DEF Climbs

LEMMA Wraps ==
  ASSUME NEW w \in Nat \ {0}, NEW r \in 0 .. w - 1, NEW m \in Nat
  PROVE  (r + m * w) % w = r
OBVIOUS

(* The number before a block's, on the wire. *)
LEMMA Before ==
  ASSUME NEW b \in Nat \ {0}
  PROVE  /\ ~Same(b - 1, b)
         /\ b % Wire # 0 => Previous(b - 1, b)
<1>1. Wire \in Nat \ {0} /\ Wire > 2
  BY Constant
<1> DEFINE r == b % Wire
           q == b \div Wire
<1>2. r \in 0 .. Wire - 1 /\ q \in Nat
  BY <1>1
<1>3. b = r + q * Wire
  BY <1>1
<1> HIDE DEF r, q
<1>4. CASE r # 0
  <2>1. b - 1 = (r - 1) + q * Wire /\ r - 1 \in 0 .. Wire - 1 /\ r - 1 # r
    BY <1>1, <1>2, <1>3, <1>4
  <2>2. ((r - 1) + q * Wire) % Wire = r - 1
    BY <1>1, <1>2, <2>1, Wraps
  <2>3. (b - 1) % Wire = r - 1
    BY <2>1, <2>2
  <2>4. QED
    BY <2>1, <2>3 DEF r, Same, Previous
<1>5. CASE r = 0
  <2>1. q > 0
    BY <1>1, <1>2, <1>3, <1>5
  <2>2. q - 1 \in Nat /\ b - 1 = (Wire - 1) + (q - 1) * Wire /\ Wire - 1 \in 0 .. Wire - 1
    BY <1>1, <1>2, <1>3, <1>5, <2>1
  <2>3. ((Wire - 1) + (q - 1) * Wire) % Wire = Wire - 1
    BY <1>1, <2>2, Wraps
  <2>4. (b - 1) % Wire = Wire - 1
    BY <2>2, <2>3
  <2>5. QED
    BY <1>1, <1>5, <2>4 DEF r, Same
<1>6. QED
  BY <1>4, <1>5

(* What is not older than block b - 1 and has the number of block b is not *)
(* older than block b.                                                     *)
LEMMA NotOlder ==
  ASSUME NEW n \in Nat, NEW b \in Nat, b - 1 <= n, Same(n, b)
  PROVE  b <= n
<1>1. CASE b = 0
  BY <1>1
<1>2. CASE b # 0
  <2>1. ~Same(b - 1, b)
    BY <1>2, Before
  <2>2. n # b - 1
    BY <2>1
  <2>3. QED
    BY <2>2
<1>3. QED
  BY <1>1, <1>2

LEMMA Primed ==
  /\ Climbs(toS, Heard, Asked)' <=> Climbs(toS', Heard', Asked')
  /\ Climbs(toS, 1, Asked)' <=> Climbs(toS', 1, Asked')
  /\ Climbs(toS, 0, 0)' <=> Climbs(toS', 0, 0)
  /\ Climbs(toC, Got, Said)' <=> Climbs(toC', Got', Said')
  /\ Climbs(toC, Got, cl.block)' <=> Climbs(toC', Got', cl'.block)
BY DEF Climbs

LEMMA CalmFacts ==
  ASSUME IInv
  PROVE  /\ toS \in Seq(Packets) /\ toC \in Seq(Packets)
         /\ Asked \in Int /\ Got \in Int /\ Heard \in Int /\ Said \in Int
         /\ Got <= cl.block /\ Asked <= cl.block /\ cl.block \in Nat /\ sv.block \in Nat
         /\ job.op = "RRQ" => Asked = cl.block - 1
         /\ job.op = "WRQ" => Asked = cl.block
         /\ job.op \in {"RRQ", "WRQ"}
<1>1. ToServer \subseteq Packets /\ ToClient \subseteq Packets
  BY DEF ToServer, ToClient
<1>2. toS \in Seq(Packets) /\ toC \in Seq(Packets)
  BY <1>1, Widen DEF IInv, Nets
<1>3. cl.block \in Nat /\ sv.block \in Nat /\ job.op \in {"RRQ", "WRQ"}
  BY PlaysFacts DEF IInv, Server, Runs, Servers
<1>4. QED
  BY <1>2, <1>3 DEF Asked, Got, Heard, Said

(* In the three stages of a session the server's packets are all at most   *)
(* one block behind the client, and none is ahead of it.                   *)
LEMMA NotAhead ==
  ASSUME IInv, InSession \/ LastSaid \/ SessionOver
  PROVE  \E hi \in Int : hi <= cl.block /\ Climbs(toC, Got, hi)
<1>1. CASE InSession
  <2>1. Said <= cl.block
    BY <1>1, CalmFacts DEF InSession, Said, Heard
  <2>2. QED
    BY <1>1, <2>1, CalmFacts DEF InSession
<1>2. CASE LastSaid
  <2>1. Said <= cl.block
    BY <1>2, CalmFacts DEF LastSaid
  <2>2. QED
    BY <1>2, <2>1, CalmFacts DEF LastSaid
<1>3. CASE SessionOver
  BY <1>3, CalmFacts DEF SessionOver
<1>4. QED
  BY <1>1, <1>2, <1>3

(* The client goes on: it sends nothing older than what it has sent.       *)
LEMMA GoesOn ==
  ASSUME IInv, InSession \/ LastSaid \/ SessionOver, job' = job, sv' = sv,
         toC' \in Seq(Packets), cl'.block \in Nat, Asked' \in Int, Got' \in Int,
         Asked <= Asked', cl.block <= cl'.block,
         toS' = toS \/ \E m \in Packets : toS' = Put(toS, m) /\ m.n = Asked',
         \A hi \in Int : Climbs(toC, Got, hi) /\ Got <= hi => Climbs(toC', Got', hi) /\ Got' <= hi
  PROVE  InSession' \/ LastSaid' \/ SessionOver'
<1>1. Heard' = Heard /\ Said' = Said /\ sv'.pc = sv.pc
  BY DEF Heard, Said
<1>2. ASSUME NEW lo \in Int, lo <= Asked, Climbs(toS, lo, Asked)
      PROVE  Climbs(toS', lo, Asked')
  <2>1. CASE toS' = toS
    BY <1>2, <2>1, CalmFacts, ClimbsWiden
  <2>2. CASE \E m \in Packets : toS' = Put(toS, m) /\ m.n = Asked'
    <3>1. PICK m \in Packets : toS' = Put(toS, m) /\ m.n = Asked'
      BY <2>2
    <3>2. lo <= m.n /\ Asked <= m.n /\ m.n <= Asked'
      BY <1>2, <3>1, CalmFacts
    <3>3. QED
      BY <1>2, <3>1, <3>2, CalmFacts, ClimbsPut
  <2>3. QED
    BY <2>1, <2>2
<1>3. CASE InSession
  <2>1. /\ sv.pc = "busy" /\ Heard <= Asked /\ Got <= Said
        /\ Climbs(toS, Heard, Asked) /\ Climbs(toC, Got, Said)
    BY <1>3 DEF InSession
  <2>2. Climbs(toS', Heard', Asked') /\ Climbs(toC', Got', Said') /\ Got' <= Said'
    BY <1>1, <1>2, <2>1, CalmFacts
  <2>3. Heard' <= Asked'
    BY <1>1, <2>1, CalmFacts
  <2>4. QED
    BY <1>1, <2>1, <2>2, <2>3, Primed DEF InSession
<1>4. CASE LastSaid
  <2>1. /\ sv.pc = "last" /\ Got <= Said /\ Said <= Asked
        /\ Climbs(toS, 1, Asked) /\ Climbs(toC, Got, Said)
    BY <1>4 DEF LastSaid
  <2>2. 1 <= Asked
    BY <2>1, CalmFacts DEF Said, IInv, Server, Runs
  <2>3. Climbs(toS', 1, Asked') /\ Climbs(toC', Got', Said') /\ Got' <= Said'
    BY <1>1, <1>2, <2>1, <2>2, CalmFacts
  <2>4. Said' <= Asked'
    BY <1>1, <2>1, CalmFacts
  <2>5. QED
    BY <1>1, <2>1, <2>3, <2>4, Primed DEF LastSaid
<1>5. CASE SessionOver
  <2>1. /\ sv.pc \in {"listen", "off"} /\ 1 <= Asked
        /\ Climbs(toS, 1, Asked) /\ Climbs(toC, Got, cl.block)
    BY <1>5 DEF SessionOver
  <2>2. Climbs(toS', 1, Asked') /\ Climbs(toC', Got', cl.block) /\ 1 <= Asked'
    BY <1>1, <1>2, <2>1, CalmFacts
  <2>3. Climbs(toC', Got', cl'.block)
    BY <2>2, CalmFacts, ClimbsWiden
  <2>4. QED
    BY <1>1, <2>1, <2>2, <2>3, Primed DEF SessionOver
<1>6. QED
  BY <1>3, <1>4, <1>5

LEMMA AskedNext ==
  ASSUME IInv, ClientStep
  PROVE  /\ job' = job /\ sv' = sv /\ toC' \in Seq(Packets) /\ cl'.block \in Nat
         /\ Asked' \in Int /\ Got' \in Int
         /\ job.op = "RRQ" => Asked' = cl'.block - 1
         /\ job.op = "WRQ" => Asked' = cl'.block
         /\ cl'.pc = "wait" => Got' = cl'.block - 1
         /\ cl'.pc # "wait" => Got' = cl'.block
         /\ Asks => \E m \in Packets : toS' = Put(toS, m) /\ m.n = Asked'
<1>1. job' = job /\ sv' = sv /\ Plays(cl') /\ cl' \in Clients
  BY DEF ClientStep, server, Plays
<1>2. toC' \in Seq(Packets)
  BY CalmFacts, ClientSends, Kinds
<1>3. cl'.block \in Nat /\ cl'.req \in Packets /\ cl'.port \in 0 .. 2
  BY <1>1 DEF Clients
<1>4. /\ Asked' \in Int /\ Got' \in Int
      /\ job.op = "RRQ" => Asked' = cl'.block - 1
      /\ job.op = "WRQ" => Asked' = cl'.block
      /\ cl'.pc = "wait" => Got' = cl'.block - 1
      /\ cl'.pc # "wait" => Got' = cl'.block
  BY <1>1, <1>3 DEF Asked, Got
<1>5. ASSUME Asks PROVE \E m \in Packets : toS' = Put(toS, m) /\ m.n = Asked'
  <2> DEFINE m == [cl'.req EXCEPT !.port = cl'.port]
  <2>1. cl'.pc = "wait" /\ toS' = Put(toS, m)
    BY <1>5 DEF Asks
  <2>2. m \in Packets /\ m.n = cl'.req.n
    BY <1>3, Readdressed
  <2>3. cl'.req.n \in Nat
    BY <1>3 DEF Packets
  <2>4. cl'.block = cl'.req.n + IF job.op = "RRQ" THEN 1 ELSE 0
    BY <1>1, <2>1 DEF Plays
  <2>5. cl'.req.n = Asked'
    BY <1>4, <2>3, <2>4, CalmFacts
  <2> HIDE DEF m
  <2>6. QED
    BY <2>1, <2>2, <2>5
<1>6. QED
  BY <1>1, <1>2, <1>3, <1>4, <1>5

LEMMA OpeningPut ==
  ASSUME NEW q \in Seq(Packets), NEW m \in Packets, Climbs(q, 0, 0), m.n = 0
  PROVE  Climbs(Put(q, m), 0, 0)
<1>1. 0 \in Int /\ 0 <= m.n /\ m.n <= 0
  BY DEF Packets
<1>2. QED
  BY <1>1, ClimbsPut

LEMMA CalmClient ==
  ASSUME IInv, ClientStep, Stage, cl.fail = "no", cl'.fail = "no", job.ok
  PROVE  Stage'
<1> DEFINE Session == InSession \/ LastSaid \/ SessionOver
<1>1. /\ job' = job /\ sv' = sv /\ toC' \in Seq(Packets) /\ cl'.block \in Nat
      /\ Asked' \in Int /\ Got' \in Int
      /\ job.op = "RRQ" => Asked' = cl'.block - 1
      /\ job.op = "WRQ" => Asked' = cl'.block
      /\ cl'.pc = "wait" => Got' = cl'.block - 1
      /\ cl'.pc # "wait" => Got' = cl'.block
      /\ Asks => \E m \in Packets : toS' = Put(toS, m) /\ m.n = Asked'
  BY AskedNext
<1>2. /\ toS \in Seq(Packets) /\ toC \in Seq(Packets) /\ job.op \in {"RRQ", "WRQ"}
      /\ cl.block \in Nat /\ Asked \in Int /\ Got \in Int
      /\ job.op = "RRQ" => Asked = cl.block - 1
      /\ job.op = "WRQ" => Asked = cl.block
      /\ cl.pc = "wait" => Got = cl.block - 1
      /\ cl.pc # "wait" => Got = cl.block
  BY CalmFacts DEF Got
<1>3. SUFFICES ASSUME cl'.pc # "done" PROVE Stage'
  BY DEF Stage
<1>4. ASSUME cl'.pc \in {"user", "loop", "wait"}, Session,
             Asked <= Asked', cl.block <= cl'.block,
             toS' = toS \/ Asks,
             \A hi \in Int : Climbs(toC, Got, hi) /\ Got <= hi
                               => Climbs(toC', Got', hi) /\ Got' <= hi
      PROVE  Stage'
  <2>1. toS' = toS \/ \E m \in Packets : toS' = Put(toS, m) /\ m.n = Asked'
    BY <1>1, <1>4
  <2>2. InSession' \/ LastSaid' \/ SessionOver'
    BY <1>1, <1>4, <2>1, GoesOn
  <2>3. QED
    BY <1>4, <2>2 DEF Stage
<1>5. CASE Opens
  <2>1. cl.pc = "start" /\ cl'.pc = "wait" /\ cl'.why = "open" /\ Asks /\ toC' = toC
    BY <1>5 DEF Opens, Asks
  <2>2. toS = <<>> /\ toC = <<>> /\ sv.pc = "listen"
    BY <2>1 DEF Stage, NotStarted, Opening, AtEnd
  <2>3. cl'.req = Bare(job.op, 0, 0) /\ cl'.block = cl'.req.n + IF job.op = "RRQ" THEN 1 ELSE 0
    BY <1>1, <2>1 DEF ClientStep, Plays
  <2>4. Asked' = 0
    BY <1>1, <1>2, <2>3 DEF Bare, Packet
  <2>5. PICK m \in Packets : toS' = Put(toS, m) /\ m.n = 0
    BY <1>1, <2>1, <2>4
  <2>6. Climbs(toS, 0, 0)
    BY <2>2, ClimbsNot
  <2>7. Climbs(toS', 0, 0)
    BY <1>2, <2>5, <2>6, OpeningPut
  <2>8. Opening'
    BY <1>1, <2>1, <2>2, <2>4, <2>7, Primed DEF Opening
  <2>9. QED
    BY <2>8 DEF Stage
<1>6. CASE Moves
  <2>1. /\ cl.pc \in {"user", "loop"} /\ cl'.pc \in {"user", "loop"}
        /\ cl'.block = cl.block /\ cl'.start = cl.start /\ toS' = toS /\ toC' = toC
        /\ (job.op = "RRQ" => cl'.end = cl.end)
    BY <1>6 DEF Moves, Held
  <2>2. CASE AtEnd
    <3>1. AtEnd'
      BY <1>1, <2>1, <2>2 DEF AtEnd
    <3>2. QED
      BY <3>1 DEF Stage
  <2>3. CASE Session
    <3>1. Got' = Got /\ Asked' = Asked
      BY <1>1, <1>2, <2>1
    <3>2. QED
      BY <1>1, <1>2, <1>4, <2>1, <2>3, <3>1
  <2>4. QED
    BY <2>1, <2>2, <2>3 DEF Stage, NotStarted, Opening
<1>7. CASE AcksLast
  <2>1. AtEnd'
    BY <1>1, <1>7, PlaysFacts DEF AcksLast, AtEnd
  <2>2. QED
    BY <2>1 DEF Stage
<1>8. CASE AsksNext \/ SendsFull \/ SendsRest
  <2>1. /\ cl.pc \in {"user", "loop"} /\ cl'.pc = "wait" /\ Asks
        /\ cl'.block = cl.block + 1 /\ toC' = toC
    BY <1>8 DEF AsksNext, SendsFull, SendsRest, Asks
  <2>2. ~AtEnd
    BY <1>8, PlaysFacts DEF AtEnd, AsksNext, SendsFull, SendsRest
  <2>3. Session
    BY <2>1, <2>2 DEF Stage, NotStarted, Opening
  <2>4. Got' = Got /\ Asked <= Asked' /\ cl.block <= cl'.block
    BY <1>1, <1>2, <2>1
  <2>5. QED
    BY <1>4, <2>1, <2>3, <2>4
<1>9. CASE AsksAgain
  <2>1. /\ cl.pc = "wait" /\ cl'.pc = "wait" /\ Asks /\ cl'.block = cl.block
        /\ cl'.why = cl.why
        /\ toC' = toC \/ (toC # <<>> /\ toC' \in {Tail(toC)} \cup Flushed(toC))
    BY <1>9 DEF AsksAgain, Asks
  <2>2. Got' = Got /\ Asked' = Asked
    BY <1>1, <1>2, <2>1
  <2>3. CASE Opening
    <3>1. toC' = <<>> /\ Asked' = 0 /\ sv.pc = "listen" /\ cl.why = "open" /\ Climbs(toS, 0, 0)
      BY <2>1, <2>2, <2>3 DEF Opening
    <3>2. PICK m \in Packets : toS' = Put(toS, m) /\ m.n = 0
      BY <1>1, <2>1, <3>1
    <3>3. Climbs(toS', 0, 0)
      BY <1>2, <3>1, <3>2, OpeningPut
    <3>4. Opening'
      BY <1>1, <2>1, <3>1, <3>3, Primed DEF Opening
    <3>5. QED
      BY <3>4 DEF Stage
  <2>4. CASE Session
    <3>1. ASSUME NEW hi \in Int, Climbs(toC, Got, hi), Got <= hi
          PROVE  Climbs(toC', Got, hi)
      <4>1. CASE toC' = toC
        BY <3>1, <4>1
      <4>2. CASE toC # <<>> /\ toC' \in {Tail(toC)} \cup Flushed(toC)
        <5>1. /\ Head(toC).n \in Nat /\ Got <= Head(toC).n
              /\ Climbs(toC', Head(toC).n, hi)
          BY <1>2, <3>1, <4>2, ClimbsTake
        <5>2. QED
          BY <1>1, <1>2, <5>1, ClimbsWiden
      <4>3. QED
        BY <2>1, <4>1, <4>2
    <3>2. QED
      BY <1>2, <1>4, <2>1, <2>2, <2>4, <3>1
  <2>5. QED
    BY <2>1, <2>3, <2>4 DEF Stage, NotStarted, AtEnd
<1>10. CASE Accepts \/ SendsEmpty
  <2> DEFINE m == Head(toC)
  <2>1. /\ cl.pc = "wait" /\ toC # <<>> /\ Same(m.n, cl.block) /\ toC' = Tail(toC)
    BY <1>10 DEF Accepts, SendsEmpty, Answered, Has
  <2>2. Session
    BY <2>1 DEF Stage, NotStarted, Opening, AtEnd
  <2>3. /\ Got' = cl.block /\ cl.block <= cl'.block
        /\ cl'.pc \in {"user", "loop", "wait"}
        /\ toS' = toS \/ Asks
    <3>1. CASE Accepts
      BY <1>1, <1>3, <3>1 DEF Accepts
    <3>2. CASE SendsEmpty
      BY <1>1, <1>2, <3>2 DEF SendsEmpty, Asks
    <3>3. QED
      BY <1>10, <3>1, <3>2
  <2>4. Asked <= Asked'
    BY <1>1, <1>2, <2>3
  <2>5. ASSUME NEW hi \in Int, Climbs(toC, Got, hi), Got <= hi
        PROVE  Climbs(toC', Got', hi) /\ Got' <= hi
    <3>1. m.n \in Nat /\ Got <= m.n /\ m.n <= hi /\ Climbs(toC', m.n, hi)
      BY <1>2, <2>1, <2>5, ClimbsTake
    <3>2. cl.block <= m.n
      BY <1>2, <2>1, <3>1, NotOlder
    <3>3. QED
      BY <1>1, <1>2, <2>3, <3>1, <3>2, ClimbsWiden
  <2>6. QED
    BY <1>4, <2>2, <2>3, <2>4, <2>5
<1>11. CASE Drops
  BY <1>3, <1>11 DEF Drops
<1>12. QED
  BY <1>3, <1>5, <1>6, <1>7, <1>8, <1>9, <1>10, <1>11
     DEF ClientStep, HangsUp, Fails, Breaks

LEMMA ClimbsLeft ==
  ASSUME NEW q \in Seq(Packets), q # <<>>, NEW lo \in Int, NEW hi \in Int, Climbs(q, lo, hi),
         NEW r, r = Tail(q) \/ r \in Flushed(q), r \in Seq(Packets)
  PROVE  Climbs(r, lo, hi)
<1>1. Head(q).n \in Nat /\ lo <= Head(q).n /\ Climbs(r, Head(q).n, hi)
  BY ClimbsTake
<1>2. QED
  BY <1>1, ClimbsWiden

(* What every step of the server leaves and keeps. *)
LEMMA CalmServerFacts ==
  ASSUME IInv, ServerStep
  PROVE  /\ cl' = cl /\ job' = job /\ Asked' = Asked /\ Got' = Got
         /\ sv \in Servers /\ Runs(sv) /\ job \in Jobs
         /\ sv.pc \in {"busy", "last"} => sv.block > 0 /\ 1 <= sv.block
         /\ toS' \in Seq(Packets)
         /\ sv.port \in 0 .. 2
<1>1. cl' = cl /\ job' = job
  BY DEF ServerStep, client
<1>2. Asked' = Asked /\ Got' = Got
  BY <1>1 DEF Asked, Got
<1>3. sv \in Servers /\ Runs(sv) /\ job \in Jobs /\ sv.block \in Nat /\ sv.port \in 0 .. 2
  BY DEF IInv, Server, Runs, Servers
<1>4. sv.pc \in {"busy", "last"} => sv.block > 0 /\ 1 <= sv.block
  BY <1>3 DEF Runs
<1>5. toS' \in Seq(Packets)
  BY CalmFacts, ServerRuns, Kinds
<1>6. QED
  BY <1>1, <1>2, <1>3, <1>4, <1>5

(* The session begins. *)
LEMMA CalmBegins ==
  ASSUME IInv, ServerStep, Opening, Begins
  PROVE  InSession'
<1>1. /\ cl.pc = "wait" /\ Asked = 0 /\ toC = <<>> /\ Climbs(toS, 0, 0)
      /\ toS # <<>> /\ toS' = Tail(toS)
  BY DEF Opening, Begins, Takes
<1>2. /\ cl' = cl /\ job' = job /\ Asked' = Asked /\ Got' = Got /\ sv \in Servers
      /\ job \in Jobs /\ toS' \in Seq(Packets) /\ sv.port \in 0 .. 2
  BY CalmServerFacts
<1>3. /\ toS \in Seq(Packets) /\ toC \in Seq(Packets) /\ job.op \in {"RRQ", "WRQ"}
      /\ job.op = "RRQ" => Asked = cl.block - 1
      /\ job.op = "WRQ" => Asked = cl.block
      /\ cl.block \in Nat
  BY CalmFacts
<1>4. 0 \in Int /\ Climbs(toS', 0, 0)
  <2>1. 0 \in Int
    OBVIOUS
  <2>2. QED
    BY <1>1, <1>2, <1>3, <2>1, ClimbsLeft, Zenon
<1>5. Got \in Int /\ Got <= 0 /\ (job.op = "WRQ" => Got = -1) /\ (job.op = "RRQ" => Got = 0)
  BY <1>1, <1>3 DEF Got
<1>6. ASSUME sv'.pc = "busy", sv'.block = 1, NEW m \in Packets, toC' = Put(<<>>, m),
             m.n = Said', Said' \in 0 .. 1
      PROVE  InSession'
  <2>1. Heard' = 0
    BY <1>6 DEF Heard
  <2>2. Climbs(<<>>, Got, Got) /\ <<>> \in Seq(Packets)
    BY ClimbsNot
  <2>3. m.n \in Int /\ Got <= m.n /\ Said' \in Int /\ m.n <= Said'
    BY <1>5, <1>6
  <2>4. Climbs(toC', Got, Said')
    BY <1>5, <1>6, <2>2, <2>3, ClimbsPut, Zenon
  <2>5. QED
    BY <1>1, <1>2, <1>4, <1>5, <1>6, <2>1, <2>3, <2>4, Primed DEF InSession
<1>7. CASE job.op = "RRQ"
  <2>1. sv' = FirstBlock /\ toC' = Put(<<>>, Data(FirstBlock))
    BY <1>1, <1>7 DEF Begins
  <2>2. FirstBlock \in Servers /\ Reading(FirstBlock) /\ FirstBlock.pc = "busy" /\ FirstBlock.block = 1
    BY <1>2, FirstBlockFacts
  <2>3. Data(FirstBlock) \in Packets /\ Data(FirstBlock).n = 1
    BY <2>2, DataFacts
  <2>4. Said' = 1
    BY <1>2, <1>7, <2>1, <2>2 DEF Said
  <2>5. QED
    BY <1>6, <2>1, <2>2, <2>3, <2>4
<1>8. CASE job.op = "WRQ"
  <2>1. sv' = rw_init(Accepting("WRQ"), 0) /\ toC' = Put(<<>>, Bare("ACK", 0, sv.port))
    BY <1>1, <1>8 DEF Begins
  <2>2. sv'.pc = "busy" /\ sv'.block = 1
    BY <1>2, <2>1, AcceptFacts
  <2>3. Bare("ACK", 0, sv.port) \in Packets /\ Bare("ACK", 0, sv.port).n = 0
    BY <1>2, BareFacts
  <2>4. Said' = 0
    BY <1>2, <1>8, <2>2 DEF Said
  <2>5. QED
    BY <1>6, <2>1, <2>2, <2>3, <2>4
<1>9. QED
  BY <1>3, <1>7, <1>8

(* The stage a session is in after a step of the server, from what is on   *)
(* its way then.                                                           *)
LEMMA CalmBusy ==
  ASSUME IInv, ServerStep, InSession, job.ok, cl.pc # "done"
  PROVE  InSession' \/ LastSaid' \/ SessionOver'
<1>1. /\ sv.pc = "busy" /\ Heard <= Asked /\ Got <= Said
      /\ Climbs(toS, Heard, Asked) /\ Climbs(toC, Got, Said)
  BY DEF InSession
<1>2. /\ cl' = cl /\ job' = job /\ Asked' = Asked /\ Got' = Got
      /\ sv \in Servers /\ Runs(sv) /\ job \in Jobs
      /\ sv.block > 0 /\ 1 <= sv.block /\ toS' \in Seq(Packets) /\ sv.port \in 0 .. 2
  BY <1>1, CalmServerFacts
<1>3. /\ toS \in Seq(Packets) /\ toC \in Seq(Packets)
      /\ Asked \in Int /\ Got \in Int /\ Heard \in Int /\ Said \in Int
      /\ Asked <= cl.block /\ cl.block \in Nat /\ sv.block \in Nat
      /\ job.op \in {"RRQ", "WRQ"}
  BY CalmFacts
<1>4. /\ Heard = sv.block - 1
      /\ job.op = "RRQ" => Said = sv.block
      /\ job.op = "WRQ" => Said = sv.block - 1
  BY <1>1 DEF Heard, Said
<1>5. CASE sv' = sv /\ (toC' = toC \/ \E m \in Packets : toC' = Put(toC, m) /\ m.n = Said)
           /\ (toS' = toS \/ (toS # <<>> /\ (toS' = Tail(toS) \/ toS' \in Flushed(toS))))
  <2>1. Heard' = Heard /\ Said' = Said
    BY <1>2, <1>5 DEF Heard, Said
  <2>2. Climbs(toS', Heard, Asked)
    <3>1. CASE toS' = toS
      BY <1>1, <3>1
    <3>2. CASE toS # <<>> /\ (toS' = Tail(toS) \/ toS' \in Flushed(toS))
      BY <1>1, <1>2, <1>3, <3>2, ClimbsLeft
    <3>3. QED
      BY <1>5, <3>1, <3>2
  <2>3. Climbs(toC', Got, Said)
    <3>1. CASE toC' = toC
      BY <1>1, <3>1
    <3>2. ASSUME NEW m \in Packets, toC' = Put(toC, m), m.n = Said PROVE Climbs(toC', Got, Said)
      <4>1. Got <= m.n /\ Said <= m.n /\ m.n <= Said
        BY <1>1, <1>3, <3>2
      <4>2. QED
        BY <1>1, <1>3, <3>2, <4>1, ClimbsPut, Zenon
    <3>3. QED
      BY <1>5, <3>1, <3>2
  <2>4. QED
    BY <1>1, <1>2, <1>5, <2>1, <2>2, <2>3, Primed DEF InSession
<1>6. ASSUME Takes, Same(Head(toS).n, sv.block)
      PROVE  /\ Climbs(toS', sv.block, Asked) /\ sv.block <= Asked
  <2>1. toS # <<>> /\ toS' = Tail(toS)
    BY <1>6 DEF Takes
  <2>2. /\ Head(toS).n \in Nat /\ Heard <= Head(toS).n /\ Head(toS).n <= Asked
        /\ Climbs(toS', Head(toS).n, Asked)
    BY <1>1, <1>3, <2>1, ClimbsTake, Zenon
  <2>3. sv.block <= Head(toS).n
    BY <1>3, <1>4, <1>6, <2>2, NotOlder
  <2>4. Head(toS).n \in Int /\ sv.block \in Int /\ Asked <= Asked
    BY <1>3, <2>2
  <2>5. QED
    BY <1>2, <1>3, <2>2, <2>3, <2>4, ClimbsWiden
<1>7. ASSUME NEW m \in Packets, toC' = Put(toC, m), Said <= m.n,
             NEW top \in Int, m.n <= top
      PROVE  Climbs(toC', Got, top) /\ Got <= top
  <2>1. Got <= m.n /\ m.n \in Nat
    BY <1>1, <1>3, <1>7 DEF Packets
  <2>2. Got <= top
    BY <1>3, <1>7, <2>1
  <2>3. QED
    BY <1>1, <1>3, <1>7, <2>1, <2>2, ClimbsPut, Zenon
<1>8. ASSUME sv'.pc = "listen", Climbs(toS', sv.block, Asked), sv.block <= Asked,
             Climbs(toC', Got, cl.block)
      PROVE  SessionOver'
  <2>1. 1 <= Asked
    BY <1>2, <1>3, <1>8
  <2>2. 1 \in Int /\ sv.block \in Int /\ Asked <= Asked
    BY <1>3
  <2>3. Climbs(toS', 1, Asked)
    BY <1>2, <1>3, <1>8, <2>2, ClimbsWiden, Zenon
  <2>4. QED
    BY <1>2, <1>8, <2>1, <2>3, Primed DEF SessionOver
<1>9. CASE Skips
  BY <1>5, <1>9 DEF Skips
<1>10. CASE Repeats
  <2>1. Answer(sv) \in Packets /\ Answer(sv).n = Said
    <3>1. CASE job.op = "RRQ"
      BY <1>1, <1>2, <1>4, <3>1, DataFacts DEF Answer, Runs
    <3>2. CASE job.op = "WRQ"
      BY <1>1, <1>2, <1>4, <3>2, AckFacts DEF Answer, Runs
    <3>3. QED
      BY <1>3, <3>1, <3>2
  <2>2. toS = <<>> => Flushed(toS) = {}
    BY DEF Flushed
  <2>3. QED
    BY <1>5, <1>10, <2>1, <2>2 DEF Repeats
<1>11. CASE Ends
  <2>1. ~(Takes /\ Head(toS).op = "ERROR")
    BY TakeFacts DEF Takes, IInv, Nets, ToServer
  <2>2. /\ job.op = "RRQ" /\ Takes /\ Same(Head(toS).n, sv.block)
        /\ sv' = Listening(sv) /\ toC' = toC
    BY <1>11, <2>1 DEF Ends, Hears
  <2>3. sv'.pc = "listen"
    BY <1>2, <2>2, ListeningFacts
  <2>4. Climbs(toS', sv.block, Asked) /\ sv.block <= Asked
    BY <1>6, <2>2
  <2>5. Said <= cl.block /\ Got <= Got
    BY <1>3, <1>4, <2>2, <2>4
  <2>6. Climbs(toC', Got, cl.block)
    BY <1>1, <1>3, <2>2, <2>5, ClimbsWiden
  <2>7. QED
    BY <1>8, <2>3, <2>4, <2>6
<1>12. ASSUME sv'.pc = "busy", sv'.block = sv.block + 1,
              Climbs(toS', sv.block, Asked), sv.block <= Asked,
              NEW m \in Packets, toC' = Put(toC, m),
              m.n = IF job.op = "RRQ" THEN sv.block + 1 ELSE sv.block
       PROVE  InSession'
  <2>1. Heard' = sv.block /\ Said' = m.n
    BY <1>2, <1>3, <1>12 DEF Heard, Said
  <2>2. Said <= m.n /\ m.n \in Int /\ m.n <= m.n
    BY <1>3, <1>4, <1>12
  <2>3. Climbs(toC', Got, Said') /\ Got <= Said'
    BY <1>7, <1>12, <2>1, <2>2
  <2>4. QED
    BY <1>2, <1>12, <2>1, <2>3, Primed DEF InSession
<1>13. CASE SendsNext
  <2>1. /\ job.op = "RRQ" /\ Takes /\ Same(Head(toS).n, sv.block)
        /\ sv' = NextBlock(sv) /\ toC' = Put(toC, Data(NextBlock(sv)))
    BY <1>13 DEF SendsNext, Hears
  <2>2. Reading(sv)
    BY <1>1, <1>2, <2>1 DEF Runs
  <2>3. /\ NextBlock(sv) \in Servers /\ Reading(NextBlock(sv)) /\ NextBlock(sv).pc = sv.pc
        /\ NextBlock(sv).block = sv.block + 1
    BY <1>2, <2>2, NextBlockFacts
  <2>4. Data(NextBlock(sv)) \in Packets /\ Data(NextBlock(sv)).n = sv.block + 1
    BY <2>3, DataFacts
  <2>5. QED
    BY <1>1, <1>6, <1>12, <2>1, <2>3, <2>4
<1>14. Bare("ACK", sv.block, sv.port) \in Packets /\ Bare("ACK", sv.block, sv.port).n = sv.block
       /\ Bare("ERROR", sv.block, sv.port) \in Packets /\ Bare("ERROR", sv.block, sv.port).n = sv.block
  BY <1>2, <1>3, BareFacts
<1>15. CASE WritesNext \/ WritesLast
  <2> DEFINE m == Head(toS)
             f == write_behind(Turned(sv, m))
             g == write_behind(Received(sv, m).s)
  <2>1. job.op = "WRQ" /\ Takes /\ Same(m.n, sv.block)
    BY <1>15 DEF WritesNext, WritesLast, Hears
  <2>2. Writing(sv) /\ m \in Packets
    BY <1>1, <1>2, <1>3, <2>1, TakeFacts DEF Runs, Takes
  <2>3. /\ f.s.pc = sv.pc /\ f.s.block = sv.block + 1
        /\ g.s \in Servers /\ g.s.block = sv.block
    BY <1>2, <2>2, TurnedFacts, Zenon
  <2>4. Climbs(toS', sv.block, Asked) /\ sv.block <= Asked
    BY <1>6, <2>1
  <2>5. CASE WritesNext
    <3>1. sv' = f.s /\ toC' = Put(toC, Bare("ACK", sv.block, sv.port))
      BY <2>5 DEF WritesNext
    <3>2. sv'.pc = "busy" /\ sv'.block = sv.block + 1
      BY <1>1, <2>3, <3>1
    <3>3. QED
      BY <1>12, <1>14, <2>1, <2>4, <3>1, <3>2
  <2>6. CASE WritesLast /\ sv' = Listening(sv) /\ toC' = Put(toC, Bare("ERROR", sv.block, sv.port))
    <3>1. sv'.pc = "listen"
      BY <1>2, <2>6, ListeningFacts
    <3>2. Said <= sv.block /\ sv.block <= cl.block /\ cl.block \in Int
      BY <1>3, <1>4, <2>1, <2>4
    <3>3. Climbs(toC', Got, cl.block)
      BY <1>7, <1>14, <2>6, <3>2
    <3>4. QED
      BY <1>8, <2>4, <3>1, <3>3
  <2>7. CASE WritesLast /\ sv' = [g.s EXCEPT !.pc = "last"] /\ toC' = Put(toC, Bare("ACK", sv.block, sv.port))
    <3> HIDE DEF g, f
    <3>1. sv'.pc = "last" /\ sv'.block = sv.block
      BY <2>3, <2>7 DEF Servers
    <3>2. Said' = sv.block
      BY <3>1 DEF Said
    <3>3. Said <= sv.block /\ sv.block <= sv.block /\ sv.block \in Int
      BY <1>3, <1>4, <2>1
    <3>4. Climbs(toC', Got, sv.block) /\ Got <= sv.block
      BY <1>7, <1>14, <2>7, <3>3
    <3>5. 1 \in Int /\ Asked <= Asked
      BY <1>3
    <3>6. Climbs(toS', 1, Asked)
      BY <1>2, <1>3, <2>4, <3>3, <3>5, ClimbsWiden, Zenon
    <3>7. QED
      BY <1>2, <2>4, <3>1, <3>2, <3>4, <3>6, Primed DEF LastSaid
  <2>8. QED
    BY <1>15, <2>5, <2>6, <2>7 DEF WritesLast
<1>16. ~Refuses /\ ~Begins /\ ~Leaves
  BY <1>1 DEF Refuses, Begins, Leaves
<1>17. QED
  BY <1>9, <1>10, <1>11, <1>13, <1>15, <1>16 DEF ServerStep

LEMMA CalmServer ==
  ASSUME IInv, ServerStep, Stage, job.ok
  PROVE  Stage'
<1>1. /\ cl' = cl /\ job' = job /\ Asked' = Asked /\ Got' = Got
      /\ sv \in Servers /\ Runs(sv) /\ job \in Jobs
      /\ sv.pc \in {"busy", "last"} => sv.block > 0 /\ 1 <= sv.block
      /\ toS' \in Seq(Packets) /\ sv.port \in 0 .. 2
  BY CalmServerFacts
<1>2. /\ toS \in Seq(Packets) /\ toC \in Seq(Packets)
      /\ Asked \in Int /\ Got \in Int /\ Heard \in Int /\ Said \in Int
      /\ Asked <= cl.block /\ cl.block \in Nat /\ sv.block \in Nat
      /\ job.op \in {"RRQ", "WRQ"}
  BY CalmFacts
<1>3. SUFFICES ASSUME cl.pc # "done", ~AtEnd PROVE Stage'
  BY <1>1 DEF Stage, AtEnd
<1>4. 0 \in Int /\ 1 \in Int
  OBVIOUS
<1>5. CASE NotStarted
  BY <1>5 DEF NotStarted, ServerStep, Skips, Repeats, Refuses, Begins, Ends, SendsNext,
              WritesNext, WritesLast, Leaves, Takes, Hears
<1>6. CASE Opening
  <2>1. /\ cl.pc = "wait" /\ cl.why = "open" /\ Asked = 0
        /\ sv.pc = "listen" /\ toC = <<>> /\ Climbs(toS, 0, 0)
    BY <1>6 DEF Opening
  <2>2. CASE Skips
    <3>1. sv' = sv /\ toC' = toC /\ toS # <<>> /\ (toS' = Tail(toS) \/ toS' \in Flushed(toS))
      BY <2>2 DEF Skips
    <3>2. Climbs(toS', 0, 0)
      BY <1>1, <1>2, <1>4, <2>1, <3>1, ClimbsLeft, Zenon
    <3>3. Opening'
      BY <1>1, <2>1, <3>1, <3>2, Primed DEF Opening
    <3>4. QED
      BY <3>3 DEF Stage
  <2>3. CASE Begins
    <3>1. InSession' /\ cl'.pc = "wait"
      BY <1>1, <1>6, <2>1, <2>3, CalmBegins
    <3>2. QED
      BY <3>1 DEF Stage
  <2>4. QED
    BY <2>1, <2>2, <2>3 DEF ServerStep, Repeats, Refuses, Ends, SendsNext, WritesNext,
                            WritesLast, Leaves, Hears
<1>7. CASE cl.pc \in {"user", "loop", "wait"} /\ InSession
  <2>1. InSession' \/ LastSaid' \/ SessionOver'
    BY <1>3, <1>7, CalmBusy
  <2>2. QED
    BY <1>1, <1>7, <2>1 DEF Stage
<1>8. CASE cl.pc \in {"user", "loop", "wait"} /\ LastSaid
  <2>1. /\ sv.pc = "last" /\ Got <= Said /\ Said <= Asked
        /\ Climbs(toS, 1, Asked) /\ Climbs(toC, Got, Said)
    BY <1>8 DEF LastSaid
  <2>2. Said = sv.block /\ 1 <= sv.block
    BY <1>1, <2>1 DEF Said
  <2>3. ASSUME toS # <<>>, toS' = Tail(toS) \/ toS' \in Flushed(toS)
        PROVE  Climbs(toS', 1, Asked)
    BY <1>1, <1>2, <1>4, <2>1, <2>3, ClimbsLeft, Zenon
  <2>4. CASE Skips
    <3>1. sv' = sv /\ toC' = toC /\ toS # <<>> /\ (toS' = Tail(toS) \/ toS' \in Flushed(toS))
      BY <2>4 DEF Skips
    <3>2. Said' = Said
      BY <1>1, <3>1 DEF Said
    <3>3. LastSaid'
      BY <1>1, <2>1, <2>3, <3>1, <3>2, Primed DEF LastSaid
    <3>4. QED
      BY <1>1, <1>8, <3>3 DEF Stage
  <2>5. CASE Leaves
    <3> DEFINE m == Bare("ACK", sv.block, sv.port)
    <3>1. /\ sv' \in {[Idle EXCEPT !.pc = "off"], Listening(sv)}
          /\ toS' = toS \/ (toS # <<>> /\ toS' = Tail(toS))
          /\ toC' = toC \/ toC' = Put(toC, m)
      BY <2>5 DEF Leaves
    <3>2. sv'.pc \in {"listen", "off"}
      BY <1>1, <3>1, ListeningFacts
    <3>3. Climbs(toS', 1, Asked)
      BY <2>1, <2>3, <3>1
    <3>4. m \in Packets /\ m.n = sv.block
      BY <1>1, <1>2, BareFacts
    <3> HIDE DEF m
    <3>5. /\ Got <= m.n /\ Said <= m.n /\ m.n <= cl.block /\ cl.block \in Int
          /\ Said <= cl.block /\ Got <= Got
      BY <1>2, <2>1, <2>2, <3>4
    <3>6. Climbs(toC', Got, cl.block)
      <4>1. CASE toC' = toC
        BY <1>2, <2>1, <3>5, <4>1, ClimbsWiden, Zenon
      <4>2. CASE toC' = Put(toC, m)
        BY <1>2, <2>1, <3>4, <3>5, <4>2, ClimbsPut, Zenon
      <4>3. QED
        BY <3>1, <4>1, <4>2
    <3>7. 1 <= Asked
      BY <1>2, <2>1, <2>2
    <3>8. SessionOver'
      BY <1>1, <3>2, <3>3, <3>6, <3>7, Primed DEF SessionOver
    <3>9. QED
      BY <1>1, <1>8, <3>8 DEF Stage
  <2>6. QED
    BY <2>1, <2>4, <2>5 DEF ServerStep, Repeats, Refuses, Begins, Ends, SendsNext,
                            WritesNext, WritesLast, Hears
<1>9. CASE cl.pc \in {"user", "loop", "wait"} /\ SessionOver
  <2>1. /\ sv.pc \in {"listen", "off"} /\ 1 <= Asked
        /\ Climbs(toS, 1, Asked) /\ Climbs(toC, Got, cl.block)
    BY <1>9 DEF SessionOver
  <2>2. CASE Skips
    <3>1. sv' = sv /\ toC' = toC /\ toS # <<>> /\ (toS' = Tail(toS) \/ toS' \in Flushed(toS))
      BY <2>2 DEF Skips
    <3>2. Climbs(toS', 1, Asked)
      BY <1>1, <1>2, <1>4, <2>1, <3>1, ClimbsLeft, Zenon
    <3>3. SessionOver'
      BY <1>1, <2>1, <3>1, <3>2, Primed DEF SessionOver
    <3>4. QED
      BY <1>1, <1>9, <3>3 DEF Stage
  <2>3. CASE Begins
    <3>1. toS # <<>> /\ Head(toS).port = 0
      BY <2>3 DEF Begins, Takes
    <3>2. Head(toS).n = 0
      BY <3>1, TakeFacts DEF IInv, Nets, ToServer
    <3>3. 1 <= Head(toS).n
      BY <1>2, <1>4, <2>1, <3>1, ClimbsTake, Zenon
    <3>4. QED
      BY <3>2, <3>3
  <2>4. QED
    BY <2>1, <2>2, <2>3 DEF ServerStep, Repeats, Refuses, Ends, SendsNext, WritesNext,
                            WritesLast, Leaves, Hears
<1>10. QED
  BY <1>3, <1>5, <1>6, <1>7, <1>8, <1>9 DEF Stage

LEMMA CalmStart == Init => Calm
<1> SUFFICES ASSUME Init PROVE Calm
  OBVIOUS
<1>1. job \in Jobs /\ toS = <<>> /\ toC = <<>> /\ sv = Idle /\ cl.pc = "start"
  BY DEF Init
<1>2. NotStarted
  BY <1>1, IdleFacts DEF NotStarted
<1>3. QED
  BY <1>2 DEF Calm, Stage

LEMMA CalmNext == IInv /\ Calm /\ [Next]_vars => Calm'
<1> SUFFICES ASSUME IInv, Calm, [Next]_vars, faults' = 0, cl'.fail = "no", job'.ok
             PROVE  Stage'
  BY DEF Calm
<1>1. CASE ClientStep
  <2>1. job' = job /\ faults' = faults
    BY <1>1 DEF ClientStep, server
  <2>2. CASE cl.fail = "no"
    BY <1>1, <2>1, <2>2, CalmClient DEF Calm
  <2>3. CASE cl.fail # "no"
    <3>1. cl'.fail # "no"
      BY <1>1, <2>3 DEF ClientStep, Opens, Moves, AcksLast, AsksNext, SendsFull, HangsUp,
                        SendsRest, AsksAgain, Fails, Accepts, SendsEmpty, Breaks, Drops,
                        Held, Answered
    <3>2. QED
      BY <3>1
  <2>4. QED
    BY <2>2, <2>3
<1>2. CASE ServerStep
  <2>1. job' = job /\ faults' = faults /\ cl' = cl
    BY <1>2 DEF ServerStep, client
  <2>2. QED
    BY <1>2, <2>1, CalmServer DEF Calm
<1>3. CASE Fault
  <2>1. faults' = faults + 1 /\ faults \in Nat
    BY <1>3, Constant DEF Fault, IInv, Nets
  <2>2. QED
    BY <2>1
<1>4. CASE UNCHANGED vars
  BY <1>4 DEF vars, Calm, Stage, NotStarted, Opening, AtEnd, InSession, LastSaid, SessionOver,
              Climbs, Asked, Got, Heard, Said
<1>5. QED
  BY <1>1, <1>2, <1>3, <1>4, Steps

(* Where a client that waits finds its answers: none of them is older than *)
(* the block before the one it waits for, or newer than that one.          *)
LEMMA CalmAnswer ==
  ASSUME IInv, Stage, cl.pc = "wait", toC # <<>>
  PROVE  Head(toC).n = cl.block \/ (cl.block > 0 /\ Head(toC).n = cl.block - 1)
<1>1. InSession \/ LastSaid \/ SessionOver
  BY DEF Stage, NotStarted, Opening, AtEnd
<1>2. PICK hi \in Int : hi <= cl.block /\ Climbs(toC, Got, hi)
  BY <1>1, NotAhead
<1>3. toC \in Seq(Packets) /\ Got \in Int /\ cl.block \in Nat /\ Got = cl.block - 1
  BY CalmFacts DEF Got
<1>4. Head(toC).n \in Nat /\ Got <= Head(toC).n /\ Head(toC).n <= hi
  BY <1>2, <1>3, ClimbsTake, Zenon
<1>5. QED
  BY <1>2, <1>3, <1>4

(* As long as the network disturbs nothing, the packets under way are in   *)
(* the order of their numbers: those for the server are no older than the  *)
(* one before the packet it expects, and those for the client are at most  *)
(* one block behind it and never ahead, however often both ends repeat     *)
(* themselves and whatever synchnet throws away.                           *)
THEOREM CalmInvariance == Spec => []Calm
<1>1. Init => IInv /\ Calm
  BY IStart, CalmStart
<1>2. IInv /\ Calm /\ [Next]_vars => IInv' /\ Calm'
  BY INext, CalmNext
<1>3. QED
  BY <1>1, <1>2, PTL DEF Spec

(* The client fails with a block out of its window only when the network   *)
(* has disturbed a packet, or when the number it waits for is zero again,  *)
(* where th_block == block - 1 cannot hold in tftprrq and tftpwrq: packets *)
(* that were sent twice do not confuse it.                                 *)
THEOREM GivesUpCorrect == Spec => GivesUpWithCause
<1>1. ASSUME IInv, Calm, [Next]_vars, cl.fail = "no", faults = 0, GaveUp'
      PROVE  cl.block % Wire = 0
  <2>1. ~(UNCHANGED vars) /\ ~Fault /\ ~ServerStep
    BY <1>1 DEF vars, Fault, ServerStep, client, GaveUp
  <2>2. ClientStep
    BY <1>1, <2>1, Steps
  <2>3. Fails
    BY <1>1, <2>2 DEF GaveUp, ClientStep, Opens, Moves, AcksLast, AsksNext, SendsFull, HangsUp,
                      SendsRest, AsksAgain, Accepts, SendsEmpty, Breaks, Drops, Held, Answered
  <2>4. /\ cl.pc = "wait" /\ toC # <<>> /\ Head(toC).op # "ERROR"
        /\ ~Same(Head(toC).n, cl.block) /\ ~Previous(Head(toC).n, cl.block)
    BY <1>1, <2>3 DEF Fails, Has
  <2>5. job.ok
    BY <1>1, <2>4, TakeFacts DEF IInv, Nets, ToClient
  <2>6. Stage
    BY <1>1, <2>5 DEF Calm
  <2>7. Head(toC).n # cl.block
    BY <2>4 DEF Same
  <2>8. cl.block > 0 /\ Head(toC).n = cl.block - 1
    BY <1>1, <2>4, <2>6, <2>7, CalmAnswer
  <2>9. cl.block \in Nat \ {0}
    BY <1>1, <2>8, CalmFacts
  <2>10. QED
    BY <2>4, <2>8, <2>9, Before
<1>2. IInv /\ Calm /\ faults \in Nat /\ [Next]_vars
        => [(cl.fail = "no" /\ GaveUp') => faults > 0 \/ cl.block % Wire = 0]_vars
  BY <1>1
<1>3. IInv => faults \in Nat
  BY Constant DEF IInv, Nets
<1>4. QED
  BY <1>2, <1>3, Invariance, CalmInvariance, PTL DEF Spec, GivesUpWithCause
=============================================================================
