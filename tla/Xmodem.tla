------------------------------- MODULE Xmodem -------------------------------
(***************************************************************************)
(* The command xmodem of pmon/cmds: it receives a file over the serial     *)
(* line, in packets of a block each, and answers every packet with ACK or  *)
(* NAK.                                                                    *)
(*                                                                         *)
(* A byte on the line has a value and, for the properties, the part of the *)
(* packet it was sent as.  The noise loses bytes and answers, turns them   *)
(* into others, and adds some: a changed byte may be any value of Noise,   *)
(* the next number, its inverse, EOT and CAN among them.  A block has one  *)
(* byte of data instead of 128; the data of block k, and the two bytes of  *)
(* its CRC, are values of their own, so that the CRC finds every change of *)
(* one of the three.  Data that look like a number or like a control byte, *)
(* and two blocks with the same CRC, are left out.                         *)
(* The sender is not part of the repository: it sends the block that is    *)
(* due, goes on when it reads ACK, sends the same again when it reads NAK  *)
(* or has waited long enough, ends the file with EOT, and gives up with    *)
(* CAN.                                                                    *)
(***************************************************************************)
EXTENDS Naturals, Sequences

CONSTANTS
    Blocks,     \* the blocks of the file are 1 .. Blocks
    W,          \* values of an unsigned char: block numbers are modulo W
    Cap,        \* bytes on the line, and added answers, that nobody has read
    Noise,      \* what a byte may be turned into, any value if it is Nat
    MaxFaults,  \* bound: bytes and answers lost, changed or added
    MaxTries    \* bound: repetitions of one packet before the sender gives up

ASSUME XmodemAssumption ==
    /\ Blocks \in Nat \ {0}
    /\ W \in Nat /\ W > 4
    /\ Cap \in Nat \ {0}
    /\ Noise \subseteq Nat
    /\ MaxFaults \in Nat
    /\ MaxTries \in Nat

VARIABLES
    pc,         \* "wait", "test", "get", "packet", "done"
    strXMODEM,  \* the bytes get_data has, at most Size
    count,      \* get_data: pauses it still puts up with
    BlockCount, \* the number expected, an unsigned char
    base,       \* the data stored, filesize of them
    outcome,    \* why the transfer ended, "none" before
    line,       \* bytes on the way to the monitor
    back,       \* answers on the way to the sender
    next,       \* sender: the block that is due; Blocks + 1 stands for EOT
    out,        \* sender: what is left of the packet it is sending
    tries,      \* sender: repetitions of this packet
    sender,     \* sender: "start", "send", "gone"
    faults,     \* bytes and answers that have gone wrong
    changed,    \* ghost: the bytes among them that were changed or added
    forged,     \* ghost: there was an ACK the monitor has not sent
    late        \* ghost: somebody was waited for in vain

vars == <<pc, strXMODEM, count, BlockCount, base, outcome, line, back, next,
          out, tries, sender, faults, changed, forged, late>>
receiver == <<pc, strXMODEM, count, BlockCount, base, outcome>>

SOH == 1
EOT == 4
CAN == 24
(* Block numbers and the bytes above are less than Apart, and what a block *)
(* has for data and for CRC is more.                                       *)
Apart == CAN + W + Blocks
Data(k) == Apart + k
CRC16hi(d) == d + 2 * Apart
CRC16lo(d) == d + 4 * Apart

Byte(v, of) == [v |-> v, of |-> of]
Junk(v) == Byte(v, "junk")
Size == 6       \* BLOCKSIZE + 5
Complement(n) == W - 1 - n

Packet(k) ==
    IF k > Blocks
    THEN <<Byte(EOT, "ctl")>>
    ELSE <<Byte(SOH, "ctl"), Byte(k % W, "no"), Byte(Complement(k % W), "inv"),
           Byte(Data(k), "data"), Byte(CRC16hi(Data(k)), "crc"),
           Byte(CRC16lo(Data(k)), "crc")>>

(* The user may have typed something before the transfer. *)
Init ==
    /\ pc = "wait" /\ strXMODEM = <<>> /\ count = 1
    /\ BlockCount = 1 /\ base = <<>> /\ outcome = "none"
    /\ back = <<>> /\ next = 1 /\ out = <<>> /\ tries = 0 /\ sender = "start"
    /\ late = FALSE /\ forged = FALSE
    /\ \/ line = <<>> /\ faults = 0 /\ changed = 0
       \/ /\ MaxFaults > 0 /\ faults = 1 /\ changed = 1
          /\ \E v \in Noise : line = <<Junk(v)>>

-----------------------------------------------------------------------------
(* The monitor. *)

(* xmodem_transfer asks for the file until a byte arrives. *)
put_wait_char ==
    /\ pc = "wait"
    /\ pc' = "test"
    /\ back' = Append(back, "C")
    /\ UNCHANGED <<strXMODEM, count, BlockCount, base, outcome, line, next, out,
                   tries, sender, faults, changed, forged, late>>

test_start ==
    /\ pc = "test"
    /\ pc' = IF line = <<>> THEN "wait" ELSE "get"
    /\ line = <<>> => back = <<>>     \* bound: one C at a time
    /\ UNCHANGED <<strXMODEM, count, BlockCount, base, outcome, line, back, next,
                   out, tries, sender, faults, changed, forged, late>>

(* get_data: a byte. *)
get_byte ==
    /\ pc = "get"
    /\ line # <<>>
    /\ strXMODEM' = Append(strXMODEM, Head(line))
    /\ line' = Tail(line)
    /\ pc' = IF Len(strXMODEM') = Size THEN "packet" ELSE "get"
    /\ UNCHANGED <<count, BlockCount, base, outcome, back, next, out, tries,
                   sender, faults, changed, forged, late>>

(* get_data: testchar has waited in vain.  An EOT or CAN is only noticed   *)
(* that way: the pause is nobody's fault then.                             *)
get_pause ==
    /\ pc = "get"
    /\ line = <<>>
    /\ late' = (late \/ strXMODEM = <<>> \/ strXMODEM[1].v = SOH)
    /\ IF count = 0
          THEN pc' = "packet" /\ UNCHANGED count
          ELSE count' = count - 1 /\ UNCHANGED pc
    /\ UNCHANGED <<strXMODEM, BlockCount, base, outcome, line, back, next, out,
                   tries, sender, faults, changed, forged>>

(* Back to get_data, with an answer for the sender. *)
Again(answer) ==
    /\ back' = Append(back, answer)
    /\ pc' = "get" /\ strXMODEM' = <<>> /\ count' = 1
    /\ UNCHANGED outcome

End(why) ==
    /\ pc' = "done" /\ outcome' = why
    /\ UNCHANGED <<strXMODEM, count, BlockCount, base>>

(* Mutant: the block's number is not compared. *)
BlockOK_anynumber(x) ==
    /\ x[2].v = Complement(x[3].v)
    /\ x[5].v = CRC16hi(x[4].v) /\ x[6].v = CRC16lo(x[4].v)

(* The number, its inverse and the CRC. *)
BlockOK(x) ==
    /\ BlockCount = x[2].v
    /\ x[3].v = Complement(BlockCount)
    /\ x[5].v = CRC16hi(x[4].v) /\ x[6].v = CRC16lo(x[4].v)

Good(x) == Len(x) = Size /\ x[1].v = SOH /\ BlockOK(x)

(* Mutant: the number goes on at the wrong value after the last one. *)
store_wrap(x) ==
    /\ base' = Append(base, x[4].v)
    /\ BlockCount' = IF BlockCount = W - 1 THEN 1 ELSE BlockCount + 1

store(x) ==
    /\ base' = Append(base, x[4].v)
    /\ BlockCount' = (BlockCount + 1) % W

(* Mutant: a packet that is cut off ends the file too. *)
packet_short ==
    /\ pc = "packet"
    /\ LET x == strXMODEM
       IN  IF x = <<>>
           THEN End("timeout") /\ UNCHANGED back
           ELSE IF x[1].v = EOT \/ (x[1].v = SOH /\ Len(x) < Size)
           THEN End("succeed") /\ back' = Append(back, "ACK")
           ELSE IF x[1].v = CAN
           THEN End("cancelled") /\ back' = Append(back, "ACK")
           ELSE IF Good(x)
           THEN store(x) /\ Again("ACK")
           ELSE UNCHANGED <<BlockCount, base>> /\ Again("NAK")
    /\ UNCHANGED <<line, next, out, tries, sender, faults, changed, forged, late>>

(* The rest of the loop of xmodem_transfer: what get_data has returned. *)
packet ==
    /\ pc = "packet"
    /\ LET x == strXMODEM
       IN  \/ /\ x = <<>>
              /\ End("timeout")
              /\ UNCHANGED back
           \/ /\ x # <<>> /\ x[1].v = EOT
              /\ End(IF x[1].of = "ctl" THEN "succeed" ELSE "mistaken")
              /\ back' = Append(back, "ACK")
           \/ /\ x # <<>> /\ x[1].v = CAN
              /\ End("cancelled")
              /\ back' = Append(back, "ACK")
           \/ /\ Good(x)
              /\ store(x)
              /\ Again("ACK")
           \/ /\ x # <<>> /\ x[1].v \notin {EOT, CAN}
              /\ ~Good(x)
              /\ UNCHANGED <<BlockCount, base>>
              /\ Again("NAK")
    /\ UNCHANGED <<line, next, out, tries, sender, faults, changed, forged, late>>

-----------------------------------------------------------------------------
(* The sender. *)

read_answer ==
    /\ out = <<>>
    /\ back # <<>>
    /\ back' = Tail(back)
    /\ \/ /\ sender = "start" /\ Head(back) = "C"
          /\ sender' = "send" /\ out' = Packet(1)
          /\ UNCHANGED <<next, tries>>
       \/ /\ sender = "send" /\ Head(back) = "ACK"
          /\ next' = next + 1
          /\ tries' = 0
          /\ IF next > Blocks
                THEN sender' = "gone" /\ UNCHANGED out
                ELSE out' = Packet(next + 1) /\ UNCHANGED sender
       \/ /\ sender = "send" /\ Head(back) = "NAK" /\ tries < MaxTries
          /\ tries' = tries + 1
          /\ out' = Packet(next)
          /\ UNCHANGED <<next, sender>>
       \/ /\ sender = "send" /\ Head(back) = "NAK" /\ tries = MaxTries
          /\ sender' = "gone" /\ out' = <<Byte(CAN, "ctl")>>
          /\ UNCHANGED <<next, tries>>
       \/ /\ \/ sender = "start" /\ Head(back) # "C"
             \/ sender = "send" /\ Head(back) = "C"
             \/ sender = "gone"
          /\ UNCHANGED <<next, tries, sender, out>>
    /\ UNCHANGED <<receiver, line, faults, changed, forged, late>>

(* No answer for a long time: the packet again, or the end. *)
no_answer ==
    /\ sender = "send" /\ out = <<>> /\ back = <<>>
    /\ late' = TRUE
    /\ \/ /\ tries < MaxTries
          /\ tries' = tries + 1
          /\ out' = Packet(next)
          /\ UNCHANGED sender
       \/ /\ sender' = "gone"
          /\ out' \in {<<>>, <<Byte(CAN, "ctl")>>}
          /\ UNCHANGED tries
    /\ UNCHANGED <<receiver, line, back, next, faults, changed, forged>>

(* A byte of the packet goes on the line; it may be lost or turned into    *)
(* another, or be followed by one that nobody sent.                        *)
send_byte ==
    /\ out # <<>>
    /\ Len(line) < Cap
    /\ out' = Tail(out)
    /\ \/ line' = Append(line, Head(out)) /\ UNCHANGED <<faults, changed>>
       \/ /\ faults < MaxFaults
          /\ faults' = faults + 1
          /\ \/ line' = line /\ UNCHANGED changed
             \/ /\ changed' = changed + 1
                /\ \E v \in Noise :
                      line' \in {Append(line, Junk(v)), line \o <<Head(out), Junk(v)>>}
    /\ UNCHANGED <<receiver, back, next, tries, sender, forged, late>>

(* An answer is lost, or turned into the other one, or one comes that the  *)
(* monitor has not sent.                                                   *)
spoil_answer ==
    /\ sender = "send"
    /\ faults < MaxFaults
    /\ faults' = faults + 1
    /\ \/ /\ back # <<>> /\ Head(back) # "C"
          /\ back' = Tail(back)
          /\ UNCHANGED forged
       \/ \E a \in {"ACK", "NAK"} :
             /\ \/ back # <<>> /\ Head(back) \notin {"C", a} /\ back' = <<a>> \o Tail(back)
                \/ Len(back) < Cap /\ back' = <<a>> \o back
             /\ forged' = (forged \/ a = "ACK")
    /\ UNCHANGED <<receiver, line, next, out, tries, sender, changed, late>>

-----------------------------------------------------------------------------
Next ==
    \/ put_wait_char \/ test_start \/ get_byte \/ get_pause \/ packet
    \/ read_answer \/ no_answer \/ send_byte \/ spoil_answer

(* Nothing obliges the sender to send: safety only. *)
Spec == Init /\ [][Next]_vars

-----------------------------------------------------------------------------
(* What is in memory is the beginning of the file, each block once and in  *)
(* order, whatever bytes and answers are lost, changed or late, up to a    *)
(* bound: a packet put together from pieces of two is not taken for one,   *)
(* and a block whose ACK was lost is not stored twice.  Fewer bytes and    *)
(* answers may be lost than the model's packet has bytes: two copies of a  *)
(* packet can lose just those that leave its inverse where the number is,  *)
(* and its number where the inverse is, and half way through the numbers   *)
(* that is the next packet.  Or one byte may be changed or added, and      *)
(* nothing else go wrong: the CRC is that of the data alone, so two        *)
(* changes turn the number of a block that is sent again, and its inverse, *)
(* into those of the next, and half way through the numbers one byte added *)
(* and one lost will do.  And no ACK may come that the monitor has not     *)
(* sent.                                                                   *)
Harm == faults + (Size - 2) * changed
Stored ==
    /\ Len(base) <= Blocks
    /\ \A k \in 1 .. Len(base) : base[k] = Data(k)
StoredPrefix == Harm < Size /\ ~forged => Stored

(* "transfer succeed!" means that the whole file is there, if the byte     *)
(* taken for EOT was sent as one, and no NAK on its way back was turned    *)
(* into ACK; and up to the same bound that there is nothing besides.  (The *)
(* byte may have been the number of block 4, when the SOH before it is     *)
(* lost, or when the bytes of a packet sent again complete an earlier one, *)
(* or any byte the noise has changed: outcome = "mistaken".)               *)
SuccessMeansAll ==
    outcome = "succeed" /\ ~forged =>
        /\ Len(base) >= Blocks
        /\ Harm < Size => Len(base) = Blocks

(* The transfer only ends without the whole file if something went wrong   *)
(* on the line, or one side was too slow for the other: the numbers go on  *)
(* right past the last one, and no packet that is right is refused.        *)
EndsWithCause ==
    (outcome # "none" /\ Len(base) < Blocks) => faults > 0 \/ late

=============================================================================
