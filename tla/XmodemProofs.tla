---------------------------- MODULE XmodemProofs -----------------------------
(***************************************************************************)
(* Proofs about the command xmodem, for every file, every width of the     *)
(* block number and of the line, and any number of faults.                 *)
(***************************************************************************)
EXTENDS Xmodem, TLAPS, SequenceTheorems

Bytes == [v : Nat, of : {"ctl", "no", "inv", "data", "crc", "junk"}]

Typed ==
  /\ pc \in {"wait", "test", "get", "packet", "done"}
  /\ strXMODEM \in Seq(Bytes) /\ line \in Seq(Bytes) /\ out \in Seq(Bytes)
  /\ BlockCount \in 0 .. W - 1 /\ base \in Seq(Nat)
  /\ outcome # "none" => pc = "done"
  /\ back \in Seq({"C", "ACK", "NAK"})
  /\ next \in Nat \ {0} /\ faults \in Nat /\ changed \in Nat
  /\ late \in BOOLEAN /\ forged \in BOOLEAN

(* Each ACK on its way stands for a block that is stored, unless noise has *)
(* made it: starting at n, f counts the blocks the sender will take for    *)
(* delivered.                                                              *)
One(a) == IF a = "ACK" THEN 1 ELSE 0
Credit(n, b, m) ==
  \E f \in [0 .. Len(b) -> Nat] :
    /\ n <= f[0]
    /\ \A i \in 1 .. Len(b) : f[i - 1] + One(b[i]) <= f[i]
    /\ \A i \in 0 .. Len(b) : f[i] <= m
Acked == outcome = "none" /\ ~forged => Credit(next - 1, back, Len(base))

(* An EOT is sent when all blocks have been acknowledged.                  *)
NoEOT(q) == \A i \in 1 .. Len(q) : ~(q[i].v = EOT /\ q[i].of = "ctl")
Ending   == next <= Blocks => NoEOT(strXMODEM) /\ NoEOT(line) /\ NoEOT(out)
Complete == outcome = "succeed" /\ ~forged => Len(base) >= Blocks

AInv == Typed /\ Acked /\ Ending /\ Complete

-----------------------------------------------------------------------------
(* Sequences and numbers.                                                  *)

LEMMA HeadMoves ==
  ASSUME NEW S, NEW s \in Seq(S), NEW t \in Seq(S), t # <<>>
  PROVE  Append(s, Head(t)) \o Tail(t) = s \o t
<1> DEFINE a == Append(s, Head(t)) \o Tail(t)
           b == s \o t
<1>1. Head(t) \in S /\ Tail(t) \in Seq(S) /\ Len(t) \in Nat \ {0} /\ Len(Tail(t)) = Len(t) - 1
  OBVIOUS
<1>2. Append(s, Head(t)) \in Seq(S)
  BY <1>1
<1>3. a \in Seq(S) /\ b \in Seq(S) /\ Len(a) = Len(b)
  BY <1>1, <1>2
<1>4. ASSUME NEW i \in 1 .. Len(a)
      PROVE  a[i] = b[i]
  <2>1. CASE i <= Len(s)
    BY <2>1, <1>1, <1>2
  <2>2. CASE i = Len(s) + 1
    BY <2>2, <1>1, <1>2
  <2>3. CASE i > Len(s) + 1
    BY <2>3, <1>1, <1>2
  <2>4. QED
    BY <2>1, <2>2, <2>3, <1>1, <1>2
<1>5. QED
  BY <1>3, <1>4, SeqEqual

LEMMA Wraps ==
  ASSUME NEW w \in Nat \ {0}, NEW r \in 0 .. w - 1, NEW m \in Nat
  PROVE  (r + m * w) % w = r
OBVIOUS

LEMMA Successor ==
  ASSUME NEW n \in Nat
  PROVE  /\ n % W \in 0 .. W - 1
         /\ ((n % W) + 1) % W = (n + 1) % W
<1>1. W \in Nat \ {0} /\ W > 4
  BY XmodemAssumption
<1> DEFINE r == n % W
           q == n \div W
<1>2. r \in 0 .. W - 1 /\ q \in Nat
  BY <1>1
<1>3. n = r + q * W
  BY <1>1
<1> HIDE DEF r, q
<1>4. CASE r < W - 1
  <2>1. n + 1 = (r + 1) + q * W /\ r + 1 \in 0 .. W - 1
    BY <1>1, <1>2, <1>3, <1>4
  <2>2. ((r + 1) + q * W) % W = r + 1
    BY <1>1, <1>2, <2>1, Wraps
  <2>3. (r + 1) % W = r + 1
    BY <1>1, <2>1
  <2>4. QED
    BY <1>2, <2>1, <2>2, <2>3 DEF r
<1>5. CASE r = W - 1
  <2>1. n + 1 = 0 + (q + 1) * W
    BY <1>1, <1>2, <1>3, <1>5
  <2>2. (0 + (q + 1) * W) % W = 0
    BY <1>1, <1>2, Wraps
  <2>3. (r + 1) % W = 0
    BY <1>1, <1>5
  <2>4. QED
    BY <1>2, <2>1, <2>2, <2>3 DEF r
<1>6. QED
  BY <1>1, <1>2, <1>4, <1>5

LEMMA Span ==
  /\ Apart \in Nat /\ Apart > 24 /\ Apart >= W /\ Apart > Blocks
  /\ \A k \in Nat : Data(k) \in Nat /\ CRC16hi(Data(k)) \in Nat /\ CRC16lo(Data(k)) \in Nat
BY XmodemAssumption DEF Apart, CAN, Data, CRC16hi, CRC16lo

LEMMA PacketFacts ==
  ASSUME NEW k \in Nat \ {0}
  PROVE  /\ Packet(k) \in Seq(Bytes)
         /\ k <= Blocks => /\ Len(Packet(k)) = 6
                           /\ Packet(k)[1].v = SOH
                           /\ Good(Packet(k)) <=> BlockCount = k % W
                           /\ NoEOT(Packet(k))
         /\ k > Blocks => Packet(k) = <<Byte(EOT, "ctl")>>
<1>1. k % W \in 0 .. W - 1 /\ W \in Nat /\ Blocks \in Nat
  BY Successor, XmodemAssumption
<1>2. Complement(k % W) \in Nat
  BY <1>1 DEF Complement
<1> DEFINE p == <<Byte(SOH, "ctl"), Byte(k % W, "no"), Byte(Complement(k % W), "inv"),
                  Byte(Data(k), "data"), Byte(CRC16hi(Data(k)), "crc"),
                  Byte(CRC16lo(Data(k)), "crc")>>
<1>3. /\ p[1] = Byte(SOH, "ctl") /\ p[2] = Byte(k % W, "no")
      /\ p[3] = Byte(Complement(k % W), "inv") /\ p[4] = Byte(Data(k), "data")
      /\ p[5] = Byte(CRC16hi(Data(k)), "crc") /\ p[6] = Byte(CRC16lo(Data(k)), "crc")
      /\ Len(p) = 6
  OBVIOUS
<1>4. /\ Byte(SOH, "ctl") \in Bytes /\ Byte(k % W, "no") \in Bytes
      /\ Byte(Complement(k % W), "inv") \in Bytes /\ Byte(Data(k), "data") \in Bytes
      /\ Byte(CRC16hi(Data(k)), "crc") \in Bytes /\ Byte(CRC16lo(Data(k)), "crc") \in Bytes
      /\ Byte(EOT, "ctl") \in Bytes
  BY <1>1, <1>2, Span DEF Byte, Bytes, SOH, EOT
<1>5. p \in Seq(Bytes) /\ <<Byte(EOT, "ctl")>> \in Seq(Bytes)
  BY <1>4
<1>6. k <= Blocks => Packet(k) = p
  BY <1>1 DEF Packet
<1>7. k > Blocks => Packet(k) = <<Byte(EOT, "ctl")>>
  BY <1>1 DEF Packet
<1>8. Good(p) <=> BlockCount = k % W
  BY <1>3 DEF Good, BlockOK, Byte, Size
<1>9. NoEOT(p)
  <2>1. \A i \in 1 .. Len(p) : i \in {1, 2, 3, 4, 5, 6}
    BY <1>3
  <2>2. QED
    BY <1>3, <2>1 DEF NoEOT, Byte, SOH, EOT
<1>10. p[1].v = SOH
  BY <1>3 DEF Byte
<1> HIDE DEF p
<1>11. Len(p) = 6
  BY <1>3
<1>12. Packet(k) \in Seq(Bytes)
  <2>1. CASE k <= Blocks
    BY <2>1, <1>5, <1>6
  <2>2. CASE k > Blocks
    BY <2>2, <1>5, <1>7, Zenon
  <2>3. QED
    BY <2>1, <2>2, <1>1
<1>13. ASSUME k <= Blocks
       PROVE  /\ Len(Packet(k)) = 6
              /\ Packet(k)[1].v = SOH
              /\ Good(Packet(k)) <=> BlockCount = k % W
              /\ NoEOT(Packet(k))
  BY <1>6, <1>8, <1>9, <1>10, <1>11, <1>13
<1>14. QED
  BY <1>7, <1>12, <1>13
-----------------------------------------------------------------------------
(* What the acknowledgements stand for.                                    *)

LEMMA CreditStart ==
  ASSUME NEW n \in Nat, NEW m \in Nat, n <= m
  PROVE  Credit(n, <<>>, m)
<1> DEFINE f == [i \in 0 .. 0 |-> n]
<1>1. Len(<<>>) = 0 /\ f \in [0 .. 0 -> Nat] /\ \A i \in 0 .. 0 : f[i] = n
  OBVIOUS
<1>2. 0 \in 0 .. 0 /\ 1 .. 0 = {}
  OBVIOUS
<1> HIDE DEF f
<1>3. QED
  BY <1>1, <1>2 DEF Credit

LEMMA CreditBound ==
  ASSUME NEW n \in Nat, NEW m \in Nat, NEW b \in Seq({"C", "ACK", "NAK"}), Credit(n, b, m)
  PROVE  n <= m
<1>1. PICK f \in [0 .. Len(b) -> Nat] : n <= f[0] /\ \A i \in 0 .. Len(b) : f[i] <= m
  BY DEF Credit
<1>2. 0 \in 0 .. Len(b)
  OBVIOUS
<1>3. QED
  BY <1>1, <1>2

LEMMA CreditTail ==
  ASSUME NEW n \in Nat, NEW m \in Nat, NEW b \in Seq({"C", "ACK", "NAK"}), b # <<>>,
         Credit(n, b, m)
  PROVE  Credit(n + One(Head(b)), Tail(b), m) /\ Credit(n, Tail(b), m)
<1>1. PICK f \in [0 .. Len(b) -> Nat] :
        /\ n <= f[0]
        /\ \A i \in 1 .. Len(b) : f[i - 1] + One(b[i]) <= f[i]
        /\ \A i \in 0 .. Len(b) : f[i] <= m
  BY DEF Credit
<1>2. /\ Len(b) \in Nat \ {0} /\ Len(Tail(b)) = Len(b) - 1
      /\ \A i \in 1 .. Len(b) - 1 : Tail(b)[i] = b[i + 1]
      /\ Head(b) = b[1]
  OBVIOUS
<1> DEFINE g == [i \in 0 .. Len(Tail(b)) |-> f[i + 1]]
<1>3. g \in [0 .. Len(Tail(b)) -> Nat]
  BY <1>2
<1>4. \A i \in 0 .. Len(Tail(b)) : g[i] = f[i + 1] /\ i + 1 \in 0 .. Len(b)
  BY <1>2
<1>5. \A a : One(a) \in {0, 1}
  BY DEF One
<1>6. f[0] \in Nat /\ f[1] \in Nat /\ f[0] + One(Head(b)) <= f[1] /\ g[0] = f[1]
  <2>1. 1 \in 1 .. Len(b) /\ 1 - 1 = 0 /\ 0 \in 0 .. Len(b) /\ 1 \in 0 .. Len(b)
        /\ 0 \in 0 .. Len(Tail(b)) /\ 0 + 1 = 1
    BY <1>2
  <2>2. QED
    BY <1>1, <1>2, <1>4, <2>1
<1>7. ASSUME NEW i \in 1 .. Len(Tail(b))
      PROVE  g[i - 1] + One(Tail(b)[i]) <= g[i]
  <2>1. /\ i - 1 \in 0 .. Len(Tail(b)) /\ i \in 0 .. Len(Tail(b))
        /\ i - 1 + 1 = i /\ i + 1 - 1 = i /\ i + 1 \in 1 .. Len(b)
        /\ i \in 1 .. Len(b) - 1
    BY <1>2
  <2>2. g[i - 1] = f[i] /\ g[i] = f[i + 1] /\ Tail(b)[i] = b[i + 1]
    BY <1>2, <1>4, <2>1
  <2>3. f[i] + One(b[i + 1]) <= f[i + 1]
    BY <1>1, <2>1
  <2>4. QED
    BY <2>2, <2>3
<1>8. \A i \in 0 .. Len(Tail(b)) : g[i] <= m
  BY <1>1, <1>4
<1>9. n + One(Head(b)) <= g[0] /\ n <= g[0]
  <2>1. One(Head(b)) \in {0, 1}
    BY <1>5
  <2>2. QED
    BY <1>1, <1>6, <2>1
<1> HIDE DEF g
<1>10. QED
  BY <1>3, <1>7, <1>8, <1>9 DEF Credit

LEMMA CreditPrepend ==
  ASSUME NEW n \in Nat, NEW m \in Nat, NEW b \in Seq({"C", "ACK", "NAK"}), Credit(n, b, m)
  PROVE  Credit(n, <<"NAK">> \o b, m) /\ <<"NAK">> \o b \in Seq({"C", "ACK", "NAK"})
<1>1. PICK f \in [0 .. Len(b) -> Nat] :
        /\ n <= f[0]
        /\ \A i \in 1 .. Len(b) : f[i - 1] + One(b[i]) <= f[i]
        /\ \A i \in 0 .. Len(b) : f[i] <= m
  BY DEF Credit
<1> DEFINE c == <<"NAK">> \o b
           k == Len(b)
<1>2. <<"NAK">> \in Seq({"C", "ACK", "NAK"}) /\ Len(<<"NAK">>) = 1 /\ <<"NAK">>[1] = "NAK"
  OBVIOUS
<1>3. /\ k \in Nat /\ c \in Seq({"C", "ACK", "NAK"}) /\ Len(c) = k + 1
      /\ c[1] = "NAK" /\ \A i \in 1 .. k : c[i + 1] = b[i]
  <2> HIDE DEF c
  <2>1. /\ k \in Nat /\ c \in Seq({"C", "ACK", "NAK"}) /\ Len(c) = 1 + k
        /\ \A i \in 1 .. Len(c) : c[i] = IF i <= 1 THEN <<"NAK">>[i] ELSE b[i - 1]
    BY <1>2, ConcatProperties DEF c
  <2>2. 1 \in 1 .. Len(c)
    BY <2>1
  <2>3. \A i \in 1 .. k : i + 1 \in 1 .. Len(c) /\ ~(i + 1 <= 1) /\ (i + 1) - 1 = i
    BY <2>1
  <2>4. QED
    BY <1>2, <2>1, <2>2, <2>3
<1> HIDE DEF c, k
<1> DEFINE g == [i \in 0 .. k + 1 |-> IF i = 0 THEN f[0] ELSE f[i - 1]]
<1>4. /\ g[0] = f[0] /\ \A i \in 0 .. k : g[i + 1] = f[i] /\ f[i] \in Nat /\ f[i] <= m
      /\ g \in [0 .. k + 1 -> Nat]
  <2>1. \A i \in 0 .. k : f[i] \in Nat /\ f[i] <= m
    BY <1>1 DEF k
  <2>2. 0 \in 0 .. k /\ 0 \in 0 .. k + 1
        /\ (\A i \in 0 .. k : i + 1 \in 0 .. k + 1 /\ i + 1 # 0 /\ (i + 1) - 1 = i)
        /\ (\A i \in 0 .. k + 1 : i # 0 => i - 1 \in 0 .. k)
    BY <1>3
  <2>3. QED
    BY <2>1, <2>2
<1> HIDE DEF g
<1>5. n <= g[0]
  BY <1>1, <1>4
<1>6. ASSUME NEW i \in 1 .. k + 1
      PROVE  g[i - 1] + One(c[i]) <= g[i]
  <2>1. CASE i = 1
    <3>1. 0 \in 0 .. k /\ 0 + 1 = 1 /\ i - 1 = 0
      BY <1>3, <2>1
    <3>2. g[1] = f[0] /\ f[0] \in Nat
      BY <1>4, <3>1
    <3>3. One(c[i]) = 0
      BY <1>3, <2>1 DEF One
    <3>4. QED
      BY <1>4, <2>1, <3>1, <3>2, <3>3
  <2>2. CASE i # 1
    <3> DEFINE j == i - 1
    <3>1. j \in 1 .. k /\ j - 1 \in 0 .. k /\ j \in 0 .. k /\ j + 1 = i /\ (j - 1) + 1 = i - 1
      BY <1>3, <2>2
    <3> HIDE DEF j
    <3>2. g[i] = f[j] /\ g[i - 1] = f[j - 1] /\ c[i] = b[j]
      <4>1. g[j + 1] = f[j] /\ g[(j - 1) + 1] = f[j - 1] /\ c[j + 1] = b[j]
        BY <1>3, <1>4, <3>1
      <4>2. QED
        BY <3>1, <4>1
    <3>3. f[j - 1] + One(b[j]) <= f[j]
      BY <1>1, <3>1 DEF k
    <3>4. QED
      BY <3>2, <3>3
  <2>3. QED
    BY <2>1, <2>2
<1>7. ASSUME NEW i \in 0 .. k + 1
      PROVE  g[i] <= m
  <2>1. CASE i = 0
    BY <1>3, <1>4, <2>1
  <2>2. CASE i # 0
    <3>1. i - 1 \in 0 .. k /\ (i - 1) + 1 = i
      BY <1>3, <2>2
    <3>2. QED
      BY <1>4, <3>1
  <2>3. QED
    BY <2>1, <2>2
<1>8. Credit(n, c, m)
  BY <1>3, <1>4, <1>5, <1>6, <1>7 DEF Credit
<1>9. QED
  BY <1>3, <1>8 DEF c

LEMMA CreditAppend ==
  ASSUME NEW n \in Nat, NEW m \in Nat, NEW b \in Seq({"C", "ACK", "NAK"}),
         NEW a \in {"C", "ACK", "NAK"}, Credit(n, b, m)
  PROVE  Credit(n, Append(b, a), m + One(a))
<1>1. PICK f \in [0 .. Len(b) -> Nat] :
        /\ n <= f[0]
        /\ \A i \in 1 .. Len(b) : f[i - 1] + One(b[i]) <= f[i]
        /\ \A i \in 0 .. Len(b) : f[i] <= m
  BY DEF Credit
<1> DEFINE c == Append(b, a)
           k == Len(b)
           d == One(a)
<1>2. k \in Nat /\ Len(c) = k + 1 /\ c[k + 1] = a /\ \A i \in 1 .. k : c[i] = b[i]
  OBVIOUS
<1>3. d \in {0, 1}
  BY DEF One
<1> HIDE DEF c, k, d
<1> DEFINE g == [i \in 0 .. k + 1 |-> IF i = k + 1 THEN m + d ELSE f[i]]
<1>4. /\ \A i \in 0 .. k : g[i] = f[i] /\ f[i] \in Nat
      /\ g[k + 1] = m + d
      /\ g \in [0 .. k + 1 -> Nat]
  BY <1>2, <1>3 DEF k
<1> HIDE DEF g
<1>5. n <= g[0]
  BY <1>1, <1>2, <1>4
<1>6. ASSUME NEW i \in 1 .. k + 1
      PROVE  g[i - 1] + One(c[i]) <= g[i]
  <2>1. CASE i = k + 1
    <3>1. i - 1 = k /\ k \in 0 .. k /\ One(c[i]) = d
      BY <1>2, <2>1 DEF d
    <3>2. f[k] <= m /\ f[k] \in Nat
      BY <1>1, <1>4, <3>1 DEF k
    <3>3. QED
      BY <1>3, <1>4, <2>1, <3>1, <3>2
  <2>2. CASE i \in 1 .. k
    <3>1. i - 1 \in 0 .. k /\ i \in 0 .. k /\ c[i] = b[i]
      BY <1>2, <2>2
    <3>2. f[i - 1] + One(b[i]) <= f[i]
      BY <1>1, <2>2 DEF k
    <3>3. QED
      BY <1>4, <3>1, <3>2
  <2>3. QED
    BY <1>2, <2>1, <2>2
<1>7. ASSUME NEW i \in 0 .. k + 1
      PROVE  g[i] <= m + d
  <2>1. CASE i = k + 1
    BY <1>3, <1>4, <2>1
  <2>2. CASE i \in 0 .. k
    <3>1. f[i] <= m /\ f[i] \in Nat
      BY <1>1, <1>4, <2>2 DEF k
    <3>2. QED
      BY <1>3, <1>4, <2>2, <3>1
  <2>3. QED
    BY <1>2, <2>1, <2>2
<1>8. Credit(n, c, m + d)
  BY <1>2, <1>4, <1>5, <1>6, <1>7 DEF Credit
<1>9. QED
  BY <1>8 DEF c, d
-----------------------------------------------------------------------------
(* Whatever goes wrong on the line: a block the sender takes for delivered *)
(* is stored, and a transfer that ended with its EOT has them all.         *)

LEMMA NoEOTFacts ==
  ASSUME NEW q \in Seq(Bytes), NoEOT(q)
  PROVE  /\ q # <<>> => /\ NoEOT(Tail(q))
                        /\ ~(Head(q).v = EOT /\ Head(q).of = "ctl")
                        /\ Head(q) = q[1]
         /\ \A x \in Bytes : ~(x.v = EOT /\ x.of = "ctl") => NoEOT(Append(q, x))
         /\ NoEOT(<<>>)
<1>1. ASSUME q # <<>>
      PROVE  /\ NoEOT(Tail(q))
             /\ ~(Head(q).v = EOT /\ Head(q).of = "ctl")
             /\ Head(q) = q[1]
  <2>1. /\ Len(q) \in Nat \ {0} /\ Len(Tail(q)) = Len(q) - 1 /\ Head(q) = q[1]
        /\ \A i \in 1 .. Len(q) - 1 : Tail(q)[i] = q[i + 1]
    BY <1>1
  <2>2. QED
    BY <2>1 DEF NoEOT
<1>2. ASSUME NEW x \in Bytes, ~(x.v = EOT /\ x.of = "ctl")
      PROVE  NoEOT(Append(q, x))
  <2>1. /\ Len(Append(q, x)) = Len(q) + 1
        /\ \A i \in 1 .. Len(q) : Append(q, x)[i] = q[i]
        /\ Append(q, x)[Len(q) + 1] = x
    OBVIOUS
  <2>2. QED
    BY <1>2, <2>1 DEF NoEOT
<1>3. NoEOT(<<>>)
  BY DEF NoEOT
<1>4. QED
  BY <1>1, <1>2, <1>3

LEMMA Numbers ==
  /\ W \in Nat /\ W > 4 /\ Blocks \in Nat \ {0} /\ Cap \in Nat \ {0}
  /\ MaxFaults \in Nat /\ MaxTries \in Nat /\ Noise \subseteq Nat
  /\ \A b \in 0 .. W - 1 : (b + 1) % W \in 0 .. W - 1
<1>1. W \in Nat /\ W > 4 /\ Blocks \in Nat \ {0} /\ Cap \in Nat \ {0}
      /\ MaxFaults \in Nat /\ MaxTries \in Nat /\ Noise \subseteq Nat
  BY XmodemAssumption
<1>2. \A b \in 0 .. W - 1 : b + 1 \in Nat
  OBVIOUS
<1>3. QED
  BY <1>1, <1>2, Successor

LEMMA Bad ==
  /\ \A v \in Noise : Junk(v) \in Bytes /\ Junk(v).of = "junk"
                      /\ ~(Junk(v).v = EOT /\ Junk(v).of = "ctl")
  /\ Byte(CAN, "ctl") \in Bytes
  /\ NoEOT(<<Byte(CAN, "ctl")>>) /\ <<Byte(CAN, "ctl")>> \in Seq(Bytes)
<1> DEFINE c == Byte(CAN, "ctl")
<1>1. c \in Bytes /\ ~(c.v = EOT /\ c.of = "ctl")
  BY DEF Byte, CAN, EOT, Bytes
<1> HIDE DEF c
<1>2. <<c>> \in Seq(Bytes) /\ Len(<<c>>) = 1 /\ <<c>>[1] = c
  BY <1>1
<1>3. NoEOT(<<c>>)
  BY <1>1, <1>2 DEF NoEOT
<1>4. \A v \in Noise : /\ Junk(v) \in Bytes /\ Junk(v).of = "junk"
                       /\ ~(Junk(v).v = EOT /\ Junk(v).of = "ctl")
  BY Numbers DEF Junk, Byte, Bytes
<1>5. QED
  BY <1>1, <1>2, <1>3, <1>4 DEF c

LEMMA Answers ==
  ASSUME NEW b \in Seq({"C", "ACK", "NAK"})
  PROVE  Append(b, "ACK") \in Seq({"C", "ACK", "NAK"})
         /\ Append(b, "NAK") \in Seq({"C", "ACK", "NAK"})
<1>1. "ACK" \in {"C", "ACK", "NAK"} /\ "NAK" \in {"C", "ACK", "NAK"}
  OBVIOUS
<1>2. QED
  BY <1>1, AppendProperties, Zenon

LEMMA AStart == Init => AInv
<1> SUFFICES ASSUME Init PROVE AInv
  OBVIOUS
<1>1. Typed
  <2>1. <<>> \in Seq(Bytes) /\ \A v \in Noise : <<Junk(v)>> \in Seq(Bytes)
    BY Bad
  <2>2. line \in Seq(Bytes) /\ faults \in Nat /\ changed \in Nat
    <3>1. 0 \in Nat /\ 1 \in Nat
      OBVIOUS
    <3>2. /\ line = <<>> \/ \E v \in Noise : line = <<Junk(v)>>
          /\ faults \in {0, 1} /\ changed \in {0, 1}
      BY DEF Init
    <3>3. QED
      BY <2>1, <3>1, <3>2, Zenon
  <2>3. 1 \in 0 .. W - 1 /\ 1 \in Nat \ {0} /\ FALSE \in BOOLEAN
        /\ <<>> \in Seq(Nat) /\ <<>> \in Seq({"C", "ACK", "NAK"})
    BY Numbers
  <2>4. QED
    BY <2>1, <2>2, <2>3 DEF Init, Typed
<1>2. Acked
  <2>1. next = 1 /\ base = <<>> /\ back = <<>>
    BY DEF Init
  <2>2. Credit(0, <<>>, 0)
    BY CreditStart
  <2>3. QED
    BY <2>1, <2>2 DEF Acked
<1>3. Ending
  <2>1. \A b : <<b>>[1] = b /\ Len(<<b>>) = 1
    OBVIOUS
  <2>2. NoEOT(<<>>) /\ \A v \in Noise : NoEOT(<<Junk(v)>>)
    BY Bad, <2>1 DEF NoEOT
  <2>3. QED
    BY <2>2 DEF Init, Ending
<1>4. Complete
  BY DEF Init, Complete
<1>5. QED
  BY <1>1, <1>2, <1>3, <1>4 DEF AInv

(* One action after the other.                                             *)
LEMMA AReceive ==
  ASSUME AInv, \/ put_wait_char \/ test_start \/ get_byte \/ get_pause
  PROVE  AInv'
<1> USE DEF AInv
<1>1. CASE put_wait_char
  <2>1. Typed'
    BY <1>1, Numbers DEF put_wait_char, Typed
  <2>2. Acked'
    <3>1. SUFFICES ASSUME outcome = "none", ~forged
                   PROVE  Credit(next - 1, Append(back, "C"), Len(base))
      BY <1>1 DEF put_wait_char, Acked
    <3>2. Credit(next - 1, back, Len(base)) /\ next - 1 \in Nat /\ Len(base) \in Nat
          /\ back \in Seq({"C", "ACK", "NAK"}) /\ "C" \in {"C", "ACK", "NAK"}
      BY <3>1 DEF Acked, Typed
    <3>3. Credit(next - 1, Append(back, "C"), Len(base) + One("C"))
      BY <3>2, CreditAppend, Zenon
    <3>4. Len(base) + One("C") = Len(base)
      BY <3>2 DEF One
    <3>5. QED
      BY <3>3, <3>4
  <2>3. Ending' /\ Complete'
    BY <1>1 DEF put_wait_char, Ending, Complete
  <2>4. QED
    BY <2>1, <2>2, <2>3
<1>2. CASE test_start
  BY <1>2 DEF test_start, Typed, Acked, Ending, Complete
<1>3. CASE get_byte
  <2>1. /\ strXMODEM' = Append(strXMODEM, Head(line)) /\ line' = Tail(line) /\ line # <<>>
        /\ strXMODEM \in Seq(Bytes) /\ line \in Seq(Bytes)
        /\ UNCHANGED <<BlockCount, base, outcome, back, next, out, faults, changed, forged, late>>
        /\ pc' \in {"packet", "get"} /\ outcome = "none"
    BY <1>3 DEF get_byte, Typed
  <2>2. Head(line) \in Bytes /\ Tail(line) \in Seq(Bytes)
        /\ Append(strXMODEM, Head(line)) \in Seq(Bytes)
    BY <2>1
  <2>3. Typed'
    BY <2>1, <2>2 DEF Typed
  <2>4. Acked' /\ Complete'
    BY <2>1 DEF Acked, Complete
  <2>5. Ending'
    BY <2>1, <2>2, NoEOTFacts DEF Ending
  <2>6. QED
    BY <2>3, <2>4, <2>5
<1>4. CASE get_pause
  BY <1>4 DEF get_pause, Typed, Acked, Ending, Complete
<1>5. QED
  BY <1>1, <1>2, <1>3, <1>4

LEMMA APacket ==
  ASSUME AInv, packet
  PROVE  AInv'
<1>1. /\ Typed /\ Acked /\ Ending /\ Complete /\ pc = "packet" /\ outcome = "none"
      /\ UNCHANGED <<line, next, out, tries, sender, faults, changed, forged, late>>
      /\ strXMODEM \in Seq(Bytes) /\ base \in Seq(Nat) /\ next - 1 \in Nat
      /\ back \in Seq({"C", "ACK", "NAK"}) /\ Len(base) \in Nat /\ BlockCount \in 0 .. W - 1
      /\ ~forged => Credit(next - 1, back, Len(base))
      /\ next \in Nat
  BY DEF AInv, packet, Typed, Acked
<1>2. ASSUME ~forged
      PROVE  /\ Credit(next - 1, Append(back, "ACK"), Len(base) + 1)
             /\ Credit(next - 1, Append(back, "NAK"), Len(base))
  <2>1. "ACK" \in {"C", "ACK", "NAK"} /\ "NAK" \in {"C", "ACK", "NAK"}
        /\ One("ACK") = 1 /\ One("NAK") = 0
    BY DEF One
  <2>2. Credit(next - 1, Append(back, "ACK"), Len(base) + One("ACK"))
    BY <1>1, <1>2, <2>1, CreditAppend, Zenon
  <2>3. Credit(next - 1, Append(back, "NAK"), Len(base) + One("NAK"))
    BY <1>1, <1>2, <2>1, CreditAppend, Zenon
  <2>4. Len(base) + One("NAK") = Len(base)
    BY <1>1, <2>1
  <2>5. QED
    BY <2>1, <2>2, <2>3, <2>4
<1>3. NoEOT(<<>>)
  BY DEF NoEOT
<1> DEFINE x == strXMODEM
<1>4. ASSUME NEW why \in {"timeout", "mistaken", "cancelled"}, End(why),
             back' \in {back, Append(back, "ACK")}
      PROVE  AInv'
  <2>1. back' \in Seq({"C", "ACK", "NAK"})
    BY <1>1, <1>4, Answers
  <2>2. /\ pc' = "done" /\ outcome' \notin {"none", "succeed"}
        /\ UNCHANGED <<strXMODEM, count, BlockCount, base>>
    BY <1>4 DEF End
  <2>3. Typed'
    BY <1>1, <2>1, <2>2 DEF Typed
  <2>4. Acked' /\ Ending' /\ Complete'
    BY <1>1, <2>2 DEF Acked, Ending, Complete
  <2>5. QED
    BY <2>3, <2>4 DEF AInv
<1>5. ASSUME End("succeed"), x # <<>>, x[1].v = EOT, x[1].of = "ctl",
             back' = Append(back, "ACK")
      PROVE  AInv'
  <2>1. 1 \in 1 .. Len(x)
    BY <1>1, <1>5
  <2>2. next > Blocks
    <3>1. ~NoEOT(x)
      BY <1>5, <2>1 DEF NoEOT
    <3>2. QED
      BY <1>1, <3>1, Numbers DEF Ending
  <2>3. ~forged => Blocks <= Len(base)
    BY <1>1, <2>2, CreditBound, Numbers
  <2>4. QED
    <3>1. back' \in Seq({"C", "ACK", "NAK"})
      BY <1>1, <1>5, Answers
    <3>2. /\ pc' = "done" /\ outcome' = "succeed"
          /\ UNCHANGED <<strXMODEM, count, BlockCount, base>>
      BY <1>5 DEF End
    <3>3. Typed'
      BY <1>1, <3>1, <3>2 DEF Typed
    <3>4. Acked' /\ Ending' /\ Complete'
      BY <1>1, <2>3, <3>2 DEF Acked, Ending, Complete
    <3>5. QED
      BY <3>3, <3>4 DEF AInv
<1>6. ASSUME Good(x), store(x), Again("ACK")
      PROVE  AInv'
  <2>1. x[4] \in Bytes
    <3>1. Len(x) = 6
      BY <1>6 DEF Good, Size
    <3>2. 4 \in 1 .. Len(x)
      BY <3>1
    <3>3. QED
      BY <1>1, <3>2
  <2>2. x[4].v \in Nat
    BY <2>1 DEF Bytes
  <2>3. base' \in Seq(Nat) /\ Len(base') = Len(base) + 1
    BY <1>1, <1>6, <2>2 DEF store
  <2>4. BlockCount' \in 0 .. W - 1
    BY <1>1, <1>6, Numbers DEF store
  <2>5. /\ back' = Append(back, "ACK") /\ pc' = "get" /\ strXMODEM' = <<>> /\ outcome' = "none"
    BY <1>1, <1>6 DEF Again
  <2>6. Typed'
    BY <1>1, <2>3, <2>4, <2>5 DEF Typed
  <2>7. Acked'
    BY <1>1, <1>2, <2>3, <2>5 DEF Acked
  <2>8. Ending' /\ Complete'
    BY <1>1, <1>3, <2>5 DEF Ending, Complete
  <2>9. QED
    BY <2>6, <2>7, <2>8 DEF AInv
<1>7. ASSUME UNCHANGED <<BlockCount, base>>, Again("NAK")
      PROVE  AInv'
  <2>1. /\ back' = Append(back, "NAK") /\ pc' = "get" /\ strXMODEM' = <<>> /\ outcome' = "none"
    BY <1>1, <1>7 DEF Again
  <2>2. Typed'
    BY <1>1, <1>7, <2>1 DEF Typed
  <2>3. Acked'
    BY <1>1, <1>2, <1>7, <2>1 DEF Acked
  <2>4. Ending' /\ Complete'
    BY <1>1, <1>3, <1>7, <2>1 DEF Ending, Complete
  <2>5. QED
    BY <2>2, <2>3, <2>4 DEF AInv
<1>8. QED
  BY <1>4, <1>5, <1>6, <1>7 DEF packet
LEMMA ASend ==
  ASSUME AInv, \/ read_answer \/ no_answer \/ send_byte \/ spoil_answer
  PROVE  AInv'
<1>1. /\ Typed /\ Acked /\ Ending /\ Complete
      /\ strXMODEM \in Seq(Bytes) /\ line \in Seq(Bytes) /\ out \in Seq(Bytes)
      /\ base \in Seq(Nat) /\ Len(base) \in Nat /\ next \in Nat \ {0} /\ next - 1 \in Nat
      /\ back \in Seq({"C", "ACK", "NAK"}) /\ Blocks \in Nat /\ faults \in Nat
      /\ changed \in Nat /\ forged \in BOOLEAN
  BY Numbers DEF AInv, Typed
<1>2. UNCHANGED receiver
  BY DEF read_answer, no_answer, send_byte, spoil_answer, receiver
<1>3. UNCHANGED <<pc, strXMODEM, count, BlockCount, base, outcome>>
  BY <1>2 DEF receiver
<1>4. forged' \in BOOLEAN /\ (forged => forged') /\ Complete'
  <2>1. forged' = forged \/ \E a \in {"ACK", "NAK"} : forged' = (forged \/ a = "ACK")
    BY DEF read_answer, no_answer, send_byte, spoil_answer
  <2>2. forged' \in BOOLEAN /\ (forged => forged')
    BY <1>1, <2>1
  <2>3. QED
    BY <1>1, <1>3, <2>2 DEF Complete
<1>5. ASSUME back # <<>>
      PROVE  /\ Tail(back) \in Seq({"C", "ACK", "NAK"})
             /\ outcome = "none" /\ ~forged =>
                  /\ Credit(next - 1, Tail(back), Len(base))
                  /\ Head(back) = "ACK" => Credit((next + 1) - 1, Tail(back), Len(base))
  <2>1. Tail(back) \in Seq({"C", "ACK", "NAK"})
    BY <1>1, <1>5
  <2>2. ASSUME outcome = "none", ~forged
        PROVE  /\ Credit(next - 1, Tail(back), Len(base))
               /\ Credit(next - 1 + One(Head(back)), Tail(back), Len(base))
    <3>1. Credit(next - 1, back, Len(base))
      BY <1>1, <2>2 DEF Acked
    <3>2. QED
      BY <1>1, <1>5, <3>1, CreditTail
  <2>3. Head(back) = "ACK" => next - 1 + One(Head(back)) = (next + 1) - 1
    BY <1>1 DEF One
  <2>4. QED
    BY <2>1, <2>2, <2>3
<1>6. ASSUME NEW k \in Nat \ {0}
      PROVE  Packet(k) \in Seq(Bytes) /\ (k <= Blocks => NoEOT(Packet(k)))
  BY <1>6, PacketFacts
<1>7. CASE read_answer
  <2>1. /\ back # <<>> /\ back' = Tail(back) /\ out = <<>>
        /\ UNCHANGED <<line, faults, changed, forged, late>>
    BY <1>7 DEF read_answer
  <2>2. CASE next' = next /\ out' \in {out, Packet(1), Packet(next), <<Byte(CAN, "ctl")>>}
    <3>1. 1 \in Nat \ {0} /\ 1 <= Blocks
      BY Numbers
    <3>2. out' \in Seq(Bytes)
      BY <1>1, <1>6, <2>2, <3>1, Bad
    <3>3. next <= Blocks => NoEOT(out')
      BY <1>1, <1>6, <2>2, <3>1, Bad DEF Ending
    <3>4. Typed'
      BY <1>1, <1>3, <1>5, <2>1, <2>2, <3>2 DEF Typed
    <3>5. Acked'
      BY <1>3, <1>5, <2>1, <2>2 DEF Acked
    <3>6. Ending'
      BY <1>1, <1>3, <2>1, <2>2, <3>3 DEF Ending
    <3>7. QED
      BY <1>4, <3>4, <3>5, <3>6 DEF AInv
  <2>3. CASE next' = next + 1 /\ Head(back) = "ACK" /\ out' \in {out, Packet(next + 1)}
    <3>1. next + 1 \in Nat \ {0}
      BY <1>1
    <3>2. out' \in Seq(Bytes)
      BY <1>1, <1>6, <2>3, <3>1
    <3>3. next + 1 <= Blocks => NoEOT(out')
      <4>1. NoEOT(<<>>)
        BY DEF NoEOT
      <4>2. QED
        BY <1>6, <2>1, <2>3, <3>1, <4>1
    <3>4. next + 1 <= Blocks => next <= Blocks
      BY <1>1
    <3>5. Typed'
      BY <1>1, <1>3, <1>5, <2>1, <2>3, <3>1, <3>2 DEF Typed
    <3>6. Acked'
      <4>1. outcome' = outcome /\ base' = base
        BY <1>3
      <4>2. outcome = "none" /\ ~forged => Credit((next + 1) - 1, Tail(back), Len(base))
        BY <1>5, <2>1, <2>3, Zenon
      <4>3. next' - 1 = (next + 1) - 1
        BY <2>3, Zenon
      <4>4. QED
        BY <2>1, <4>1, <4>2, <4>3 DEF Acked
    <3>7. Ending'
      BY <1>1, <1>3, <2>1, <2>3, <3>3, <3>4 DEF Ending
    <3>8. QED
      BY <1>4, <3>5, <3>6, <3>7 DEF AInv
  <2>4. QED
    BY <1>7, <2>1, <2>2, <2>3, Numbers DEF read_answer
<1>8. CASE no_answer
  <2>1. /\ UNCHANGED <<line, back, next, faults, changed, forged>> /\ late' = TRUE
        /\ out' \in {Packet(next), <<>>, <<Byte(CAN, "ctl")>>}
    BY <1>8 DEF no_answer
  <2>2. out' \in Seq(Bytes) /\ (next <= Blocks => NoEOT(out'))
    <3>1. NoEOT(<<>>) /\ <<>> \in Seq(Bytes)
      BY DEF NoEOT
    <3>2. Packet(next) \in Seq(Bytes) /\ (next <= Blocks => NoEOT(Packet(next)))
      BY <1>1, <1>6
    <3>3. QED
      BY <2>1, <3>1, <3>2, Bad, Zenon
  <2>3. Typed'
    BY <1>1, <1>3, <2>1, <2>2 DEF Typed
  <2>4. Acked'
    BY <1>1, <1>3, <2>1 DEF Acked
  <2>5. Ending'
    BY <1>1, <1>3, <2>1, <2>2 DEF Ending
  <2>6. QED
    BY <1>4, <2>3, <2>4, <2>5 DEF AInv
<1>9. CASE send_byte
  <2>1. /\ out # <<>> /\ out' = Tail(out) /\ UNCHANGED <<back, next, late, forged>>
        /\ faults' \in {faults, faults + 1} /\ changed' \in {changed, changed + 1}
        /\ \/ line' \in {line, Append(line, Head(out))}
           \/ \E v \in Noise : line' \in {Append(line, Junk(v)), line \o <<Head(out), Junk(v)>>}
    BY <1>9 DEF send_byte
  <2>2. Head(out) \in Bytes /\ Tail(out) \in Seq(Bytes)
    BY <1>1, <2>1
  <2>3. Append(line, Head(out)) \in Seq(Bytes)
    BY <1>1, <2>2, AppendProperties
  <2>4. ASSUME NEW v \in Noise
        PROVE  /\ line \o <<Head(out), Junk(v)>> = Append(Append(line, Head(out)), Junk(v))
               /\ Append(line, Junk(v)) \in Seq(Bytes)
               /\ Append(Append(line, Head(out)), Junk(v)) \in Seq(Bytes)
    <3> DEFINE j == Junk(v)
    <3>1. j \in Bytes
      BY Bad
    <3> HIDE DEF j
    <3>2. line \o <<Head(out), j>> = Append(Append(line, Head(out)), j)
      BY <1>1, <2>2, <3>1
    <3>3. Append(line, j) \in Seq(Bytes) /\ Append(Append(line, Head(out)), j) \in Seq(Bytes)
      BY <1>1, <2>3, <3>1, AppendProperties
    <3>4. QED
      BY <3>2, <3>3 DEF j
  <2>5. Typed'
    <3>1. line' \in Seq(Bytes)
      BY <1>1, <2>1, <2>3, <2>4, Zenon
    <3>2. faults' \in Nat /\ changed' \in Nat
      BY <1>1, <2>1
    <3>3. QED
      BY <1>1, <1>3, <2>1, <2>2, <3>1, <3>2 DEF Typed
  <2>6. Acked'
    BY <1>1, <1>3, <2>1 DEF Acked
  <2>7. ASSUME next <= Blocks
        PROVE  NoEOT(line') /\ NoEOT(Tail(out))
    <3>1. NoEOT(line) /\ NoEOT(out)
      BY <1>1, <2>7 DEF Ending
    <3>2. NoEOT(Tail(out)) /\ ~(Head(out).v = EOT /\ Head(out).of = "ctl")
      BY <1>1, <2>1, <3>1, NoEOTFacts
    <3>3. NoEOT(Append(line, Head(out)))
      BY <1>1, <2>2, <3>1, <3>2, NoEOTFacts
    <3>4. \A v \in Noise : NoEOT(Append(line, Junk(v)))
      BY <1>1, <3>1, Bad, NoEOTFacts
    <3>5. \A v \in Noise : NoEOT(Append(Append(line, Head(out)), Junk(v)))
      BY <2>3, <3>3, Bad, NoEOTFacts
    <3>6. QED
      BY <2>1, <2>4, <3>1, <3>2, <3>3, <3>4, <3>5, Zenon
  <2>8. Ending'
    BY <1>1, <1>3, <2>1, <2>7 DEF Ending
  <2>9. QED
    BY <1>4, <2>5, <2>6, <2>8 DEF AInv
<1>10. CASE spoil_answer
  <2>1. /\ faults' = faults + 1 /\ UNCHANGED <<line, next, out, changed, late>>
        /\ \/ back # <<>> /\ back' = Tail(back)
           \/ \E a \in {"ACK", "NAK"} :
                /\ \/ back # <<>> /\ back' = <<a>> \o Tail(back)
                   \/ back' = <<a>> \o back
                /\ forged' = (forged \/ a = "ACK")
    BY <1>10 DEF spoil_answer
  <2>2. ASSUME NEW a \in {"ACK", "NAK"}, NEW b \in Seq({"C", "ACK", "NAK"})
        PROVE  <<a>> \o b \in Seq({"C", "ACK", "NAK"})
    <3>1. <<a>> \in Seq({"C", "ACK", "NAK"})
      OBVIOUS
    <3>2. QED
      BY <3>1, ConcatProperties
  <2>3. back' \in Seq({"C", "ACK", "NAK"})
    BY <1>1, <1>5, <2>1, <2>2, Zenon
  <2>4. Typed'
    <3>1. faults' \in Nat
      BY <1>1, <2>1
    <3>2. QED
      BY <1>1, <1>3, <1>4, <2>1, <2>3, <3>1 DEF Typed
  <2>5. Acked'
    <3>1. SUFFICES ASSUME outcome = "none", ~forged' PROVE Credit(next - 1, back', Len(base))
      BY <1>3, <2>1 DEF Acked
    <3>2. Credit(next - 1, back, Len(base))
      BY <1>1, <1>4, <3>1 DEF Acked
    <3>3. CASE back # <<>> /\ back' = Tail(back)
      BY <1>4, <1>5, <3>1, <3>3
    <3>4. CASE back # <<>> /\ back' = <<"NAK">> \o Tail(back)
      <4>1. Credit(next - 1, Tail(back), Len(base)) /\ Tail(back) \in Seq({"C", "ACK", "NAK"})
        BY <1>4, <1>5, <3>1, <3>4
      <4>2. Credit(next - 1, <<"NAK">> \o Tail(back), Len(base))
        BY <1>1, <4>1, CreditPrepend
      <4>3. QED
        BY <3>4, <4>2
    <3>5. CASE back' = <<"NAK">> \o back
      <4>1. Credit(next - 1, <<"NAK">> \o back, Len(base))
        BY <1>1, <3>2, CreditPrepend
      <4>2. QED
        BY <3>5, <4>1
    <3>6. QED
      <4>1. \A a \in {"ACK", "NAK"} : forged' = (forged \/ a = "ACK") => a = "NAK"
        BY <3>1
      <4>2. QED
        BY <2>1, <3>3, <3>4, <3>5, <4>1, Zenon
  <2>6. Ending'
    BY <1>1, <1>3, <2>1 DEF Ending
  <2>7. QED
    BY <1>4, <2>4, <2>5, <2>6 DEF AInv
<1>11. QED
  BY <1>7, <1>8, <1>9, <1>10

(* What each ACK stands for is an inductive invariant, whatever is lost,   *)
(* changed or late.                                                        *)
THEOREM Invariance == Spec => []AInv
<1>1. ASSUME AInv, [Next]_vars
      PROVE  AInv'
  <2>1. CASE Next
    BY <1>1, <2>1, AReceive, APacket, ASend DEF Next
  <2>2. CASE UNCHANGED vars
    BY <1>1, <2>2 DEF vars, AInv, Typed, Acked, Ending, Complete
  <2>3. QED
    BY <1>1, <2>1, <2>2
<1>2. QED
  BY AStart, <1>1, PTL DEF Spec

-----------------------------------------------------------------------------
(* As long as nothing goes wrong, the transfer is a stop-and-wait: the     *)
(* user is asked for the file, or the bytes of one packet are somewhere    *)
(* between the two sides, or its ACK is, or the file is complete.          *)
Waiting ==
  /\ sender = "start" /\ pc \in {"wait", "test"} /\ outcome = "none"
  /\ strXMODEM = <<>> /\ line = <<>> /\ out = <<>>
  /\ next = 1 /\ base = <<>> /\ BlockCount = 1
  /\ back \in {<<>>, <<"C">>} /\ (pc = "wait" => back = <<>>)
Sending ==
  /\ sender = "send" /\ outcome = "none" /\ next \in 1 .. Blocks + 1
  /\ Len(base) = next - 1 /\ BlockCount = next % W
  /\ strXMODEM \o (line \o out) = Packet(next)
  /\ back \in {<<>>, <<"C">>} /\ (pc = "wait" => back = <<>>)
  /\ pc \in {"wait", "test", "get", "packet"}
  /\ pc \in {"wait", "test"} => strXMODEM = <<>>
  /\ pc = "packet" => line = <<>> /\ out = <<>>
Answered ==
  /\ sender = "send" /\ outcome = "none" /\ next \in 1 .. Blocks /\ pc = "get"
  /\ Len(base) = next /\ BlockCount = (next + 1) % W
  /\ strXMODEM = <<>> /\ line = <<>> /\ out = <<>>
  /\ back \in {<<"ACK">>, <<"C", "ACK">>}
Whole == pc = "done" /\ Len(base) = Blocks
Clean == faults = 0 /\ ~late => Waiting \/ Sending \/ Answered \/ Whole

LEMMA TwoAnswers ==
  ASSUME NEW S, NEW a \in S, NEW b \in S
  PROVE  Append(<<a>>, b) = <<a, b>>
<1> DEFINE x == Append(<<a>>, b)
           y == <<a, b>>
<1>1. x \in Seq(S) /\ Len(x) = 2 /\ x[1] = a /\ x[2] = b
  OBVIOUS
<1>2. y \in Seq(S) /\ Len(y) = 2 /\ y[1] = a /\ y[2] = b
  OBVIOUS
<1> HIDE DEF x, y
<1>3. \A i \in 1 .. 2 : i = 1 \/ i = 2
  OBVIOUS
<1>4. \A i \in 1 .. 2 : x[i] = y[i]
  BY <1>1, <1>2, <1>3
<1>5. x = y
  BY <1>1, <1>2, <1>4, SeqEqual
<1>6. QED
  BY <1>5 DEF x, y

LEMMA Queues ==
  /\ <<"C">> # <<>> /\ Head(<<"C">>) = "C" /\ Tail(<<"C">>) = <<>>
  /\ <<"ACK">> # <<>> /\ Head(<<"ACK">>) = "ACK" /\ Tail(<<"ACK">>) = <<>>
  /\ <<"C", "ACK">> # <<>> /\ Head(<<"C", "ACK">>) = "C" /\ Tail(<<"C", "ACK">>) = <<"ACK">>
  /\ Append(<<>>, "C") = <<"C">> /\ Append(<<>>, "ACK") = <<"ACK">>
  /\ Append(<<"C">>, "ACK") = <<"C", "ACK">>
<1>1. /\ <<"C">> # <<>> /\ Head(<<"C">>) = "C" /\ Tail(<<"C">>) = <<>>
      /\ <<"ACK">> # <<>> /\ Head(<<"ACK">>) = "ACK" /\ Tail(<<"ACK">>) = <<>>
  OBVIOUS
<1>2. <<"C", "ACK">> # <<>> /\ Head(<<"C", "ACK">>) = "C"
  OBVIOUS
<1>3. Tail(<<"C", "ACK">>) = <<"ACK">>
  <2> DEFINE q == <<"C", "ACK">>
             t == <<"ACK">>
  <2>1. /\ Len(q) = 2 /\ q[2] = "ACK" /\ q \in Seq({"C", "ACK"})
        /\ Len(t) = 1 /\ t[1] = "ACK" /\ t \in Seq({"C", "ACK"})
    OBVIOUS
  <2> HIDE DEF q, t
  <2>2. /\ Tail(q) \in Seq({"C", "ACK"}) /\ Len(Tail(q)) = 1
        /\ \A i \in 1 .. Len(Tail(q)) : Tail(q)[i] = q[i + 1]
    BY <2>1
  <2>3. \A i \in 1 .. Len(t) : Tail(q)[i] = t[i]
    <3>1. \A i \in 1 .. Len(t) : i = 1
      BY <2>1
    <3>2. 1 \in 1 .. Len(Tail(q)) /\ 1 + 1 = 2
      BY <2>2
    <3>3. Tail(q)[1] = q[2]
      BY <2>2, <3>2
    <3>4. QED
      BY <2>1, <3>1, <3>3
  <2>4. Tail(q) = t
    BY <2>1, <2>2, <2>3, SeqEqual
  <2>5. QED
    BY <2>4 DEF q, t
<1>4. Append(<<>>, "C") = <<"C">> /\ Append(<<>>, "ACK") = <<"ACK">>
  OBVIOUS
<1>5. Append(<<"C">>, "ACK") = <<"C", "ACK">>
  <2>1. "C" \in {"C", "ACK"} /\ "ACK" \in {"C", "ACK"}
    OBVIOUS
  <2>2. QED
    BY <2>1, TwoAnswers
<1>6. QED
  BY <1>1, <1>2, <1>3, <1>4, <1>5

LEMMA ByteMoves ==
  ASSUME NEW S, NEW s \in Seq(S), NEW l \in Seq(S), NEW o \in Seq(S), l # <<>>
  PROVE  Append(s, Head(l)) \o (Tail(l) \o o) = s \o (l \o o)
<1>1. Head(l) \in S /\ Tail(l) \in Seq(S) /\ Append(s, Head(l)) \in Seq(S)
  OBVIOUS
<1>2. Append(s, Head(l)) \o (Tail(l) \o o) = (Append(s, Head(l)) \o Tail(l)) \o o
  BY <1>1, ConcatAssociative
<1>3. Append(s, Head(l)) \o Tail(l) = s \o l
  BY HeadMoves
<1>4. (s \o l) \o o = s \o (l \o o)
  BY ConcatAssociative
<1>5. QED
  BY <1>2, <1>3, <1>4

LEMMA SomeBytes ==
  ASSUME NEW q, Len(q) = 6
  PROVE  q # <<>>
OBVIOUS

(* The bytes of a packet under way: s received, l on the line, o to come.  *)
UnderWay(s, l, o, k) ==
  /\ s # <<>> => s[1] = Packet(k)[1]
  /\ Len(s) + Len(l) + Len(o) = IF k <= Blocks THEN 6 ELSE 1
  /\ l # <<>> => Append(s, Head(l)) \o (Tail(l) \o o) = s \o (l \o o)
  /\ o # <<>> => s \o (Append(l, Head(o)) \o Tail(o)) = s \o (l \o o)
  /\ l = <<>> /\ o = <<>> => s = Packet(k)

LEMMA PacketUnderWay ==
  ASSUME NEW s \in Seq(Bytes), NEW l \in Seq(Bytes), NEW o \in Seq(Bytes),
         NEW k \in 1 .. Blocks + 1, s \o (l \o o) = Packet(k)
  PROVE  UnderWay(s, l, o, k)
<1>1. k \in Nat \ {0} /\ Blocks \in Nat
  BY Numbers
<1>2. l \o o \in Seq(Bytes) /\ Len(l \o o) = Len(l) + Len(o)
      /\ Len(s \o (l \o o)) = Len(s) + (Len(l) + Len(o))
  OBVIOUS
<1>3. s # <<>> => s[1] = Packet(k)[1]
  <2>1. s # <<>> => 1 \in 1 .. Len(s)
    OBVIOUS
  <2>2. QED
    BY <1>2, <2>1, ConcatProperties
<1>4. Len(s) + Len(l) + Len(o) = IF k <= Blocks THEN 6 ELSE 1
  <2>1. CASE k <= Blocks
    <3>1. Len(Packet(k)) = 6
      BY <1>1, <2>1, PacketFacts
    <3>2. Len(s) + (Len(l) + Len(o)) = 6
      BY <1>2, <3>1
    <3>3. Len(s) \in Nat /\ Len(l) \in Nat /\ Len(o) \in Nat
      OBVIOUS
    <3>4. QED
      BY <2>1, <3>2, <3>3
  <2>2. CASE k > Blocks
    <3>1. Packet(k) = <<Byte(EOT, "ctl")>>
      BY <1>1, <2>2, PacketFacts
    <3>2. Len(<<Byte(EOT, "ctl")>>) = 1
      OBVIOUS
    <3>3. QED
      BY <1>1, <1>2, <2>2, <3>1, <3>2
  <2>3. QED
    BY <1>1, <2>1, <2>2
<1>5. l # <<>> => Append(s, Head(l)) \o (Tail(l) \o o) = s \o (l \o o)
  BY ByteMoves
<1>6. o # <<>> => s \o (Append(l, Head(o)) \o Tail(o)) = s \o (l \o o)
  BY HeadMoves
<1>7. l = <<>> /\ o = <<>> => s = Packet(k)
  <2>1. <<>> \in Seq(Bytes) /\ <<>> \o <<>> = <<>> /\ s \o <<>> = s
    BY ConcatEmptySeq
  <2>2. QED
    BY <2>1
<1>8. QED
  BY <1>3, <1>4, <1>5, <1>6, <1>7 DEF UnderWay

LEMMA PacketFirst ==
  ASSUME NEW k \in 1 .. Blocks + 1
  PROVE  /\ k <= Blocks => Packet(k)[1].v = SOH
         /\ k > Blocks => Packet(k)[1].v = EOT /\ Packet(k)[1].of = "ctl"
         /\ Packet(k) # <<>> /\ Packet(k) \in Seq(Bytes)
<1>1. k \in Nat \ {0} /\ Blocks \in Nat
  BY Numbers
<1> DEFINE e == Byte(EOT, "ctl")
<1>2. e.v = EOT /\ e.of = "ctl"
  BY DEF Byte
<1> HIDE DEF e
<1>3. <<e>>[1] = e /\ <<e>> # <<>>
  OBVIOUS
<1>4. k > Blocks => Packet(k) = <<e>>
  BY <1>1, PacketFacts DEF e
<1>5. CASE k <= Blocks
  <2>1. Len(Packet(k)) = 6 /\ Packet(k)[1].v = SOH /\ Packet(k) \in Seq(Bytes)
    BY <1>1, <1>5, PacketFacts
  <2>2. ~(k > Blocks)
    BY <1>1, <1>5
  <2>3. Packet(k) # <<>>
    BY <2>1, SomeBytes
  <2>4. QED
    BY <2>1, <2>2, <2>3, Zenon
<1>6. CASE k > Blocks
  <2>1. Packet(k) \in Seq(Bytes)
    BY <1>1, PacketFacts
  <2>2. QED
    BY <1>1, <1>2, <1>3, <1>4, <1>6, <2>1
<1>7. QED
  BY <1>1, <1>5, <1>6
Stage == Waiting \/ Sending \/ Answered \/ Whole

(* Once everything has arrived nothing the sender does matters.            *)
LEMMA WholeStays ==
  ASSUME Whole, Next
  PROVE  Whole'
<1>1. UNCHANGED <<pc, base>>
  BY DEF Whole, Next, put_wait_char, test_start, get_byte, get_pause, packet,
         read_answer, no_answer, send_byte, spoil_answer, receiver
<1>2. QED
  BY <1>1 DEF Whole

LEMMA WaitingGoesOn ==
  ASSUME Typed, Waiting, Next, faults' = 0, late' = FALSE, faults = 0
  PROVE  Stage'
<1>1. CASE put_wait_char
  BY <1>1, Queues DEF put_wait_char, Waiting, Stage
<1>2. CASE test_start
  BY <1>2 DEF test_start, Waiting, Stage
<1>3. CASE read_answer
  <2>1. back = <<"C">> /\ pc = "test"
    BY <1>3 DEF read_answer, Waiting
  <2>2. /\ sender' = "send" /\ out' = Packet(1) /\ back' = <<>>
        /\ next' = 1 /\ UNCHANGED receiver /\ line' = <<>>
    BY <1>3, <2>1, Queues DEF read_answer, Waiting
  <2>3. /\ pc' = "test" /\ strXMODEM' = <<>> /\ BlockCount' = 1 /\ base' = <<>>
        /\ outcome' = "none"
    BY <2>1, <2>2 DEF receiver, Waiting
  <2>4. 1 \in 1 .. Blocks + 1 /\ 1 % W = 1
    <3>1. W \in Nat /\ W > 4 /\ Blocks \in Nat
      BY Numbers
    <3>2. QED
      BY <3>1
  <2>5. <<>> \o (<<>> \o Packet(1)) = Packet(1)
    BY <2>4, PacketFirst, ConcatEmptySeq
  <2>6. Len(<<>>) = 1 - 1
    OBVIOUS
  <2>7. Sending'
    BY <2>2, <2>3, <2>4, <2>5, <2>6 DEF Sending
  <2>8. QED
    BY <2>7 DEF Stage
<1>4. QED
  BY <1>1, <1>2, <1>3
     DEF Next, Waiting, get_byte, get_pause, packet, no_answer, send_byte, spoil_answer

LEMMA AnsweredGoesOn ==
  ASSUME Typed, Answered, Next, faults' = 0, late' = FALSE, faults = 0
  PROVE  Stage'
<1>1. CASE read_answer
  <2>1. CASE back = <<"C", "ACK">>
    <3>1. /\ back' = <<"ACK">> /\ UNCHANGED <<next, tries, sender, out>>
          /\ UNCHANGED <<receiver, line, faults, late>>
      BY <1>1, <2>1, Queues DEF read_answer, Answered
    <3>2. QED
      BY <3>1 DEF Answered, receiver, Stage
  <2>2. CASE back = <<"ACK">>
    <3>1. /\ back' = <<>> /\ next' = next + 1
          /\ UNCHANGED <<receiver, line, faults, late>>
          /\ (IF next > Blocks THEN sender' = "gone" /\ UNCHANGED out
                               ELSE out' = Packet(next + 1) /\ UNCHANGED sender)
      BY <1>1, <2>2, Queues DEF read_answer, Answered
    <3>2. next \in 1 .. Blocks /\ Blocks \in Nat
      BY Numbers DEF Answered
    <3>3. next + 1 \in 1 .. Blocks + 1 /\ ~(next > Blocks)
      BY <3>2
    <3>4. out' = Packet(next + 1) /\ sender' = "send"
      BY <3>1, <3>3 DEF Answered
    <3>5. /\ pc' = "get" /\ strXMODEM' = <<>> /\ line' = <<>> /\ outcome' = "none"
          /\ Len(base') = (next + 1) - 1 /\ BlockCount' = (next + 1) % W
      BY <3>1, <3>2 DEF Answered, receiver
    <3>6. <<>> \o (<<>> \o Packet(next + 1)) = Packet(next + 1)
      BY <3>3, PacketFirst, ConcatEmptySeq
    <3>7. Sending'
      BY <3>1, <3>3, <3>4, <3>5, <3>6 DEF Sending
    <3>8. QED
      BY <3>7 DEF Stage
  <2>3. QED
    BY <2>1, <2>2 DEF Answered
<1>2. ~put_wait_char /\ ~test_start /\ ~get_byte /\ ~packet
  BY DEF Answered, put_wait_char, test_start, get_byte, packet
<1>3. ~get_pause
  BY DEF Answered, get_pause
<1>4. ~no_answer /\ ~send_byte
  BY DEF Answered, no_answer, send_byte
<1>5. ~spoil_answer
  BY DEF spoil_answer
<1>6. QED
  BY <1>1, <1>2, <1>3, <1>4, <1>5 DEF Next

LEMMA SendingGoesOn ==
  ASSUME Typed, Sending, Next, faults' = 0, late' = FALSE, faults = 0
  PROVE  Stage'
<1> DEFINE s == strXMODEM
           k == next
<1>1. /\ s \in Seq(Bytes) /\ line \in Seq(Bytes) /\ out \in Seq(Bytes)
      /\ k \in 1 .. Blocks + 1 /\ Blocks \in Nat
      /\ base \in Seq(Nat) /\ Len(base) = k - 1 /\ BlockCount = k % W
      /\ s \o (line \o out) = Packet(k)
      /\ sender = "send" /\ outcome = "none" /\ back \in {<<>>, <<"C">>}
      /\ pc = "wait" => back = <<>>
  BY Numbers DEF Sending, Typed
<1>2. /\ s # <<>> => s[1] = Packet(k)[1]
      /\ Len(s) + Len(line) + Len(out) = IF k <= Blocks THEN 6 ELSE 1
      /\ line # <<>> => Append(s, Head(line)) \o (Tail(line) \o out) = s \o (line \o out)
      /\ out # <<>> => s \o (Append(line, Head(out)) \o Tail(out)) = s \o (line \o out)
      /\ line = <<>> /\ out = <<>> => s = Packet(k)
  <2>1. UnderWay(s, line, out, k)
    BY <1>1, PacketUnderWay, Zenon
  <2>2. QED
    BY <2>1 DEF UnderWay
<1>3. /\ k <= Blocks => Packet(k)[1].v = SOH
      /\ k > Blocks => Packet(k)[1].v = EOT /\ Packet(k)[1].of = "ctl"
      /\ Packet(k) # <<>>
  BY <1>1, PacketFirst
<1>4. CASE put_wait_char
  <2>1. pc = "wait" /\ pc' = "test" /\ back' = <<"C">>
        /\ UNCHANGED <<strXMODEM, count, BlockCount, base, outcome, line, next, out, sender>>
    BY <1>1, <1>4, Queues DEF put_wait_char
  <2>2. Sending'
    BY <2>1 DEF Sending
  <2>3. QED
    BY <2>2 DEF Stage
<1>5. CASE test_start
  <2>1. pc = "test" /\ pc' \in {"wait", "get"} /\ (pc' = "wait" => back = <<>>)
        /\ UNCHANGED <<strXMODEM, BlockCount, base, outcome, line, next, out, sender, back>>
    BY <1>5 DEF test_start
  <2>2. Sending'
    BY <2>1 DEF Sending
  <2>3. QED
    BY <2>2 DEF Stage
<1>6. CASE get_byte
  <2>1. /\ line # <<>> /\ s' = Append(s, Head(line)) /\ line' = Tail(line)
        /\ pc' = (IF Len(s') = 6 THEN "packet" ELSE "get")
        /\ UNCHANGED <<BlockCount, base, outcome, next, out, sender, back>>
    BY <1>6 DEF get_byte, Size
  <2>2. s' \o (line' \o out') = Packet(next')
    BY <1>1, <1>2, <2>1
  <2>3. s' \in Seq(Bytes) /\ line' \in Seq(Bytes) /\ out' \in Seq(Bytes)
        /\ Len(s') = Len(s) + 1 /\ Len(line') = Len(line) - 1 /\ Len(line) \in Nat \ {0}
        /\ Len(s) \in Nat /\ Len(out) \in Nat
    BY <1>1, <2>1
  <2>4. Len(s') = 6 => line' = <<>> /\ out' = <<>>
    <3>1. SUFFICES ASSUME Len(s') = 6 PROVE Len(line') = 0 /\ Len(out') = 0
      BY <2>3, EmptySeq
    <3>2. QED
      BY <1>2, <2>1, <2>3, <3>1
  <2>5. Sending'
    BY <1>1, <2>1, <2>2, <2>4 DEF Sending
  <2>6. QED
    BY <2>5 DEF Stage
<1>7. CASE get_pause
  <2>1. /\ line = <<>> /\ s # <<>> /\ s[1].v # SOH
        /\ pc' \in {"packet", "get"}
        /\ UNCHANGED <<strXMODEM, BlockCount, base, outcome, line, back, next, out, sender>>
    BY <1>7 DEF get_pause
  <2>2. k > Blocks
    BY <1>1, <1>2, <1>3, <2>1
  <2>3. out = <<>>
    <3>1. Len(s) \in Nat \ {0} /\ Len(line) = 0 /\ Len(out) \in Nat
      BY <1>1, <2>1
    <3>2. Len(out) = 0
      BY <1>1, <1>2, <2>2, <3>1
    <3>3. QED
      BY <1>1, <3>2, EmptySeq
  <2>4. Sending'
    BY <1>1, <2>1, <2>3 DEF Sending
  <2>5. QED
    BY <2>4 DEF Stage
<1>8. CASE packet
  <2>1. line = <<>> /\ out = <<>> /\ pc = "packet"
    BY <1>8 DEF packet, Sending
  <2>2. s = Packet(k) /\ s # <<>>
    BY <1>2, <1>3, <2>1
  <2>3. UNCHANGED <<line, next, out, sender>>
    BY <1>8 DEF packet
  <2>4. CASE k <= Blocks
    <3>1. k \in Nat \ {0}
      BY <1>1
    <3>2. Good(s) /\ s[1].v \notin {EOT, CAN}
      BY <1>1, <1>3, <2>2, <2>4, <3>1, PacketFacts DEF SOH, EOT, CAN
    <3>3. store(s) /\ Again("ACK")
      BY <1>8, <2>2, <3>2 DEF packet
    <3>4. Len(base') = k /\ BlockCount' = (k + 1) % W
      <4>1. k % W \in 0 .. W - 1 /\ ((k % W) + 1) % W = (k + 1) % W
        BY <3>1, Successor
      <4>2. BlockCount' = (k + 1) % W
        BY <1>1, <3>3, <4>1 DEF store
      <4>3. Len(base') = Len(base) + 1
        BY <1>1, <3>3 DEF store
      <4>4. QED
        BY <1>1, <4>2, <4>3
    <3>5. pc' = "get" /\ strXMODEM' = <<>> /\ outcome' = "none"
          /\ back' \in {<<"ACK">>, <<"C", "ACK">>}
      BY <1>1, <3>3, Queues DEF Again
    <3>6. k \in 1 .. Blocks
      BY <1>1, <2>4
    <3>7. Answered'
      BY <1>1, <2>1, <2>3, <3>4, <3>5, <3>6 DEF Answered
    <3>8. QED
      BY <3>7 DEF Stage
  <2>5. CASE k > Blocks
    <3>1. s[1].v = EOT /\ s[1].of = "ctl"
      BY <1>3, <2>2, <2>5
    <3>2. s[1].v # SOH /\ s[1].v # CAN
      BY <3>1 DEF EOT, SOH, CAN
    <3>3. ~Good(s)
      BY <3>2 DEF Good
    <3>4. End("succeed")
      BY <1>8, <2>2, <3>1, <3>2, <3>3 DEF packet
    <3>5. pc' = "done" /\ base' = base
      BY <3>4 DEF End
    <3>6. Len(base) = Blocks
      BY <1>1, <2>5
    <3>7. QED
      BY <3>5, <3>6 DEF Whole, Stage
  <2>6. QED
    BY <1>1, <2>4, <2>5
<1>9. CASE read_answer
  <2>1. /\ out = <<>> /\ back = <<"C">>
    BY <1>1, <1>9 DEF read_answer
  <2>2. /\ back' = <<>> /\ UNCHANGED <<next, tries, sender, out>>
        /\ UNCHANGED <<receiver, line, faults, late>>
    BY <1>1, <1>9, <2>1, Queues DEF read_answer
  <2>3. Sending'
    BY <2>2 DEF Sending, receiver
  <2>4. QED
    BY <2>3 DEF Stage
<1>10. CASE send_byte
  <2>1. /\ out # <<>> /\ out' = Tail(out) /\ line' = Append(line, Head(out))
        /\ UNCHANGED <<receiver, back, next, sender>>
    BY <1>10, Numbers DEF send_byte, Typed
  <2>2. s' \o (line' \o out') = Packet(next')
    BY <1>1, <1>2, <2>1 DEF receiver
  <2>3. pc' = pc /\ pc # "packet"
    BY <2>1 DEF receiver, Sending
  <2>4. Sending'
    BY <1>1, <2>1, <2>2, <2>3 DEF Sending, receiver
  <2>5. QED
    BY <2>4 DEF Stage
<1>11. QED
  BY <1>4, <1>5, <1>6, <1>7, <1>8, <1>9, <1>10 DEF Next, no_answer, spoil_answer, Typed
(* No fault is undone.                                                     *)
LEMMA Blamed ==
  ASSUME Typed, Next, faults' = 0, late' = FALSE
  PROVE  faults = 0 /\ late = FALSE
<1>1. faults \in Nat /\ late \in BOOLEAN
  BY DEF Typed
<1>2. faults' \in {faults, faults + 1}
  BY DEF Next, put_wait_char, test_start, get_byte, get_pause, packet,
         read_answer, no_answer, send_byte, spoil_answer
<1>3. faults = 0
  BY <1>1, <1>2
<1>4. late => late'
  BY DEF Next, put_wait_char, test_start, get_byte, get_pause, packet,
         read_answer, no_answer, send_byte, spoil_answer
<1>5. QED
  BY <1>1, <1>3, <1>4

LEMMA CleanGoesOn ==
  ASSUME Typed, Typed', Clean, [Next]_vars
  PROVE  Clean'
<1>1. CASE UNCHANGED vars
  BY <1>1 DEF vars, Clean, Waiting, Sending, Answered, Whole
<1>2. CASE Next
  <2>1. SUFFICES ASSUME faults' = 0, ~late' PROVE Stage'
    BY DEF Clean, Stage
  <2>2. late' = FALSE
    BY <2>1 DEF Typed
  <2>3. faults = 0 /\ late = FALSE
    BY <1>2, <2>1, <2>2, Blamed
  <2>4. Stage
    BY <2>3 DEF Clean, Stage
  <2>5. Whole => Stage'
    BY <1>2, WholeStays DEF Stage
  <2>6. QED
    BY <1>2, <2>1, <2>2, <2>3, <2>4, <2>5, WaitingGoesOn, SendingGoesOn, AnsweredGoesOn
       DEF Stage
<1>3. QED
  BY <1>1, <1>2

(* On a line without faults and with nobody too slow, the transfer is in   *)
(* one of its stages.                                                      *)
THEOREM CleanInvariance == Spec => []Clean
<1>1. Init => Clean
  BY DEF Init, Clean, Waiting
<1>2. AInv /\ AInv' /\ Clean /\ [Next]_vars => Clean'
  BY CleanGoesOn DEF AInv
<1>3. QED
  BY <1>1, <1>2, Invariance, PTL DEF Spec

(* A transfer that ends without the whole file has a cause: no number      *)
(* wraps wrongly, no packet that is right is refused, and nobody gives up  *)
(* on an answer that is on its way.                                        *)
THEOREM EndsWithCauseCorrect == Spec => []EndsWithCause
<1>1. ASSUME Typed, Clean
      PROVE  EndsWithCause
  <2>1. SUFFICES ASSUME outcome # "none", Len(base) < Blocks, ~(faults > 0), ~late
                 PROVE  FALSE
    BY DEF EndsWithCause
  <2>2. faults = 0 /\ Len(base) \in Nat /\ Blocks \in Nat
    BY <1>1, <2>1, Numbers DEF Typed
  <2>3. Len(base) # Blocks
    BY <2>1, <2>2
  <2>4. QED
    BY <1>1, <2>1, <2>2, <2>3 DEF Clean, Waiting, Sending, Answered, Whole
<1>2. AInv /\ Clean => EndsWithCause
  BY <1>1 DEF AInv
<1>3. QED
  BY <1>2, Invariance, CleanInvariance, PTL
-----------------------------------------------------------------------------
(* What a byte that has not been read, or not been answered, was sent as:  *)
(* in which block, which of its six bytes was due before it and which is   *)
(* due after it, and how much harm had been done by then, h of it to this  *)
(* byte.  A byte that nobody sent leaves what is due as it is.             *)
Marks == [k : Nat, a : 1 .. 6, z : 1 .. 6, h : {0, 5}, c : Nat]
Is(b, t) ==
  \/ t.h = 5 /\ t.z \in {t.a, (t.a % 6) + 1}
  \/ t.h = 0 /\ t.k > Blocks /\ b.v \in {EOT, CAN} /\ t.a = 1 /\ t.z = 1
  \/ t.h = 0 /\ t.k \in 1 .. Blocks /\ b = Packet(t.k)[t.a] /\ t.z = (t.a % 6) + 1

(* The bytes that must have been lost when z was due and now q is.         *)
Gap(z, q) == (q + 6 - z) % 6

Fits(b, t, n, f, m) ==
  /\ Is(b, t) /\ m <= t.k /\ t.k <= n /\ t.c <= f /\ t.h <= t.c
  /\ t.k <= Blocks => t.k <= m + 1
After(t, u) == t.c + Gap(t.z, u.a) + u.h <= u.c

(* The bytes s, with w what they were sent as, when byte q of packet n is  *)
(* due, the harm is f and m blocks are stored.                             *)
Trace(w, s, n, q, f, m) ==
  /\ w \in Seq(Marks) /\ Len(w) = Len(s)
  /\ \A i \in 1 .. Len(s) : Fits(s[i], w[i], n, f, m)
  /\ \A i, j \in 1 .. Len(s) : i < j => w[i].k <= w[j].k
  /\ \A i \in 1 .. Len(s) - 1 : After(w[i], w[i + 1])
  /\ s # <<>> => w[Len(s)].c + Gap(w[Len(s)].z, q) <= f

(* What is left of packet k.                                               *)
Rest(o, k) ==
  /\ Len(o) <= 6
  /\ \A i \in 1 .. Len(o) : o[i] = Packet(k)[(6 - Len(o)) + i]

Now == IF sender = "gone" THEN Blocks + 2 ELSE next
Pos(o) == IF o = <<>> THEN 1 ELSE 7 - Len(o)
Due == IF Now <= Blocks THEN Pos(out) ELSE 1
Speaks ==
  /\ sender # "gone" => next <= Blocks + 1
  /\ sender = "start" => out = <<>> /\ next = 1
  /\ Now <= Blocks => Rest(out, next)
  /\ Now > Blocks => Len(out) <= 6 /\ \A i \in 1 .. Len(out) : out[i].v \in {EOT, CAN}
Heard ==
  /\ BlockCount = (Len(base) + 1) % W /\ Len(base) <= Now
  /\ \E w \in Seq(Marks) : Trace(w, strXMODEM \o line, Now, Due, Harm, Len(base))
Kept == Harm < Size /\ ~forged => Stored /\ (pc # "done" => Heard)

LEMMA PacketValues ==
  ASSUME NEW k \in 1 .. Blocks
  PROVE  /\ Packet(k)[1].v = 1 /\ Packet(k)[2].v = k % W
         /\ Packet(k)[3].v = W - 1 - (k % W) /\ Packet(k)[4].v = Apart + k
         /\ Packet(k)[5].v = 3 * Apart + k /\ Packet(k)[6].v = 5 * Apart + k
<1>1. k \in Nat /\ Blocks \in Nat /\ Apart \in Nat /\ ~(k > Blocks)
  BY Numbers, Span
<1> DEFINE p == <<Byte(SOH, "ctl"), Byte(k % W, "no"), Byte(Complement(k % W), "inv"),
                  Byte(Data(k), "data"), Byte(CRC16hi(Data(k)), "crc"),
                  Byte(CRC16lo(Data(k)), "crc")>>
<1>2. Packet(k) = p
  BY <1>1 DEF Packet
<1>3. /\ p[1] = Byte(SOH, "ctl") /\ p[2] = Byte(k % W, "no")
      /\ p[3] = Byte(Complement(k % W), "inv") /\ p[4] = Byte(Data(k), "data")
      /\ p[5] = Byte(CRC16hi(Data(k)), "crc") /\ p[6] = Byte(CRC16lo(Data(k)), "crc")
  OBVIOUS
<1> HIDE DEF p
<1>4. /\ Packet(k)[1].v = 1 /\ Packet(k)[2].v = k % W
      /\ Packet(k)[3].v = W - 1 - (k % W) /\ Packet(k)[4].v = Data(k)
      /\ Packet(k)[5].v = CRC16hi(Data(k)) /\ Packet(k)[6].v = CRC16lo(Data(k))
  BY <1>2, <1>3 DEF Byte, SOH, Complement
<1>5. /\ Data(k) = Apart + k /\ CRC16hi(Data(k)) = 3 * Apart + k
      /\ CRC16lo(Data(k)) = 5 * Apart + k
  BY <1>1 DEF Data, CRC16hi, CRC16lo
<1>6. QED
  BY <1>4, <1>5

(* The value tells data and CRC from the rest, and one block's from        *)
(* another's.                                                              *)
LEMMA Values ==
  ASSUME NEW b, NEW t \in Marks, Is(b, t), t.h = 0
  PROVE  \/ t.k > Blocks /\ t.a = 1 /\ t.z = 1 /\ b.v \in {4, 24}
         \/ t.k \in 1 .. Blocks /\ t.a = 1 /\ t.z = 2 /\ b.v = 1
         \/ t.k \in 1 .. Blocks /\ t.a = 2 /\ t.z = 3 /\ b.v = t.k % W
         \/ t.k \in 1 .. Blocks /\ t.a = 3 /\ t.z = 4 /\ b.v = W - 1 - (t.k % W)
         \/ t.k \in 1 .. Blocks /\ t.a = 4 /\ t.z = 5 /\ b.v = Apart + t.k
         \/ t.k \in 1 .. Blocks /\ t.a = 5 /\ t.z = 6 /\ b.v = 3 * Apart + t.k
         \/ t.k \in 1 .. Blocks /\ t.a = 6 /\ t.z = 1 /\ b.v = 5 * Apart + t.k
<1>1. CASE t.k > Blocks /\ b.v \in {EOT, CAN} /\ t.a = 1 /\ t.z = 1
  BY <1>1 DEF EOT, CAN
<1>2. CASE t.k \in 1 .. Blocks /\ b = Packet(t.k)[t.a] /\ t.z = (t.a % 6) + 1
  <2>1. t.a \in {1, 2, 3, 4, 5, 6}
    BY DEF Marks
  <2>2. t.z = IF t.a = 6 THEN 1 ELSE t.a + 1
    BY <1>2, <2>1
  <2>3. QED
    BY <1>2, <2>1, <2>2, PacketValues
<1>3. QED
  BY <1>1, <1>2 DEF Is

(* A value that is not data or CRC, and what the others are.               *)
Plain(v, t) == v <= Apart /\ t.a \in 1 .. 3
Wide(v, t) ==
  /\ t.k \in 1 .. Blocks
  /\ \/ t.a = 4 /\ t.z = 5 /\ v = Apart + t.k
     \/ t.a = 5 /\ t.z = 6 /\ v = 3 * Apart + t.k
     \/ t.a = 6 /\ t.z = 1 /\ v = 5 * Apart + t.k

LEMMA Kinds ==
  ASSUME NEW b, NEW t \in Marks, Is(b, t), t.h = 0
  PROVE  Plain(b.v, t) \/ Wide(b.v, t)
<1>1. /\ Apart \in Nat /\ Apart > 24 /\ Apart >= W /\ W \in Nat /\ W > 4
      /\ t.k \in Nat /\ t.k % W \in 0 .. W - 1
  BY Span, Numbers, Successor DEF Marks
<1> DEFINE r == t.k % W
<1>2. r \in 0 .. W - 1
  BY <1>1
<1>3. \/ t.k > Blocks /\ t.a = 1 /\ t.z = 1 /\ b.v \in {4, 24}
      \/ t.k \in 1 .. Blocks /\ t.a = 1 /\ t.z = 2 /\ b.v = 1
      \/ t.k \in 1 .. Blocks /\ t.a = 2 /\ t.z = 3 /\ b.v = r
      \/ t.k \in 1 .. Blocks /\ t.a = 3 /\ t.z = 4 /\ b.v = W - 1 - r
      \/ t.k \in 1 .. Blocks /\ t.a = 4 /\ t.z = 5 /\ b.v = Apart + t.k
      \/ t.k \in 1 .. Blocks /\ t.a = 5 /\ t.z = 6 /\ b.v = 3 * Apart + t.k
      \/ t.k \in 1 .. Blocks /\ t.a = 6 /\ t.z = 1 /\ b.v = 5 * Apart + t.k
  BY Values
<1> HIDE DEF r
<1>4. QED
  BY <1>1, <1>2, <1>3 DEF Plain, Wide

(* A byte taken for the start, the number or the inverse.                  *)
LEMMA Header ==
  ASSUME NEW b, NEW t \in Marks, Is(b, t), t.h = 0, t.k <= Blocks \/ t.z # 1,
         b.v \in 0 .. W - 1
  PROVE  \/ t.a = 1 /\ t.z = 2 /\ b.v = 1
         \/ t.a = 2 /\ t.z = 3 /\ b.v = t.k % W
         \/ t.a = 3 /\ t.z = 4 /\ b.v = W - 1 - (t.k % W)
<1>1. /\ Apart \in Nat /\ Apart >= W /\ W \in Nat /\ W > 4 /\ Blocks \in Nat /\ t.k \in Nat
  BY Span, Numbers DEF Marks
<1> DEFINE r == t.k % W
           v == b.v
<1>2. \/ t.k > Blocks /\ t.z = 1
      \/ t.a = 1 /\ t.z = 2 /\ v = 1
      \/ t.a = 2 /\ t.z = 3 /\ v = r
      \/ t.a = 3 /\ t.z = 4 /\ v = W - 1 - r
      \/ t.k \in 1 .. Blocks /\ v = Apart + t.k
      \/ t.k \in 1 .. Blocks /\ v = 3 * Apart + t.k
      \/ t.k \in 1 .. Blocks /\ v = 5 * Apart + t.k
  BY Values
<1>3. v \in 0 .. W - 1
  OBVIOUS
<1> HIDE DEF r, v
<1>4. \/ t.a = 1 /\ t.z = 2 /\ v = 1
      \/ t.a = 2 /\ t.z = 3 /\ v = r
      \/ t.a = 3 /\ t.z = 4 /\ v = W - 1 - r
  BY <1>1, <1>2, <1>3
<1>5. QED
  BY <1>4 DEF r, v

(* Data and the first byte of a CRC that go together, or its two bytes;    *)
(* and data and the second byte.                                           *)
LEMMA Together ==
  ASSUME NEW u, NEW v, NEW t \in Marks, NEW s \in Marks, u \in Nat, v \in Nat,
         Plain(u, t) \/ Wide(u, t), Plain(v, s) \/ Wide(v, s)
  PROVE  /\ v = u + 2 * Apart =>
              /\ t.k = s.k /\ t.k \in 1 .. Blocks
              /\ \/ t.a = 4 /\ s.a = 5 /\ u = Apart + t.k
                 \/ t.a = 5 /\ s.a = 6 /\ u = 3 * Apart + t.k
         /\ v = u + 4 * Apart =>
              /\ t.k = s.k /\ t.k \in 1 .. Blocks
              /\ t.a = 4 /\ s.a = 6 /\ u = Apart + t.k
<1>1. Apart \in Nat /\ Apart > 24 /\ Apart > Blocks /\ Blocks \in Nat
  BY Span, Numbers
<1>2. t.k \in Nat /\ s.k \in Nat
  BY DEF Marks
<1> DEFINE kt == t.k
           ks == s.k
<1>3. /\ kt \in Nat /\ ks \in Nat
      /\ \/ u <= Apart /\ t.a \in 1 .. 3
         \/ kt \in 1 .. Blocks /\ t.a = 4 /\ u = Apart + kt
         \/ kt \in 1 .. Blocks /\ t.a = 5 /\ u = 3 * Apart + kt
         \/ kt \in 1 .. Blocks /\ t.a = 6 /\ u = 5 * Apart + kt
      /\ \/ v <= Apart /\ s.a \in 1 .. 3
         \/ ks \in 1 .. Blocks /\ s.a = 4 /\ v = Apart + ks
         \/ ks \in 1 .. Blocks /\ s.a = 5 /\ v = 3 * Apart + ks
         \/ ks \in 1 .. Blocks /\ s.a = 6 /\ v = 5 * Apart + ks
  BY <1>2 DEF Plain, Wide
<1> HIDE DEF kt, ks
<1>4. ASSUME v = u + 2 * Apart
      PROVE  /\ kt = ks /\ kt \in 1 .. Blocks
             /\ \/ t.a = 4 /\ s.a = 5 /\ u = Apart + kt
                \/ t.a = 5 /\ s.a = 6 /\ u = 3 * Apart + kt
  BY <1>1, <1>3, <1>4
<1>5. ASSUME v = u + 4 * Apart
      PROVE  /\ kt = ks /\ kt \in 1 .. Blocks /\ t.a = 4 /\ s.a = 6 /\ u = Apart + kt
  BY <1>1, <1>3, <1>5
<1>6. QED
  BY <1>4, <1>5 DEF kt, ks

LEMMA GapBounds ==
  /\ \A z, q \in 1 .. 6 : Gap(z, q) \in 0 .. 5 /\ (Gap(z, q) = 0 <=> q = z)
  /\ \A z, q, r \in 1 .. 6 : r = (q % 6) + 1 => Gap(z, r) <= Gap(z, q) + 1
<1>1. ASSUME NEW z \in 1 .. 6, NEW q \in 1 .. 6
      PROVE  Gap(z, q) = IF z <= q THEN q - z ELSE q + 6 - z
  <2>1. CASE z <= q
    <3>1. q + 6 - z = (q - z) + 6 /\ q - z \in 0 .. 5
      BY <2>1
    <3>2. \A d \in 0 .. 5 : (d + 6) % 6 = d
      OBVIOUS
    <3>3. QED
      BY <2>1, <3>1, <3>2 DEF Gap
  <2>2. CASE ~(z <= q)
    <3>1. q + 6 - z \in 0 .. 5
      BY <2>2
    <3>2. \A d \in 0 .. 5 : d % 6 = d
      OBVIOUS
    <3>3. QED
      BY <2>2, <3>1, <3>2 DEF Gap
  <2>3. QED
    BY <2>1, <2>2
<1>2. \A z, q \in 1 .. 6 : Gap(z, q) \in 0 .. 5 /\ (Gap(z, q) = 0 <=> q = z)
  BY <1>1
<1>3. ASSUME NEW z \in 1 .. 6, NEW q \in 1 .. 6, NEW r \in 1 .. 6, r = (q % 6) + 1
      PROVE  Gap(z, r) <= Gap(z, q) + 1
  <2>1. r = IF q = 6 THEN 1 ELSE q + 1
    BY <1>3
  <2>2. QED
    BY <1>1, <2>1
<1>4. QED
  BY <1>2, <1>3

(* A packet that takes the number of the next one from the bytes of two    *)
(* copies of packet a has lost a whole packet.                             *)
Reads(p, a) == IF p = 1 THEN 1 ELSE IF p = 2 THEN a ELSE W - 1 - a
LEMMA SixLost ==
  ASSUME NEW a \in 0 .. W - 1, NEW e \in 0 .. W - 1, e = (IF a = W - 1 THEN 0 ELSE a + 1),
         NEW p1 \in 1 .. 3, NEW p2 \in 1 .. 3, NEW p3 \in 1 .. 3,
         Reads(p1, a) = 1, Reads(p2, a) = e, Reads(p3, a) = W - 1 - e,
         NEW c1 \in Nat, NEW c2 \in Nat, NEW c3 \in Nat, NEW c4 \in Nat,
         c1 + Gap(p1 + 1, p2) <= c2, c2 + Gap(p2 + 1, p3) <= c3, c3 + Gap(p3 + 1, 4) <= c4
  PROVE  c4 >= 6
<1>1. W \in Nat /\ W > 4
  BY Numbers
<1>2. p1 = 1 /\ p2 = 3 /\ p3 = 2
  <2>1. p2 # 2 /\ p3 # 3
    BY <1>1 DEF Reads
  <2>2. p1 = 1
    BY <1>1, <2>1 DEF Reads
  <2>3. p2 = 3
    BY <1>1, <2>1, <2>2 DEF Reads
  <2>4. p3 = 2
    BY <1>1, <2>1, <2>3 DEF Reads
  <2>5. QED
    BY <2>2, <2>3, <2>4
<1>3. Gap(1 + 1, 3) = 1 /\ Gap(3 + 1, 2) = 4 /\ Gap(2 + 1, 4) = 1
  BY DEF Gap
<1>4. QED
  BY <1>2, <1>3

LEMMA NextNumber ==
  ASSUME NEW k \in Nat
  PROVE  /\ k % W \in 0 .. W - 1 /\ (k + 1) % W \in 0 .. W - 1
         /\ (k + 1) % W = IF k % W = W - 1 THEN 0 ELSE (k % W) + 1
<1>1. W \in Nat /\ W > 4
  BY Numbers
<1>2. k % W \in 0 .. W - 1 /\ ((k % W) + 1) % W = (k + 1) % W
  BY Successor
<1> DEFINE r == k % W
<1>3. r \in 0 .. W - 1 /\ (r + 1) % W = (k + 1) % W
  BY <1>2
<1> HIDE DEF r
<1>4. (r + 1) % W = IF r = W - 1 THEN 0 ELSE r + 1
  BY <1>1, <1>3
<1>5. QED
  BY <1>1, <1>3, <1>4 DEF r

LEMMA NotAgain ==
  ASSUME NEW k \in Nat, NEW m \in Nat, m <= k, k % W = (m + 1) % W
  PROVE  m + 1 <= k
<1>1. m % W # (m + 1) % W
  <2> DEFINE a == m % W
             e == (m + 1) % W
  <2>1. a \in 0 .. W - 1 /\ e = (IF a = W - 1 THEN 0 ELSE a + 1) /\ W \in Nat /\ W > 4
    BY NextNumber, Numbers
  <2> HIDE DEF a, e
  <2>2. a # e
    BY <2>1
  <2>3. QED
    BY <2>2 DEF a, e
<1>2. k # m
  BY <1>1
<1>3. QED
  BY <1>2

(* Of six bytes that make a right packet one was changed or added, if any  *)
(* was, and then nothing else has gone wrong: the bytes are in their order.*)
LEMMA OneSpoilt ==
  ASSUME NEW w, \A i \in 1 .. 6 : w[i] \in Marks /\ w[i].h <= w[i].c /\ w[i].c < 6,
         \A i \in 1 .. 5 : After(w[i], w[i + 1]),
         NEW j \in 1 .. 6, w[j].h = 5
  PROVE  /\ \A i \in 1 .. 6 : i # j => w[i].h = 0
         /\ \A i \in 1 .. 5 : w[i + 1].a = w[i].z
<1>1. \A i \in 1 .. 6 : /\ w[i].c \in 0 .. 5 /\ w[i].h \in {0, 5} /\ w[i].h <= w[i].c
                        /\ w[i].a \in 1 .. 6 /\ w[i].z \in 1 .. 6
  BY DEF Marks
<1>2. \A i \in 1 .. 5 : i \in 1 .. 6 /\ i + 1 \in 1 .. 6
  OBVIOUS
<1> DEFINE c(i) == w[i].c
           h(i) == w[i].h
           g(i) == Gap(w[i].z, w[i + 1].a)
<1>3. /\ \A i \in 1 .. 6 : c(i) \in 0 .. 5 /\ h(i) \in {0, 5} /\ h(i) <= c(i)
      /\ \A i \in 1 .. 5 : g(i) \in 0 .. 5 /\ (g(i) = 0 => w[i + 1].a = w[i].z)
      /\ \A i \in 1 .. 5 : c(i) + g(i) + h(i + 1) <= c(i + 1)
      /\ h(j) = 5
  BY <1>1, <1>2, GapBounds DEF After
<1> HIDE DEF c, h, g
<1>4. /\ c(1) \in 0 .. 5 /\ c(2) \in 0 .. 5 /\ c(3) \in 0 .. 5
      /\ c(4) \in 0 .. 5 /\ c(5) \in 0 .. 5 /\ c(6) \in 0 .. 5
      /\ h(1) \in {0, 5} /\ h(2) \in {0, 5} /\ h(3) \in {0, 5}
      /\ h(4) \in {0, 5} /\ h(5) \in {0, 5} /\ h(6) \in {0, 5}
      /\ g(1) \in 0 .. 5 /\ g(2) \in 0 .. 5 /\ g(3) \in 0 .. 5
      /\ g(4) \in 0 .. 5 /\ g(5) \in 0 .. 5 /\ h(1) <= c(1)
  <2>1. /\ 1 \in 1 .. 6 /\ 2 \in 1 .. 6 /\ 3 \in 1 .. 6 /\ 4 \in 1 .. 6 /\ 5 \in 1 .. 6 /\ 6 \in 1 .. 6
        /\ 1 \in 1 .. 5 /\ 2 \in 1 .. 5 /\ 3 \in 1 .. 5 /\ 4 \in 1 .. 5 /\ 5 \in 1 .. 5
    OBVIOUS
  <2>2. QED
    BY <1>3, <2>1
<1>5. /\ c(1) + g(1) + h(2) <= c(2) /\ c(2) + g(2) + h(3) <= c(3) /\ c(3) + g(3) + h(4) <= c(4)
      /\ c(4) + g(4) + h(5) <= c(5) /\ c(5) + g(5) + h(6) <= c(6)
  <2>1. /\ 1 \in 1 .. 5 /\ 2 \in 1 .. 5 /\ 3 \in 1 .. 5 /\ 4 \in 1 .. 5 /\ 5 \in 1 .. 5
        /\ 1 + 1 = 2 /\ 2 + 1 = 3 /\ 3 + 1 = 4 /\ 4 + 1 = 5 /\ 5 + 1 = 6
    OBVIOUS
  <2>2. QED
    BY <1>3, <2>1
<1>6. h(1) + g(1) + h(2) + g(2) + h(3) + g(3) + h(4) + g(4) + h(5) + g(5) + h(6) <= 5
  BY <1>4, <1>5
<1>7. j \in {1, 2, 3, 4, 5, 6}
  OBVIOUS
<1>8. g(1) = 0 /\ g(2) = 0 /\ g(3) = 0 /\ g(4) = 0 /\ g(5) = 0
  BY <1>3, <1>4, <1>6, <1>7
<1>9. ASSUME NEW i \in 1 .. 6, i # j
      PROVE  h(i) = 0
  <2>1. i \in {1, 2, 3, 4, 5, 6}
    OBVIOUS
  <2>2. QED
    BY <1>3, <1>4, <1>6, <1>7, <1>9, <2>1
<1>10. ASSUME NEW i \in 1 .. 5
       PROVE  w[i + 1].a = w[i].z
  <2>1. i \in {1, 2, 3, 4, 5}
    OBVIOUS
  <2>2. g(i) = 0
    BY <1>8, <2>1
  <2>3. QED
    BY <1>3, <2>2
<1>11. QED
  BY <1>9, <1>10 DEF h

(* Six bytes that make a right packet, of which none was changed or added. *)
LEMMA NoneSpoilt ==
  ASSUME NEW x, NEW w, NEW n \in Nat, NEW m \in Nat, NEW f \in Nat, f < 6,
         \A i \in 1 .. 6 : /\ w[i] \in Marks /\ Fits(x[i], w[i], n, f, m)
                           /\ x[i].v \in Nat /\ w[i].h = 0,
         \A i \in 1 .. 5 : After(w[i], w[i + 1]) /\ w[i].k <= w[i + 1].k,
         x[1].v = 1, x[2].v = (m + 1) % W, x[3].v = W - 1 - ((m + 1) % W),
         x[5].v = CRC16hi(x[4].v), x[6].v = CRC16lo(x[4].v)
  PROVE  w[4].k \in m + 1 .. Blocks /\ x[4].v = Apart + w[4].k
<1>1. /\ 1 \in 1 .. 6 /\ 2 \in 1 .. 6 /\ 3 \in 1 .. 6 /\ 4 \in 1 .. 6 /\ 5 \in 1 .. 6 /\ 6 \in 1 .. 6
      /\ 1 \in 1 .. 5 /\ 2 \in 1 .. 5 /\ 3 \in 1 .. 5
      /\ 1 + 1 = 2 /\ 2 + 1 = 3 /\ 3 + 1 = 4
  OBVIOUS
<1>2. /\ \A i \in 1 .. 6 : /\ w[i] \in Marks /\ Is(x[i], w[i]) /\ w[i].h = 0 /\ x[i].v \in Nat
                           /\ m <= w[i].k /\ w[i].c <= f
      /\ \A i \in 1 .. 6 : w[i].k \in Nat /\ w[i].c \in Nat /\ w[i].a \in 1 .. 6
      /\ Blocks \in Nat /\ W \in Nat /\ W > 4
  BY Numbers DEF Fits, Marks
<1>3. w[4].a = 4 /\ w[4].k \in 1 .. Blocks /\ x[4].v = Apart + w[4].k
  <2> DEFINE u == x[4].v
             v == x[6].v
             t == w[4]
             s == w[6]
  <2>1. /\ t \in Marks /\ s \in Marks /\ u \in Nat /\ v \in Nat /\ v = u + 4 * Apart
        /\ Plain(u, t) \/ Wide(u, t)
        /\ Plain(v, s) \/ Wide(v, s)
    BY <1>1, <1>2, Kinds DEF CRC16lo
  <2> HIDE DEF u, v, t, s
  <2>2. t.a = 4 /\ t.k \in 1 .. Blocks /\ u = Apart + t.k
    BY <2>1, Together
  <2>3. QED
    BY <2>2 DEF u, t
<1>4. ASSUME w[4].k = m
      PROVE  FALSE
  <2>1. w[1].k = m /\ w[2].k = m /\ w[3].k = m /\ m \in 1 .. Blocks
    <3>1. /\ w[1].k \in Nat /\ w[2].k \in Nat /\ w[3].k \in Nat
          /\ m <= w[1].k /\ m <= w[2].k /\ m <= w[3].k
          /\ w[1].k <= w[2].k /\ w[2].k <= w[3].k /\ w[3].k <= w[4].k
      BY <1>1, <1>2
    <3>2. QED
      BY <1>3, <1>4, <3>1
  <2> DEFINE a == m % W
             e == (m + 1) % W
  <2>2. a \in 0 .. W - 1 /\ e \in 0 .. W - 1 /\ e = IF a = W - 1 THEN 0 ELSE a + 1
    BY NextNumber
  <2>3. x[1].v = 1 /\ x[2].v = e /\ x[3].v = W - 1 - e
    OBVIOUS
  <2>4. ASSUME NEW i \in {1, 2, 3}, x[i].v \in 0 .. W - 1
        PROVE  w[i].a \in 1 .. 3 /\ w[i].z = w[i].a + 1 /\ Reads(w[i].a, a) = x[i].v
    <3>1. i \in 1 .. 6 /\ w[i].k = m /\ w[i].k <= Blocks
      BY <1>2, <2>1
    <3>2. \/ w[i].a = 1 /\ w[i].z = 2 /\ x[i].v = 1
          \/ w[i].a = 2 /\ w[i].z = 3 /\ x[i].v = w[i].k % W
          \/ w[i].a = 3 /\ w[i].z = 4 /\ x[i].v = W - 1 - (w[i].k % W)
      BY <1>2, <2>4, <3>1, Header
    <3>3. w[i].k % W = a
      BY <3>1
    <3> HIDE DEF a, e
    <3>4. QED
      BY <3>2, <3>3 DEF Reads
  <2> HIDE DEF a, e
  <2>5. 1 \in 0 .. W - 1 /\ W - 1 - e \in 0 .. W - 1
    BY <1>2, <2>2
  <2>6. /\ w[1].a \in 1 .. 3 /\ w[1].z = w[1].a + 1 /\ Reads(w[1].a, a) = 1
        /\ w[2].a \in 1 .. 3 /\ w[2].z = w[2].a + 1 /\ Reads(w[2].a, a) = e
        /\ w[3].a \in 1 .. 3 /\ w[3].z = w[3].a + 1 /\ Reads(w[3].a, a) = W - 1 - e
    BY <2>2, <2>3, <2>4, <2>5
  <2>7. /\ w[1].c + Gap(w[1].z, w[2].a) <= w[2].c
        /\ w[2].c + Gap(w[2].z, w[3].a) <= w[3].c
        /\ w[3].c + Gap(w[3].z, w[4].a) <= w[4].c
    <3>1. After(w[1], w[2]) /\ After(w[2], w[3]) /\ After(w[3], w[4])
          /\ w[2].h = 0 /\ w[3].h = 0 /\ w[4].h = 0
      BY <1>1
    <3>2. \A z, q \in 1 .. 6 : Gap(z, q) \in 0 .. 5
      BY GapBounds
    <3>3. w[1].z \in 1 .. 6 /\ w[2].z \in 1 .. 6 /\ w[3].z \in 1 .. 6
      BY <2>6
    <3>4. /\ w[1].c \in Nat /\ w[2].c \in Nat /\ w[3].c \in Nat
          /\ w[2].a \in 1 .. 6 /\ w[3].a \in 1 .. 6 /\ w[4].a \in 1 .. 6
      BY <1>1, <1>2
    <3>5. QED
      BY <3>1, <3>2, <3>3, <3>4 DEF After
  <2>8. w[4].c >= 6
    <3> DEFINE p1 == w[1].a
               p2 == w[2].a
               p3 == w[3].a
               c1 == w[1].c
               c2 == w[2].c
               c3 == w[3].c
               c4 == w[4].c
    <3>1. /\ p1 \in 1 .. 3 /\ p2 \in 1 .. 3 /\ p3 \in 1 .. 3
          /\ Reads(p1, a) = 1 /\ Reads(p2, a) = e /\ Reads(p3, a) = W - 1 - e
          /\ c1 \in Nat /\ c2 \in Nat /\ c3 \in Nat /\ c4 \in Nat
          /\ c1 + Gap(p1 + 1, p2) <= c2 /\ c2 + Gap(p2 + 1, p3) <= c3 /\ c3 + Gap(p3 + 1, 4) <= c4
      BY <1>1, <1>2, <1>3, <2>6, <2>7
    <3> HIDE DEF p1, p2, p3, c1, c2, c3, c4
    <3>2. c4 >= 6
      BY <2>2, <3>1, SixLost
    <3>3. QED
      BY <3>2 DEF c4
  <2>9. QED
    BY <1>1, <1>2, <2>8
<1>5. w[4].k \in Nat /\ m <= w[4].k
  BY <1>1, <1>2
<1>6. w[4].k \in m + 1 .. Blocks
  BY <1>3, <1>4, <1>5
<1>7. QED
  BY <1>3, <1>6

(* Six bytes that make a right packet, of which one was changed or added.  *)
LEMMA SpoiltPacket ==
  ASSUME NEW x, NEW w, NEW n \in Nat, NEW m \in Nat, NEW f \in Nat, f < 6,
         \A i \in 1 .. 6 : w[i] \in Marks /\ Fits(x[i], w[i], n, f, m) /\ x[i].v \in Nat,
         \A i \in 1 .. 5 : After(w[i], w[i + 1]) /\ w[i].k <= w[i + 1].k,
         x[1].v = 1, x[2].v = (m + 1) % W, x[3].v = W - 1 - ((m + 1) % W),
         x[5].v = CRC16hi(x[4].v), x[6].v = CRC16lo(x[4].v),
         NEW j \in 1 .. 6, w[j].h = 5
  PROVE  \E i \in {4, 5} : w[i].k \in m + 1 .. Blocks /\ x[4].v = Apart + w[i].k
<1>1. /\ 1 \in 1 .. 6 /\ 2 \in 1 .. 6 /\ 3 \in 1 .. 6 /\ 4 \in 1 .. 6 /\ 5 \in 1 .. 6 /\ 6 \in 1 .. 6
      /\ 1 \in 1 .. 5 /\ 2 \in 1 .. 5 /\ 3 \in 1 .. 5 /\ 4 \in 1 .. 5 /\ 5 \in 1 .. 5
      /\ 1 + 1 = 2 /\ 2 + 1 = 3 /\ 3 + 1 = 4 /\ 4 + 1 = 5 /\ 5 + 1 = 6
  OBVIOUS
<1>2. /\ \A i \in 1 .. 6 : w[i] \in Marks /\ Is(x[i], w[i]) /\ x[i].v \in Nat /\ m <= w[i].k
      /\ \A i \in 1 .. 6 : w[i].k \in Nat /\ w[i].a \in 1 .. 6 /\ w[i].z \in 1 .. 6
      /\ \A i \in 1 .. 6 : w[i].h \in {0, 5}
      /\ Blocks \in Nat /\ W \in Nat /\ W > 4
  BY Numbers DEF Fits, Marks
<1>3. /\ \A i \in 1 .. 6 : i # j => w[i].h = 0
      /\ w[2].a = w[1].z /\ w[3].a = w[2].z /\ w[4].a = w[3].z
      /\ w[5].a = w[4].z /\ w[6].a = w[5].z
  <2>1. \A i \in 1 .. 6 : w[i].h <= w[i].c /\ w[i].c < 6
    BY DEF Fits, Marks
  <2>2. /\ \A i \in 1 .. 6 : i # j => w[i].h = 0
        /\ \A i \in 1 .. 5 : w[i + 1].a = w[i].z
    BY <2>1, OneSpoilt
  <2>3. QED
    BY <1>1, <2>2
<1>4. /\ w[1].k <= w[2].k /\ w[2].k <= w[3].k /\ w[3].k <= w[4].k
      /\ w[4].k <= w[5].k /\ w[5].k <= w[6].k
  BY <1>1
<1>5. ASSUME NEW i \in {1, 2, 3}, i # j, w[i].z # 1
      PROVE  \/ w[i].a = 1 /\ w[i].z = 2 /\ x[i].v = 1
             \/ w[i].a = 2 /\ w[i].z = 3 /\ x[i].v = w[i].k % W
             \/ w[i].a = 3 /\ w[i].z = 4 /\ x[i].v = W - 1 - (w[i].k % W)
  <2>1. i \in 1 .. 6
    OBVIOUS
  <2>2. x[i].v \in 0 .. W - 1
    <3> DEFINE e == (m + 1) % W
    <3>1. e \in 0 .. W - 1
      BY NextNumber
    <3>2. x[1].v = 1 /\ x[2].v = e /\ x[3].v = W - 1 - e
      OBVIOUS
    <3> HIDE DEF e
    <3>3. QED
      BY <1>2, <3>1, <3>2
  <2>3. QED
    BY <1>2, <1>3, <1>5, <2>1, <2>2, Header
<1>6. (* The third byte is the inverse of the number of a later block.     *)
      ASSUME j # 3, w[4].a = 4
      PROVE  m + 1 <= w[3].k
  <2>1. x[3].v = W - 1 - (w[3].k % W)
    <3>1. 3 \in {1, 2, 3} /\ 3 # j /\ w[3].z = 4 /\ w[3].z # 1
      BY <1>3, <1>6
    <3>2. \/ w[3].z = 2 \/ w[3].z = 3 \/ x[3].v = W - 1 - (w[3].k % W)
      BY <1>5, <3>1
    <3>3. QED
      BY <3>1, <3>2
  <2>2. w[3].k % W = (m + 1) % W
    <3> DEFINE r == w[3].k % W
               e == (m + 1) % W
    <3>1. r \in 0 .. W - 1 /\ e \in 0 .. W - 1 /\ W - 1 - e = W - 1 - r
      <4>1. w[3].k \in Nat
        BY <1>1, <1>2
      <4>2. QED
        BY <2>1, <4>1, NextNumber
    <3> HIDE DEF r, e
    <3>2. r = e
      BY <1>2, <3>1
    <3>3. QED
      BY <3>2 DEF r, e
  <2>3. QED
    BY <1>1, <1>2, <2>2, NotAgain
<1>7. ASSUME j # 3, w[4].a = 5
      PROVE  FALSE
  <2>1. 3 \in {1, 2, 3} /\ 3 # j /\ w[3].z = 5 /\ w[3].z # 1
    BY <1>3, <1>7
  <2>2. w[3].z = 2 \/ w[3].z = 3 \/ w[3].z = 4
    BY <1>5, <2>1
  <2>3. QED
    BY <2>1, <2>2
<1>8. ASSUME NEW i \in 1 .. 6, i # j
      PROVE  Plain(x[i].v, w[i]) \/ Wide(x[i].v, w[i])
  BY <1>2, <1>3, <1>8, Kinds
<1>9. x[5].v = x[4].v + 2 * Apart /\ x[6].v = x[4].v + 4 * Apart
  BY DEF CRC16hi, CRC16lo
<1>10. CASE j = 4
  <2>1. w[4].a = 4 \/ w[4].a = 5 \/ w[4].z # 5
    <3>1. w[4].z \in {w[4].a, (w[4].a % 6) + 1} /\ w[4].a \in 1 .. 6
      BY <1>1, <1>2, <1>10 DEF Is
    <3>2. QED
      BY <3>1
  <2> DEFINE d == x[4].v
             u == x[5].v
             v == x[6].v
             t == w[5]
             s == w[6]
  <2>2. /\ t \in Marks /\ s \in Marks /\ u \in Nat /\ v \in Nat /\ d \in Nat
        /\ u = d + 2 * Apart /\ v = d + 4 * Apart
        /\ Plain(u, t) \/ Wide(u, t)
        /\ Plain(v, s) \/ Wide(v, s)
    BY <1>1, <1>2, <1>8, <1>9, <1>10
  <2> HIDE DEF d, u, v, t, s
  <2>3. t.a = 5 /\ t.k \in 1 .. Blocks /\ d = Apart + t.k
    <3>1. Apart \in Nat /\ Apart > Blocks /\ Blocks \in Nat
      BY Span, Numbers
    <3>2. /\ t.k \in 1 .. Blocks
          /\ \/ t.a = 4 /\ u = Apart + t.k
             \/ t.a = 5 /\ u = 3 * Apart + t.k
      <4>1. v = u + 2 * Apart
        BY <2>2, <3>1
      <4>2. /\ t \in Marks /\ s \in Marks /\ u \in Nat /\ v \in Nat
            /\ Plain(u, t) \/ Wide(u, t)
            /\ Plain(v, s) \/ Wide(v, s)
        BY <2>2
      <4>3. QED
        BY ONLY <4>1, <4>2, Together
    <3>3. QED
      BY <2>2, <3>1, <3>2
  <2>4. w[4].z = 5 /\ w[5].k \in 1 .. Blocks /\ x[4].v = Apart + w[5].k
    BY <1>3, <2>3 DEF t, d
  <2>5. w[4].a = 4
    BY <1>7, <1>10, <2>1, <2>4
  <2>6. m + 1 <= w[3].k
    BY <1>6, <1>10, <2>5
  <2>7. w[5].k \in m + 1 .. Blocks
    <3>1. w[3].k \in Nat /\ w[4].k \in Nat /\ w[5].k \in Nat
      BY <1>1, <1>2
    <3>2. QED
      BY <1>4, <2>4, <2>6, <3>1
  <2>8. QED
    BY <2>4, <2>7
<1>11. ASSUME w[4].a = 4, w[4].k \in 1 .. Blocks, x[4].v = Apart + w[4].k, m + 1 <= w[4].k
       PROVE  \E i \in {4, 5} : w[i].k \in m + 1 .. Blocks /\ x[4].v = Apart + w[i].k
  BY <1>2, <1>11
<1>12. ASSUME j # 3, w[4].a = 4
       PROVE  m + 1 <= w[4].k
  <2>1. w[3].k \in Nat /\ w[4].k \in Nat /\ m + 1 <= w[3].k
    BY <1>1, <1>2, <1>6, <1>12
  <2>2. QED
    BY <1>4, <2>1
<1>13. ASSUME j = 3, w[4].a = 4
       PROVE  m + 1 <= w[4].k
  <2>1. w[1].k \in Nat /\ w[2].k \in Nat /\ w[3].k \in Nat /\ w[4].k \in Nat
        /\ m <= w[1].k /\ w[1].k <= w[2].k /\ w[2].k <= w[3].k /\ w[3].k <= w[4].k
    BY <1>1, <1>2, <1>4
  <2>2. w[3].a = 3 \/ w[3].a = 4
    <3>1. w[3].z \in {w[3].a, (w[3].a % 6) + 1} /\ w[3].a \in 1 .. 6 /\ w[3].z = 4
      BY <1>1, <1>2, <1>3, <1>13 DEF Is
    <3>2. QED
      BY <3>1
  <2>3. CASE w[3].a = 3
    <3>1. w[2].z = 3
      BY <1>3, <2>3
    <3>2. x[2].v = w[2].k % W
      BY <1>5, <1>13, <3>1
    <3>3. m + 1 <= w[2].k
      BY <2>1, <3>2, NotAgain
    <3>4. QED
      BY <2>1, <3>3
  <2>4. CASE w[3].a = 4
    <3>1. w[2].z = 4
      BY <1>3, <2>4
    <3>2. w[2].a = 3 /\ x[2].v = W - 1 - (w[2].k % W)
      BY <1>5, <1>13, <3>1
    <3>3. w[1].z = 3
      BY <1>3, <3>2
    <3>4. x[1].v = w[1].k % W
      BY <1>5, <1>13, <3>3
    <3>5. SUFFICES ASSUME w[4].k = m PROVE FALSE
      BY <2>1
    <3>6. w[1].k = m /\ w[2].k = m
      BY <2>1, <3>5
    <3> DEFINE r == m % W
               e == (m + 1) % W
    <3>7. r = 1 /\ e = W - 1 - r
      BY <3>2, <3>4, <3>6
    <3>8. e = IF r = W - 1 THEN 0 ELSE r + 1
      BY NextNumber
    <3> HIDE DEF r, e
    <3>9. QED
      BY <1>2, <3>7, <3>8
  <2>5. QED
    BY <2>2, <2>3, <2>4
<1>14. CASE j # 4 /\ j # 6
  <2> DEFINE u == x[4].v
             v == x[6].v
             t == w[4]
             s == w[6]
  <2>1. /\ t \in Marks /\ s \in Marks /\ u \in Nat /\ v \in Nat /\ v = u + 4 * Apart
        /\ Plain(u, t) \/ Wide(u, t)
        /\ Plain(v, s) \/ Wide(v, s)
    BY <1>1, <1>2, <1>8, <1>9, <1>14
  <2> HIDE DEF u, v, t, s
  <2>2. t.a = 4 /\ t.k \in 1 .. Blocks /\ u = Apart + t.k
    BY <2>1, Together
  <2>3. w[4].a = 4 /\ w[4].k \in 1 .. Blocks /\ x[4].v = Apart + w[4].k
    BY <2>2 DEF t, u
  <2>4. QED
    BY <1>11, <1>12, <1>13, <2>3
<1>15. CASE j = 6
  <2> DEFINE u == x[4].v
             v == x[5].v
             t == w[4]
             s == w[5]
  <2>1. /\ t \in Marks /\ s \in Marks /\ u \in Nat /\ v \in Nat /\ v = u + 2 * Apart
        /\ Plain(u, t) \/ Wide(u, t)
        /\ Plain(v, s) \/ Wide(v, s)
    BY <1>1, <1>2, <1>8, <1>9, <1>15
  <2> HIDE DEF u, v, t, s
  <2>2. /\ t.k \in 1 .. Blocks
        /\ (t.a = 4 /\ u = Apart + t.k) \/ t.a = 5
    BY <2>1, Together
  <2>3. /\ w[4].k \in 1 .. Blocks
        /\ (w[4].a = 4 /\ x[4].v = Apart + w[4].k) \/ w[4].a = 5
    BY <2>2 DEF t, u
  <2>4. w[4].a = 4 /\ x[4].v = Apart + w[4].k
    BY <1>7, <1>15, <2>3
  <2>5. QED
    BY <1>11, <1>12, <1>15, <2>3, <2>4
<1>16. QED
  BY <1>10, <1>14, <1>15

(* A packet found right has the data of the block that is expected, as     *)
(* long as there was less harm than a packet has bytes.                    *)
LEMMA SixBytes ==
  ASSUME NEW x, NEW w, NEW n \in Nat, NEW m \in Nat, NEW f \in Nat, f < 6,
         \A i \in 1 .. 6 : w[i] \in Marks /\ Fits(x[i], w[i], n, f, m) /\ x[i].v \in Nat,
         \A i \in 1 .. 5 : After(w[i], w[i + 1]) /\ w[i].k <= w[i + 1].k,
         x[1].v = 1, x[2].v = (m + 1) % W, x[3].v = W - 1 - ((m + 1) % W),
         x[5].v = CRC16hi(x[4].v), x[6].v = CRC16lo(x[4].v)
  PROVE  m + 1 <= w[6].k /\ m + 1 <= Blocks /\ x[4].v = Data(m + 1)
<1>1. \A i \in 1 .. 6 : w[i].h \in {0, 5}
  BY DEF Marks
<1>2. \E i \in {4, 5} : w[i].k \in m + 1 .. Blocks /\ x[4].v = Apart + w[i].k
  <2>1. CASE \A i \in 1 .. 6 : w[i].h = 0
    <3>1. w[4].k \in m + 1 .. Blocks /\ x[4].v = Apart + w[4].k
      BY <2>1, NoneSpoilt
    <3>2. QED
      BY <3>1
  <2>2. CASE \E j \in 1 .. 6 : w[j].h = 5
    BY <2>2, SpoiltPacket
  <2>3. QED
    BY <1>1, <2>1, <2>2
<1>3. PICK i \in {4, 5} : w[i].k \in m + 1 .. Blocks /\ x[4].v = Apart + w[i].k
  BY <1>2
<1>4. /\ w[4].k \in Nat /\ w[5].k \in Nat /\ w[6].k \in Nat /\ Blocks \in Nat
      /\ w[i].k <= Blocks => w[i].k <= m + 1
      /\ w[4].k <= w[5].k /\ w[5].k <= w[6].k
  <2>1. 4 \in 1 .. 6 /\ 5 \in 1 .. 6 /\ 6 \in 1 .. 6 /\ 4 \in 1 .. 5 /\ 5 \in 1 .. 5
        /\ 4 + 1 = 5 /\ 5 + 1 = 6 /\ i \in 1 .. 6
    OBVIOUS
  <2>2. QED
    BY <2>1, Numbers DEF Fits, Marks
<1>5. w[i].k = m + 1 /\ m + 1 <= Blocks
  BY <1>3, <1>4
<1>6. m + 1 <= w[6].k
  BY <1>3, <1>4, <1>5
<1>7. QED
  BY <1>3, <1>5, <1>6 DEF Data
-----------------------------------------------------------------------------
(* The bytes on their way, when one is sent, lost, changed or added and    *)
(* when those of a packet have been answered.                              *)

LEMMA TraceLater ==
  ASSUME NEW s \in Seq(Bytes), NEW w \in Seq(Marks), NEW n \in Nat, NEW q \in 1 .. 6,
         NEW f \in Nat, NEW m \in Nat, Trace(w, s, n, q, f, m),
         NEW n2 \in Nat, NEW q2 \in 1 .. 6, NEW f2 \in Nat, n <= n2, f <= f2,
         \A z \in 1 .. 6 : Gap(z, q2) + f <= Gap(z, q) + f2
  PROVE  Trace(w, s, n2, q2, f2, m)
<1>1. Len(w) = Len(s) /\ Len(s) \in Nat /\ \A i \in 1 .. Len(s) : w[i] \in Marks
  BY DEF Trace
<1>2. ASSUME NEW i \in 1 .. Len(s)
      PROVE  Fits(s[i], w[i], n2, f2, m)
  <2> DEFINE k == w[i].k
             c == w[i].c
  <2>1. /\ Fits(s[i], w[i], n, f, m) /\ k \in Nat /\ c \in Nat
        /\ n \in Nat /\ n2 \in Nat /\ n <= n2 /\ f \in Nat /\ f2 \in Nat /\ f <= f2
    BY <1>1 DEF Trace, Marks
  <2>2. k <= n /\ c <= f
    BY <2>1 DEF Fits
  <2> HIDE DEF k, c
  <2>3. k <= n2 /\ c <= f2
    BY ONLY <2>1, <2>2
  <2>4. QED
    BY <2>1, <2>3 DEF Fits, k, c
<1>3. ASSUME s # <<>>
      PROVE  w[Len(s)].c + Gap(w[Len(s)].z, q2) <= f2
  <2>1. Len(s) \in 1 .. Len(s)
    BY <1>1, <1>3, EmptySeq
  <2> DEFINE c == w[Len(s)].c
             z == w[Len(s)].z
  <2>2. c \in Nat /\ z \in 1 .. 6
    BY <1>1, <2>1 DEF Marks
  <2>3. c + Gap(z, q) <= f
    BY <1>3 DEF Trace
  <2> HIDE DEF c, z
  <2>4. /\ Gap(z, q) \in 0 .. 5 /\ Gap(z, q2) \in 0 .. 5
        /\ Gap(z, q2) + f <= Gap(z, q) + f2
    BY <2>2, GapBounds
  <2>5. c + Gap(z, q2) <= f2
    <3> DEFINE g == Gap(z, q)
               g2 == Gap(z, q2)
    <3>1. /\ c \in Nat /\ g \in 0 .. 5 /\ g2 \in 0 .. 5 /\ f \in Nat /\ f2 \in Nat
          /\ c + g <= f /\ g2 + f <= g + f2
      BY <2>2, <2>3, <2>4
    <3> HIDE DEF g, g2
    <3>2. c + g2 <= f2
      BY ONLY <3>1
    <3>3. QED
      BY <3>2 DEF g2
  <2>6. QED
    BY <2>5 DEF c, z
<1>4. QED
  BY <1>2, <1>3 DEF Trace

LEMMA TraceAppend ==
  ASSUME NEW s \in Seq(Bytes), NEW w \in Seq(Marks), NEW n \in Nat, NEW q \in 1 .. 6,
         NEW f \in Nat, NEW m \in Nat, Trace(w, s, n, q, f, m),
         NEW b \in Bytes, NEW t \in Marks, NEW q2 \in 1 .. 6, NEW f2 \in Nat,
         Fits(b, t, n, f2, m), t.k = n, t.a = q, f + t.h <= t.c,
         t.c + Gap(t.z, q2) <= f2
  PROVE  Trace(Append(w, t), Append(s, b), n, q2, f2, m)
<1> DEFINE v == Append(w, t)
           r == Append(s, b)
           L == Len(s)
<1>1. /\ Len(w) = L /\ L \in Nat /\ v \in Seq(Marks) /\ Len(v) = L + 1 /\ Len(r) = L + 1
      /\ \A i \in 1 .. L : v[i] = w[i] /\ r[i] = s[i]
      /\ v[L + 1] = t /\ r[L + 1] = b
  BY DEF Trace
<1>2. /\ \A i \in 1 .. L : Fits(s[i], w[i], n, f, m) /\ w[i] \in Marks
      /\ \A i, j \in 1 .. L : i < j => w[i].k <= w[j].k
      /\ \A i \in 1 .. L - 1 : After(w[i], w[i + 1])
      /\ L > 0 => w[L].c + Gap(w[L].z, q) <= f
  <2>1. L > 0 => s # <<>>
    OBVIOUS
  <2>2. QED
    BY <1>1, <2>1 DEF Trace
<1>3. /\ \A u \in Marks : /\ u.k \in Nat /\ u.c \in Nat /\ u.h \in {0, 5}
                          /\ u.a \in 1 .. 6 /\ u.z \in 1 .. 6
      /\ r # <<>>
  <2>1. r # <<>>
    OBVIOUS
  <2> HIDE DEF v, r, L
  <2>2. ASSUME NEW u \in Marks
        PROVE  u.k \in Nat /\ u.c \in Nat /\ u.h \in {0, 5} /\ u.a \in 1 .. 6 /\ u.z \in 1 .. 6
    BY <2>2 DEF Marks
  <2>3. QED
    BY <2>1, <2>2
<1> HIDE DEF v, r, L
<1>4. ASSUME NEW i \in 1 .. L + 1
      PROVE  Fits(r[i], v[i], n, f2, m)
  <2>1. CASE i = L + 1
    BY <1>1, <2>1
  <2>2. CASE i \in 1 .. L
    <3>1. Fits(r[i], v[i], n, f, m) /\ v[i].c \in Nat
      BY <1>1, <1>2, <1>3, <2>2
    <3>2. f <= f2
      <4>1. t.c <= f2 /\ t.c \in Nat /\ t.h \in {0, 5}
        BY <1>3 DEF Fits
      <4>2. QED
        BY <4>1
    <3>3. QED
      BY <3>1, <3>2 DEF Fits
  <2>3. QED
    BY <1>1, <2>1, <2>2
<1>5. ASSUME NEW i \in 1 .. L + 1, NEW j \in 1 .. L + 1, i < j
      PROVE  v[i].k <= v[j].k
  <2>1. i \in 1 .. L
    BY <1>1, <1>5
  <2>2. CASE j = L + 1
    BY <1>1, <1>2, <2>1, <2>2 DEF Fits
  <2>3. CASE j \in 1 .. L
    BY <1>1, <1>2, <1>5, <2>1, <2>3
  <2>4. QED
    BY <1>1, <2>2, <2>3
<1>6. ASSUME NEW i \in 1 .. L
      PROVE  After(v[i], v[i + 1])
  <2>1. CASE i = L
    <3>1. v[i] = w[L] /\ v[i + 1] = t /\ L \in 1 .. L /\ L > 0
      BY <1>1, <2>1
    <3>2. After(w[L], t)
      <4> DEFINE c == w[L].c
                 z == w[L].z
      <4>1. c \in Nat /\ z \in 1 .. 6 /\ t.h \in {0, 5} /\ t.c \in Nat
        BY <1>2, <1>3, <3>1
      <4>2. c + Gap(z, q) <= f
        BY <1>2, <3>1
      <4> HIDE DEF c, z
      <4>3. Gap(z, q) \in 0 .. 5
        BY <4>1, GapBounds
      <4>4. c + Gap(z, q) + t.h <= t.c
        <5> DEFINE g == Gap(z, q)
                   h == t.h
                   e == t.c
        <5>1. /\ c \in Nat /\ g \in 0 .. 5 /\ h \in {0, 5} /\ e \in Nat /\ f \in Nat
              /\ c + g <= f /\ f + h <= e
          BY <4>1, <4>2, <4>3
        <5> HIDE DEF g, h, e
        <5>2. c + g + h <= e
          BY ONLY <5>1
        <5>3. QED
          BY <5>2 DEF g, h, e
      <4>5. QED
        BY <4>4 DEF c, z, After
    <3>3. QED
      BY <3>1, <3>2
  <2>2. CASE i \in 1 .. L - 1
    <3>1. i + 1 \in 1 .. L
      BY <1>1, <2>2
    <3>2. v[i + 1] = w[i + 1] /\ v[i] = w[i]
      BY <1>1, <3>1
    <3>3. After(w[i], w[i + 1])
      BY <1>2, <2>2
    <3>4. QED
      BY <3>2, <3>3
  <2>3. QED
    BY <1>1, <2>1, <2>2
<1>7. (L + 1) - 1 = L
  BY <1>1
<1>8. Trace(v, r, n, q2, f2, m)
  BY <1>1, <1>4, <1>5, <1>6, <1>7 DEF Trace
<1>9. QED
  BY <1>8 DEF v, r

LEMMA TraceGood ==
  ASSUME NEW x \in Seq(Bytes), NEW l \in Seq(Bytes), NEW w \in Seq(Marks), NEW n \in Nat,
         NEW q \in 1 .. 6, NEW f \in Nat, NEW m \in Nat, Trace(w, x \o l, n, q, f, m),
         Good(x), BlockCount = (m + 1) % W, f < 6
  PROVE  m + 1 <= w[6].k /\ m + 1 <= Blocks /\ x[4].v = Data(m + 1)
<1> DEFINE s == x \o l
<1>1. /\ Len(x) = 6 /\ Len(s) \in Nat /\ Len(s) >= 6 /\ Len(w) = Len(s)
      /\ \A i \in 1 .. 6 : s[i] = x[i]
  <2>1. /\ Len(x) \in Nat /\ Len(l) \in Nat /\ Len(x \o l) = Len(x) + Len(l)
        /\ \A i \in 1 .. Len(x) : (x \o l)[i] = x[i]
    OBVIOUS
  <2>2. Len(x) = 6 /\ Len(w) = Len(s)
    BY DEF Trace, Good, Size
  <2> HIDE DEF s
  <2>3. QED
    BY <2>1, <2>2 DEF s
<1>2. /\ \A i \in 1 .. Len(s) : Fits(s[i], w[i], n, f, m)
      /\ \A i, j \in 1 .. Len(s) : i < j => w[i].k <= w[j].k
      /\ \A i \in 1 .. Len(s) - 1 : After(w[i], w[i + 1])
  BY DEF Trace
<1> HIDE DEF s
<1>3. /\ \A i \in 1 .. 6 : i \in 1 .. Len(s) /\ i \in 1 .. Len(x)
      /\ \A i \in 1 .. 5 : i \in 1 .. Len(s) - 1 /\ i \in 1 .. Len(s) /\ i + 1 \in 1 .. Len(s) /\ i < i + 1
  BY <1>1
<1>4. \A i \in 1 .. 6 : w[i] \in Marks /\ Fits(x[i], w[i], n, f, m) /\ x[i].v \in Nat
  <2>1. \A i \in 1 .. 6 : w[i] \in Marks /\ Fits(x[i], w[i], n, f, m)
    BY <1>1, <1>2, <1>3
  <2>2. \A i \in 1 .. 6 : x[i] \in Bytes
    BY <1>3
  <2>3. QED
    BY <2>1, <2>2 DEF Bytes
<1>5. \A i \in 1 .. 5 : After(w[i], w[i + 1]) /\ w[i].k <= w[i + 1].k
  BY <1>2, <1>3
<1>6. /\ x[1].v = 1 /\ x[2].v = (m + 1) % W /\ x[3].v = W - 1 - ((m + 1) % W)
      /\ x[5].v = CRC16hi(x[4].v) /\ x[6].v = CRC16lo(x[4].v)
  BY DEF Good, BlockOK, SOH, Complement
<1>7. QED
  BY ONLY <1>4, <1>5, <1>6, SixBytes, n \in Nat, m \in Nat, f \in Nat, f < 6

(* A function on the first numbers is a sequence.                          *)
LEMMA Tabled ==
  ASSUME NEW S, NEW k \in Nat, NEW g \in [1 .. k -> S]
  PROVE  g \in Seq(S) /\ Len(g) = k
OBVIOUS

(* The trace of the bytes l that remain when x has been taken.             *)
LEMMA TraceDrop ==
  ASSUME NEW x \in Seq(Bytes), NEW l \in Seq(Bytes), NEW w \in Seq(Marks), NEW n \in Nat,
         NEW q \in 1 .. 6, NEW f \in Nat, NEW m \in Nat, Trace(w, x \o l, n, q, f, m),
         NEW m2 \in Nat, m <= m2, \A i \in 1 .. Len(l) : m2 <= w[Len(x) + i].k
  PROVE  \E u \in Seq(Marks) : Trace(u, l, n, q, f, m2)
<1> DEFINE s == x \o l
           X == Len(x)
           L == Len(l)
           u == [i \in 1 .. L |-> w[X + i]]
<1>1. /\ X \in Nat /\ L \in Nat /\ Len(s) = X + L /\ Len(w) = X + L
      /\ \A i \in 1 .. L : s[X + i] = l[i]
  <2>1. /\ Len(x) \in Nat /\ Len(l) \in Nat /\ Len(x \o l) = Len(x) + Len(l)
        /\ \A i \in 1 .. Len(l) : (x \o l)[Len(x) + i] = l[i]
    OBVIOUS
  <2>2. QED
    BY <2>1 DEF Trace
<1>2. /\ \A i \in 1 .. X + L : Fits(s[i], w[i], n, f, m) /\ w[i] \in Marks
      /\ \A i, j \in 1 .. X + L : i < j => w[i].k <= w[j].k
      /\ \A i \in 1 .. (X + L) - 1 : After(w[i], w[i + 1])
      /\ s # <<>> => w[X + L].c + Gap(w[X + L].z, q) <= f
  <2>1. /\ \A i \in 1 .. Len(s) : Fits(s[i], w[i], n, f, m)
        /\ \A i, j \in 1 .. Len(s) : i < j => w[i].k <= w[j].k
        /\ \A i \in 1 .. Len(s) - 1 : After(w[i], w[i + 1])
        /\ s # <<>> => w[Len(s)].c + Gap(w[Len(s)].z, q) <= f
    BY DEF Trace
  <2>2. \A i \in 1 .. Len(w) : w[i] \in Marks
    OBVIOUS
  <2> HIDE DEF s, X, L
  <2>3. QED
    BY <1>1, <2>1, <2>2
<1>3. l # <<>> => L \in 1 .. L /\ s # <<>>
  <2>1. l # <<>> => L > 0
    OBVIOUS
  <2>2. s = <<>> => X + L = 0
    BY <1>1
  <2> HIDE DEF s, X, L
  <2>3. QED
    BY <1>1, <2>1, <2>2
<1>4. \A i \in 1 .. L : m2 <= w[X + i].k
  OBVIOUS
<1> HIDE DEF s, X, L
<1>5. /\ \A i \in 1 .. L : X + i \in 1 .. X + L
      /\ \A i \in 1 .. L - 1 : X + i \in 1 .. (X + L) - 1 /\ i \in 1 .. L /\ i + 1 \in 1 .. L
                               /\ X + (i + 1) = (X + i) + 1
  BY <1>1
<1>6. u \in Seq(Marks) /\ Len(u) = L /\ \A i \in 1 .. L : u[i] = w[X + i] /\ u[i] \in Marks
  <2>1. \A i \in 1 .. L : w[X + i] \in Marks
    BY <1>2, <1>5
  <2>2. u \in [1 .. L -> Marks] /\ \A i \in 1 .. L : u[i] = w[X + i]
    BY <2>1
  <2> HIDE DEF u
  <2>3. u \in Seq(Marks) /\ Len(u) = L
    <3>1. L \in Nat /\ u \in [1 .. L -> Marks]
      BY <1>1, <2>2
    <3>2. QED
      BY <3>1, Tabled
  <2>4. QED
    BY <2>1, <2>2, <2>3
<1> HIDE DEF u
<1>7. ASSUME NEW i \in 1 .. L
      PROVE  Fits(l[i], u[i], n, f, m2)
  <2>1. Fits(l[i], u[i], n, f, m) /\ m2 <= u[i].k
    BY <1>1, <1>2, <1>4, <1>5, <1>6
  <2>2. u[i].k \in Nat
    BY <1>6 DEF Marks
  <2>3. QED
    BY <2>1, <2>2 DEF Fits
<1>8. ASSUME NEW i \in 1 .. L, NEW j \in 1 .. L, i < j
      PROVE  u[i].k <= u[j].k
  <2>1. X + i < X + j
    BY <1>1, <1>8
  <2>2. QED
    BY <1>2, <1>5, <1>6, <2>1
<1>9. ASSUME NEW i \in 1 .. L - 1
      PROVE  After(u[i], u[i + 1])
  <2>1. u[i] = w[X + i] /\ u[i + 1] = w[(X + i) + 1]
    BY <1>5, <1>6
  <2>2. QED
    BY <1>2, <1>5, <2>1
<1>10. l # <<>> => u[L].c + Gap(u[L].z, q) <= f
  BY <1>2, <1>3, <1>6
<1>11. Trace(u, l, n, q, f, m2)
  BY <1>6, <1>7, <1>8, <1>9, <1>10 DEF Trace, L
<1>12. QED
  BY <1>6, <1>11

LEMMA RestFacts ==
  ASSUME NEW o \in Seq(Bytes), NEW k \in 1 .. Blocks, Rest(o, k), o # <<>>
  PROVE  /\ Head(o) = Packet(k)[Pos(o)] /\ Pos(o) \in 1 .. 6
         /\ Rest(Tail(o), k) /\ Pos(Tail(o)) = (Pos(o) % 6) + 1
<1> DEFINE z == Len(o)
           t == Tail(o)
<1>1. /\ z \in Nat \ {0} /\ Head(o) = o[1] /\ Len(t) = z - 1
      /\ \A i \in 1 .. z - 1 : t[i] = o[i + 1]
      /\ (t = <<>> <=> Len(t) = 0)
  <2>1. /\ z \in Nat /\ z # 0 /\ Head(o) = o[1] /\ t \in Seq(Bytes) /\ Len(t) = z - 1
    OBVIOUS
  <2>2. \A i \in 1 .. z - 1 : t[i] = o[i + 1]
    OBVIOUS
  <2>3. t = <<>> <=> Len(t) = 0
    BY <2>1, EmptySeq
  <2>4. QED
    BY <2>1, <2>2, <2>3
<1>2. z <= 6 /\ \A i \in 1 .. z : o[i] = Packet(k)[(6 - z) + i]
  BY DEF Rest
<1>3. Pos(o) = 7 - z /\ Pos(t) = IF t = <<>> THEN 1 ELSE 7 - Len(t)
  BY DEF Pos
<1>4. Rest(t, k) <=> /\ Len(t) <= 6
                     /\ \A i \in 1 .. Len(t) : t[i] = Packet(k)[(6 - Len(t)) + i]
  BY DEF Rest
<1> HIDE DEF z, t
<1>5. z \in {1, 2, 3, 4, 5, 6}
  BY <1>1, <1>2
<1>6. Head(o) = Packet(k)[Pos(o)] /\ Pos(o) \in 1 .. 6
  <2>1. 1 \in 1 .. z /\ (6 - z) + 1 = 7 - z /\ 7 - z \in 1 .. 6
    BY <1>5
  <2>2. QED
    BY <1>1, <1>2, <1>3, <2>1
<1>7. ASSUME NEW i \in 1 .. z - 1
      PROVE  t[i] = Packet(k)[(6 - (z - 1)) + i]
  <2>1. i + 1 \in 1 .. z /\ (6 - z) + (i + 1) = (6 - (z - 1)) + i
    BY <1>5
  <2>2. QED
    BY <1>1, <1>2, <2>1
<1>8. Rest(t, k)
  BY <1>1, <1>4, <1>5, <1>7
<1>9. Pos(t) = IF z = 1 THEN 1 ELSE 8 - z
  BY <1>1, <1>3, <1>5
<1>10. ((7 - z) % 6) + 1 = IF z = 1 THEN 1 ELSE 8 - z
  BY <1>5
<1>11. QED
  BY <1>3, <1>6, <1>8, <1>9, <1>10 DEF t
-----------------------------------------------------------------------------
(* The sender: the packet that is due is what it is sending.               *)

LEMMA PacketRest ==
  ASSUME NEW k \in 1 .. Blocks + 1
  PROVE  /\ k <= Blocks => Rest(Packet(k), k) /\ Rest(<<>>, k)
         /\ k > Blocks => /\ Len(Packet(k)) = 1
                          /\ \A i \in 1 .. Len(Packet(k)) : Packet(k)[i].v \in {EOT, CAN}
         /\ k <= Blocks => Pos(Packet(k)) = 1
<1>1. k \in Nat \ {0} /\ Blocks \in Nat
  BY Numbers
<1>2. ASSUME k <= Blocks
      PROVE  Rest(Packet(k), k) /\ Rest(<<>>, k) /\ Pos(Packet(k)) = 1
  <2>1. Len(Packet(k)) = 6
    BY <1>1, <1>2, PacketFacts
  <2>2. Packet(k) # <<>>
    BY <2>1, SomeBytes
  <2>3. Pos(Packet(k)) = 1
    BY <2>1, <2>2 DEF Pos
  <2>4. Rest(Packet(k), k)
    <3>1. \A i \in 1 .. 6 : (6 - 6) + i = i
      OBVIOUS
    <3>2. QED
      BY <2>1, <3>1 DEF Rest
  <2>5. Rest(<<>>, k)
    <3>1. Len(<<>>) = 0 /\ 1 .. 0 = {} /\ 0 <= 6
      OBVIOUS
    <3>2. QED
      BY <3>1 DEF Rest
  <2>6. QED
    BY <2>3, <2>4, <2>5
<1>3. ASSUME k > Blocks
      PROVE  /\ Len(Packet(k)) = 1
             /\ \A i \in 1 .. Len(Packet(k)) : Packet(k)[i].v \in {EOT, CAN}
  <2> DEFINE e == Byte(EOT, "ctl")
  <2>1. e.v = EOT
    BY DEF Byte
  <2>2. Packet(k) = <<e>>
    BY <1>1, <1>3, PacketFacts
  <2> HIDE DEF e
  <2>3. Len(<<e>>) = 1 /\ \A i \in 1 .. 1 : <<e>>[i] = e
    OBVIOUS
  <2>4. QED
    BY <2>1, <2>2, <2>3
<1>4. QED
  BY <1>2, <1>3

LEMMA Cancels ==
  /\ Len(<<>>) = 0 /\ Len(<<Byte(CAN, "ctl")>>) = 1
  /\ \A i \in 1 .. 1 : <<Byte(CAN, "ctl")>>[i].v \in {EOT, CAN}
  /\ 1 .. 0 = {}
<1> DEFINE e == Byte(CAN, "ctl")
<1>1. e.v = CAN
  BY DEF Byte
<1> HIDE DEF e
<1>2. Len(<<e>>) = 1 /\ \A i \in 1 .. 1 : <<e>>[i] = e
  OBVIOUS
<1>3. QED
  BY <1>1, <1>2 DEF e

LEMMA SaysPacket ==
  ASSUME NEW k \in 1 .. Blocks + 1, sender' = "send", next' = k, out' = Packet(k)
  PROVE  Speaks' /\ Now' = k
<1>1. Blocks \in Nat /\ Now' = k
  BY Numbers DEF Now
<1>2. QED
  BY <1>1, PacketRest DEF Speaks

LEMMA SaysGone ==
  ASSUME sender' = "gone", out' \in {<<>>, <<Byte(CAN, "ctl")>>}
  PROVE  Speaks' /\ Now' = Blocks + 2
<1>1. Blocks \in Nat /\ Now' = Blocks + 2
  BY Numbers DEF Now
<1>2. Len(out') <= 6 /\ \A i \in 1 .. Len(out') : out'[i].v \in {EOT, CAN}
  BY Cancels
<1>3. QED
  BY <1>1, <1>2 DEF Speaks

LEMMA SpeaksStart == Init => Speaks
<1> SUFFICES ASSUME Init PROVE Speaks
  OBVIOUS
<1>1. sender = "start" /\ out = <<>> /\ next = 1 /\ 1 \in 1 .. Blocks + 1 /\ 1 <= Blocks
      /\ 1 <= Blocks + 1 /\ ~(1 > Blocks)
  BY Numbers DEF Init
<1>2. QED
  BY <1>1, PacketRest DEF Speaks, Now

(* What reading an answer, or waiting in vain for one, means for the       *)
(* packet that is due.                                                     *)
LEMMA Turns ==
  ASSUME Typed, Speaks, read_answer \/ no_answer
  PROVE  /\ Speaks' /\ Now <= Now' /\ Now \in Nat /\ Now' \in Nat
         /\ Due = 1 /\ Due' = 1
<1>1. /\ next \in Nat \ {0} /\ Blocks \in Nat /\ out = <<>> /\ Now \in Nat
      /\ sender # "gone" => next \in 1 .. Blocks + 1 /\ Now = next
      /\ sender = "gone" => Now = Blocks + 2
      /\ Due = 1
  BY Numbers DEF Typed, Speaks, Now, Due, Pos, read_answer, no_answer
<1>2. ASSUME NEW k \in 1 .. Blocks + 1, sender' = "send", next' = k, out' = Packet(k),
             sender # "gone", k \in {next, next + 1}
      PROVE  /\ Speaks' /\ Now <= Now' /\ Now \in Nat /\ Now' \in Nat
             /\ Due = 1 /\ Due' = 1
  <2>1. Speaks' /\ Now' = k
    BY <1>2, SaysPacket
  <2>2. k <= Blocks => Pos(out') = 1
    BY <1>2, PacketRest
  <2>3. Due' = 1
    BY <2>1, <2>2 DEF Due
  <2>4. QED
    BY <1>1, <1>2, <2>1, <2>3
<1>3. ASSUME sender' = "gone", out' \in {<<>>, <<Byte(CAN, "ctl")>>}
      PROVE  /\ Speaks' /\ Now <= Now' /\ Now \in Nat /\ Now' \in Nat
             /\ Due = 1 /\ Due' = 1
  <2>1. Speaks' /\ Now' = Blocks + 2
    BY <1>3, SaysGone
  <2>2. Due' = 1
    BY <1>1, <2>1 DEF Due
  <2>3. QED
    BY <1>1, <2>1, <2>2
<1>4. ASSUME UNCHANGED <<next, sender, out>>
      PROVE  /\ Speaks' /\ Now <= Now' /\ Now \in Nat /\ Now' \in Nat
             /\ Due = 1 /\ Due' = 1
  <2>1. Now' = Now
    BY <1>4 DEF Now
  <2>2. Speaks'
    BY <1>4, <2>1 DEF Speaks
  <2>3. Due' = Due
    BY <1>4, <2>1 DEF Due
  <2>4. QED
    BY <1>1, <2>1, <2>2, <2>3
<1>5. CASE read_answer
  <2>1. CASE sender = "start" /\ sender' = "send" /\ out' = Packet(1) /\ next' = next
    <3>1. next = 1 /\ 1 \in 1 .. Blocks + 1
      BY <1>1, <2>1 DEF Speaks
    <3>2. QED
      BY <1>2, <2>1, <3>1
  <2>2. CASE /\ sender = "send" /\ next' = next + 1
             /\ IF next > Blocks THEN sender' = "gone" /\ UNCHANGED out
                ELSE out' = Packet(next + 1) /\ UNCHANGED sender
    <3>1. CASE next > Blocks
      BY <1>1, <1>3, <2>2, <3>1
    <3>2. CASE ~(next > Blocks)
      <4>1. next + 1 \in 1 .. Blocks + 1
        BY <1>1, <3>2
      <4>2. QED
        BY <1>2, <2>2, <3>2, <4>1
    <3>3. QED
      BY <3>1, <3>2
  <2>3. CASE sender = "send" /\ out' = Packet(next) /\ UNCHANGED <<next, sender>>
    BY <1>1, <1>2, <2>3
  <2>4. CASE sender' = "gone" /\ out' = <<Byte(CAN, "ctl")>>
    BY <1>3, <2>4
  <2>5. CASE UNCHANGED <<next, sender, out>>
    BY <1>4, <2>5
  <2>6. QED
    BY <1>5, <2>1, <2>2, <2>3, <2>4, <2>5 DEF read_answer
<1>6. CASE no_answer
  <2>1. CASE out' = Packet(next) /\ UNCHANGED sender
    BY <1>1, <1>2, <1>6, <2>1 DEF no_answer
  <2>2. CASE sender' = "gone" /\ out' \in {<<>>, <<Byte(CAN, "ctl")>>}
    BY <1>3, <2>2
  <2>3. QED
    BY <1>6, <2>1, <2>2 DEF no_answer
<1>7. QED
  BY <1>5, <1>6

(* What sending a byte means: it is the one due, and the next one is.      *)
LEMMA Sends ==
  ASSUME Typed, Speaks, send_byte
  PROVE  /\ Speaks' /\ Now' = Now /\ Now \in Nat /\ Head(out) \in Bytes
         /\ Now <= Blocks => /\ Now \in 1 .. Blocks /\ Due \in 1 .. 6
                             /\ Head(out) = Packet(Now)[Due]
                             /\ Due' = (Due % 6) + 1
         /\ Now > Blocks => Head(out).v \in {EOT, CAN} /\ Due = 1 /\ Due' = 1
<1>1. /\ out # <<>> /\ out' = Tail(out) /\ UNCHANGED <<next, sender>>
      /\ out \in Seq(Bytes) /\ next \in Nat \ {0} /\ Blocks \in Nat
  BY Numbers DEF Typed, send_byte
<1>2. Now' = Now /\ Now \in Nat
  BY <1>1 DEF Now
<1>3. /\ Head(out) \in Bytes /\ Head(out) = out[1] /\ 1 \in 1 .. Len(out) /\ Len(out) \in Nat
      /\ Len(Tail(out)) = Len(out) - 1 /\ \A i \in 1 .. Len(out) - 1 : Tail(out)[i] = out[i + 1]
  BY <1>1
<1>4. CASE Now <= Blocks
  <2>1. Now = next /\ Now \in 1 .. Blocks /\ Rest(out, Now)
    <3>1. Now = next
      BY <1>1, <1>4 DEF Now
    <3>2. QED
      BY <1>1, <1>4, <3>1 DEF Speaks
  <2>2. /\ Head(out) = Packet(Now)[Pos(out)] /\ Pos(out) \in 1 .. 6
        /\ Rest(Tail(out), Now) /\ Pos(Tail(out)) = (Pos(out) % 6) + 1
    BY <1>1, <2>1, RestFacts
  <2>3. Speaks'
    <3>1. sender # "start"
      BY <1>1 DEF Speaks
    <3>2. Rest(out', next') /\ ~(Now' > Blocks)
      BY <1>1, <1>2, <2>1, <2>2
    <3>3. QED
      BY <1>1, <3>1, <3>2 DEF Speaks
  <2>4. Due = Pos(out) /\ Due' = Pos(out')
    BY <1>2, <1>4 DEF Due
  <2>5. QED
    BY <1>1, <1>2, <1>3, <1>4, <2>1, <2>2, <2>3, <2>4
<1>5. CASE Now > Blocks
  <2>1. Len(out) <= 6 /\ \A i \in 1 .. Len(out) : out[i].v \in {EOT, CAN}
    BY <1>5 DEF Speaks
  <2>2. Len(out') <= 6 /\ \A i \in 1 .. Len(out') : out'[i].v \in {EOT, CAN}
    <3>1. \A i \in 1 .. Len(out) - 1 : i + 1 \in 1 .. Len(out)
      BY <1>3
    <3>2. QED
      BY <1>1, <1>3, <2>1, <3>1
  <2>3. Speaks'
    <3>1. sender # "start" /\ ~(Now' <= Blocks)
      BY <1>1, <1>2, <1>5 DEF Speaks
    <3>2. QED
      BY <1>1, <2>2, <3>1 DEF Speaks
  <2>4. Due = 1 /\ Due' = 1
    BY <1>1, <1>2, <1>5 DEF Due
  <2>5. QED
    BY <1>1, <1>2, <1>3, <1>5, <2>1, <2>3, <2>4
<1>6. QED
  BY <1>1, <1>2, <1>4, <1>5

LEMMA SpeaksOn ==
  ASSUME Typed, Speaks, [Next]_vars
  PROVE  Speaks'
<1>1. ASSUME UNCHANGED <<next, sender, out>>
      PROVE  Speaks'
  BY <1>1 DEF Speaks, Now
<1>2. CASE read_answer \/ no_answer
  BY <1>2, Turns
<1>3. CASE send_byte
  BY <1>3, Sends
<1>4. QED
  BY <1>1, <1>2, <1>3 DEF Next, vars, put_wait_char, test_start, get_byte, get_pause, packet,
     spoil_answer
-----------------------------------------------------------------------------
(* What is stored is the beginning of the file.                            *)

LEMMA PosIn ==
  ASSUME NEW o \in Seq(Bytes), Len(o) <= 6
  PROVE  Pos(o) \in 1 .. 6
<1>1. Len(o) \in Nat /\ (o # <<>> => Len(o) # 0)
  BY EmptySeq
<1>2. QED
  BY <1>1 DEF Pos

LEMMA DueRange ==
  ASSUME Typed, Speaks
  PROVE  Due \in 1 .. 6 /\ Now \in Nat
<1>1. Now \in Nat /\ Blocks \in Nat /\ out \in Seq(Bytes)
  BY Numbers DEF Typed, Now
<1>2. Len(out) <= 6
  BY <1>1 DEF Speaks, Rest
<1>3. Pos(out) \in 1 .. 6
  BY <1>1, <1>2, PosIn
<1>4. QED
  BY <1>1, <1>3 DEF Due

LEMMA DueRangeNext ==
  ASSUME Typed', Speaks'
  PROVE  Due' \in 1 .. 6 /\ Now' \in Nat
<1>1. Now' \in Nat /\ Blocks \in Nat /\ out' \in Seq(Bytes)
  BY Numbers DEF Typed, Now
<1>2. Len(out') <= 6
  BY <1>1 DEF Speaks, Rest
<1>3. Pos(out') \in 1 .. 6
  BY <1>1, <1>2, PosIn
<1>4. QED
  BY <1>1, <1>3 DEF Due

(* A byte or an answer that is lost is harm of one, a byte that is changed *)
(* or added of five.                                                       *)
LEMMA HarmFacts ==
  ASSUME Typed
  PROVE  Harm \in Nat /\ Harm = faults + 4 * changed
BY DEF Harm, Size, Typed

LEMMA HarmGrows ==
  ASSUME Typed, [Next]_vars
  PROVE  /\ Harm' \in Nat /\ Harm <= Harm' /\ Harm' \in {Harm, Harm + 1, Harm + 5}
         /\ forged => forged'
<1>1. /\ faults \in Nat /\ changed \in Nat
      /\ \/ UNCHANGED <<faults, changed>>
         \/ faults' = faults + 1 /\ changed' \in {changed, changed + 1}
  BY DEF Typed, vars, Next, put_wait_char, test_start, get_byte, get_pause, packet,
     read_answer, no_answer, send_byte, spoil_answer
<1>2. forged' = forged \/ \E a \in {"ACK", "NAK"} : forged' = (forged \/ a = "ACK")
  BY DEF vars, Next, put_wait_char, test_start, get_byte, get_pause, packet,
     read_answer, no_answer, send_byte, spoil_answer
<1>3. Harm = faults + 4 * changed /\ Harm' = faults' + 4 * changed'
  BY DEF Harm, Size
<1>4. QED
  BY <1>1, <1>2, <1>3 DEF Typed

LEMMA HeardLater ==
  ASSUME Typed, Typed', Speaks, Speaks', Heard, UNCHANGED <<BlockCount, base>>,
         strXMODEM' \o line' = strXMODEM \o line, Now <= Now', Harm <= Harm', Harm' \in Nat,
         Due' = Due
  PROVE  Heard'
<1>1. Due \in 1 .. 6 /\ Now \in Nat /\ Due' \in 1 .. 6 /\ Now' \in Nat
  BY DueRange, DueRangeNext
<1>2. /\ strXMODEM \o line \in Seq(Bytes) /\ Harm \in Nat /\ Harm' \in Nat
      /\ Len(base) \in Nat
  BY HarmFacts DEF Typed
<1>3. PICK w \in Seq(Marks) : Trace(w, strXMODEM \o line, Now, Due, Harm, Len(base))
  BY DEF Heard
<1> DEFINE s == strXMODEM \o line
           q == Due
           n == Now
           n2 == Now'
           m == Len(base)
           f == Harm
           f2 == Harm'
<1>4. /\ s \in Seq(Bytes) /\ q \in 1 .. 6 /\ n \in Nat /\ n2 \in Nat /\ n <= n2
      /\ m \in Nat /\ f \in Nat /\ f2 \in Nat /\ f <= f2 /\ Trace(w, s, n, q, f, m)
  BY <1>1, <1>2, <1>3
<1> HIDE DEF s, q, n, n2, m, f, f2
<1>5. ASSUME NEW z \in 1 .. 6
      PROVE  Gap(z, q) + f <= Gap(z, q) + f2
  <2>1. Gap(z, q) \in 0 .. 5
    BY <1>4, GapBounds
  <2>2. QED
    BY <1>4, <2>1
<1>6. Trace(w, s, n2, q, f2, m)
  BY <1>4, <1>5, TraceLater
<1>7. Trace(w, strXMODEM' \o line', Now', Due', Harm', Len(base'))
  BY <1>6 DEF s, q, n2, m, f2
<1>8. Len(base') <= Now' /\ BlockCount' = (Len(base') + 1) % W
  <2>1. Len(base) <= Now /\ BlockCount = (Len(base) + 1) % W
    BY DEF Heard
  <2>2. QED
    BY <1>1, <1>2, <2>1
<1>9. QED
  BY <1>7, <1>8 DEF Heard

LEMMA KeptStart == Init => Kept
<1> SUFFICES ASSUME Init PROVE Kept
  OBVIOUS
<1>1. /\ pc = "wait" /\ strXMODEM = <<>> /\ BlockCount = 1 /\ base = <<>> /\ next = 1
      /\ out = <<>> /\ sender = "start" /\ Len(base) = 0
      /\ \/ line = <<>> /\ Harm = 0
         \/ Harm = 5 /\ \E v \in Noise : line = <<Junk(v)>>
      /\ Now = 1 /\ Due = 1 /\ Blocks \in Nat /\ 1 <= Blocks
  BY Numbers DEF Init, Now, Due, Pos, Harm, Size
<1>2. Stored
  BY <1>1 DEF Stored
<1>3. BlockCount = (Len(base) + 1) % W /\ Len(base) <= Now
  <2>1. W \in Nat /\ W > 4
    BY Numbers
  <2>2. QED
    BY <1>1, <2>1
<1>4. \A s : Len(s) = 0 => 1 .. Len(s) = {}  /\ 1 .. Len(s) - 1 = {}
  OBVIOUS
<1>5. <<>> \in Seq(Marks) /\ <<>> \in Seq(Bytes) /\ Len(<<>>) = 0
  OBVIOUS
<1>6. ASSUME NEW f \in Nat
      PROVE  Trace(<<>>, <<>>, 1, 1, f, 0)
  BY <1>4, <1>5 DEF Trace
<1>7. CASE line = <<>> /\ Harm = 0
  <2>1. strXMODEM \o line = <<>> /\ Harm \in Nat
    BY <1>1, <1>7
  <2>2. QED
    BY <1>1, <1>2, <1>3, <1>5, <1>6, <2>1 DEF Kept, Heard
<1>8. ASSUME NEW v \in Noise, line = <<Junk(v)>>, Harm = 5
      PROVE  Kept
  <2> DEFINE t == [k |-> 1, a |-> 1, z |-> 1, h |-> 5, c |-> 5]
             b == Junk(v)
  <2>1. t \in Marks /\ t.k = 1 /\ t.a = 1 /\ t.z = 1 /\ t.h = 5 /\ t.c = 5
    BY DEF Marks
  <2>2. b \in Bytes
    BY Bad
  <2> HIDE DEF t, b
  <2>3. Fits(b, t, 1, 5, 0)
    BY <1>1, <2>1 DEF Fits, Is
  <2>4. Gap(1, 1) = 0 /\ 1 \in 1 .. 6
    BY GapBounds
  <2>5. Trace(Append(<<>>, t), Append(<<>>, b), 1, 1, 5, 0)
    <3> DEFINE n == 1
               f == 0
               g == 5
    <3>1. /\ n \in Nat /\ f \in Nat /\ g \in Nat /\ f + t.h <= t.c /\ t.a = n /\ t.k = n
          /\ t.c + Gap(t.z, n) <= g /\ n \in 1 .. 6 /\ Fits(b, t, n, g, f)
      BY <2>1, <2>3, <2>4
    <3>2. Trace(<<>>, <<>>, n, n, f, f)
      BY <1>6
    <3>3. /\ <<>> \in Seq(Bytes) /\ <<>> \in Seq(Marks) /\ t \in Marks /\ b \in Bytes
      BY <1>5, <2>1, <2>2
    <3> HIDE DEF n, f, g
    <3>4. Trace(Append(<<>>, t), Append(<<>>, b), n, n, g, f)
      BY ONLY <3>1, <3>2, <3>3, TraceAppend
    <3>5. QED
      BY <3>4 DEF n, f, g
  <2>6. strXMODEM \o line = Append(<<>>, b) /\ Append(<<>>, t) \in Seq(Marks)
    <3>1. <<>> \o <<b>> = <<b>> /\ Append(<<>>, b) = <<b>>
      BY <2>2
    <3>2. QED
      BY <1>1, <1>5, <1>8, <2>1, <3>1, AppendProperties DEF b
  <2>7. Heard
    BY <1>1, <1>3, <1>8, <2>5, <2>6 DEF Heard
  <2>8. QED
    BY <1>2, <2>7 DEF Kept
<1>9. QED
  BY <1>1, <1>7, <1>8

LEMMA AppendLater ==
  ASSUME NEW S, NEW s \in Seq(S), NEW t \in Seq(S), NEW e \in S
  PROVE  s \o Append(t, e) = Append(s \o t, e) /\ Append(t, e) \in Seq(S)
<1> DEFINE a == s \o Append(t, e)
           b == Append(s \o t, e)
<1>1. /\ a \in Seq(S) /\ b \in Seq(S) /\ Len(a) = Len(s) + Len(t) + 1 /\ Len(b) = Len(a)
      /\ Append(t, e) \in Seq(S) /\ Len(s) \in Nat /\ Len(t) \in Nat
  OBVIOUS
<1>2. ASSUME NEW i \in 1 .. Len(a)
      PROVE  a[i] = b[i]
  <2>1. CASE i <= Len(s)
    BY <2>1, <1>1
  <2>2. CASE i > Len(s) /\ i <= Len(s) + Len(t)
    BY <2>2, <1>1
  <2>3. CASE i = Len(s) + Len(t) + 1
    BY <2>3, <1>1
  <2>4. QED
    BY <2>1, <2>2, <2>3, <1>1
<1>3. a = b
  BY <1>1, <1>2, SeqEqual
<1>4. QED
  BY <1>1, <1>3

(* A byte is sent, and arrives, or is lost or changed, or one too many     *)
(* does: b is what the noise has made.                                     *)
LEMMA SendTrace ==
  ASSUME NEW s \in Seq(Bytes), NEW w \in Seq(Marks), NEW n \in Nat, NEW q \in 1 .. 6,
         NEW f \in Nat, NEW m \in Nat, Trace(w, s, n, q, f, m),
         NEW h \in Bytes, NEW q2 \in 1 .. 6,
         m <= n, n <= Blocks => n <= m + 1,
         n <= Blocks => n \in 1 .. Blocks /\ h = Packet(n)[q] /\ q2 = (q % 6) + 1,
         n > Blocks => h.v \in {EOT, CAN} /\ q = 1 /\ q2 = 1
  PROVE  /\ \E u \in Seq(Marks) : Trace(u, Append(s, h), n, q2, f, m)
         /\ \E u \in Seq(Marks) : Trace(u, s, n, q2, f + 1, m)
         /\ \A b \in Bytes :
              /\ \E u \in Seq(Marks) : Trace(u, Append(s, b), n, q2, f + 5, m)
              /\ \E u \in Seq(Marks) : Trace(u, Append(Append(s, h), b), n, q2, f + 5, m)
<1>1. /\ Blocks \in Nat /\ f + 1 \in Nat /\ f + 5 \in Nat /\ f <= f + 1 /\ f <= f + 5
      /\ n <= Blocks \/ n > Blocks
  BY Numbers
<1> DEFINE t == [k |-> n, a |-> q, z |-> q2, h |-> 0, c |-> f]
           j == [k |-> n, a |-> q, z |-> q2, h |-> 5, c |-> f + 5]
           e == [k |-> n, a |-> q2, z |-> q2, h |-> 5, c |-> f + 5]
<1>2. /\ t \in Marks /\ t.k = n /\ t.a = q /\ t.z = q2 /\ t.h = 0 /\ t.c = f
      /\ j \in Marks /\ j.k = n /\ j.a = q /\ j.z = q2 /\ j.h = 5 /\ j.c = f + 5
      /\ e \in Marks /\ e.k = n /\ e.a = q2 /\ e.z = q2 /\ e.h = 5 /\ e.c = f + 5
  BY <1>1 DEF Marks
<1> HIDE DEF t, j, e
<1>3. Gap(q2, q2) = 0
  BY GapBounds
<1>4. Is(h, t) /\ \A b : Is(b, j) /\ Is(b, e)
  <2>1. CASE n <= Blocks
    BY <1>2, <2>1 DEF Is
  <2>2. CASE n > Blocks
    BY <1>2, <2>2 DEF Is
  <2>3. QED
    BY <1>1, <2>1, <2>2
<1>5. Fits(h, t, n, f, m) /\ \A b : Fits(b, j, n, f + 5, m) /\ Fits(b, e, n, f + 5, m)
  BY <1>1, <1>2, <1>4 DEF Fits
<1>6. Trace(Append(w, t), Append(s, h), n, q2, f, m)
  <2>1. f + t.h <= t.c /\ t.a = q /\ t.c + Gap(t.z, q2) <= f
    BY <1>2, <1>3
  <2>2. QED
    BY <1>2, <1>5, <2>1, TraceAppend
<1>7. Trace(w, s, n, q2, f + 1, m)
  <2> DEFINE f2 == f + 1
  <2>1. ASSUME NEW z \in 1 .. 6
        PROVE  Gap(z, q2) + f <= Gap(z, q) + f2
    <3> DEFINE x == Gap(z, q)
               y == Gap(z, q2)
    <3>1. x \in 0 .. 5 /\ y \in 0 .. 5
      BY GapBounds
    <3>2. y <= x + 1
      <4>1. CASE n <= Blocks
        BY <4>1, GapBounds
      <4>2. CASE n > Blocks
        BY <3>1, <4>2
      <4>3. QED
        BY <1>1, <4>1, <4>2
    <3> HIDE DEF x, y
    <3>3. y + f <= x + f2
      BY <3>1, <3>2
    <3>4. QED
      BY <3>3 DEF x, y
  <2>2. f2 \in Nat /\ f <= f2 /\ n <= n
    BY <1>1
  <2> HIDE DEF f2
  <2>3. Trace(w, s, n, q2, f2, m)
    BY <2>1, <2>2, TraceLater
  <2>4. QED
    BY <2>3 DEF f2
<1>8. /\ f + j.h <= j.c /\ j.a = q /\ j.c + Gap(j.z, q2) <= f + 5
      /\ f + e.h <= e.c /\ e.a = q2 /\ e.c + Gap(e.z, q2) <= f + 5
  BY <1>1, <1>2, <1>3
<1>9. /\ Append(w, t) \in Seq(Marks) /\ Append(s, h) \in Seq(Bytes)
      /\ Append(w, j) \in Seq(Marks) /\ Append(Append(w, t), e) \in Seq(Marks)
  BY <1>2
<1>10. ASSUME NEW b \in Bytes
       PROVE  /\ Trace(Append(w, j), Append(s, b), n, q2, f + 5, m)
              /\ Trace(Append(Append(w, t), e), Append(Append(s, h), b), n, q2, f + 5, m)
  <2>1. Fits(b, j, n, f + 5, m) /\ Fits(b, e, n, f + 5, m)
    BY <1>5
  <2>2. Trace(Append(w, j), Append(s, b), n, q2, f + 5, m)
    BY <1>1, <1>2, <1>8, <2>1, TraceAppend
  <2>3. Trace(Append(Append(w, t), e), Append(Append(s, h), b), n, q2, f + 5, m)
    BY <1>1, <1>2, <1>6, <1>8, <1>9, <2>1, TraceAppend
  <2>4. QED
    BY <2>2, <2>3
<1>11. QED
  BY <1>6, <1>7, <1>9, <1>10

LEMMA HeardSend ==
  ASSUME Typed, Typed', Speaks, Speaks', Acked, ~forged, outcome = "none", Heard, send_byte
  PROVE  Heard'
<1>1. /\ Now' = Now /\ Now \in Nat /\ Head(out) \in Bytes
      /\ Now <= Blocks => /\ Now \in 1 .. Blocks /\ Due \in 1 .. 6
                          /\ Head(out) = Packet(Now)[Due]
                          /\ Due' = (Due % 6) + 1
      /\ Now > Blocks => Head(out).v \in {EOT, CAN} /\ Due = 1 /\ Due' = 1
  BY Sends
<1>2. Due \in 1 .. 6 /\ Due' \in 1 .. 6
  BY DueRange, DueRangeNext
<1>3. /\ strXMODEM \in Seq(Bytes) /\ line \in Seq(Bytes) /\ strXMODEM \o line \in Seq(Bytes)
      /\ Harm \in Nat /\ Len(base) \in Nat /\ next \in Nat \ {0}
      /\ back \in Seq({"C", "ACK", "NAK"})
  BY HarmFacts DEF Typed
<1>4. Now <= Blocks => Now <= Len(base) + 1
  <2>1. next - 1 <= Len(base)
    <3>1. Credit(next - 1, back, Len(base)) /\ next - 1 \in Nat
      BY <1>3 DEF Acked
    <3>2. QED
      BY <1>3, <3>1, CreditBound
  <2>2. Now <= Blocks => Now = next
    BY Numbers DEF Now
  <2>3. QED
    BY <1>3, <2>1, <2>2
<1>5. Len(base) <= Now /\ BlockCount = (Len(base) + 1) % W
  BY DEF Heard
<1>6. PICK w \in Seq(Marks) : Trace(w, strXMODEM \o line, Now, Due, Harm, Len(base))
  BY DEF Heard
<1> DEFINE s == strXMODEM \o line
           h == Head(out)
           T(z, f) == \E u \in Seq(Marks) : Trace(u, z, Now, Due', f, Len(base))
<1>7. /\ T(Append(s, h), Harm) /\ T(s, Harm + 1)
      /\ \A b \in Bytes : T(Append(s, b), Harm + 5) /\ T(Append(Append(s, h), b), Harm + 5)
  <2> DEFINE n == Now
             q == Due
             q2 == Due'
             m == Len(base)
             f == Harm
  <2>1. /\ s \in Seq(Bytes) /\ n \in Nat /\ q \in 1 .. 6 /\ f \in Nat /\ m \in Nat
        /\ Trace(w, s, n, q, f, m) /\ h \in Bytes /\ q2 \in 1 .. 6
        /\ m <= n /\ (n <= Blocks => n <= m + 1)
        /\ n <= Blocks => n \in 1 .. Blocks /\ h = Packet(n)[q] /\ q2 = (q % 6) + 1
        /\ n > Blocks => h.v \in {EOT, CAN} /\ q = 1 /\ q2 = 1
    BY <1>1, <1>2, <1>3, <1>4, <1>5, <1>6
  <2> HIDE DEF s, h, n, q, q2, m, f
  <2>2. /\ \E u \in Seq(Marks) : Trace(u, Append(s, h), n, q2, f, m)
        /\ \E u \in Seq(Marks) : Trace(u, s, n, q2, f + 1, m)
        /\ \A b \in Bytes :
             /\ \E u \in Seq(Marks) : Trace(u, Append(s, b), n, q2, f + 5, m)
             /\ \E u \in Seq(Marks) : Trace(u, Append(Append(s, h), b), n, q2, f + 5, m)
    BY <2>1, SendTrace
  <2>3. QED
    BY <2>2 DEF n, q2, m, f
<1>8. UNCHANGED <<strXMODEM, BlockCount, base>> /\ out # <<>>
  BY DEF send_byte, receiver
<1>9. /\ strXMODEM \o Append(line, h) = Append(s, h) /\ Append(line, h) \in Seq(Bytes)
      /\ \A b \in Bytes :
           /\ strXMODEM \o Append(line, b) = Append(s, b)
           /\ strXMODEM \o (line \o <<h, b>>) = Append(Append(s, h), b)
  <2>1. strXMODEM \o Append(line, h) = Append(s, h) /\ Append(line, h) \in Seq(Bytes)
    BY <1>1, <1>3, AppendLater
  <2>2. ASSUME NEW b \in Bytes
        PROVE  /\ strXMODEM \o Append(line, b) = Append(s, b)
               /\ strXMODEM \o (line \o <<h, b>>) = Append(Append(s, h), b)
    <3>1. strXMODEM \o Append(line, b) = Append(s, b)
      BY <1>3, AppendLater
    <3>2. strXMODEM \o Append(Append(line, h), b) = Append(strXMODEM \o Append(line, h), b)
      BY <1>3, <2>1, AppendLater
    <3>3. line \o <<h, b>> = Append(Append(line, h), b)
      BY <1>1, <1>3
    <3>4. QED
      BY <2>1, <3>1, <3>2, <3>3
  <2>3. QED
    BY <2>1, <2>2
<1>10. \/ line' = Append(line, h) /\ Harm' = Harm
       \/ line' = line /\ Harm' = Harm + 1
       \/ /\ Harm' = Harm + 5
          /\ \E b \in Bytes : line' \in {Append(line, b), line \o <<h, b>>}
  <2>1. /\ \/ line' = Append(line, h) /\ UNCHANGED <<faults, changed>>
           \/ line' = line /\ faults' = faults + 1 /\ changed' = changed
           \/ /\ faults' = faults + 1 /\ changed' = changed + 1
              /\ \E v \in Noise : line' \in {Append(line, Junk(v)), line \o <<h, Junk(v)>>}
    BY DEF send_byte
  <2>2. \A v \in Noise : Junk(v) \in Bytes
    BY Bad
  <2>3. /\ faults \in Nat /\ changed \in Nat
        /\ Harm = faults + 4 * changed /\ Harm' = faults' + 4 * changed'
    BY DEF Harm, Size, Typed
  <2> HIDE DEF h
  <2>4. CASE line' = Append(line, h) /\ UNCHANGED <<faults, changed>>
    BY <2>3, <2>4
  <2>5. CASE line' = line /\ faults' = faults + 1 /\ changed' = changed
    BY <2>3, <2>5
  <2>6. CASE /\ faults' = faults + 1 /\ changed' = changed + 1
             /\ \E v \in Noise : line' \in {Append(line, Junk(v)), line \o <<h, Junk(v)>>}
    <3>1. Harm' = Harm + 5
      BY <2>3, <2>6
    <3>2. \E b \in Bytes : line' \in {Append(line, b), line \o <<h, b>>}
      BY <2>2, <2>6
    <3>3. QED
      BY <3>1, <3>2
  <2>7. QED
    BY <2>1, <2>4, <2>5, <2>6
<1> HIDE DEF h, T
<1>11. T(strXMODEM \o line', Harm')
  <2>1. CASE line' = Append(line, h) /\ Harm' = Harm
    BY <1>7, <1>9, <2>1
  <2>2. CASE line' = line /\ Harm' = Harm + 1
    BY <1>7, <2>2
  <2>3. ASSUME NEW b \in Bytes, line' \in {Append(line, b), line \o <<h, b>>}, Harm' = Harm + 5
        PROVE  T(strXMODEM \o line', Harm')
    <3>1. strXMODEM \o line' \in {Append(s, b), Append(Append(s, h), b)}
      BY <1>9, <2>3
    <3>2. QED
      BY <1>7, <2>3, <3>1
  <2>4. QED
    BY <1>10, <2>1, <2>2, <2>3
<1>12. QED
  BY <1>1, <1>5, <1>8, <1>11 DEF Heard, T

(* A packet is answered: what is stored is the block that was due.         *)
LEMMA TraceMarks ==
  ASSUME NEW S, NEW s \in Seq(S), NEW w, NEW n, NEW q, NEW f, NEW m, Trace(w, s, n, q, f, m)
  PROVE  \A i \in 1 .. Len(s) : w[i].k \in Nat /\ w[i].k <= n
<1>1. w \in Seq(Marks) /\ Len(w) = Len(s) /\ \A i \in 1 .. Len(s) : Fits(s[i], w[i], n, f, m)
  BY DEF Trace
<1>2. \A i \in 1 .. Len(w) : w[i] \in Marks
  BY <1>1
<1>3. \A t \in Marks : t.k \in Nat
  BY DEF Marks
<1>4. QED
  BY <1>1, <1>2, <1>3 DEF Fits

LEMMA HeardPacket ==
  ASSUME Typed, Speaks, Stored, Heard, packet, Harm < Size
  PROVE  Stored' /\ (pc' # "done" => Heard')
<1> DEFINE x == strXMODEM
           m == Len(base)
<1>1. /\ pc = "packet" /\ UNCHANGED <<line, next, out, sender, faults, changed>>
      /\ x \in Seq(Bytes) /\ line \in Seq(Bytes) /\ base \in Seq(Nat) /\ Harm \in Nat /\ Harm' = Harm
      /\ m \in Nat /\ Due \in 1 .. 6 /\ Due' = Due /\ Now \in Nat /\ Now' = Now
  BY DueRange, HarmFacts DEF packet, Typed, Now, Due, Harm
<1>2. /\ BlockCount = (m + 1) % W /\ m <= Now
      /\ \E w \in Seq(Marks) : Trace(w, x \o line, Now, Due, Harm, m)
  BY DEF Heard
<1>3. PICK w \in Seq(Marks) : Trace(w, x \o line, Now, Due, Harm, m)
  BY <1>2
<1>4. /\ Len(x) \in Nat /\ Len(line) \in Nat /\ Len(x \o line) = Len(x) + Len(line)
  BY <1>1
<1>5. /\ \A i \in 1 .. Len(x \o line) : Fits((x \o line)[i], w[i], Now, Harm, m)
      /\ \A i, j \in 1 .. Len(x \o line) : i < j => w[i].k <= w[j].k
  BY <1>3 DEF Trace
<1>6. \A i \in 1 .. Len(line) : Len(x) + i \in 1 .. Len(x \o line)
  BY <1>4
<1>7. <<>> \o line = line /\ x \o line \in Seq(Bytes)
  BY <1>1, ConcatEmptySeq
<1>8. \A i \in 1 .. Len(x \o line) : w[i].k \in Nat /\ w[i].k <= Now
  <2> DEFINE y == x \o line
             n == Now
             q == Due
             f == Harm
  <2>1. y \in Seq(Bytes) /\ Trace(w, y, n, q, f, m)
    BY <1>3, <1>7
  <2> HIDE DEF y, n, q, f, m
  <2>2. \A i \in 1 .. Len(y) : w[i].k \in Nat /\ w[i].k <= n
    BY ONLY <2>1, TraceMarks
  <2>3. QED
    BY <2>2 DEF y, n
<1>9. ASSUME NEW why, End(why)
      PROVE  Stored' /\ pc' = "done"
  BY <1>9 DEF End, Stored
<1>10. ASSUME UNCHANGED <<BlockCount, base>>, Again("NAK")
      PROVE  Stored' /\ Heard'
  <2>1. Stored' /\ strXMODEM' = <<>>
    BY <1>10 DEF Stored, Again
  <2>2. \A i \in 1 .. Len(line) : m <= w[Len(x) + i].k
    BY <1>5, <1>6 DEF Fits
  <2>3. \E u \in Seq(Marks) : Trace(u, line, Now, Due, Harm, m)
    <3>1. m <= m
      BY <1>1
    <3> HIDE DEF x, m
    <3>2. QED
      BY <1>1, <1>3, <2>2, <3>1, TraceDrop
  <2>4. Heard'
    BY <1>1, <1>2, <1>7, <1>10, <2>1, <2>3 DEF Heard
  <2>5. QED
    BY <2>1, <2>4
<1>11. ASSUME Good(x), store(x), Again("ACK")
       PROVE  Stored' /\ Heard'
  <2>1. m + 1 <= w[6].k /\ m + 1 <= Blocks /\ x[4].v = Data(m + 1)
    <3> DEFINE n == Now
               q == Due
               f == Harm
    <3>1. /\ x \in Seq(Bytes) /\ line \in Seq(Bytes) /\ n \in Nat /\ q \in 1 .. 6
          /\ f \in Nat /\ m \in Nat /\ Trace(w, x \o line, n, q, f, m)
          /\ Good(x) /\ BlockCount = (m + 1) % W /\ f < 6
      BY <1>1, <1>2, <1>3, <1>11 DEF Size
    <3> HIDE DEF x, m, n, q, f
    <3>2. QED
      BY ONLY <3>1, TraceGood
  <2>2. /\ base' = Append(base, Data(m + 1)) /\ BlockCount' = (BlockCount + 1) % W
        /\ strXMODEM' = <<>> /\ Len(x) = 6
    BY <1>11, <2>1 DEF store, Again, Good, Size
  <2>3. Data(m + 1) \in Nat
    <3> HIDE DEF m
    <3>1. m + 1 \in Nat
      BY <1>1
    <3>2. QED
      BY <3>1, Span
  <2>4. /\ Len(base') = m + 1 /\ base'[m + 1] = Data(m + 1)
        /\ \A k \in 1 .. m : base'[k] = base[k]
    BY <1>1, <2>2, <2>3
  <2>5. \A k \in 1 .. m : base[k] = Data(k)
    BY DEF Stored
  <2>6. Stored'
    <3> HIDE DEF m
    <3>1. \A k \in 1 .. m + 1 : k \in 1 .. m \/ k = m + 1
      BY <1>1
    <3>2. \A k \in 1 .. m + 1 : base'[k] = Data(k)
      BY <2>4, <2>5, <3>1
    <3>3. QED
      BY <2>1, <2>4, <3>2 DEF Stored
  <2>7. BlockCount' = (Len(base') + 1) % W
    <3> HIDE DEF m
    <3>1. m + 1 \in Nat
      BY <1>1
    <3>2. (((m + 1) % W) + 1) % W = ((m + 1) + 1) % W
      BY <3>1, Successor
    <3>3. QED
      BY <1>2, <2>2, <2>4, <3>2
  <2>8. 6 \in 1 .. Len(x \o line)
    BY <1>4, <2>2
  <2>9. m + 1 <= Now
    <3>1. w[6].k <= Now /\ w[6].k \in Nat
      BY <1>8, <2>8
    <3>2. QED
      BY <1>1, <2>1, <3>1
  <2>10. \A i \in 1 .. Len(line) : m + 1 <= w[Len(x) + i].k
    <3>1. \A i \in 1 .. Len(line) : 6 < Len(x) + i
      BY <2>2
    <3>2. \A i \in 1 .. Len(line) : w[6].k <= w[Len(x) + i].k
      BY <1>5, <1>6, <2>8, <3>1
    <3>3. w[6].k \in Nat /\ \A i \in 1 .. Len(line) : w[Len(x) + i].k \in Nat
      BY <1>6, <1>8, <2>8
    <3>4. QED
      BY <1>1, <2>1, <3>2, <3>3
  <2>11. \E u \in Seq(Marks) : Trace(u, line, Now, Due, Harm, m + 1)
    <3> DEFINE m2 == m + 1
    <3>1. m2 \in Nat /\ m <= m2 /\ \A i \in 1 .. Len(line) : m2 <= w[Len(x) + i].k
      BY <1>1, <2>10
    <3> HIDE DEF x, m, m2
    <3>2. \E u \in Seq(Marks) : Trace(u, line, Now, Due, Harm, m2)
      BY <1>1, <1>3, <3>1, TraceDrop
    <3>3. QED
      BY <3>2 DEF m2
  <2>12. Heard'
    <3> HIDE DEF m
    <3>1. Len(base') <= Now' /\ strXMODEM' \o line' = line
      BY <1>1, <1>7, <2>2, <2>4, <2>9
    <3>2. \E u \in Seq(Marks) :
            Trace(u, strXMODEM' \o line', Now', Due', Harm', Len(base'))
      BY <1>1, <2>4, <2>11, <3>1
    <3>3. QED
      BY <2>7, <3>1, <3>2 DEF Heard
  <2>13. QED
    BY <2>6, <2>12
<1>12. QED
  BY <1>9, <1>10, <1>11 DEF packet

LEMMA KeptOn ==
  ASSUME Typed, Typed', Speaks, Speaks', Acked, Kept, [Next]_vars
  PROVE  Kept'
<1>1. Harm \in Nat /\ Harm' \in Nat /\ Harm <= Harm' /\ (forged => forged')
  BY HarmFacts, HarmGrows
<1>2. SUFFICES ASSUME Harm' < Size, ~forged'
               PROVE  Stored' /\ (pc' # "done" => Heard')
  BY DEF Kept
<1>3. Harm < Size /\ ~forged
  BY <1>1, <1>2 DEF Size
<1>4. Stored /\ (pc # "done" => Heard)
  BY <1>3 DEF Kept
<1>5. CASE packet
  BY <1>3, <1>4, <1>5, HeardPacket DEF packet
<1>6. ASSUME UNCHANGED <<BlockCount, base>>, pc = "done" => pc' = "done",
             strXMODEM' \o line' = strXMODEM \o line, Now <= Now', Due' = Due
      PROVE  Stored' /\ (pc' # "done" => Heard')
  <2>1. Stored'
    BY <1>4, <1>6 DEF Stored
  <2>2. ASSUME pc' # "done"
        PROVE  Heard'
    <3>1. Heard
      BY <1>4, <1>6, <2>2
    <3>2. QED
      BY <1>1, <1>6, <3>1, HeardLater
  <2>3. QED
    BY <2>1, <2>2
<1>7. ASSUME UNCHANGED <<next, sender, out>>
      PROVE  Now <= Now' /\ Due' = Due
  <2>1. Now' = Now /\ Now \in Nat
    BY <1>7, DueRange DEF Now
  <2>2. QED
    BY <1>7, <2>1 DEF Due
<1>8. CASE put_wait_char \/ test_start \/ get_pause \/ spoil_answer \/ UNCHANGED vars
  <2>1. /\ UNCHANGED <<BlockCount, base, strXMODEM, line, next, sender, out>>
        /\ pc = "done" => pc' = "done"
    BY <1>8 DEF put_wait_char, test_start, get_pause, spoil_answer, vars, receiver
  <2>2. QED
    BY <1>6, <1>7, <2>1
<1>9. CASE get_byte
  <2>1. /\ UNCHANGED <<BlockCount, base, next, sender, out>> /\ pc # "done" /\ line # <<>>
        /\ strXMODEM' = Append(strXMODEM, Head(line)) /\ line' = Tail(line)
    BY <1>9 DEF get_byte
  <2>2. strXMODEM \in Seq(Bytes) /\ line \in Seq(Bytes)
    BY DEF Typed
  <2>3. strXMODEM' \o line' = strXMODEM \o line
    BY <2>1, <2>2, HeadMoves
  <2>4. QED
    BY <1>6, <1>7, <2>1, <2>3
<1>10. CASE read_answer \/ no_answer
  <2>1. UNCHANGED receiver /\ UNCHANGED line
    BY <1>10 DEF read_answer, no_answer
  <2>2. Now <= Now' /\ Due' = Due
    BY <1>10, Turns
  <2>3. UNCHANGED <<BlockCount, base, strXMODEM, line, pc>>
    BY <2>1 DEF receiver
  <2>4. QED
    BY <1>6, <2>2, <2>3
<1>11. CASE send_byte
  <2>1. UNCHANGED <<base, pc>>
    BY <1>11 DEF send_byte, receiver
  <2>2. Stored'
    BY <1>4, <2>1 DEF Stored
  <2>3. ASSUME pc' # "done"
        PROVE  Heard'
    <3>1. Heard /\ outcome = "none"
      BY <1>4, <2>1, <2>3 DEF Typed
    <3>2. QED
      BY <1>3, <1>11, <3>1, HeardSend
  <2>4. QED
    BY <2>2, <2>3
<1>12. QED
  BY <1>5, <1>8, <1>9, <1>10, <1>11 DEF Next

(* Where each byte on its way comes from is an inductive invariant, and so *)
(* is that what is stored is the beginning of the file.                    *)
THEOREM KeptInvariance == Spec => [](Speaks /\ Kept)
<1>1. Init => Speaks /\ Kept
  BY SpeaksStart, KeptStart
<1>2. ASSUME AInv, AInv', Speaks, Kept, [Next]_vars
      PROVE  Speaks' /\ Kept'
  <2>1. Typed /\ Typed' /\ Acked
    BY <1>2 DEF AInv
  <2>2. Speaks'
    BY <1>2, <2>1, SpeaksOn
  <2>3. QED
    BY <1>2, <2>1, <2>2, KeptOn
<1>3. AInv /\ AInv' /\ (Speaks /\ Kept) /\ [Next]_vars => (Speaks /\ Kept)'
  BY <1>2
<1>4. QED
  BY <1>1, <1>3, Invariance, PTL DEF Spec

(* What is in memory is the beginning of the file, each block once and in  *)
(* order, for every file, every width of the block number and of the line, *)
(* and whatever values the noise makes, up to the bound: fewer bytes and   *)
(* answers lost than the model's packet of six has, or one byte changed or *)
(* added and nothing else, and no ACK that the monitor has not sent.       *)
THEOREM StoredPrefixCorrect == Spec => []StoredPrefix
<1>1. Kept => StoredPrefix
  BY DEF Kept, StoredPrefix
<1>2. QED
  BY <1>1, KeptInvariance, PTL

(* "transfer succeed!", for an EOT that was sent as one, is only said when *)
(* every block has been stored, if no ACK came that the monitor has not    *)
(* sent: the EOT is sent after the last ACK, and each ACK came after its   *)
(* block was stored; that it is stored once is StoredPrefix.               *)
THEOREM SuccessCorrect == Spec => []SuccessMeansAll
<1>1. ASSUME AInv, StoredPrefix
      PROVE  SuccessMeansAll
  <2>1. Len(base) \in Nat /\ Blocks \in Nat
    BY <1>1, Numbers DEF AInv, Typed
  <2>2. QED
    BY <1>1, <2>1 DEF AInv, Complete, StoredPrefix, Stored, SuccessMeansAll
<1>2. QED
  BY <1>1, Invariance, StoredPrefixCorrect, PTL
=============================================================================
