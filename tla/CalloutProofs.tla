--------------------------- MODULE CalloutProofs ----------------------------
(***************************************************************************)
(* Proofs about the callouts, for every set of functions, pool size, tick  *)
(* length, counter width and gap between polls: the polled clock neither   *)
(* loses nor invents a tick, no call that is due is forgotten, none is     *)
(* made early, and the delta list with its flag and its poll implements    *)
(* the timer service of module Timers.                                     *)
(***************************************************************************)
EXTENDS Callout, TLAPS, SequenceTheorems, Induction

-----------------------------------------------------------------------------
(* The recursive function inside Left.                                     *)

Entry == [fn : Fns, time : Int, promise : Nat]
Queue == Seq(Entry)

Pos(t) == IF t > 0 THEN t ELSE 0

(* What is left behind the first entry, the second, and so on.             *)
LEMMA LeftFacts ==
  ASSUME NEW q \in Queue, NEW n \in Int
  PROVE  /\ Left(q, n, 0) = n
         /\ \A k \in 1 .. Len(q) : Left(q, n, k) = Left(q, n, k - 1) - Pos(q[k].time)
         /\ \A k \in 0 .. Len(q) : Left(q, n, k) \in Int
<1> DEFINE L == Len(q)
           Is(g, m) == /\ g \in [0 .. m -> Int] /\ g[0] = n
                       /\ \A i \in 1 .. m : g[i] = g[i - 1] - Pos(q[i].time)
           Body(g) == [i \in 0 .. Len(q) |->
                         IF i = 0 THEN n
                         ELSE IF q[i].time > 0 THEN g[i - 1] - q[i].time ELSE g[i - 1]]
           Has(m) == \E g : Is(g, m)
           S == {m \in Nat : m <= L => Has(m)}
<1>1. L \in Nat /\ \A i \in 1 .. L : q[i] \in Entry
  BY DEF Queue
<1>2. \A i \in 1 .. L : q[i].time \in Int
  BY <1>1 DEF Entry
<1>3. 0 \in S
  <2> DEFINE g == [i \in 0 .. 0 |-> n]
  <2>1. g \in [0 .. 0 -> Int] /\ g[0] = n
    OBVIOUS
  <2> HIDE DEF g
  <2>2. Is(g, 0)
    BY <2>1
  <2>3. QED
    BY <2>2
<1>4. ASSUME NEW m \in Nat, m \in S
      PROVE  m + 1 \in S
  <2> HIDE DEF Has
  <2>1. SUFFICES ASSUME m + 1 <= L PROVE Has(m + 1)
    OBVIOUS
  <2> USE DEF Has
  <2>2. PICK g : Is(g, m)
    BY <1>1, <1>4, <2>1
  <2> DEFINE h == [i \in 0 .. m + 1 |->
                     IF i = m + 1 THEN g[m] - Pos(q[m + 1].time) ELSE g[i]]
  <2>3. q[m + 1].time \in Int /\ g[m] \in Int
    BY <1>1, <1>2, <2>1, <2>2
  <2>4. h \in [0 .. m + 1 -> Int]
    BY <2>2, <2>3 DEF Pos
  <2>5. h[0] = n
    BY <2>2
  <2>6. ASSUME NEW i \in 1 .. m + 1
        PROVE  h[i] = h[i - 1] - Pos(q[i].time)
    <3>1. i - 1 \in 0 .. m /\ h[i - 1] = g[i - 1]
      OBVIOUS
    <3>2. CASE i = m + 1
      BY <3>1, <3>2
    <3>3. CASE i \in 1 .. m
      BY <2>2, <3>1, <3>3
    <3>4. QED
      BY <3>2, <3>3
  <2>7. QED
    BY <2>4, <2>5, <2>6
<1> HIDE DEF S
<1>5. L \in S
  BY <1>1, <1>3, <1>4, Induct
<1>6. PICK g : Is(g, L)
  BY <1>1, <1>5 DEF S
<1>7. g = Body(g)
  <2>1. Body(g)[0] = g[0]
    BY <1>1, <1>6
  <2>2. ASSUME NEW i \in 1 .. L
        PROVE  Body(g)[i] = g[i]
    <3>1. g[i] = g[i - 1] - Pos(q[i].time) /\ g[i - 1] \in Int /\ i # 0 /\ i \in 0 .. L
      BY <1>1, <1>6
    <3>2. Body(g)[i] = IF q[i].time > 0 THEN g[i - 1] - q[i].time ELSE g[i - 1]
      BY <3>1
    <3>3. QED
      BY <1>2, <3>1, <3>2 DEF Pos
  <2>3. \A i \in 0 .. L : Body(g)[i] = g[i]
    <3>1. \A i \in 0 .. L : i = 0 \/ i \in 1 .. L
      BY <1>1
    <3> HIDE DEF Body
    <3>2. QED
      BY <2>1, <2>2, <3>1
  <2>4. Body(g) = [i \in 0 .. L |-> Body(g)[i]] /\ g = [i \in 0 .. L |-> g[i]]
    BY <1>6
  <2> HIDE DEF Body
  <2>5. QED
    BY <2>3, <2>4
<1> DEFINE left == CHOOSE f : f = Body(f)
<1>8. left = Body(left)
  BY <1>7
<1>9. \A k : Left(q, n, k) = left[k]
  BY Zenon DEF Left
<1> HIDE DEF left
<1>10. left[0] = n
  BY <1>1, <1>8
<1>11. \A k \in 1 .. L : left[k] = IF q[k].time > 0 THEN left[k - 1] - q[k].time ELSE left[k - 1]
  BY <1>1, <1>8
<1> DEFINE I == {m \in Nat : m <= L => left[m] \in Int}
<1>12. 0 \in I
  BY <1>10
<1>13. ASSUME NEW m \in Nat, m \in I
       PROVE  m + 1 \in I
  BY <1>1, <1>2, <1>11, <1>13
<1> HIDE DEF I
<1>14. Nat \subseteq I
  BY <1>12, <1>13, Induct
<1>15. \A k \in 0 .. L : left[k] \in Int
  BY <1>1, <1>14 DEF I
<1>16. \A k \in 1 .. L : left[k] = left[k - 1] - Pos(q[k].time)
  BY <1>1, <1>2, <1>11, <1>15 DEF Pos
<1>17. QED
  BY <1>9, <1>10, <1>15, <1>16

-----------------------------------------------------------------------------
(* The ticks before an entry of the delta list is due.                     *)

Wait(q, i) == -Left(q, 0, i)

(* An entry is due when the one before it is, and its own time has passed. *)
LEMMA WaitFacts ==
  ASSUME NEW q \in Queue
  PROVE  /\ Wait(q, 0) = 0
         /\ \A k \in 1 .. Len(q) : Wait(q, k) = Wait(q, k - 1) + Pos(q[k].time)
         /\ \A k \in 0 .. Len(q) : Wait(q, k) \in Nat
         /\ \A k \in 1 .. Len(q) : Pos(q[k].time) \in Nat /\ q[k].time \in Int
<1> DEFINE L == Len(q)
           I == {m \in Nat : m <= L => Wait(q, m) \in Nat}
<1>1. L \in Nat /\ \A i \in 1 .. L : q[i].time \in Int
  <2>1. L \in Nat /\ \A i \in 1 .. L : q[i] \in Entry
    BY DEF Queue
  <2>2. QED
    BY <2>1 DEF Entry
<1>2. \A i \in 1 .. L : Pos(q[i].time) \in Nat
  BY <1>1 DEF Pos
<1>3. /\ Left(q, 0, 0) = 0
      /\ \A k \in 1 .. L : Left(q, 0, k) = Left(q, 0, k - 1) - Pos(q[k].time)
      /\ \A k \in 0 .. L : Left(q, 0, k) \in Int
  BY LeftFacts
<1>4. Wait(q, 0) = 0
  BY <1>3 DEF Wait
<1>5. \A k \in 1 .. L : Wait(q, k) = Wait(q, k - 1) + Pos(q[k].time)
  <2>1. SUFFICES ASSUME NEW k \in 1 .. L
                 PROVE  Wait(q, k) = Wait(q, k - 1) + Pos(q[k].time)
    OBVIOUS
  <2>2. k - 1 \in 0 .. L /\ k \in 0 .. L
    BY <1>1
  <2>3. Left(q, 0, k - 1) \in Int /\ Left(q, 0, k) \in Int /\ Pos(q[k].time) \in Nat
    BY <1>2, <1>3, <2>2
  <2>4. QED
    BY <1>3, <2>3 DEF Wait
<1>6. 0 \in I
  BY <1>4
<1>7. ASSUME NEW m \in Nat, m \in I
      PROVE  m + 1 \in I
  <2>1. SUFFICES ASSUME m + 1 <= L PROVE Wait(q, m + 1) \in Nat
    OBVIOUS
  <2>2. m + 1 \in 1 .. L /\ (m + 1) - 1 = m
    BY <1>1, <2>1
  <2>3. Wait(q, m) \in Nat
    BY <1>1, <1>7, <2>1
  <2>4. Wait(q, m + 1) = Wait(q, m) + Pos(q[m + 1].time)
    BY <1>5, <2>2
  <2>5. QED
    BY <1>2, <2>2, <2>3, <2>4
<1> HIDE DEF I
<1>8. Nat \subseteq I
  BY <1>6, <1>7, Induct
<1>9. \A k \in 0 .. L : Wait(q, k) \in Nat
  BY <1>1, <1>8 DEF I
<1>10. QED
  BY <1>1, <1>2, <1>4, <1>5, <1>9

(* Left in these terms.                                                    *)
LEMMA LeftWait ==
  ASSUME NEW q \in Queue, NEW n \in Int
  PROVE  \A k \in 0 .. Len(q) : Left(q, n, k) = n - Wait(q, k)
<1> DEFINE L == Len(q)
           I == {m \in Nat : m <= L => Left(q, n, m) = n - Wait(q, m)}
<1>1. L \in Nat
  BY DEF Queue
<1>2. 0 \in I
  <2>1. Left(q, n, 0) = n /\ Wait(q, 0) = 0
    BY LeftFacts, WaitFacts
  <2>2. QED
    BY <2>1
<1>3. ASSUME NEW m \in Nat, m \in I
      PROVE  m + 1 \in I
  <2>1. SUFFICES ASSUME m + 1 <= L PROVE Left(q, n, m + 1) = n - Wait(q, m + 1)
    OBVIOUS
  <2>2. m + 1 \in 1 .. L /\ (m + 1) - 1 = m /\ m \in 0 .. L /\ m + 1 \in 0 .. L
    BY <1>1, <2>1
  <2>3. Left(q, n, m) = n - Wait(q, m)
    BY <1>3, <2>2
  <2>4. Left(q, n, m + 1) = Left(q, n, m) - Pos(q[m + 1].time)
    BY <2>2, LeftFacts
  <2>5. Wait(q, m + 1) = Wait(q, m) + Pos(q[m + 1].time)
    BY <2>2, WaitFacts
  <2>6. Wait(q, m) \in Nat /\ Pos(q[m + 1].time) \in Nat
    BY <2>2, WaitFacts
  <2>7. QED
    BY <2>3, <2>4, <2>5, <2>6
<1> HIDE DEF I
<1>4. Nat \subseteq I
  BY <1>2, <1>3, Induct
<1>5. QED
  BY <1>1, <1>4 DEF I

(* A function that adds up the times of q is Wait.                         *)
LEMMA WaitIs ==
  ASSUME NEW q \in Queue, NEW g, g[0] = 0,
         \A k \in 1 .. Len(q) : g[k] = g[k - 1] + Pos(q[k].time)
  PROVE  \A k \in 0 .. Len(q) : Wait(q, k) = g[k]
<1> DEFINE L == Len(q)
           I == {m \in Nat : m <= L => Wait(q, m) = g[m]}
<1>1. L \in Nat
  BY DEF Queue
<1>2. 0 \in I
  BY WaitFacts
<1>3. ASSUME NEW m \in Nat, m \in I
      PROVE  m + 1 \in I
  <2>1. SUFFICES ASSUME m + 1 <= L PROVE Wait(q, m + 1) = g[m + 1]
    OBVIOUS
  <2>2. m + 1 \in 1 .. L /\ (m + 1) - 1 = m
    BY <1>1, <2>1
  <2>3. Wait(q, m) = g[m]
    BY <1>1, <1>3, <2>1
  <2>4. Wait(q, m + 1) = Wait(q, m) + Pos(q[m + 1].time)
    BY <2>2, WaitFacts
  <2>5. g[m + 1] = g[m] + Pos(q[m + 1].time)
    BY <2>2
  <2>6. QED
    BY <2>3, <2>4, <2>5
<1> HIDE DEF I
<1>4. Nat \subseteq I
  BY <1>2, <1>3, Induct
<1>5. QED
  BY <1>1, <1>4 DEF I

(* It never falls along the list.                                          *)
LEMMA WaitMonotone ==
  ASSUME NEW q \in Queue, NEW i \in 0 .. Len(q)
  PROVE  \A j \in i .. Len(q) : Wait(q, i) <= Wait(q, j)
<1> DEFINE L == Len(q)
           I == {m \in Nat : m + i <= L => Wait(q, i) <= Wait(q, m + i)}
<1>1. L \in Nat
  BY DEF Queue
<1>2. 0 \in I
  BY WaitFacts
<1>3. ASSUME NEW m \in Nat, m \in I
      PROVE  m + 1 \in I
  <2>1. SUFFICES ASSUME m + 1 + i <= L PROVE Wait(q, i) <= Wait(q, m + 1 + i)
    OBVIOUS
  <2>2. /\ m + 1 + i \in 1 .. L /\ (m + 1 + i) - 1 = m + i
        /\ m + i \in 0 .. L /\ i \in 0 .. L /\ m + 1 + i \in 0 .. L
    BY <1>1, <2>1
  <2>3. Wait(q, i) <= Wait(q, m + i)
    BY <1>1, <1>3, <2>1
  <2>4. Wait(q, m + 1 + i) = Wait(q, m + i) + Pos(q[m + 1 + i].time)
    BY <2>2, WaitFacts
  <2>5. /\ Wait(q, m + i) \in Nat /\ Wait(q, i) \in Nat
        /\ Pos(q[m + 1 + i].time) \in Nat
    BY <2>2, WaitFacts
  <2>6. QED
    BY <2>3, <2>4, <2>5
<1> HIDE DEF I
<1>4. Nat \subseteq I
  BY <1>2, <1>3, Induct
<1>5. ASSUME NEW j \in i .. L
      PROVE  Wait(q, i) <= Wait(q, j)
  <2>1. j - i \in Nat /\ (j - i) + i = j /\ j <= L
    BY <1>1
  <2>2. j - i \in I
    BY <1>4, <2>1
  <2>3. QED
    BY <2>1, <2>2 DEF I
<1>6. QED
  BY <1>5

(* Nothing is left to wait for where all that comes before is due.         *)
LEMMA WaitZero ==
  ASSUME NEW q \in Queue, NEW j \in 0 .. Len(q)
  PROVE  Wait(q, j) = 0 <=> \A i \in 1 .. j : q[i].time <= 0
<1> DEFINE L == Len(q)
           I == {m \in Nat : m <= L /\ (\A i \in 1 .. m : q[i].time <= 0) => Wait(q, m) = 0}
<1>1. L \in Nat
  BY DEF Queue
<1>2. ASSUME Wait(q, j) = 0, NEW i \in 1 .. j
      PROVE  q[i].time <= 0
  <2>1. i \in 1 .. L /\ i \in 0 .. L /\ i - 1 \in 0 .. L /\ j \in i .. L
    BY <1>1
  <2>2. Wait(q, i) <= Wait(q, j) /\ Wait(q, i) = Wait(q, i - 1) + Pos(q[i].time)
    BY <2>1, WaitMonotone, WaitFacts
  <2>3. Wait(q, i - 1) \in Nat /\ Pos(q[i].time) \in Nat /\ q[i].time \in Int
    BY <2>1, WaitFacts
  <2>4. Pos(q[i].time) = 0
    BY <1>2, <2>2, <2>3
  <2>5. QED
    BY <2>3, <2>4 DEF Pos
<1>3. 0 \in I
  BY WaitFacts
<1>4. ASSUME NEW m \in Nat, m \in I
      PROVE  m + 1 \in I
  <2>1. SUFFICES ASSUME m + 1 <= L, \A i \in 1 .. m + 1 : q[i].time <= 0
                 PROVE  Wait(q, m + 1) = 0
    OBVIOUS
  <2>2. m + 1 \in 1 .. L /\ (m + 1) - 1 = m /\ m + 1 \in 1 .. m + 1
    BY <1>1, <2>1
  <2>3. \A i \in 1 .. m : q[i].time <= 0
    BY <2>1
  <2>4. Wait(q, m) = 0
    BY <1>1, <1>4, <2>1, <2>3
  <2>5. Wait(q, m + 1) = Wait(q, m) + Pos(q[m + 1].time) /\ q[m + 1].time \in Int
    BY <2>2, WaitFacts
  <2>6. Pos(q[m + 1].time) = 0
    BY <2>1, <2>2, <2>5 DEF Pos
  <2>7. QED
    BY <2>4, <2>5, <2>6
<1> HIDE DEF I
<1>5. Nat \subseteq I
  BY <1>3, <1>4, Induct
<1>6. (\A i \in 1 .. j : q[i].time <= 0) => Wait(q, j) = 0
  BY <1>1, <1>5 DEF I
<1>7. QED
  BY <1>2, <1>6

-----------------------------------------------------------------------------
(* timeout and untimeout on the list.                                      *)

(* A function on 1..n is a sequence.                                       *)
LEMMA SeqFact ==
  ASSUME NEW S, NEW n \in Nat, NEW s \in [1 .. n -> S]
  PROVE  s \in Seq(S) /\ Len(s) = n
OBVIOUS

(* q2 is q with an entry behind its first k, due after n ticks.            *)
InsertedAt(q, q2, k, f, n, p) ==
  /\ q2 \in Queue /\ Len(q2) = Len(q) + 1
  /\ \A j \in 1 .. k : q2[j] = q[j]
  /\ q2[k + 1] = [fn |-> f, time |-> n - Wait(q, k), promise |-> p]
  /\ k < Len(q) =>
       q2[k + 2] = [q[k + 1] EXCEPT !.time = q[k + 1].time - (n - Wait(q, k))]
  /\ \A j \in k + 2 .. Len(q) : q2[j + 1] = q[j]

(* The k entries that stay in front come sooner, the others do not.        *)
InsertsAt(q, k, n) ==
  /\ \A j \in 0 .. k : Wait(q, j) < n
  /\ k < Len(q) => n - Wait(q, k) <= q[k + 1].time

(* timeout finds a place for every entry.                                  *)
LEMMA PlaceExists ==
  ASSUME NEW q \in Queue, NEW n \in Nat \ {0}
  PROVE  \E i \in 0 .. Len(q) :
           /\ i = Len(q) \/ Left(q, n, i) <= q[i + 1].time
           /\ \A j \in 0 .. i - 1 : Left(q, n, j) > q[j + 1].time
<1> DEFINE L == Len(q)
           T == {i \in 0 .. L : i = L \/ Left(q, n, i) <= q[i + 1].time}
<1>1. L \in Nat
  BY DEF Queue
<1>2. L \in T /\ T \subseteq Nat
  BY <1>1
<1>3. PICK i \in T : \A j \in T : i <= j
  BY <1>2, Least
<1>4. i \in 0 .. L /\ (i = L \/ Left(q, n, i) <= q[i + 1].time)
  OBVIOUS
<1>5. ASSUME NEW j \in 0 .. i - 1
      PROVE  Left(q, n, j) > q[j + 1].time
  <2>1. j \in 0 .. L /\ j + 1 \in 1 .. L /\ ~(i <= j) /\ j # L
    BY <1>1, <1>4
  <2>2. ~(Left(q, n, j) <= q[j + 1].time)
    BY <1>3, <2>1
  <2>3. Left(q, n, j) \in Int /\ q[j + 1].time \in Int
    BY <2>1, LeftFacts, WaitFacts
  <2>4. QED
    BY <2>2, <2>3
<1>6. QED
  BY <1>4, <1>5

(* What stays in front comes sooner than n ticks.                          *)
LEMMA PlaceSooner ==
  ASSUME NEW q \in Queue, NEW n \in Nat \ {0}, NEW k \in 0 .. Len(q),
         \A j \in 0 .. k - 1 : Left(q, n, j) > q[j + 1].time
  PROVE  \A j \in 0 .. k : Wait(q, j) < n
<1> DEFINE I == {m \in Nat : m <= k => Wait(q, m) < n}
<1>1. Len(q) \in Nat /\ k \in Nat
  BY DEF Queue
<1>2. 0 \in I
  BY WaitFacts
<1>3. ASSUME NEW m \in Nat, m \in I
      PROVE  m + 1 \in I
  <2>1. SUFFICES ASSUME m + 1 <= k PROVE Wait(q, m + 1) < n
    OBVIOUS
  <2>2. /\ m + 1 \in 1 .. Len(q) /\ (m + 1) - 1 = m
        /\ m \in 0 .. Len(q) /\ m \in 0 .. k - 1
    BY <1>1, <2>1
  <2>3. Wait(q, m) < n
    BY <1>1, <1>3, <2>1
  <2>4. n - Wait(q, m) > q[m + 1].time
    BY <2>2, LeftWait
  <2>5. /\ Wait(q, m + 1) = Wait(q, m) + Pos(q[m + 1].time)
        /\ Wait(q, m) \in Nat /\ q[m + 1].time \in Int
    BY <2>2, WaitFacts
  <2>6. QED
    BY <2>3, <2>4, <2>5 DEF Pos
<1> HIDE DEF I
<1>4. Nat \subseteq I
  BY <1>2, <1>3, Induct
<1>5. QED
  BY <1>1, <1>4 DEF I

(* timeout's walk: where it puts the entry and what it corrects.           *)
LEMMA InsertFacts ==
  ASSUME NEW q \in Queue, NEW f \in Fns, NEW n \in Nat \ {0}, Promised(n) \in Nat
  PROVE  \E k \in 0 .. Len(q) :
           InsertsAt(q, k, n) /\ InsertedAt(q, Inserted(q, f, n), k, f, n, Promised(n))
<1> DEFINE L  == Len(q)
           k  == CHOOSE i \in 0 .. Len(q) :
                   /\ i = Len(q) \/ Left(q, n, i) <= q[i + 1].time
                   /\ \A j \in 0 .. i - 1 : Left(q, n, j) > q[j + 1].time
           t  == Left(q, n, k)
           new == [fn |-> f, time |-> t, promise |-> Promised(n)]
           rest == [i \in 1 .. Len(q) - k |->
                      IF i = 1 THEN [q[k + 1] EXCEPT !.time = @ - t] ELSE q[k + i]]
           q2 == Inserted(q, f, n)
<1>1. L \in Nat /\ \A i \in 1 .. L : q[i] \in Entry
  BY DEF Queue
<1>2. /\ k \in 0 .. L
      /\ k = L \/ Left(q, n, k) <= q[k + 1].time
      /\ \A j \in 0 .. k - 1 : Left(q, n, j) > q[j + 1].time
  BY PlaceExists, Zenon
<1>3. q2 = SubSeq(q, 1, k) \o <<new>> \o rest
  BY Zenon DEF Inserted
<1> HIDE DEF k
<1>4. \A j \in 0 .. k : Wait(q, j) < n
  BY <1>2, PlaceSooner
<1>5. t = n - Wait(q, k) /\ t \in Int
  BY <1>2, LeftWait, LeftFacts
<1> HIDE DEF t
<1>6. InsertsAt(q, k, n)
  BY <1>1, <1>2, <1>4, <1>5 DEF InsertsAt, t
<1>7. new \in Entry
  BY <1>5 DEF Entry
<1> DEFINE m == L - k
<1>8. m \in Nat
  BY <1>1, <1>2
<1>9. \A i \in 1 .. m : k + i \in 1 .. L /\ q[k + i] \in Entry
  BY <1>1, <1>2
<1>10. m > 0 => [q[k + 1] EXCEPT !.time = @ - t] \in Entry
  <2>1. m > 0 => q[k + 1] \in Entry
    BY <1>8, <1>9
  <2>2. QED
    BY <2>1, <1>5 DEF Entry
<1>11. rest \in [1 .. m -> Entry]
  BY <1>8, <1>9, <1>10
<1>12. rest \in Seq(Entry) /\ Len(rest) = m
  BY <1>8, <1>11, SeqFact
<1>13. /\ SubSeq(q, 1, k) \in Seq(Entry) /\ Len(SubSeq(q, 1, k)) = k
       /\ \A i \in 1 .. k : SubSeq(q, 1, k)[i] = q[i]
  BY <1>1, <1>2, SubSeqProperties
<1> DEFINE a == SubSeq(q, 1, k)
           b == a \o <<new>>
<1>14. /\ <<new>> \in Seq(Entry) /\ Len(<<new>>) = 1 /\ <<new>>[1] = new
  BY <1>7
<1> HIDE DEF a, new, rest
<1>15. /\ b \in Seq(Entry) /\ Len(b) = k + 1
       /\ \A i \in 1 .. k + 1 : b[i] = IF i <= k THEN q[i] ELSE new
  BY <1>2, <1>13, <1>14, ConcatProperties DEF a
<1> HIDE DEF b
<1>16. /\ q2 \in Seq(Entry) /\ Len(q2) = L + 1
       /\ \A i \in 1 .. L + 1 : q2[i] = IF i <= k + 1 THEN b[i] ELSE rest[i - (k + 1)]
  <2>1. q2 = b \o rest
    BY <1>3 DEF a, b
  <2>2. k + 1 + m = L + 1
    BY <1>1, <1>2
  <2> HIDE DEF q2, m
  <2>3. /\ b \o rest \in Seq(Entry) /\ Len(b \o rest) = Len(b) + Len(rest)
        /\ \A i \in 1 .. Len(b) + Len(rest) :
             (b \o rest)[i] = IF i <= Len(b) THEN b[i] ELSE rest[i - Len(b)]
    BY <1>12, <1>15, ConcatProperties
  <2>4. Len(b) = k + 1 /\ Len(b) + Len(rest) = L + 1
    BY <1>12, <1>15, <2>2
  <2>5. QED
    BY <2>1, <2>3, <2>4
<1>17. \A j \in 1 .. k : q2[j] = q[j]
  BY <1>1, <1>2, <1>15, <1>16
<1>18. q2[k + 1] = new
  BY <1>1, <1>2, <1>15, <1>16
<1>19. k < L => q2[k + 2] = [q[k + 1] EXCEPT !.time = q[k + 1].time - t]
  <2>1. SUFFICES ASSUME k < L PROVE q2[k + 2] = [q[k + 1] EXCEPT !.time = q[k + 1].time - t]
    OBVIOUS
  <2>2. k + 2 \in 1 .. L + 1 /\ ~(k + 2 <= k + 1) /\ (k + 2) - (k + 1) = 1 /\ 1 \in 1 .. m
    BY <1>1, <1>2, <2>1
  <2>3. q2[k + 2] = rest[1]
    BY <1>16, <2>2
  <2>4. QED
    BY <2>2, <2>3 DEF rest
<1>20. ASSUME NEW j \in k + 2 .. L
       PROVE  q2[j + 1] = q[j]
  <2>1. /\ j + 1 \in 1 .. L + 1 /\ ~(j + 1 <= k + 1) /\ (j + 1) - (k + 1) = j - k
        /\ j - k \in 1 .. m /\ j - k # 1 /\ k + (j - k) = j
    BY <1>1, <1>2
  <2>2. q2[j + 1] = rest[j - k]
    BY <1>16, <2>1
  <2>3. QED
    BY <2>1, <2>2 DEF rest
<1> HIDE DEF q2
<1>21. InsertedAt(q, q2, k, f, n, Promised(n))
  BY <1>5, <1>16, <1>17, <1>18, <1>19, <1>20 DEF InsertedAt, new, Queue
<1>22. QED
  BY <1>2, <1>6, <1>21 DEF q2

(* Behind a call with ticks left nothing is overdue.                       *)
Ordered(q) ==
  \A i, j \in 1 .. Len(q) : i < j /\ q[i].time > 0 => q[j].time >= 0

(* Nobody else waits any longer or shorter for an insertion.               *)
LEMMA InsertWait ==
  ASSUME NEW q \in Queue, NEW q2, NEW k \in 0 .. Len(q), NEW f, NEW n \in Nat \ {0}, NEW p,
         InsertsAt(q, k, n), InsertedAt(q, q2, k, f, n, p)
  PROVE  /\ \A j \in 0 .. k : Wait(q2, j) = Wait(q, j)
         /\ Wait(q2, k + 1) = n
         /\ \A j \in k + 1 .. Len(q) : Wait(q2, j + 1) = Wait(q, j)
<1> DEFINE L == Len(q)
           g == [j \in 0 .. L + 1 |->
                   IF j <= k THEN Wait(q, j) ELSE IF j = k + 1 THEN n ELSE Wait(q, j - 1)]
<1>1. L \in Nat /\ q2 \in Queue /\ Len(q2) = L + 1
  BY DEF InsertedAt, Queue
<1>2. \A j \in 0 .. L : Wait(q, j) \in Nat
  BY WaitFacts
<1>3. /\ Wait(q, k) < n
      /\ k < L => n - Wait(q, k) <= q[k + 1].time
  BY DEF InsertsAt
<1>4. g[0] = 0
  BY <1>1, WaitFacts
<1>5. ASSUME NEW j \in 1 .. L + 1
      PROVE  g[j] = g[j - 1] + Pos(q2[j].time)
  <2>1. CASE j <= k
    <3>1. q2[j] = q[j] /\ j \in 1 .. L
      BY <1>1, <2>1 DEF InsertedAt
    <3>2. Wait(q, j) = Wait(q, j - 1) + Pos(q[j].time)
      BY <3>1, WaitFacts
    <3>3. g[j] = Wait(q, j) /\ g[j - 1] = Wait(q, j - 1)
      BY <1>1, <2>1
    <3>4. QED
      BY <3>1, <3>2, <3>3
  <2>2. CASE j = k + 1
    <3>1. q2[j].time = n - Wait(q, k)
      BY <2>2 DEF InsertedAt
    <3>2. Pos(q2[j].time) = n - Wait(q, k)
      BY <1>2, <1>3, <3>1 DEF Pos
    <3>3. g[j] = n /\ g[j - 1] = Wait(q, k)
      BY <1>1, <2>2
    <3>4. QED
      BY <1>2, <3>2, <3>3
  <2>3. CASE j = k + 2
    <3>1. k < L /\ k + 1 \in 1 .. L /\ (k + 1) - 1 = k
      BY <1>1, <2>3
    <3>2. q[k + 1] \in Entry /\ q[k + 1].time \in Int
      BY <3>1, WaitFacts DEF Queue
    <3>3. q2[j].time = q[k + 1].time - (n - Wait(q, k))
      <4>1. q2[k + 2].time = q[k + 1].time - (n - Wait(q, k))
        BY <3>1, <3>2 DEF InsertedAt, Entry
      <4>2. QED
        BY <2>3, <4>1
    <3>4. Wait(q, k + 1) = Wait(q, k) + Pos(q[k + 1].time) /\ q[k + 1].time \in Int
      BY <3>1, WaitFacts
    <3>5. g[j] = Wait(q, k + 1) /\ g[j - 1] = n
      BY <1>1, <2>3
    <3>6. Wait(q, k) \in Nat /\ n - Wait(q, k) <= q[k + 1].time
      BY <1>2, <1>3, <3>1
    <3> HIDE DEF g
    <3>7. Pos(q2[j].time) = Wait(q, k + 1) - n /\ Wait(q, k + 1) \in Int
      BY <1>3, <3>3, <3>4, <3>6 DEF Pos
    <3>8. QED
      BY <3>5, <3>7
  <2>4. CASE j > k + 2
    <3>1. j - 1 \in k + 2 .. L /\ j - 1 \in 1 .. L /\ (j - 1) + 1 = j
      BY <1>1, <2>4
    <3>2. q2[j] = q[j - 1]
      BY <3>1 DEF InsertedAt
    <3>3. Wait(q, j - 1) = Wait(q, (j - 1) - 1) + Pos(q[j - 1].time)
      BY <3>1, WaitFacts
    <3>4. g[j] = Wait(q, j - 1) /\ g[j - 1] = Wait(q, (j - 1) - 1)
      BY <1>1, <2>4
    <3>5. QED
      BY <3>2, <3>3, <3>4
  <2>5. QED
    BY <1>1, <2>1, <2>2, <2>3, <2>4
<1> HIDE DEF g
<1>6. \A j \in 0 .. L + 1 : Wait(q2, j) = g[j]
  BY <1>1, <1>4, <1>5, WaitIs
<1>7. QED
  BY <1>1, <1>6 DEF g

(* The list stays ordered.                                                 *)
LEMMA InsertOrdered ==
  ASSUME NEW q \in Queue, NEW q2, NEW k \in 0 .. Len(q), NEW f, NEW n \in Nat \ {0}, NEW p,
         InsertsAt(q, k, n), InsertedAt(q, q2, k, f, n, p), Ordered(q)
  PROVE  /\ Ordered(q2)
         /\ Due(q2) => Due(q)
<1> DEFINE L == Len(q)
<1>1. /\ L \in Nat /\ q2 \in Queue /\ Len(q2) = L + 1
      /\ \A i \in 1 .. L : q[i] \in Entry /\ q[i].time \in Int
  BY WaitFacts DEF InsertedAt, Queue
<1>2. /\ Wait(q, k) \in Nat /\ Wait(q, k) < n
      /\ k < L => n - Wait(q, k) <= q[k + 1].time
  BY WaitFacts DEF InsertsAt
<1>3. \A j \in 1 .. k : q2[j].time = q[j].time
  BY DEF InsertedAt
<1>4. q2[k + 1].time > 0 /\ q2[k + 1].time \in Int
  BY <1>2 DEF InsertedAt
<1>5. k < L => q2[k + 2].time >= 0 /\ q[k + 1].time > 0 /\ q2[k + 2].time \in Int
  <2>1. SUFFICES ASSUME k < L
                 PROVE  q2[k + 2].time >= 0 /\ q[k + 1].time > 0 /\ q2[k + 2].time \in Int
    OBVIOUS
  <2>2. q[k + 1] \in Entry /\ q[k + 1].time \in Int
    BY <1>1, <2>1
  <2>3. q2[k + 2].time = q[k + 1].time - (n - Wait(q, k))
    BY <2>1, <2>2 DEF InsertedAt, Entry
  <2>4. QED
    BY <1>2, <2>1, <2>2, <2>3
<1>6. \A j \in k + 2 .. L : q2[j + 1].time = q[j].time /\ q[j].time >= 0
  <2>1. SUFFICES ASSUME NEW j \in k + 2 .. L
                 PROVE  q2[j + 1].time = q[j].time /\ q[j].time >= 0
    OBVIOUS
  <2>2. q2[j + 1] = q[j]
    BY DEF InsertedAt
  <2>3. k < L /\ k + 1 \in 1 .. L /\ j \in 1 .. L /\ k + 1 < j
    BY <1>1
  <2>4. QED
    BY <1>5, <2>2, <2>3 DEF Ordered
<1>7. \A j \in k + 2 .. L + 1 : q2[j].time >= 0
  <2>1. SUFFICES ASSUME NEW j \in k + 2 .. L + 1
                 PROVE  q2[j].time >= 0
    OBVIOUS
  <2>2. CASE j = k + 2
    BY <1>1, <1>5, <2>2
  <2>3. CASE j - 1 \in k + 2 .. L
    <3>1. (j - 1) + 1 = j
      BY <1>1
    <3>2. QED
      BY <1>6, <2>3, <3>1
  <2>4. QED
    BY <1>1, <2>2, <2>3
<1>8. Ordered(q2)
  <2>1. SUFFICES ASSUME NEW i \in 1 .. L + 1, NEW j \in 1 .. L + 1, i < j, q2[i].time > 0
                 PROVE  q2[j].time >= 0
    BY <1>1 DEF Ordered
  <2>2. CASE j <= k
    BY <1>1, <1>3, <2>1, <2>2 DEF Ordered
  <2>3. CASE j = k + 1
    BY <1>4, <2>3
  <2>4. CASE j >= k + 2
    BY <1>1, <1>7, <2>4
  <2>5. QED
    BY <1>1, <2>2, <2>3, <2>4
<1>9. Due(q2) => Due(q)
  <2>1. SUFFICES ASSUME Due(q2) PROVE Due(q)
    OBVIOUS
  <2>2. q2[1].time <= 0
    BY <1>1, <2>1 DEF Due, Queue
  <2>3. k # 0
    BY <1>4, <2>2
  <2>4. q2[1] = q[1] /\ L > 0
    BY <1>1, <2>3 DEF InsertedAt
  <2>5. q # <<>> /\ Head(q) = q[1]
    BY <1>1, <2>4 DEF Queue
  <2>6. QED
    BY <2>2, <2>4, <2>5 DEF Due
<1>10. QED
  BY <1>8, <1>9

(* q2 is q without entry i, whose time the next one gets.                  *)
RemovedAt(q, q2, i) ==
  /\ q2 \in Queue /\ Len(q2) = Len(q) - 1
  /\ \A j \in 1 .. i - 1 : q2[j] = q[j]
  /\ i < Len(q) =>
       q2[i] = IF q[i].time > 0 THEN [q[i + 1] EXCEPT !.time = q[i + 1].time + q[i].time]
               ELSE q[i + 1]
  /\ \A j \in i + 1 .. Len(q) - 1 : q2[j] = q[j + 1]

(* The first entry of f.                                                   *)
FirstOf(q, f, i) == q[i].fn = f /\ \A h \in 1 .. i - 1 : q[h].fn # f

(* untimeout takes the first entry of the function out.                    *)
LEMMA RemoveFacts ==
  ASSUME NEW q \in Queue, NEW f \in Fns, \E i \in DOMAIN q : q[i].fn = f
  PROVE  \E i \in 1 .. Len(q) : FirstOf(q, f, i) /\ RemovedAt(q, Removed(q, f), i)
<1> DEFINE L == Len(q)
           T == {i \in 1 .. L : q[i].fn = f}
           i == CHOOSE j \in DOMAIN q : q[j].fn = f /\ \A h \in 1 .. j - 1 : q[h].fn # f
           rest == [j \in 1 .. Len(q) - i |->
                      IF j = 1 /\ q[i].time > 0 THEN [q[i + 1] EXCEPT !.time = @ + q[i].time]
                      ELSE q[i + j]]
           q2 == Removed(q, f)
<1>1. L \in Nat /\ DOMAIN q = 1 .. L /\ \A j \in 1 .. L : q[j] \in Entry
  BY DEF Queue
<1>2. \E j \in DOMAIN q : q[j].fn = f /\ \A h \in 1 .. j - 1 : q[h].fn # f
  <2>1. T # {} /\ T \subseteq Nat
    BY <1>1
  <2>2. PICK j \in T : \A h \in T : j <= h
    BY <2>1, Least
  <2>3. \A h \in 1 .. j - 1 : q[h].fn # f
    BY <1>1, <2>2
  <2>4. QED
    BY <1>1, <2>3
<1>3. i \in 1 .. L /\ q[i].fn = f /\ \A h \in 1 .. i - 1 : q[h].fn # f
  BY <1>1, <1>2, Zenon
<1>4. q2 = SubSeq(q, 1, i - 1) \o rest
  BY Zenon DEF Removed
<1> HIDE DEF i
<1> DEFINE m == L - i
<1>5. m \in Nat /\ \A j \in 1 .. m : i + j \in 1 .. L /\ q[i + j] \in Entry
  BY <1>1, <1>3
<1>6. q[i].time \in Int
  BY <1>3, WaitFacts
<1>7. m > 0 => [q[i + 1] EXCEPT !.time = @ + q[i].time] \in Entry
  <2>1. m > 0 => q[i + 1] \in Entry
    BY <1>5
  <2>2. QED
    BY <1>6, <2>1 DEF Entry
<1>8. rest \in [1 .. m -> Entry]
  BY <1>5, <1>7
<1>9. rest \in Seq(Entry) /\ Len(rest) = m
  BY <1>5, <1>8, SeqFact
<1>10. /\ SubSeq(q, 1, i - 1) \in Seq(Entry) /\ Len(SubSeq(q, 1, i - 1)) = i - 1
       /\ \A j \in 1 .. i - 1 : SubSeq(q, 1, i - 1)[j] = q[j]
  BY <1>1, <1>3, SubSeqProperties
<1> DEFINE a == SubSeq(q, 1, i - 1)
<1> HIDE DEF a, rest, q2, m
<1>11. /\ q2 \in Seq(Entry) /\ Len(q2) = L - 1
       /\ \A j \in 1 .. L - 1 : q2[j] = IF j <= i - 1 THEN q[j] ELSE rest[j - (i - 1)]
  <2>1. q2 = a \o rest
    BY <1>4 DEF a
  <2>2. /\ a \o rest \in Seq(Entry) /\ Len(a \o rest) = Len(a) + Len(rest)
        /\ \A j \in 1 .. Len(a) + Len(rest) :
             (a \o rest)[j] = IF j <= Len(a) THEN a[j] ELSE rest[j - Len(a)]
    BY <1>9, <1>10, ConcatProperties DEF a
  <2>3. Len(a) = i - 1 /\ Len(a) + Len(rest) = L - 1 /\ \A j \in 1 .. i - 1 : a[j] = q[j]
    BY <1>1, <1>3, <1>9, <1>10 DEF a, m
  <2>4. q2 \in Seq(Entry) /\ Len(q2) = L - 1
    BY <2>1, <2>2, <2>3
  <2>5. ASSUME NEW j \in 1 .. L - 1
        PROVE  q2[j] = IF j <= i - 1 THEN q[j] ELSE rest[j - (i - 1)]
    <3>1. q2[j] = IF j <= i - 1 THEN a[j] ELSE rest[j - (i - 1)]
      BY <2>1, <2>2, <2>3
    <3>2. j <= i - 1 => a[j] = q[j]
      BY <1>1, <1>3, <2>3
    <3>3. QED
      BY <3>1, <3>2
  <2>6. QED
    BY <2>4, <2>5
<1>12. \A j \in 1 .. i - 1 : q2[j] = q[j]
  BY <1>1, <1>3, <1>11
<1>13. i < L => q2[i] = IF q[i].time > 0
                        THEN [q[i + 1] EXCEPT !.time = q[i + 1].time + q[i].time]
                        ELSE q[i + 1]
  <2>1. SUFFICES ASSUME i < L
                 PROVE  q2[i] = IF q[i].time > 0
                                THEN [q[i + 1] EXCEPT !.time = q[i + 1].time + q[i].time]
                                ELSE q[i + 1]
    OBVIOUS
  <2>2. i \in 1 .. L - 1 /\ ~(i <= i - 1) /\ i - (i - 1) = 1 /\ 1 \in 1 .. L - i
    BY <1>1, <1>3, <2>1
  <2>3. q2[i] = rest[1]
    BY <1>11, <2>2
  <2>4. QED
    BY <2>2, <2>3 DEF rest
<1>14. ASSUME NEW j \in i + 1 .. L - 1
       PROVE  q2[j] = q[j + 1]
  <2>1. /\ j \in 1 .. L - 1 /\ ~(j <= i - 1) /\ j - (i - 1) \in 1 .. L - i
        /\ j - (i - 1) # 1 /\ i + (j - (i - 1)) = j + 1
    BY <1>1, <1>3
  <2>2. q2[j] = rest[j - (i - 1)]
    BY <1>11, <2>1
  <2>3. QED
    BY <2>1, <2>2 DEF rest
<1>15. RemovedAt(q, q2, i) /\ FirstOf(q, f, i)
  BY <1>3, <1>11, <1>12, <1>13, <1>14 DEF RemovedAt, FirstOf, Queue
<1>16. QED
  BY <1>3, <1>15 DEF q2

(* Nobody else waits any longer or shorter for a removal.                  *)
LEMMA RemoveWait ==
  ASSUME NEW q \in Queue, NEW q2, NEW i \in 1 .. Len(q), RemovedAt(q, q2, i), Ordered(q)
  PROVE  /\ \A j \in 0 .. i - 1 : Wait(q2, j) = Wait(q, j)
         /\ \A j \in i .. Len(q) - 1 : Wait(q2, j) = Wait(q, j + 1)
<1> DEFINE L == Len(q)
           g == [j \in 0 .. L - 1 |-> IF j < i THEN Wait(q, j) ELSE Wait(q, j + 1)]
<1>1. L \in Nat /\ q2 \in Queue /\ Len(q2) = L - 1
  BY DEF RemovedAt, Queue
<1>2. g[0] = 0
  BY <1>1, WaitFacts
<1>3. ASSUME NEW j \in 1 .. L - 1
      PROVE  g[j] = g[j - 1] + Pos(q2[j].time)
  <2>1. CASE j < i
    <3>1. q2[j] = q[j] /\ j \in 1 .. L
      BY <1>1, <2>1 DEF RemovedAt
    <3>2. Wait(q, j) = Wait(q, j - 1) + Pos(q[j].time)
      BY <3>1, WaitFacts
    <3>3. g[j] = Wait(q, j) /\ g[j - 1] = Wait(q, j - 1)
      BY <1>1, <2>1
    <3>4. QED
      BY <3>1, <3>2, <3>3
  <2>2. CASE j = i
    <3>1. i < L /\ i + 1 \in 1 .. L /\ (i + 1) - 1 = i /\ i - 1 \in 0 .. L
      BY <1>1, <2>2
    <3>2. /\ Wait(q, i + 1) = Wait(q, i) + Pos(q[i + 1].time)
          /\ Wait(q, i) = Wait(q, i - 1) + Pos(q[i].time)
          /\ q[i].time \in Int /\ q[i + 1].time \in Int /\ Wait(q, i - 1) \in Nat
      BY <3>1, WaitFacts
    <3>3. q[i].time > 0 => q[i + 1].time >= 0
      BY <1>1, <3>1 DEF Ordered
    <3>4. q2[i].time = IF q[i].time > 0 THEN q[i + 1].time + q[i].time ELSE q[i + 1].time
      <4>1. q[i + 1] \in Entry
        BY <3>1 DEF Queue
      <4>2. QED
        BY <3>1, <3>2, <4>1 DEF RemovedAt, Entry
    <3>5. Pos(q2[i].time) = Pos(q[i].time) + Pos(q[i + 1].time)
      BY <3>2, <3>3, <3>4 DEF Pos
    <3>6. g[j] = Wait(q, i + 1) /\ g[j - 1] = Wait(q, i - 1)
      BY <1>1, <2>2
    <3> HIDE DEF g
    <3>7. Pos(q[i].time) \in Int /\ Pos(q[i + 1].time) \in Int
      BY <3>2 DEF Pos
    <3>8. QED
      BY <2>2, <3>2, <3>5, <3>6, <3>7
  <2>3. CASE j > i
    <3>1. j \in i + 1 .. L - 1 /\ j + 1 \in 1 .. L /\ (j + 1) - 1 = j
      BY <1>1, <2>3
    <3>2. q2[j] = q[j + 1]
      BY <3>1 DEF RemovedAt
    <3>3. Wait(q, j + 1) = Wait(q, j) + Pos(q[j + 1].time)
      BY <3>1, WaitFacts
    <3>4. g[j] = Wait(q, j + 1) /\ g[j - 1] = Wait(q, j)
      BY <1>1, <2>3
    <3>5. QED
      BY <3>2, <3>3, <3>4
  <2>4. QED
    BY <1>1, <2>1, <2>2, <2>3
<1> HIDE DEF g
<1>4. \A j \in 0 .. L - 1 : Wait(q2, j) = g[j]
  BY <1>1, <1>2, <1>3, WaitIs
<1>5. QED
  BY <1>1, <1>4 DEF g

(* The list stays ordered, and what is due then was due before.            *)
LEMMA RemoveOrdered ==
  ASSUME NEW q \in Queue, NEW q2, NEW i \in 1 .. Len(q), RemovedAt(q, q2, i), Ordered(q)
  PROVE  /\ Ordered(q2)
         /\ Due(q2) => Due(q)
<1> DEFINE L == Len(q)
<1>1. /\ L \in Nat /\ q2 \in Queue /\ Len(q2) = L - 1
      /\ \A j \in 1 .. L : q[j] \in Entry /\ q[j].time \in Int
  BY WaitFacts DEF RemovedAt, Queue
<1>2. \A j \in 1 .. i - 1 : q2[j].time = q[j].time
  BY DEF RemovedAt
<1>3. \A j \in i + 1 .. L - 1 : q2[j].time = q[j + 1].time
  BY DEF RemovedAt
<1>4. i < L => q2[i].time = IF q[i].time > 0 THEN q[i + 1].time + q[i].time ELSE q[i + 1].time
  <2>1. SUFFICES ASSUME i < L
                 PROVE  q2[i].time = IF q[i].time > 0 THEN q[i + 1].time + q[i].time
                                     ELSE q[i + 1].time
    OBVIOUS
  <2>2. q[i + 1] \in Entry /\ q[i].time \in Int
    BY <1>1, <2>1
  <2>3. QED
    BY <2>1, <2>2 DEF RemovedAt, Entry
<1>5. i < L => (q[i].time > 0 => q[i + 1].time >= 0)
  BY <1>1 DEF Ordered
<1>6. Ordered(q2)
  <2>1. SUFFICES ASSUME NEW h \in 1 .. L - 1, NEW j \in 1 .. L - 1, h < j, q2[h].time > 0
                 PROVE  q2[j].time >= 0
    BY <1>1 DEF Ordered
  <2>2. CASE j < i
    BY <1>1, <1>2, <2>1, <2>2 DEF Ordered
  <2>3. CASE j = i
    <3>1. q[h].time > 0 /\ h \in 1 .. L /\ i + 1 \in 1 .. L /\ h < i + 1 /\ i < L
      BY <1>1, <1>2, <2>1, <2>3
    <3>2. q[i].time >= 0 /\ q[i + 1].time >= 0
      BY <1>1, <2>1, <2>3, <3>1 DEF Ordered
    <3>3. QED
      BY <1>1, <1>4, <2>3, <3>1, <3>2
  <2>4. CASE j > i
    <3>1. q2[j].time = q[j + 1].time /\ j + 1 \in 1 .. L /\ q[j + 1].time \in Int
      BY <1>1, <1>3, <2>4
    <3>2. \E a \in 1 .. L : a < j + 1 /\ q[a].time > 0
      <4>1. CASE h < i
        <5>1. q[h].time > 0 /\ h \in 1 .. L /\ h < j + 1
          BY <1>1, <1>2, <2>1, <4>1
        <5>2. QED
          BY <5>1
      <4>2. CASE h = i
        <5>1. i < L /\ i + 1 \in 1 .. L /\ i < j + 1 /\ i + 1 < j + 1
          BY <1>1, <2>1, <2>4
        <5>2. q[i].time > 0 \/ q[i + 1].time > 0
          BY <1>4, <2>1, <4>2, <5>1
        <5>3. QED
          BY <5>1, <5>2
      <4>3. CASE h > i
        <5>1. h + 1 \in 1 .. L /\ h + 1 < j + 1 /\ q[h + 1].time > 0
          BY <1>1, <1>3, <2>1, <4>3
        <5>2. QED
          BY <5>1
      <4>4. QED
        BY <1>1, <4>1, <4>2, <4>3
    <3>3. QED
      BY <3>1, <3>2 DEF Ordered
  <2>5. QED
    BY <1>1, <2>2, <2>3, <2>4
<1>7. Due(q2) => Due(q)
  <2>1. SUFFICES ASSUME Due(q2) PROVE Due(q)
    OBVIOUS
  <2>2. q2[1].time <= 0 /\ L - 1 >= 1
    BY <1>1, <2>1 DEF Due, Queue
  <2>3. 1 \in 1 .. L /\ 2 \in 1 .. L /\ q[1].time \in Int /\ q[2].time \in Int
    BY <1>1, <2>2
  <2>4. q[1].time <= 0
    <3>1. CASE i = 1
      BY <1>4, <1>5, <2>2, <2>3, <3>1
    <3>2. CASE i > 1
      BY <1>1, <1>2, <2>2, <2>3, <3>2
    <3>3. QED
      BY <3>1, <3>2
  <2>5. q # <<>> /\ Head(q) = q[1]
    BY <1>1, <2>3 DEF Queue
  <2>6. QED
    BY <2>4, <2>5 DEF Due
<1>8. QED
  BY <1>6, <1>7

(* Lists with the same times wait the same.                                *)
SameTimes(q, q2) ==
  q2 \in Queue /\ Len(q2) = Len(q) /\ \A j \in 1 .. Len(q) : q2[j].time = q[j].time

LEMMA SameTimesSame ==
  ASSUME NEW q \in Queue, NEW q2, SameTimes(q, q2)
  PROVE  /\ \A j \in 0 .. Len(q) : Wait(q2, j) = Wait(q, j)
         /\ Ordered(q) => Ordered(q2)
         /\ Due(q2) => Due(q)
<1> DEFINE L == Len(q)
           g == [j \in 0 .. L |-> Wait(q, j)]
<1>1. L \in Nat /\ q2 \in Queue /\ Len(q2) = L /\ \A j \in 1 .. L : q2[j].time = q[j].time
  BY DEF SameTimes, Queue
<1>2. g[0] = 0
  BY <1>1, WaitFacts
<1>3. ASSUME NEW j \in 1 .. L
      PROVE  g[j] = g[j - 1] + Pos(q2[j].time)
  <2>1. g[j] = Wait(q, j) /\ g[j - 1] = Wait(q, j - 1)
    BY <1>1
  <2>2. QED
    BY <1>1, <2>1, WaitFacts
<1> HIDE DEF g
<1>4. \A j \in 0 .. L : Wait(q2, j) = g[j]
  BY <1>1, <1>2, <1>3, WaitIs
<1>5. \A j \in 0 .. L : Wait(q2, j) = Wait(q, j)
  BY <1>4 DEF g
<1>6. Ordered(q) => Ordered(q2)
  BY <1>1 DEF Ordered
<1>7. Due(q2) => Due(q)
  <2>1. SUFFICES ASSUME q2 # <<>>, Head(q2).time <= 0 PROVE Due(q)
    BY DEF Due
  <2>2. L # 0 /\ Head(q2) = q2[1] /\ 1 \in 1 .. L
    BY <1>1, <2>1 DEF Queue
  <2>3. q # <<>> /\ Head(q) = q[1]
    BY <2>2 DEF Queue
  <2>4. QED
    BY <1>1, <2>1, <2>2, <2>3 DEF Due
<1>8. QED
  BY <1>5, <1>6, <1>7

(* The passing of time changes promises and nothing else.                  *)
LEMMA AgedFacts ==
  ASSUME NEW q \in Queue, NEW p \in Nat
  PROVE  /\ SameTimes(q, Aged(q, p))
         /\ \A j \in 1 .. Len(q) :
              /\ Aged(q, p)[j].fn = q[j].fn
              /\ Aged(q, p)[j].promise = IF q[j].promise > p THEN q[j].promise - p ELSE 0
<1> DEFINE L == Len(q)
<1>1. L \in Nat /\ DOMAIN q = 1 .. L /\ \A j \in 1 .. L : q[j] \in Entry
  BY DEF Queue
<1>2. ASSUME NEW j \in 1 .. L
      PROVE  /\ Aged(q, p)[j] \in Entry
             /\ Aged(q, p)[j].time = q[j].time
             /\ Aged(q, p)[j].fn = q[j].fn
             /\ Aged(q, p)[j].promise = IF q[j].promise > p THEN q[j].promise - p ELSE 0
  <2> DEFINE e == q[j]
             v == IF e.promise > p THEN e.promise - p ELSE 0
  <2>1. e \in Entry
    BY <1>1
  <2>2. v \in Nat
    BY <2>1 DEF Entry
  <2>3. Aged(q, p)[j] = [e EXCEPT !.promise = v]
    BY <1>1 DEF Aged
  <2> HIDE DEF e, v
  <2>4. /\ Aged(q, p)[j] \in Entry /\ Aged(q, p)[j].time = e.time
        /\ Aged(q, p)[j].fn = e.fn /\ Aged(q, p)[j].promise = v
    BY <2>1, <2>2, <2>3 DEF Entry
  <2>5. QED
    BY <2>4 DEF e, v
<1>3. Aged(q, p) \in [1 .. L -> Entry]
  <2>1. Aged(q, p) = [i \in 1 .. L |-> Aged(q, p)[i]]
    BY <1>1 DEF Aged
  <2>2. QED
    BY <1>2, <2>1
<1>4. Aged(q, p) \in Queue /\ Len(Aged(q, p)) = L
  BY <1>1, <1>3, SeqFact DEF Queue
<1>5. QED
  BY <1>2, <1>4 DEF SameTimes

-----------------------------------------------------------------------------
(* hardclock and softclock on the list.                                    *)

(* q2 is q one tick later.                                                 *)
TickedTo(q, q2) ==
  /\ q2 \in Queue /\ Len(q2) = Len(q)
  /\ \A j \in 1 .. Len(q) :
       /\ q2[j].fn = q[j].fn /\ q2[j].promise = q[j].promise
       /\ q2[j].time = IF \A i \in 1 .. j - 1 : q[i].time <= 0
                       THEN q[j].time - 1 ELSE q[j].time

Ticked(q) ==
  [j \in DOMAIN q |-> IF j \in Reached(q) THEN [q[j] EXCEPT !.time = @ - 1] ELSE q[j]]

LEMMA TickFacts ==
  ASSUME NEW q \in Queue
  PROVE  TickedTo(q, Ticked(q))
<1> DEFINE L == Len(q)
<1>1. L \in Nat /\ DOMAIN q = 1 .. L /\ \A j \in 1 .. L : q[j] \in Entry
  BY DEF Queue
<1>2. ASSUME NEW j \in 1 .. L
      PROVE  /\ Ticked(q)[j] \in Entry
             /\ Ticked(q)[j].fn = q[j].fn /\ Ticked(q)[j].promise = q[j].promise
             /\ Ticked(q)[j].time = IF \A i \in 1 .. j - 1 : q[i].time <= 0
                                    THEN q[j].time - 1 ELSE q[j].time
  <2> DEFINE e == q[j]
             v == IF \A i \in 1 .. j - 1 : q[i].time <= 0 THEN e.time - 1 ELSE e.time
  <2>1. e \in Entry
    BY <1>1
  <2>2. v \in Int
    BY <2>1 DEF Entry
  <2>3. Ticked(q)[j] = [e EXCEPT !.time = v]
    <3>1. j \in Reached(q) <=> \A i \in 1 .. j - 1 : q[i].time <= 0
      BY <1>1 DEF Reached
    <3>2. [e EXCEPT !.time = e.time] = e
      BY <2>1 DEF Entry
    <3>3. QED
      BY <1>1, <3>1, <3>2 DEF Ticked
  <2> HIDE DEF e, v
  <2>4. /\ Ticked(q)[j] \in Entry /\ Ticked(q)[j].time = v
        /\ Ticked(q)[j].fn = e.fn /\ Ticked(q)[j].promise = e.promise
    BY <2>1, <2>2, <2>3 DEF Entry
  <2>5. QED
    BY <2>4 DEF e, v
<1>3. Ticked(q) \in [1 .. L -> Entry]
  <2>1. Ticked(q) = [i \in 1 .. L |-> Ticked(q)[i]]
    BY <1>1 DEF Ticked
  <2>2. QED
    BY <1>2, <2>1
<1>4. Ticked(q) \in Queue /\ Len(Ticked(q)) = L
  BY <1>1, <1>3, SeqFact DEF Queue
<1>5. QED
  BY <1>2, <1>4 DEF TickedTo

(* Every call is one tick nearer.                                          *)
LEMMA TickWait ==
  ASSUME NEW q \in Queue, NEW q2, TickedTo(q, q2)
  PROVE  \A j \in 0 .. Len(q) :
           Wait(q2, j) = IF Wait(q, j) = 0 THEN 0 ELSE Wait(q, j) - 1
<1> DEFINE L == Len(q)
           g == [j \in 0 .. L |-> IF Wait(q, j) = 0 THEN 0 ELSE Wait(q, j) - 1]
<1>1. L \in Nat /\ q2 \in Queue /\ Len(q2) = L
  BY DEF TickedTo, Queue
<1>2. g[0] = 0
  BY <1>1, WaitFacts
<1>3. ASSUME NEW j \in 1 .. L
      PROVE  g[j] = g[j - 1] + Pos(q2[j].time)
  <2>1. j - 1 \in 0 .. L /\ j \in 0 .. L
    BY <1>1
  <2>2. /\ Wait(q, j) = Wait(q, j - 1) + Pos(q[j].time) /\ Wait(q, j) \in Nat
        /\ Wait(q, j - 1) \in Nat /\ q[j].time \in Int
    BY <2>1, WaitFacts
  <2>3. Wait(q, j - 1) = 0 <=> \A i \in 1 .. j - 1 : q[i].time <= 0
    BY <2>1, WaitZero
  <2>4. q2[j].time = IF Wait(q, j - 1) = 0 THEN q[j].time - 1 ELSE q[j].time
    BY <2>3 DEF TickedTo
  <2>5. /\ g[j] = IF Wait(q, j) = 0 THEN 0 ELSE Wait(q, j) - 1
        /\ g[j - 1] = IF Wait(q, j - 1) = 0 THEN 0 ELSE Wait(q, j - 1) - 1
    BY <2>1
  <2> HIDE DEF g
  <2>6. QED
    BY <2>2, <2>4, <2>5 DEF Pos
<1> HIDE DEF g
<1>4. \A j \in 0 .. L : Wait(q2, j) = g[j]
  BY <1>1, <1>2, <1>3, WaitIs
<1>5. QED
  BY <1>4 DEF g

(* The list stays ordered, and a call that becomes due is seen.            *)
LEMMA TickOrdered ==
  ASSUME NEW q \in Queue, NEW q2, TickedTo(q, q2), Ordered(q)
  PROVE  /\ Ordered(q2)
         /\ Due(q2) => \E j \in Reached(q) : q[j].time <= 1
<1> DEFINE L == Len(q)
<1>1. /\ L \in Nat /\ q2 \in Queue /\ Len(q2) = L /\ DOMAIN q = 1 .. L
      /\ \A j \in 1 .. L : q[j].time \in Int
  BY WaitFacts DEF TickedTo, Queue
<1>2. Ordered(q2)
  <2>1. SUFFICES ASSUME NEW h \in 1 .. L, NEW j \in 1 .. L, h < j, q2[h].time > 0
                 PROVE  q2[j].time >= 0
    BY <1>1 DEF Ordered
  <2>2. q[h].time > 0
    BY <1>1, <2>1 DEF TickedTo
  <2>3. q2[j].time = q[j].time
    <3>1. h \in 1 .. j - 1 /\ ~(q[h].time <= 0)
      BY <1>1, <2>1, <2>2
    <3>2. QED
      BY <3>1 DEF TickedTo
  <2>4. q[j].time >= 0
    BY <2>1, <2>2 DEF Ordered
  <2>5. QED
    BY <2>3, <2>4
<1>3. Due(q2) => \E j \in Reached(q) : q[j].time <= 1
  <2>1. SUFFICES ASSUME q2 # <<>>, Head(q2).time <= 0
                 PROVE  \E j \in Reached(q) : q[j].time <= 1
    BY DEF Due
  <2>2. Head(q2) = q2[1] /\ 1 \in 1 .. L
    BY <1>1, <2>1 DEF Queue
  <2>3. 1 \in Reached(q)
    BY <1>1, <2>2 DEF Reached
  <2>4. q2[1].time = q[1].time - 1
    BY <2>2 DEF TickedTo
  <2>5. QED
    BY <1>1, <2>1, <2>2, <2>3, <2>4
<1>4. QED
  BY <1>2, <1>3

(* softclock takes an entry that nobody waits for.                         *)
LEMMA TailFacts ==
  ASSUME NEW q \in Queue, Due(q)
  PROVE  /\ Tail(q) \in Queue /\ Len(Tail(q)) = Len(q) - 1
         /\ \A j \in 1 .. Len(q) - 1 : Tail(q)[j] = q[j + 1]
         /\ \A j \in 0 .. Len(q) - 1 : Wait(Tail(q), j) = Wait(q, j + 1)
         /\ Ordered(q) => Ordered(Tail(q))
         /\ 1 \in 1 .. Len(q) /\ Head(q) = q[1] /\ Wait(q, 1) = 0
<1> DEFINE L == Len(q)
           q2 == Tail(q)
           g == [j \in 0 .. L - 1 |-> Wait(q, j + 1)]
<1>1. /\ L \in Nat \ {0} /\ q2 \in Queue /\ Len(q2) = L - 1 /\ Head(q) = q[1]
      /\ \A j \in 1 .. L - 1 : q2[j] = q[j + 1]
  BY DEF Due, Queue
<1> HIDE DEF q2
<1>2. Wait(q, 1) = 0
  <2>1. q[1].time <= 0 /\ 1 \in 1 .. L /\ 1 \in 0 .. L
    BY <1>1 DEF Due
  <2>2. \A i \in 1 .. 1 : i = 1
    OBVIOUS
  <2>3. QED
    BY <2>1, <2>2, WaitZero
<1>3. g[0] = 0
  BY <1>1, <1>2
<1>4. ASSUME NEW j \in 1 .. L - 1
      PROVE  g[j] = g[j - 1] + Pos(q2[j].time)
  <2>1. j + 1 \in 1 .. L /\ (j + 1) - 1 = j /\ j \in 0 .. L - 1 /\ j - 1 \in 0 .. L - 1
        /\ (j - 1) + 1 = j
    BY <1>1
  <2>2. g[j] = Wait(q, j + 1) /\ g[j - 1] = Wait(q, j)
    BY <2>1
  <2>3. Wait(q, j + 1) = Wait(q, j) + Pos(q[j + 1].time)
    BY <2>1, WaitFacts
  <2>4. QED
    BY <1>1, <2>2, <2>3
<1> HIDE DEF g
<1>5. \A j \in 0 .. L - 1 : Wait(q2, j) = g[j]
  BY <1>1, <1>3, <1>4, WaitIs
<1>6. \A j \in 0 .. L - 1 : Wait(q2, j) = Wait(q, j + 1)
  BY <1>5 DEF g
<1>7. Ordered(q) => Ordered(q2)
  <2>1. SUFFICES ASSUME Ordered(q), NEW h \in 1 .. L - 1, NEW j \in 1 .. L - 1, h < j,
                        q2[h].time > 0
                 PROVE  q2[j].time >= 0
    BY <1>1 DEF Ordered
  <2>2. h + 1 \in 1 .. L /\ j + 1 \in 1 .. L /\ h + 1 < j + 1
    BY <1>1, <2>1
  <2>3. q2[h] = q[h + 1] /\ q2[j] = q[j + 1]
    BY <1>1
  <2>4. QED
    BY <2>1, <2>2, <2>3 DEF Ordered
<1>8. QED
  BY <1>1, <1>2, <1>6, <1>7 DEF q2

-----------------------------------------------------------------------------
(* The counter.                                                            *)

(* The same count, but for the wrap.                                       *)
Cong(a, b) == \E m \in Int : a = b + m * Wrap

LEMMA ModIs ==
  ASSUME NEW W \in Nat \ {0}, NEW r \in 0 .. W - 1, NEW m \in Int
  PROVE  (r + m * W) % W = r
OBVIOUS

LEMMA DivMod ==
  ASSUME NEW W \in Nat \ {0}, NEW x \in Nat
  PROVE  x % W \in 0 .. W - 1 /\ x \div W \in Nat /\ x % W = x - W * (x \div W)
<1>1. x % W = x - W * (x \div W)
  OBVIOUS
<1>2. x % W \in 0 .. W - 1 /\ x \div W \in Nat
  OBVIOUS
<1>3. QED
  BY <1>1, <1>2

LEMMA Quotient ==
  ASSUME NEW W \in Nat \ {0}, NEW h \in Nat, NEW r \in 0 .. W - 1, NEW x \in Nat, x = W * h + r
  PROVE  h = x \div W
<1>1. (r + h * W) % W = r
  BY ModIs
<1>2. x = r + h * W
  BY Z3
<1>3. QED
  BY <1>1, <1>2

LEMMA CongMod ==
  ASSUME NEW x \in Nat
  PROVE  Cong(x % Wrap, x) /\ x % Wrap \in 0 .. Wrap - 1
<1>1. Wrap \in Nat \ {0}
  BY CalloutAssumption
<1> DEFINE h == x \div Wrap
           r == x % Wrap
<1>2. r \in 0 .. Wrap - 1 /\ h \in Nat /\ r = x - Wrap * h
  BY <1>1, DivMod
<1> HIDE DEF h, r
<1>3. r = x + (-h) * Wrap /\ -h \in Int
  BY <1>1, <1>2
<1>4. QED
  BY <1>2, <1>3 DEF Cong, r

LEMMA CongAdd ==
  ASSUME NEW a \in Int, NEW b \in Int, NEW c \in Int, NEW d \in Int, Cong(a, b), Cong(c, d)
  PROVE  Cong(a + c, b + d) /\ Cong(a - c, b - d)
<1>1. Wrap \in Nat \ {0}
  BY CalloutAssumption
<1>2. PICK m \in Int : a = b + m * Wrap
  BY DEF Cong
<1>3. PICK n \in Int : c = d + n * Wrap
  BY DEF Cong
<1>4. /\ a + c = (b + d) + (m + n) * Wrap /\ m + n \in Int
      /\ a - c = (b - d) + (m - n) * Wrap /\ m - n \in Int
  BY <1>1, <1>2, <1>3
<1>5. QED
  BY <1>4 DEF Cong

LEMMA CongTrans ==
  ASSUME NEW a \in Int, NEW b \in Int, NEW c \in Int, Cong(a, b), Cong(b, c)
  PROVE  Cong(a, c)
<1>1. Wrap \in Nat \ {0}
  BY CalloutAssumption
<1>2. PICK m \in Int : a = b + m * Wrap
  BY DEF Cong
<1>3. PICK n \in Int : b = c + n * Wrap
  BY DEF Cong
<1>4. a = c + (m + n) * Wrap /\ m + n \in Int
  BY <1>1, <1>2, <1>3
<1>5. QED
  BY <1>4 DEF Cong

LEMMA CongSym ==
  ASSUME NEW a \in Int, NEW b \in Int, Cong(a, b)
  PROVE  Cong(b, a)
<1>1. Wrap \in Nat \ {0}
  BY CalloutAssumption
<1>2. PICK m \in Int : a = b + m * Wrap
  BY DEF Cong
<1>3. b = a + (-m) * Wrap /\ -m \in Int
  BY <1>1, <1>2
<1>4. QED
  BY <1>3 DEF Cong

LEMMA CongSame ==
  ASSUME NEW a \in Int
  PROVE  Cong(a, a)
<1>1. Wrap \in Nat /\ a = a + 0 * Wrap /\ 0 \in Int
  BY CalloutAssumption
<1>2. QED
  BY <1>1 DEF Cong

(* A difference short of the counter's range is found.                     *)
LEMMA CountsIs ==
  ASSUME NEW x \in Int, NEW r \in Int, Cong(x, r), 0 <= r, r < Wrap
  PROVE  Counts(x) = r
<1>1. Wrap \in Nat \ {0}
  BY CalloutAssumption
<1>2. PICK m \in Int : x = r + m * Wrap
  BY DEF Cong
<1>3. r \in 0 .. Wrap - 1
  BY <1>1
<1>4. (r + m * Wrap) % Wrap = r
  BY <1>1, <1>3, ModIs
<1>5. QED
  BY <1>2, <1>4 DEF Counts

-----------------------------------------------------------------------------
(* The poll.                                                               *)

(* The counter's values, seen from the last tick: it is lag counts past,   *)
(* the next is clkpertick after it, and ticks were last counted since, no  *)
(* later than that next one then was.                                      *)
Clock ==
  /\ lag <= MaxLag \/ lag <= clkpertick
  /\ Cong(softcompare, count - lag + clkpertick)
  /\ \E k \in 0 .. lag : lag - k <= clkpertick /\ Cong(old_count, count - k)

ClockTypes ==
  /\ count \in 0 .. Wrap - 1 /\ old_count \in 0 .. Wrap - 1 /\ softcompare \in 0 .. Wrap - 1
  /\ lag \in Nat

(* The poll's first read of the counter, and how far it is past the next   *)
(* tick.                                                                   *)
Read == (count + PollCost) % Wrap
Past == lag + PollCost - clkpertick

LEMMA RangeFacts ==
  /\ Wrap \in Nat \ {0} /\ clkpertick + PollCost < Wrap
  /\ \A d \in Races : d \in Nat /\ MaxLag + PollCost < Wrap
  /\ \A x \in Int, r \in Int : Cong(x, r) /\ 0 <= r /\ r < Wrap => Counts(x) = r
<1>1. \A x \in Int, r \in Int : Cong(x, r) /\ 0 <= r /\ r < Wrap => Counts(x) = r
  BY CountsIs
<1>2. Wrap \in Nat \ {0} /\ clkpertick + PollCost < Wrap
  BY CalloutAssumption
<1>3. \A d \in Races : MaxLag + PollCost + d < Wrap /\ d \in Nat
  BY CalloutAssumption
<1>4. PollCost \in Nat /\ MaxLag \in Nat
  BY CalloutAssumption
<1>5. QED
  BY <1>1, <1>2, <1>3, <1>4

(* What the poll computes, whatever the counter's wrap does.               *)
LEMMA MissedIs ==
  ASSUME ClockTypes, Clock, NEW d \in Nat, MaxLag + PollCost < Wrap
  PROVE  /\ Past <= 0 => Missed(Read, d) = 0
         /\ Past > 0 => \E h \in Nat, r \in 0 .. clkpertick - 1 :
              /\ Past = clkpertick * h + r
              /\ Missed(Read, d) =
                   IF d <= clkpertick - r THEN h + 1
                   ELSE h + 1 + (d - (clkpertick - r) + clkpertick - 1) \div clkpertick
<1> DEFINE T == clkpertick
           H == Wrap
           c == Read
           x == Past
           cycles == Counts(c - old_count)
           delta  == Counts(softcompare - old_count)
<1>1. /\ T \in Nat \ {0} /\ PollCost \in Nat \ {0} /\ MaxLag \in Nat /\ Wrap \in Nat \ {0}
      /\ H \in Nat /\ T + PollCost < H /\ MaxLag + PollCost < H
      /\ count \in Nat /\ old_count \in Nat /\ softcompare \in Nat /\ lag \in Nat
  BY CalloutAssumption, RangeFacts DEF ClockTypes
<1>2. PICK k \in 0 .. lag : lag - k <= T /\ Cong(old_count, count - k)
  BY DEF Clock
<1>3. Cong(c, count + PollCost) /\ c \in Int
  <2>1. count + PollCost \in Nat
    BY <1>1
  <2>2. Cong(c, count + PollCost) /\ c \in 0 .. Wrap - 1
    BY <2>1, CongMod, Zenon DEF Read
  <2>3. QED
    BY <1>1, <2>2
<1>4. /\ lag + PollCost < H /\ lag \in Int /\ k \in Int
      /\ x \in Int /\ x = lag + PollCost - T
  BY <1>1, <1>2 DEF Clock, Past
<1>5. cycles = PollCost + k
  <2>1. Cong(c - old_count, (count + PollCost) - (count - k))
    <3>1. c \in Int /\ old_count \in Int /\ count + PollCost \in Int /\ count - k \in Int
      BY <1>1, <1>2, <1>3
    <3>2. QED
      BY <1>2, <1>3, <3>1, CongAdd
  <2>2. (count + PollCost) - (count - k) = PollCost + k
    BY <1>1, <1>2
  <2>3. 0 <= PollCost + k /\ PollCost + k < H
    BY <1>1, <1>2, <1>4
  <2>4. c - old_count \in Int /\ PollCost + k \in Int
    BY <1>1, <1>2, <1>3
  <2>5. QED
    BY <2>1, <2>2, <2>3, <2>4, RangeFacts
<1>6. delta = T - lag + k
  <2>1. Cong(softcompare - old_count, (count - lag + T) - (count - k))
    <3>1. Cong(softcompare, count - lag + T)
      BY DEF Clock
    <3>2. softcompare \in Int /\ old_count \in Int /\ count - lag + T \in Int /\ count - k \in Int
      BY <1>1, <1>2
    <3>3. QED
      BY <1>2, <3>1, <3>2, CongAdd
  <2>2. (count - lag + T) - (count - k) = T - lag + k
    BY <1>1, <1>2
  <2>3. 0 <= T - lag + k /\ T - lag + k < H
    BY <1>1, <1>2, <1>4
  <2>4. softcompare - old_count \in Int /\ T - lag + k \in Int
    BY <1>1, <1>2
  <2>5. QED
    BY <2>1, <2>2, <2>3, <2>4, RangeFacts
<1>7. cycles - delta = x /\ (cycles <= delta <=> x <= 0) /\ (cycles > delta <=> x > 0)
  BY <1>1, <1>2, <1>4, <1>5, <1>6
<1> DEFINE first  == x \div T + 1
           delta2 == Counts(softcompare + first * T - c)
           late   == (d - delta2 + T - 1) \div T
           pick   == CASE cycles <= delta -> 0
                       [] cycles > delta /\ d <= delta2 -> first
                       [] OTHER -> first + late
<1>8. Missed(c, d) = pick
  <2> HIDE DEF cycles, delta
  <2>1. (cycles - delta) \div T + 1 = first
    BY <1>7
  <2> USE DEF cycles, delta
  <2>2. QED
    BY <2>1, Zenon DEF Missed
<1> HIDE DEF cycles, delta, delta2, first, late
<1>9. x <= 0 => Missed(c, d) = 0
  <2>1. x <= 0 => cycles <= delta /\ ~(cycles > delta)
    BY <1>4, <1>7
  <2>2. QED
    BY <1>8, <2>1, Zenon
<1>9a. x > 0 => Missed(c, d) = IF d <= delta2 THEN first ELSE first + late
  <2>1. x > 0 => ~(cycles <= delta)
    BY <1>4, <1>7
  <2>2. QED
    BY <1>7, <1>8, <2>1, Zenon
<1>10. ASSUME x > 0
       PROVE  \E h \in Nat, r \in 0 .. T - 1 :
                /\ x = T * h + r
                /\ Missed(c, d) = IF d <= T - r THEN h + 1
                                  ELSE h + 1 + (d - (T - r) + T - 1) \div T
  <2> DEFINE h == x \div T
             r == x % T
  <2>1. x \in Nat
    BY <1>4, <1>10
  <2>2. r \in 0 .. T - 1 /\ h \in Nat /\ r = x - T * h
    BY <1>1, <2>1, DivMod
  <2>3. first = h + 1
    BY DEF first
  <2> HIDE DEF h, r, first
  <2>4. /\ first \in Nat /\ first * T = T * h + T /\ first * T \in Nat /\ T * h \in Nat
    BY <1>1, <2>2, <2>3
  <2> DEFINE p == first * T
             t == T * h
  <2>5. Cong(softcompare + p, (count - lag + T) + p)
    <3>1. Cong(p, p)
      BY <2>4, CongSame
    <3>2. Cong(softcompare, count - lag + T)
      BY DEF Clock
    <3>3. softcompare \in Int /\ count - lag + T \in Int /\ p \in Int
      BY <1>1, <2>4
    <3> HIDE DEF p
    <3>4. QED
      BY <3>1, <3>2, <3>3, CongAdd
  <2>6. p = t + T /\ t \in Nat /\ p \in Nat /\ r = x - t
    BY <2>2, <2>4
  <2> HIDE DEF p, t
  <2>7. Cong((softcompare + p) - c, ((count - lag + T) + p) - (count + PollCost))
    <3>1. softcompare + p \in Int /\ (count - lag + T) + p \in Int /\ count + PollCost \in Int
      BY <1>1, <2>6
    <3>2. QED
      BY <1>3, <2>5, <3>1, CongAdd
  <2>8. ((count - lag + T) + p) - (count + PollCost) = T - r
    BY <1>1, <1>4, <2>6
  <2>9. delta2 = T - r
    <3>1. 0 <= T - r /\ T - r < H /\ T - r \in Int /\ (softcompare + p) - c \in Int
      BY <1>1, <1>3, <2>2, <2>6
    <3>2. Counts((softcompare + p) - c) = T - r
      BY <2>7, <2>8, <3>1, RangeFacts
    <3>3. delta2 = Counts((softcompare + p) - c)
      BY <1>1, <1>3, <2>4 DEF delta2, p
    <3>4. QED
      BY <3>2, <3>3
  <2>10. x = T * h + r
    BY <1>1, <2>2, <2>6, <1>4 DEF t
  <2>11. Missed(c, d) = IF d <= T - r THEN h + 1 ELSE h + 1 + (d - (T - r) + T - 1) \div T
    BY <1>9a, <1>10, <2>3, <2>9, Zenon DEF late
  <2>12. QED
    BY <2>2, <2>10, <2>11
<1>11. QED
  BY <1>9, <1>10

(* The ticks found are those that have come: less than one tick is left.   *)
LEMMA MissedCounts ==
  ASSUME ClockTypes, Clock, NEW d \in Nat, MaxLag + PollCost < Wrap,
         NEW n, n = Missed(Read, d)
  PROVE  /\ n \in Nat
         /\ n = 0 => Past <= 0
         /\ n # 0 => /\ Past > 0 /\ lag + PollCost + d - n * clkpertick \in 0 .. clkpertick
                     /\ n = Missed(Read, 0) =>
                          d <= lag + PollCost + d - n * clkpertick
<1> DEFINE T == clkpertick
           y == lag + PollCost + d - n * T
<1>1. T \in Nat \ {0} /\ PollCost \in Nat /\ lag \in Nat /\ Past = lag + PollCost - T /\ Past \in Int
  BY CalloutAssumption DEF ClockTypes, Past
<1>2. CASE Past <= 0
  BY <1>1, <1>2, MissedIs
<1>3. CASE Past > 0
  <2>1. PICK h \in Nat, r \in 0 .. T - 1 :
          /\ Past = T * h + r
          /\ n = IF d <= T - r THEN h + 1 ELSE h + 1 + (d - (T - r) + T - 1) \div T
    BY <1>3, MissedIs
  <2>2. PICK h0 \in Nat, r0 \in 0 .. T - 1 :
          /\ Past = T * h0 + r0
          /\ Missed(Read, 0) = h0 + 1
    <3>1. \E h0 \in Nat, r0 \in 0 .. T - 1 :
            /\ Past = T * h0 + r0
            /\ Missed(Read, 0) =
                 IF 0 <= T - r0 THEN h0 + 1 ELSE h0 + 1 + (0 - (T - r0) + T - 1) \div T
      <4>1. 0 \in Nat
        OBVIOUS
      <4>2. QED
        BY <1>3, <4>1, MissedIs
    <3>2. QED
      BY <1>1, <3>1
  <2>3. h0 = h
    <3>1. Past \in Nat
      BY <1>1, <1>3
    <3>2. h = Past \div T
      BY <1>1, <2>1, <3>1, Quotient
    <3>3. h0 = Past \div T
      BY <1>1, <2>2, <3>1, Quotient
    <3>4. QED
      BY <3>2, <3>3
  <2> DEFINE t == T * h
  <2>4. t \in Nat /\ Past = t + r
    BY <1>1, <2>1
  <2>5. CASE d <= T - r
    <3>1. n = h + 1 /\ n * T = t + T
      BY <1>1, <2>1, <2>5
    <3> HIDE DEF t
    <3>2. y = r + d
      BY <1>1, <2>4, <3>1
    <3>3. n \in Nat /\ n # 0 /\ y \in 0 .. T /\ d <= y
      BY <1>1, <2>1, <2>5, <3>1, <3>2
    <3>4. QED
      BY <1>3, <3>3
  <2>6. CASE ~(d <= T - r)
    <3> DEFINE w == d - (T - r) + T - 1
               e == w \div T
               s == w % T
    <3>1. w \in Nat /\ w = d + r - 1
      BY <1>1, <2>1, <2>6
    <3> HIDE DEF w
    <3>2. s \in 0 .. T - 1 /\ e \in Nat /\ s = w - T * e
      BY <1>1, <3>1, DivMod
    <3>3. n = h + 1 + e
      BY <2>1, <2>6 DEF w
    <3> DEFINE u == T * e
    <3>4. u \in Nat
      BY <1>1, <3>2
    <3>5. n * T = t + T + u
      BY <1>1, <2>1, <3>2, <3>3
    <3>6. s = w - u
      BY <3>2
    <3> HIDE DEF e, s, u, t
    <3>7. y = s + 1
      BY <1>1, <2>1, <2>4, <3>1, <3>4, <3>5, <3>6
    <3>8. n \in Nat /\ n # 0
      BY <2>1, <3>2, <3>3
    <3>9. y \in 0 .. T
      BY <1>1, <3>2, <3>7
    <3>10. e # 0
      <4>1. CASE e = 0
        <5>1. u = 0
          BY <1>1, <4>1 DEF u
        <5>2. d + r - 1 <= T - 1
          BY <1>1, <3>1, <3>2, <3>6, <5>1
        <5>3. QED
          BY <1>1, <2>1, <2>6, <5>2
      <4>2. QED
        BY <4>1
    <3>11. n # Missed(Read, 0)
      BY <2>1, <2>2, <2>3, <3>2, <3>3, <3>10
    <3>12. QED
      BY <1>3, <3>8, <3>9, <3>11
  <2>7. QED
    BY <2>5, <2>6
<1>4. QED
  BY <1>1, <1>2, <1>3

(* A poll keeps the clock's values in step, and sets ticks.                *)
LEMMA PollKeeps ==
  ASSUME ClockTypes, Clock, NEW d \in Races, tgt_clkpoll(d)
  PROVE  /\ ClockTypes' /\ Clock' /\ lag' <= clkpertick /\ ticks' \in Nat
         /\ \E p \in Nat : /\ lag' = lag + p - ticks' * clkpertick
                           /\ calltodo' = Aged(calltodo, p)
                           /\ running' = Aged(<<running>>, p)[1]
<1> DEFINE T == clkpertick
           n == Missed(Read, d)
           p == IF n = 0 THEN PollCost ELSE PollCost + d
           x == count + p
<1>1. /\ T \in Nat \ {0} /\ PollCost \in Nat /\ lag \in Nat /\ Past = lag + PollCost - T
      /\ count \in Nat /\ old_count \in 0 .. Wrap - 1 /\ softcompare \in Nat /\ d \in Nat
      /\ Wrap \in Nat \ {0} /\ MaxLag + PollCost < Wrap
  BY CalloutAssumption, RangeFacts DEF ClockTypes, Past
<1>2. /\ n \in Nat /\ (n = 0 => Past <= 0)
      /\ n # 0 => /\ lag + PollCost + d - n * T \in 0 .. T
                  /\ n = Missed(Read, 0) => d <= lag + PollCost + d - n * T
  BY <1>1, MissedCounts
<1>3. /\ count' = (count + p) % Wrap /\ ticks' = n
      /\ old_count' = IF n = 0 THEN old_count
                      ELSE IF n = Missed(Read, 0) THEN Read ELSE count'
      /\ softcompare' = (softcompare + n * T) % Wrap
      /\ lag' = lag + p - n * T
      /\ calltodo' = Aged(calltodo, p) /\ running' = Aged(<<running>>, p)[1]
  BY Zenon DEF tgt_clkpoll, Read
<1> HIDE DEF n
<1>4. p \in Nat /\ n * T \in Nat /\ (n = 0 => n * T = 0)
  BY <1>1, <1>2
<1> DEFINE v == n * T
<1>5. lag' \in 0 .. T /\ lag' = lag + p - v
  BY <1>1, <1>2, <1>3, <1>4
<1>6. /\ Cong(count', count + p) /\ count' \in 0 .. Wrap - 1
      /\ Cong(softcompare', softcompare + v) /\ softcompare' \in 0 .. Wrap - 1
      /\ Cong(Read, count + PollCost) /\ Read \in 0 .. Wrap - 1
  <2>1. count + p \in Nat /\ softcompare + v \in Nat /\ count + PollCost \in Nat
    BY <1>1, <1>4
  <2> HIDE DEF p, v
  <2>2. count' = (count + p) % Wrap /\ softcompare' = (softcompare + v) % Wrap
    BY <1>3, Zenon DEF v
  <2>3. QED
    BY <2>1, <2>2, CongMod DEF Read
<1>7. ClockTypes'
  <2>1. old_count' \in 0 .. Wrap - 1
    BY <1>1, <1>3, <1>6
  <2>2. lag' \in Nat
    BY <1>5
  <2>3. QED
    BY <1>6, <2>1, <2>2 DEF ClockTypes
<1> HIDE DEF v
<1>8. Cong(softcompare', count' - lag' + T)
  <2>1. Cong(softcompare, count - lag + T)
    BY DEF Clock
  <2>2. Cong(v, v) /\ Cong(lag' - T, lag' - T) /\ v \in Int /\ lag' - T \in Int
    <3>1. v \in Int /\ lag' - T \in Int
      BY <1>1, <1>4, <1>5 DEF v
    <3>2. QED
      BY <3>1, CongSame
  <2>3. Cong(softcompare + v, (count - lag + T) + v)
    <3>1. softcompare \in Int /\ count - lag + T \in Int
      BY <1>1
    <3>2. QED
      BY <2>1, <2>2, <3>1, CongAdd
  <2>4. Cong(softcompare', (count - lag + T) + v)
    <3>1. softcompare' \in Int /\ softcompare + v \in Int /\ (count - lag + T) + v \in Int
      BY <1>1, <1>6, <2>2
    <3>2. QED
      BY <1>6, <2>3, <3>1, CongTrans
  <2>5. (count - lag + T) + v = (count + p) - (lag' - T)
    BY <1>1, <1>4, <1>5, <2>2
  <2>6. Cong(count' - (lag' - T), (count + p) - (lag' - T))
    <3>1. count' \in Int /\ count + p \in Int
      BY <1>1, <1>4, <1>6
    <3>2. QED
      BY <1>6, <2>2, <3>1, CongAdd
  <2>7. Cong((count + p) - (lag' - T), count' - (lag' - T))
    <3>1. count' - (lag' - T) \in Int /\ (count + p) - (lag' - T) \in Int
      BY <1>1, <1>4, <1>6, <2>2
    <3>2. QED
      BY <2>6, <3>1, CongSym
  <2>8. Cong(softcompare', count' - (lag' - T))
    <3>1. softcompare' \in Int /\ count' - (lag' - T) \in Int /\ (count + p) - (lag' - T) \in Int
      BY <1>1, <1>4, <1>6, <2>2
    <3>2. QED
      BY <2>4, <2>5, <2>7, <3>1, CongTrans
  <2>9. count' - (lag' - T) = count' - lag' + T
    BY <1>1, <1>5, <1>6
  <2>10. QED
    BY <2>8, <2>9
<1>9. \E k \in 0 .. lag' : lag' - k <= T /\ Cong(old_count', count' - k)
  <2>1. CASE n = 0
    <3>1. PICK k \in 0 .. lag : lag - k <= T /\ Cong(old_count, count - k)
      BY DEF Clock
    <3>2. p = PollCost /\ v = 0 /\ lag' = lag + p /\ old_count' = old_count
      BY <1>1, <1>3, <1>4, <1>5, <2>1 DEF v
    <3>3. Cong(count + p, count')
      <4>1. count + p \in Int /\ count' \in Int
        BY <1>1, <1>4, <1>6
      <4>2. QED
        BY <1>6, <4>1, CongSym
    <3>4. Cong((count + p) - (k + p), count' - (k + p))
      <4>1. k + p \in Int /\ count + p \in Int /\ count' \in Int
        BY <1>1, <1>4, <1>6
      <4>2. Cong(k + p, k + p)
        BY <4>1, CongSame
      <4>3. QED
        BY <3>3, <4>1, <4>2, CongAdd
    <3>5. (count + p) - (k + p) = count - k /\ k + p \in 0 .. lag' /\ count' - (k + p) \in Int
          /\ count - k \in Int /\ old_count \in Int
      BY <1>1, <1>4, <1>6, <3>1, <3>2
    <3>6. Cong(old_count, count' - (k + p))
      BY <3>1, <3>4, <3>5, CongTrans
    <3>7. lag' - (k + p) <= T
      <4>1. k \in Int /\ lag - k <= T
        BY <1>1, <3>1
      <4>2. lag \in Int /\ T \in Int /\ PollCost \in Int
        BY <1>1
      <4>3. p = PollCost /\ lag' = lag + PollCost
        BY <3>2
      <4>4. lag' - (k + PollCost) <= T
        BY <4>1, <4>2, <4>3
      <4>5. QED
        BY <4>3, <4>4
    <3>8. QED
      <4> DEFINE j == k + p
      <4>1. j \in 0 .. lag' /\ lag' - j <= T /\ Cong(old_count', count' - j)
        BY <3>2, <3>5, <3>6, <3>7
      <4> HIDE DEF j
      <4>2. QED
        BY <4>1
  <2>2. CASE n # 0 /\ n = Missed(Read, 0)
    <3>1. p = PollCost + d /\ old_count' = Read /\ d \in 0 .. lag'
      <4>1. p = PollCost + d /\ old_count' = Read
        BY <1>3, <2>2
      <4>2. d <= lag'
        BY <1>1, <1>2, <1>4, <1>5, <2>2, <4>1 DEF v
      <4>3. QED
        BY <1>1, <1>5, <4>1, <4>2
    <3>2. Cong(count + p, count')
      <4>1. count + p \in Int /\ count' \in Int
        BY <1>1, <1>4, <1>6
      <4>2. QED
        BY <1>6, <4>1, CongSym
    <3>3. Cong((count + p) - d, count' - d)
      <4>1. d \in Int /\ count + p \in Int /\ count' \in Int
        BY <1>1, <1>4, <1>6
      <4>2. Cong(d, d)
        BY <4>1, CongSame
      <4>3. QED
        BY <3>2, <4>1, <4>2, CongAdd
    <3>4. (count + p) - d = count + PollCost /\ count' - d \in Int /\ count + PollCost \in Int
          /\ Read \in Int
      BY <1>1, <1>4, <1>6, <3>1
    <3>5. Cong(Read, count' - d)
      BY <1>6, <3>3, <3>4, CongTrans
    <3>6. lag' - d <= T
      BY <1>1, <1>5, <3>1
    <3>7. QED
      BY <3>1, <3>5, <3>6
  <2>3. CASE n # 0 /\ n # Missed(Read, 0)
    <3>1. old_count' = count'
      BY <1>3, <2>3
    <3>2. count' - 0 = count' /\ count' \in Int /\ 0 \in 0 .. lag'
      <4>1. lag' \in Nat
        BY <1>7 DEF ClockTypes
      <4>2. count' \in Nat
        BY <1>1, <1>7 DEF ClockTypes
      <4>3. 0 \in 0 .. lag'
        BY <4>1
      <4>4. count' - 0 = count' /\ count' \in Int
        <5>1. \A a \in Nat : a - 0 = a /\ a \in Int
          OBVIOUS
        <5>2. QED
          BY <4>2, <5>1, Zenon
      <4>5. QED
        BY <4>3, <4>4
    <3>3. Cong(count', count')
      BY <3>2, CongSame
    <3>4. Cong(old_count', count' - 0)
      BY <3>1, <3>2, <3>3, Zenon
    <3>5. lag' - 0 <= T
      BY <1>1, <1>5
    <3>6. QED
      BY <3>2, <3>4, <3>5
  <2>4. QED
    BY <2>1, <2>2, <2>3
<1>10. lag' <= T
  BY <1>1, <1>5
<1>11. Clock'
  BY <1>8, <1>9, <1>10 DEF Clock
<1>12. ticks' \in Nat /\ lag' = lag + p - ticks' * T
  BY <1>2, <1>3
<1>13. QED
  BY <1>3, <1>4, <1>7, <1>10, <1>11, <1>12

-----------------------------------------------------------------------------
(* The inductive invariant.                                                *)

(* hardclock makes up for what the poll has found, and for nothing else.   *)
Counting == /\ ctl # "hard" => ticks = 0
            /\ ctl = "hard" => lag <= clkpertick

(* A called function is under way exactly while softclock waits for it,    *)
(* and none was called with a part of its promise left.                    *)
InCall == ctl \in {"call", "ret"} \/ (ctl \in {"poll", "hard"} /\ back \in {"call", "ret"})
Running == /\ running.promise = 0
           /\ InCall => running.fn \in Fns
           /\ InCall \/ ctl = "panic" \/ running.fn = NoFn

(* No more is promised than the delta list makes a caller wait, less what  *)
(* has passed since the last tick and the ticks not yet taken off.         *)
Expected(q, i) == Pos((Wait(q, i) - ticks) * clkpertick - lag)
Early == \A i \in 1 .. Len(calltodo) : calltodo[i].promise <= Expected(calltodo, i)

IInv == /\ TypeOK /\ Ordered(calltodo) /\ Clock /\ Counting
        /\ Running /\ DueIsScheduled /\ Early

LEMMA Typed ==
  ASSUME TypeOK
  PROVE  /\ calltodo \in Queue /\ Len(calltodo) \in Nat /\ Len(calltodo) <= NCALLOUT
         /\ DOMAIN calltodo = 1 .. Len(calltodo)
         /\ ClockTypes /\ ticks \in Nat /\ lag \in Nat
         /\ \A i \in 1 .. Len(calltodo) :
              calltodo[i].fn \in Fns /\ calltodo[i].time \in Int /\ calltodo[i].promise \in Nat
<1>1. calltodo \in Queue /\ Len(calltodo) <= NCALLOUT
  BY DEF TypeOK, Queue, Entry
<1>2. /\ Len(calltodo) \in Nat /\ DOMAIN calltodo = 1 .. Len(calltodo)
      /\ \A i \in 1 .. Len(calltodo) : calltodo[i] \in Entry
  BY <1>1 DEF Queue
<1>3. ClockTypes /\ ticks \in Nat /\ lag \in Nat
  BY DEF TypeOK, ClockTypes
<1>4. QED
  BY <1>1, <1>2, <1>3 DEF Entry

(* What one kind of step does to the list, and keeps.                      *)
ListKept == /\ calltodo' \in Queue /\ Len(calltodo') <= NCALLOUT
            /\ Ordered(calltodo') /\ Early'

(* timeout, in the program or in a called function.                        *)
LEMMA InsertStep ==
  ASSUME IInv, NEW f \in Fns, NEW n \in TickArgs, Len(calltodo) # NCALLOUT,
         calltodo' = Inserted(calltodo, f, AtLeastOne(n)),
         ticks = 0, UNCHANGED <<clock, ticks>>
  PROVE  ListKept /\ (Due(calltodo') => Due(calltodo))
<1> DEFINE q == calltodo
           m == AtLeastOne(n)
           L == Len(q)
<1>1. /\ q \in Queue /\ L \in Nat /\ L <= NCALLOUT /\ Ordered(q) /\ Early /\ lag \in Nat
      /\ \A i \in 1 .. L : q[i].promise \in Nat
  BY Typed DEF IInv
<1>2. /\ m \in Nat \ {0} /\ clkpertick \in Nat \ {0} /\ NCALLOUT \in Nat
  BY CalloutAssumption DEF AtLeastOne
<1>3. Promised(m) \in Nat /\ Promised(m) = Pos(m * clkpertick - lag)
  <2>1. m * clkpertick \in Nat
    BY <1>2
  <2> HIDE DEF m
  <2>2. QED
    BY <1>1, <2>1 DEF Promised, Pos
<1> HIDE DEF m
<1>4. PICK k \in 0 .. L :
        InsertsAt(q, k, m) /\ InsertedAt(q, Inserted(q, f, m), k, f, m, Promised(m))
  BY <1>1, <1>2, <1>3, InsertFacts
<1> DEFINE q2 == calltodo'
           p == Promised(m)
<1>5. InsertedAt(q, q2, k, f, m, p)
  BY <1>4 DEF m
<1> HIDE DEF p
<1>6. /\ \A j \in 0 .. k : Wait(q2, j) = Wait(q, j)
      /\ Wait(q2, k + 1) = m
      /\ \A j \in k + 1 .. L : Wait(q2, j + 1) = Wait(q, j)
  <2>1. q \in Queue /\ m \in Nat \ {0} /\ InsertsAt(q, k, m)
    BY <1>1, <1>2, <1>4
  <2>2. QED
    BY <1>5, <2>1, InsertWait
<1>7. Ordered(q2) /\ (Due(q2) => Due(q))
  BY <1>1, <1>2, <1>4, <1>5, InsertOrdered
<1>8. q2 \in Queue /\ Len(q2) = L + 1 /\ L + 1 <= NCALLOUT
  BY <1>1, <1>2, <1>5 DEF InsertedAt
<1>9. ASSUME NEW j \in 1 .. L + 1
      PROVE  q2[j].promise <= Expected(q2, j)
  <2>1. CASE j <= k
    <3>1. q2[j] = q[j] /\ Wait(q2, j) = Wait(q, j) /\ j \in 1 .. L
      BY <1>1, <1>5, <1>6, <2>1 DEF InsertedAt
    <3>2. QED
      BY <1>1, <3>1 DEF Early, Expected
  <2>2. CASE j = k + 1
    <3>1. q2[j].promise = p /\ Wait(q2, j) = m
      BY <1>5, <1>6, <2>2 DEF InsertedAt
    <3>2. Expected(q2, j) = p
      BY <1>2, <1>3, <3>1 DEF Expected, p
    <3>3. QED
      BY <1>3, <3>1, <3>2 DEF p
  <2>3. CASE j > k + 1
    <3>1. j - 1 \in 1 .. L /\ j - 1 \in k + 1 .. L /\ (j - 1) + 1 = j
      BY <1>1, <2>3
    <3>2. Wait(q2, j) = Wait(q, j - 1)
      BY <1>6, <3>1
    <3>3. q2[j].promise = q[j - 1].promise
      <4>1. CASE j = k + 2
        <5>1. k < L /\ j - 1 = k + 1 /\ q[k + 1] \in Entry
          BY <1>1, <3>1, <4>1 DEF Queue
        <5>2. q2[j] = [q[k + 1] EXCEPT !.time = q[k + 1].time - (m - Wait(q, k))]
          BY <1>5, <4>1, <5>1 DEF InsertedAt
        <5>3. QED
          BY <5>1, <5>2 DEF Entry
      <4>2. CASE j # k + 2
        <5>1. j - 1 \in k + 2 .. L
          BY <1>1, <3>1, <4>2
        <5>2. q2[(j - 1) + 1] = q[j - 1]
          BY <1>5, <5>1 DEF InsertedAt
        <5>3. QED
          BY <3>1, <5>2
      <4>3. QED
        BY <4>1, <4>2
    <3>4. QED
      BY <1>1, <3>1, <3>2, <3>3 DEF Early, Expected
  <2>4. QED
    BY <1>1, <2>1, <2>2, <2>3
<1>10. Early'
  <2>1. ticks' = ticks /\ lag' = lag
    BY DEF clock
  <2>2. QED
    BY <1>8, <1>9, <2>1 DEF Early, Expected
<1>11. QED
  BY <1>7, <1>8, <1>10 DEF ListKept

(* untimeout.                                                              *)
LEMMA RemoveStep ==
  ASSUME IInv, NEW f \in Fns, Queued(f), calltodo' = Removed(calltodo, f),
         UNCHANGED <<clock, ticks>>
  PROVE  ListKept /\ (Due(calltodo') => Due(calltodo))
<1> DEFINE q == calltodo
           L == Len(q)
           q2 == calltodo'
<1>1. /\ q \in Queue /\ L \in Nat /\ L <= NCALLOUT /\ Ordered(q) /\ Early
      /\ NCALLOUT \in Nat
  BY Typed, CalloutAssumption DEF IInv
<1>2. PICK i \in 1 .. L : FirstOf(q, f, i) /\ RemovedAt(q, Removed(q, f), i)
  BY <1>1, RemoveFacts DEF Queued
<1>3. RemovedAt(q, q2, i)
  BY <1>2
<1>4. /\ \A j \in 0 .. i - 1 : Wait(q2, j) = Wait(q, j)
      /\ \A j \in i .. L - 1 : Wait(q2, j) = Wait(q, j + 1)
  BY <1>1, <1>3, RemoveWait
<1>5. Ordered(q2) /\ (Due(q2) => Due(q))
  BY <1>1, <1>3, RemoveOrdered
<1>6. q2 \in Queue /\ Len(q2) = L - 1
  BY <1>3 DEF RemovedAt
<1>7. ASSUME NEW j \in 1 .. L - 1
      PROVE  q2[j].promise <= Expected(q2, j)
  <2>1. CASE j < i
    <3>1. q2[j] = q[j] /\ Wait(q2, j) = Wait(q, j) /\ j \in 1 .. L
      BY <1>1, <1>3, <1>4, <2>1 DEF RemovedAt
    <3>2. QED
      BY <1>1, <3>1 DEF Early, Expected
  <2>2. CASE j >= i
    <3>1. j + 1 \in 1 .. L /\ Wait(q2, j) = Wait(q, j + 1)
      BY <1>1, <1>4, <2>2
    <3>2. q2[j].promise = q[j + 1].promise
      <4>1. CASE j = i
        <5>1. i < L /\ q[i + 1] \in Entry /\ q[i].time \in Int
          BY <1>1, <3>1, <4>1, WaitFacts DEF Queue
        <5>2. q2[i] = IF q[i].time > 0
                      THEN [q[i + 1] EXCEPT !.time = q[i + 1].time + q[i].time]
                      ELSE q[i + 1]
          BY <1>3, <5>1 DEF RemovedAt
        <5>3. QED
          BY <4>1, <5>1, <5>2 DEF Entry
      <4>2. CASE j # i
        <5>1. j \in i + 1 .. L - 1
          BY <1>1, <2>2, <4>2
        <5>2. QED
          BY <1>3, <5>1 DEF RemovedAt
      <4>3. QED
        BY <4>1, <4>2
    <3>3. QED
      BY <1>1, <3>1, <3>2 DEF Early, Expected
  <2>3. QED
    BY <1>1, <2>1, <2>2
<1>8. Early'
  <2>1. ticks' = ticks /\ lag' = lag
    BY DEF clock
  <2>2. QED
    BY <1>6, <1>7, <2>1 DEF Early, Expected
<1>9. QED
  BY <1>1, <1>5, <1>6, <1>8 DEF ListKept

(* The passing of p counts, n ticks of which are found.                    *)
LEMMA AgeStep ==
  ASSUME IInv, NEW p \in Nat, NEW n \in Nat, ticks = 0, ticks' = n,
         lag' = lag + p - n * clkpertick, lag' \in Nat,
         calltodo' = Aged(calltodo, p), running' = Aged(<<running>>, p)[1]
  PROVE  ListKept /\ (Due(calltodo') => Due(calltodo)) /\ running' = running
<1> DEFINE q == calltodo
           L == Len(q)
           q2 == calltodo'
           T == clkpertick
<1>1. /\ q \in Queue /\ L \in Nat /\ L <= NCALLOUT /\ Ordered(q) /\ Early /\ lag \in Nat
      /\ \A i \in 1 .. L : q[i].promise \in Nat
      /\ T \in Nat \ {0}
  BY Typed, CalloutAssumption DEF IInv
<1>2. /\ SameTimes(q, q2)
      /\ \A j \in 1 .. L : q2[j].promise = IF q[j].promise > p THEN q[j].promise - p ELSE 0
  BY <1>1, AgedFacts
<1>3. /\ \A j \in 0 .. L : Wait(q2, j) = Wait(q, j)
      /\ Ordered(q2) /\ (Due(q2) => Due(q)) /\ q2 \in Queue /\ Len(q2) = L
  BY <1>1, <1>2, SameTimesSame DEF SameTimes
<1>4. ASSUME NEW j \in 1 .. L
      PROVE  q2[j].promise <= Pos((Wait(q2, j) - n) * T - lag')
  <2> DEFINE W == Wait(q, j)
             a == W * T
             b == n * T
  <2>1. W \in Nat /\ Wait(q2, j) = W
    BY <1>1, <1>3, WaitFacts
  <2> HIDE DEF W
  <2>2. a \in Int /\ b \in Int /\ (W - n) * T = a - b /\ (W - 0) * T = a
    BY <1>1, <2>1
  <2>3. q[j].promise <= Pos(a - lag)
    BY <1>1, <2>2 DEF Early, Expected, W
  <2>4. lag' = lag + p - b
    OBVIOUS
  <2> HIDE DEF a, b
  <2>5. q2[j].promise <= Pos((a - b) - lag')
    BY <1>1, <1>2, <2>2, <2>3, <2>4 DEF Pos
  <2>6. QED
    BY <2>1, <2>2, <2>5
<1>5. Early'
  BY <1>3, <1>4 DEF Early, Expected
<1>6. running' = running
  <2>1. running.promise = 0 /\ running \in [fn : Fns \cup {NoFn}, promise : Nat]
    BY DEF IInv, Running, TypeOK
  <2>2. running' = [running EXCEPT !.promise = IF @ > p THEN @ - p ELSE 0]
    BY DEF Aged
  <2>3. running' = [running EXCEPT !.promise = 0]
    BY <2>1, <2>2
  <2>4. QED
    BY <2>1, <2>3
<1>7. QED
  BY <1>1, <1>3, <1>5, <1>6 DEF ListKept

(* hardclock.                                                              *)
LEMMA TickStep ==
  ASSUME IInv, ticks > 0, ticks' = ticks - 1, lag' = lag, calltodo' = Ticked(calltodo)
  PROVE  ListKept /\ (Due(calltodo') => \E j \in Reached(calltodo) : calltodo[j].time <= 1)
<1> DEFINE q == calltodo
           L == Len(q)
           q2 == calltodo'
           T == clkpertick
<1>1. /\ q \in Queue /\ L \in Nat /\ L <= NCALLOUT /\ Ordered(q) /\ Early /\ lag \in Nat
      /\ \A i \in 1 .. L : q[i].promise \in Nat
      /\ T \in Nat \ {0} /\ ticks \in Nat
  BY Typed, CalloutAssumption DEF IInv
<1>2. TickedTo(q, q2)
  BY <1>1, TickFacts
<1>3. /\ \A j \in 0 .. L : Wait(q2, j) = IF Wait(q, j) = 0 THEN 0 ELSE Wait(q, j) - 1
      /\ q2 \in Queue /\ Len(q2) = L
  BY <1>1, <1>2, TickWait DEF TickedTo
<1>4. Ordered(q2) /\ (Due(q2) => \E j \in Reached(q) : q[j].time <= 1)
  BY <1>1, <1>2, TickOrdered
<1>5. ASSUME NEW j \in 1 .. L
      PROVE  q2[j].promise <= Pos((Wait(q2, j) - (ticks - 1)) * T - lag)
  <2> DEFINE W == Wait(q, j)
             W2 == Wait(q2, j)
             a == (W - ticks) * T
             b == (W2 - (ticks - 1)) * T
  <2>1. W \in Nat /\ W2 = IF W = 0 THEN 0 ELSE W - 1
    BY <1>1, <1>3, WaitFacts
  <2>2. q2[j].promise = q[j].promise /\ q[j].promise <= Pos(a - lag)
    BY <1>1, <1>2 DEF Early, Expected, TickedTo
  <2> HIDE DEF W, W2
  <2>3. a \in Int /\ b \in Int
    BY <1>1, <2>1
  <2>4. CASE W = 0
    <3>1. a <= 0
      <4>1. ticks * T \in Nat /\ a = -(ticks * T)
        BY <1>1, <2>4
      <4>2. QED
        BY <4>1
    <3> HIDE DEF a, b
    <3>2. q[j].promise <= 0
      BY <1>1, <2>2, <2>3, <3>1 DEF Pos
    <3>3. Pos(b - lag) >= 0
      BY <1>1, <2>3 DEF Pos
    <3>4. Pos(b - lag) \in Int
      BY <1>1, <2>3 DEF Pos
    <3>5. q2[j].promise <= Pos(b - lag)
      BY <1>1, <2>2, <3>2, <3>3, <3>4
    <3>6. QED
      BY <3>5 DEF b, W2
  <2>5. CASE W # 0
    <3>1. W2 - (ticks - 1) = W - ticks
      BY <1>1, <2>1, <2>5
    <3>2. QED
      BY <2>2, <3>1 DEF W2
  <2>6. QED
    BY <2>4, <2>5
<1>6. Early'
  BY <1>1, <1>3, <1>5 DEF Early, Expected
<1>7. QED
  BY <1>1, <1>3, <1>4, <1>6 DEF ListKept

(* softclock.                                                              *)
LEMMA TakeStep ==
  ASSUME IInv, Due(calltodo), calltodo' = Tail(calltodo), ticks = 0,
         UNCHANGED <<clock, ticks>>
  PROVE  /\ ListKept
         /\ Head(calltodo).fn \in Fns /\ Head(calltodo).promise = 0
<1> DEFINE q == calltodo
           L == Len(q)
           q2 == calltodo'
           T == clkpertick
<1>1. /\ q \in Queue /\ L \in Nat /\ L <= NCALLOUT /\ Ordered(q) /\ Early /\ lag \in Nat
      /\ \A i \in 1 .. L : q[i].promise \in Nat /\ q[i].fn \in Fns
      /\ T \in Nat \ {0} /\ NCALLOUT \in Nat
  BY Typed, CalloutAssumption DEF IInv
<1>2. /\ q2 \in Queue /\ Len(q2) = L - 1
      /\ \A j \in 1 .. L - 1 : q2[j] = q[j + 1]
      /\ \A j \in 0 .. L - 1 : Wait(q2, j) = Wait(q, j + 1)
      /\ Ordered(q2) /\ 1 \in 1 .. L /\ Head(q) = q[1] /\ Wait(q, 1) = 0
  BY <1>1, TailFacts
<1>3. Head(q).promise = 0
  <2>1. (0 - 0) * T = 0
    BY <1>1
  <2>2. q[1].promise <= Pos((0 - 0) * T - lag)
    BY <1>1, <1>2 DEF Early, Expected
  <2>3. QED
    BY <1>1, <1>2, <2>1, <2>2 DEF Pos
<1>4. Early'
  <2>1. ticks' = ticks /\ lag' = lag
    BY DEF clock
  <2>2. ASSUME NEW j \in 1 .. L - 1
        PROVE  q2[j].promise <= Expected(q2, j)
    <3>1. j + 1 \in 1 .. L /\ q2[j] = q[j + 1] /\ Wait(q2, j) = Wait(q, j + 1)
      BY <1>1, <1>2
    <3>2. QED
      BY <1>1, <3>1 DEF Early, Expected
  <2>3. QED
    BY <1>2, <2>1, <2>2 DEF Early, Expected
<1>5. QED
  BY <1>1, <1>2, <1>3, <1>4 DEF ListKept

(* Steps that leave the clock alone.                                       *)
LEMMA ClockKept ==
  ASSUME IInv, UNCHANGED clock
  PROVE  ClockTypes' /\ Clock'
<1>1. UNCHANGED <<count, old_count, softcompare, lag>>
  BY DEF clock
<1>2. ClockTypes /\ Clock
  BY Typed DEF IInv
<1>3. QED
  BY <1>1, <1>2 DEF ClockTypes, Clock

(* The rest of the state, step by step.                                    *)
Rest == /\ ticks \in Nat /\ netisr \in BOOLEAN
        /\ ctl \in {"main", "poll", "hard", "soft", "call", "ret", "panic"}
        /\ back \in {"net", "call", "ret", "main"}
        /\ running \in [fn : Fns \cup {NoFn}, promise : Nat]

LEMMA Together ==
  ASSUME ListKept, ClockTypes', Clock', Rest', Counting', Running', DueIsScheduled'
  PROVE  IInv'
<1>1. calltodo' \in Seq([fn : Fns, time : Int, promise : Nat]) /\ Len(calltodo') <= NCALLOUT
  BY DEF ListKept, Queue, Entry
<1>2. TypeOK'
  BY <1>1 DEF TypeOK, ClockTypes, Rest
<1>3. QED
  BY <1>2 DEF IInv, ListKept

LEMMA ListSame ==
  ASSUME IInv, UNCHANGED <<calltodo, clock, ticks>>
  PROVE  ListKept
<1>1. calltodo' = calltodo /\ ticks' = ticks /\ lag' = lag
  BY DEF clock
<1>2. calltodo \in Queue /\ Len(calltodo) <= NCALLOUT /\ Ordered(calltodo) /\ Early
  BY Typed DEF IInv
<1>3. QED
  BY <1>1, <1>2 DEF ListKept, Early, Expected

(* A call of timeout or untimeout, and a wait, of the main program.        *)
LEMMA MainStep ==
  ASSUME IInv, ctl = "main", NEW s \in Levels, Restore(s), UNCHANGED <<clock, ticks, netisr, running>>,
         ListKept, Due(calltodo') => Due(calltodo)
  PROVE  IInv'
<1>1. /\ Rest /\ Counting /\ Running /\ DueIsScheduled
      /\ ticks' = ticks /\ netisr' = netisr /\ running' = running
  BY DEF IInv, TypeOK, Rest
<1>2. \/ ctl' = "main" /\ back' = back
      \/ ctl' = "poll" /\ back' = "main"
      \/ ctl' = "poll" /\ back' = "net"
  BY DEF Restore
<1>3. Rest'
  BY <1>1, <1>2 DEF Rest
<1>4. Counting'
  BY <1>1, <1>2 DEF Counting
<1>5. Running'
  BY <1>1, <1>2 DEF Running, InCall
<1>6. DueIsScheduled'
  BY <1>1, <1>2 DEF DueIsScheduled
<1>7. ClockTypes' /\ Clock'
  BY ClockKept
<1>8. QED
  BY <1>3, <1>4, <1>5, <1>6, <1>7, Together

LEMMA timeoutKeeps ==
  ASSUME IInv, NEW f \in Fns, NEW n \in TickArgs, NEW s \in Levels, timeout(f, n, s)
  PROVE  IInv'
<1>1. ctl = "main" /\ UNCHANGED <<clock, ticks, netisr, running>>
  BY DEF timeout
<1>2. ticks = 0
  BY <1>1 DEF IInv, Counting
<1>3. CASE Len(calltodo) = NCALLOUT
  <2>1. ctl' = "panic" /\ UNCHANGED <<calltodo, back>>
    BY <1>3 DEF timeout
  <2>2. ListKept /\ ClockTypes' /\ Clock'
    BY <1>1, <2>1, ListSame, ClockKept
  <2>3. Rest /\ Counting /\ Running
    BY DEF IInv, TypeOK, Rest
  <2>4. Rest' /\ Counting' /\ Running' /\ DueIsScheduled'
    BY <1>1, <2>1, <2>3 DEF Rest, Counting, Running, InCall, DueIsScheduled
  <2>5. QED
    BY <2>2, <2>4, Together
<1>4. CASE Len(calltodo) # NCALLOUT
  <2>1. calltodo' = Inserted(calltodo, f, AtLeastOne(n)) /\ Restore(s)
    BY <1>4, Zenon DEF timeout
  <2>2. ListKept /\ (Due(calltodo') => Due(calltodo))
    BY <1>1, <1>2, <1>4, <2>1, InsertStep
  <2>3. QED
    BY <1>1, <2>1, <2>2, MainStep
<1>5. QED
  BY <1>3, <1>4

LEMMA untimeoutKeeps ==
  ASSUME IInv, NEW f \in Fns, NEW s \in Levels, untimeout(f, s)
  PROVE  IInv'
<1>1. /\ ctl = "main" /\ Restore(s) /\ UNCHANGED <<clock, ticks, netisr, running>>
      /\ calltodo' = IF Queued(f) THEN Removed(calltodo, f) ELSE calltodo
  BY Zenon DEF untimeout
<1>2. ListKept /\ (Due(calltodo') => Due(calltodo))
  <2>1. CASE Queued(f)
    BY <1>1, <2>1, RemoveStep
  <2>2. CASE ~Queued(f)
    BY <1>1, <2>2, ListSame
  <2>3. QED
    BY <2>1, <2>2
<1>3. QED
  BY <1>1, <1>2, MainStep

LEMMA idleKeeps ==
  ASSUME IInv, idle
  PROVE  IInv'
<1>1. /\ ctl = "main" /\ Restore(0) /\ UNCHANGED <<calltodo, clock, ticks, netisr, running>>
  BY DEF idle
<1>2. ListKept /\ (Due(calltodo') => Due(calltodo)) /\ 0 \in Levels
  BY <1>1, ListSame DEF Levels
<1>3. QED
  BY <1>1, <1>2, MainStep

LEMMA RunKeeps ==
  ASSUME IInv, NEW w \in Work, Run(w)
  PROVE  IInv'
<1>1. /\ ctl \in {"main", "call"} /\ lag + w <= MaxLag /\ count' = (count + w) % Wrap
      /\ lag' = lag + w /\ calltodo' = Aged(calltodo, w) /\ running' = Aged(<<running>>, w)[1]
      /\ UNCHANGED <<old_count, softcompare, ticks, netisr, ctl, back>>
  BY Zenon DEF Run
<1>2. /\ w \in Nat /\ clkpertick \in Nat /\ Wrap \in Nat \ {0} /\ MaxLag \in Nat
      /\ ClockTypes /\ Clock /\ Rest /\ Counting /\ Running /\ DueIsScheduled
  BY CalloutAssumption, Typed DEF IInv, TypeOK, Rest
<1>3. lag \in Nat /\ count \in Nat /\ old_count \in Nat /\ softcompare \in Nat /\ count + w \in Nat
  BY <1>2 DEF ClockTypes
<1>4. ListKept /\ (Due(calltodo') => Due(calltodo)) /\ running' = running
  <2>1. ticks = 0 /\ ticks' = 0
    BY <1>1, <1>2 DEF Counting
  <2>2. lag + w - 0 * clkpertick = lag + w /\ lag + w \in Nat /\ 0 \in Nat
    BY <1>2, <1>3
  <2>3. lag' = lag + w - 0 * clkpertick /\ lag' \in Nat
    BY <1>1, <2>2
  <2>4. QED
    BY <1>1, <1>2, <2>1, <2>2, <2>3, AgeStep
<1>5. Cong(count', count + w) /\ count' \in 0 .. Wrap - 1
  BY <1>1, <1>3, CongMod
<1>6. Cong(count + w, count') /\ count' \in Int /\ count + w \in Int
  <2>1. count' \in Int /\ count + w \in Int
    BY <1>2, <1>3, <1>5
  <2>2. QED
    BY <1>5, <2>1, CongSym
<1>7. ClockTypes'
  <2>1. lag' \in Nat
    BY <1>1, <1>2, <1>3
  <2>2. QED
    BY <1>1, <1>2, <1>5, <2>1 DEF ClockTypes
<1>8. \A k \in Int : Cong(count - k, count' - (k + w))
  <2>1. SUFFICES ASSUME NEW k \in Int PROVE Cong(count - k, count' - (k + w))
    OBVIOUS
  <2>2. k + w \in Int /\ Cong(k + w, k + w)
    <3>1. k + w \in Int
      BY <1>2
    <3>2. QED
      BY <3>1, CongSame
  <2>3. Cong((count + w) - (k + w), count' - (k + w))
    BY <1>6, <2>2, CongAdd
  <2>4. (count + w) - (k + w) = count - k
    BY <1>2, <1>3
  <2>5. QED
    BY <2>3, <2>4
<1>9. Clock'
  <2>1. PICK k \in 0 .. lag : lag - k <= clkpertick /\ Cong(old_count, count - k)
    BY <1>2 DEF Clock
  <2>2. Cong(old_count, count' - (k + w))
    <3>1. /\ k \in Int /\ old_count \in Int /\ count - k \in Int /\ count' - (k + w) \in Int
      BY <1>2, <1>3, <1>6
    <3>2. Cong(count - k, count' - (k + w))
      BY <1>8, <3>1
    <3>3. QED
      BY <2>1, <3>1, <3>2, CongTrans
  <2>3. k + w \in 0 .. lag' /\ lag' - (k + w) <= clkpertick
    BY <1>1, <1>2, <1>3, <2>1
  <2>4. Cong(softcompare, count' - lag' + clkpertick)
    <3> DEFINE j == lag - clkpertick
    <3>1. /\ j \in Int /\ count - j = count - lag + clkpertick
          /\ count' - (j + w) = count' - lag' + clkpertick
          /\ count - j \in Int /\ count' - (j + w) \in Int
      BY <1>1, <1>2, <1>3, <1>6
    <3>2. Cong(softcompare, count - j)
      BY <1>2, <3>1 DEF Clock
    <3>3. Cong(count - j, count' - (j + w))
      BY <1>8, <3>1
    <3>4. Cong(softcompare, count' - (j + w))
      BY <1>3, <3>1, <3>2, <3>3, CongTrans
    <3>5. QED
      BY <3>1, <3>4
  <2>5. QED
    BY <1>1, <2>2, <2>3, <2>4 DEF Clock
<1>10. Rest' /\ Counting' /\ Running' /\ DueIsScheduled'
  <2>1. Rest'
    BY <1>1, <1>2, <1>4 DEF Rest
  <2>2. Counting'
    BY <1>1, <1>2 DEF Counting
  <2>3. Running'
    BY <1>1, <1>2, <1>4 DEF Running, InCall
  <2>4. DueIsScheduled'
    BY <1>1, <1>2, <1>4 DEF DueIsScheduled
  <2>5. QED
    BY <2>1, <2>2, <2>3, <2>4
<1>11. QED
  BY <1>4, <1>7, <1>9, <1>10, Together

LEMMA tgt_clkpollKeeps ==
  ASSUME IInv, NEW d \in Races, tgt_clkpoll(d)
  PROVE  IInv'
<1>1. ctl = "poll" /\ ctl' = "hard" /\ UNCHANGED <<netisr, back>>
  BY DEF tgt_clkpoll
<1>2. ClockTypes /\ Clock /\ Rest /\ Counting /\ Running /\ DueIsScheduled
  BY Typed DEF IInv, TypeOK, Rest
<1>3. ClockTypes' /\ Clock' /\ lag' <= clkpertick /\ ticks' \in Nat
  BY <1>2, PollKeeps
<1>4. PICK p \in Nat : /\ lag' = lag + p - ticks' * clkpertick
                       /\ calltodo' = Aged(calltodo, p)
                       /\ running' = Aged(<<running>>, p)[1]
  BY <1>2, PollKeeps
<1>5. ticks = 0 /\ lag' \in Nat
  BY <1>1, <1>2, <1>3 DEF Counting, ClockTypes
<1>6. ListKept /\ (Due(calltodo') => Due(calltodo)) /\ running' = running
  BY <1>3, <1>4, <1>5, AgeStep
<1>7. Rest'
  BY <1>1, <1>2, <1>3, <1>6 DEF Rest
<1>8. Counting'
  BY <1>1, <1>3 DEF Counting
<1>9. Running'
  BY <1>1, <1>2, <1>6 DEF Running, InCall
<1>10. DueIsScheduled'
  BY <1>1, <1>2, <1>6 DEF DueIsScheduled
<1>11. QED
  BY <1>3, <1>6, <1>7, <1>8, <1>9, <1>10, Together

LEMMA hardclockKeeps ==
  ASSUME IInv, hardclock
  PROVE  IInv'
<1>1. /\ ctl = "hard" /\ ticks > 0 /\ ticks' = ticks - 1
      /\ UNCHANGED <<clock, ctl, back, running>>
      /\ netisr' = (netisr \/ \E j \in Reached(calltodo) : calltodo[j].time <= 1)
      /\ calltodo' = Ticked(calltodo)
  BY Zenon DEF hardclock, Ticked
<1>2. Rest /\ Counting /\ Running /\ lag' = lag
  BY <1>1 DEF IInv, TypeOK, Rest, clock
<1>3. /\ ListKept
      /\ Due(calltodo') => \E j \in Reached(calltodo) : calltodo[j].time <= 1
  BY <1>1, <1>2, TickStep
<1>4. ClockTypes' /\ Clock'
  BY <1>1, ClockKept
<1>5. Rest'
  <2>1. ticks' \in Nat
    BY <1>1, <1>2 DEF Rest
  <2>2. netisr' \in BOOLEAN
    BY <1>1, Zenon
  <2>3. QED
    BY <1>1, <1>2, <2>1, <2>2 DEF Rest
<1>6. Counting'
  BY <1>1, <1>2 DEF Counting
<1>7. Running'
  BY <1>1, <1>2 DEF Running, InCall
<1>8. DueIsScheduled'
  <2>1. Due(calltodo') => netisr'
    BY <1>1, <1>3, Zenon
  <2>2. QED
    BY <2>1 DEF DueIsScheduled
<1>9. QED
  BY <1>3, <1>4, <1>5, <1>6, <1>7, <1>8, Together

LEMMA splxKeeps ==
  ASSUME IInv, splx
  PROVE  IInv'
<1>1. /\ ctl = "hard" /\ ticks = 0 /\ UNCHANGED <<calltodo, clock, ticks, back, running>>
      /\ ctl' = IF back # "net" THEN back ELSE IF netisr THEN "soft" ELSE "main"
  BY DEF splx
<1>2. netisr' \in BOOLEAN /\ (back # "net" => netisr' = netisr)
  <2>1. netisr' = netisr \/ netisr' = FALSE
    BY Zenon DEF splx
  <2>2. back # "net" => netisr' = netisr
    BY Zenon DEF splx
  <2>3. netisr \in BOOLEAN
    BY DEF IInv, TypeOK
  <2>4. QED
    BY <2>1, <2>2, <2>3
<1>3. Rest /\ Counting /\ Running /\ DueIsScheduled
  BY DEF IInv, TypeOK, Rest
<1>4. ListKept /\ ClockTypes' /\ Clock'
  BY <1>1, ListSame, ClockKept
<1>5. Rest'
  BY <1>1, <1>2, <1>3 DEF Rest
<1>6. Counting'
  BY <1>1, <1>3 DEF Counting, Rest
<1>7. Running'
  BY <1>1, <1>3 DEF Running, InCall, Rest
<1>8. DueIsScheduled'
  <2>1. CASE back = "net"
    <3>1. netisr \/ ~Due(calltodo)
      BY <1>1, <1>3, <2>1 DEF DueIsScheduled
    <3>2. QED
      BY <1>1, <2>1, <3>1 DEF DueIsScheduled
  <2>2. CASE back = "main"
    <3>1. (netisr \/ ~Due(calltodo)) /\ netisr' = netisr
      BY <1>1, <1>2, <1>3, <2>2 DEF DueIsScheduled
    <3>2. QED
      BY <1>1, <3>1 DEF DueIsScheduled
  <2>3. CASE back \in {"call", "ret"}
    BY <1>1, <2>3 DEF DueIsScheduled
  <2>4. QED
    BY <1>3, <2>1, <2>2, <2>3 DEF Rest
<1>9. QED
  BY <1>4, <1>5, <1>6, <1>7, <1>8, Together

LEMMA softclock_takeKeeps ==
  ASSUME IInv, softclock_take
  PROVE  IInv'
<1>1. /\ ctl = "soft" /\ Due(calltodo) /\ calltodo' = Tail(calltodo)
      /\ running' = [fn |-> Head(calltodo).fn, promise |-> Head(calltodo).promise]
      /\ ctl' = "poll" /\ back' = "call" /\ UNCHANGED <<clock, ticks, netisr>>
  BY DEF softclock_take
<1>2. Rest /\ Counting
  BY DEF IInv, TypeOK, Rest
<1>3. ListKept /\ Head(calltodo).fn \in Fns /\ Head(calltodo).promise = 0
  BY <1>1, <1>2, TakeStep DEF Counting
<1>4. ClockTypes' /\ Clock'
  BY <1>1, ClockKept
<1>5. Rest'
  BY <1>1, <1>2, <1>3 DEF Rest
<1>6. Counting'
  BY <1>1, <1>2 DEF Counting
<1>7. Running'
  BY <1>1, <1>3 DEF Running, InCall
<1>8. DueIsScheduled'
  BY <1>1 DEF DueIsScheduled
<1>9. QED
  BY <1>3, <1>4, <1>5, <1>6, <1>7, <1>8, Together

LEMMA softclock_endKeeps ==
  ASSUME IInv, softclock_end
  PROVE  IInv'
<1>1. /\ ctl = "soft" /\ ~Due(calltodo) /\ ctl' = "poll" /\ back' = "main"
      /\ UNCHANGED <<calltodo, clock, ticks, netisr, running>>
  BY DEF softclock_end
<1>2. Rest /\ Counting /\ Running
  BY DEF IInv, TypeOK, Rest
<1>3. ListKept /\ ClockTypes' /\ Clock'
  BY <1>1, ListSame, ClockKept
<1>4. Rest' /\ Counting'
  BY <1>1, <1>2 DEF Rest, Counting
<1>5. Running'
  BY <1>1, <1>2 DEF Running, InCall
<1>6. DueIsScheduled'
  BY <1>1 DEF DueIsScheduled
<1>7. QED
  BY <1>3, <1>4, <1>5, <1>6, Together

LEMMA call_againKeeps ==
  ASSUME IInv, NEW n \in TickArgs, call_again(n)
  PROVE  IInv'
<1>1. ctl = "call" /\ UNCHANGED <<clock, ticks, netisr, running>>
  BY DEF call_again
<1>2. Rest /\ Counting /\ Running /\ ticks = 0 /\ running.fn \in Fns
  BY <1>1 DEF IInv, TypeOK, Rest, Counting, Running, InCall
<1>3. CASE Len(calltodo) = NCALLOUT
  <2>1. ctl' = "panic" /\ UNCHANGED <<calltodo, back>>
    BY <1>3 DEF call_again
  <2>2. ListKept /\ ClockTypes' /\ Clock'
    BY <1>1, <2>1, ListSame, ClockKept
  <2>3. Rest' /\ Counting' /\ Running' /\ DueIsScheduled'
    BY <1>1, <1>2, <2>1 DEF Rest, Counting, Running, InCall, DueIsScheduled
  <2>4. QED
    BY <2>2, <2>3, Together
<1>4. CASE Len(calltodo) # NCALLOUT
  <2>1. /\ calltodo' = Inserted(calltodo, running.fn, AtLeastOne(n))
        /\ ctl' = "poll" /\ back' = "ret"
    BY <1>4, Zenon DEF call_again
  <2>2. ListKept
    BY <1>1, <1>2, <1>4, <2>1, InsertStep
  <2>3. ClockTypes' /\ Clock'
    BY <1>1, ClockKept
  <2>4. Rest' /\ Counting' /\ Running' /\ DueIsScheduled'
    BY <1>1, <1>2, <2>1 DEF Rest, Counting, Running, InCall, DueIsScheduled
  <2>5. QED
    BY <2>2, <2>3, <2>4, Together
<1>5. QED
  BY <1>3, <1>4

LEMMA call_returnKeeps ==
  ASSUME IInv, call_return
  PROVE  IInv'
<1>1. /\ ctl \in {"call", "ret"} /\ running' = None /\ ctl' = "soft"
      /\ UNCHANGED <<calltodo, clock, ticks, netisr, back>>
  BY DEF call_return
<1>2. Rest /\ Counting
  BY DEF IInv, TypeOK, Rest
<1>3. ListKept /\ ClockTypes' /\ Clock'
  BY <1>1, ListSame, ClockKept
<1>4. running' \in [fn : Fns \cup {NoFn}, promise : Nat] /\ running'.fn = NoFn /\ running'.promise = 0
  BY <1>1 DEF None
<1>5. Rest' /\ Counting'
  BY <1>1, <1>2, <1>4 DEF Rest, Counting
<1>6. Running'
  BY <1>1, <1>4 DEF Running, InCall
<1>7. DueIsScheduled'
  BY <1>1 DEF DueIsScheduled
<1>8. QED
  BY <1>3, <1>5, <1>6, <1>7, Together

LEMMA InitInv ==
  ASSUME Init
  PROVE  IInv
<1>1. /\ clkpertick \in Nat \ {0} /\ Wrap \in Nat \ {0} /\ NCALLOUT \in Nat \ {0}
  BY CalloutAssumption
<1>2. /\ calltodo = <<>> /\ count = 0 /\ old_count = 0 /\ softcompare = clkpertick % Wrap
      /\ ticks = 0 /\ netisr = FALSE /\ ctl = "main" /\ back = "main" /\ running = None /\ lag = 0
  BY DEF Init
<1>3. calltodo \in Queue /\ Len(calltodo) = 0 /\ ~Due(calltodo)
  BY <1>2 DEF Queue, Due
<1>4. Cong(softcompare, clkpertick) /\ softcompare \in 0 .. Wrap - 1
  BY <1>1, <1>2, CongMod
<1>5. running \in [fn : Fns \cup {NoFn}, promise : Nat] /\ running.fn = NoFn /\ running.promise = 0
  BY <1>2 DEF None
<1>6. TypeOK
  <2>1. calltodo \in Seq([fn : Fns, time : Int, promise : Nat]) /\ Len(calltodo) <= NCALLOUT
    BY <1>1, <1>3 DEF Queue, Entry
  <2>2. count \in 0 .. Wrap - 1 /\ old_count \in 0 .. Wrap - 1
    BY <1>1, <1>2
  <2>3. netisr \in BOOLEAN
    BY <1>2
  <2>4. QED
    BY <1>2, <1>4, <1>5, <2>1, <2>2, <2>3 DEF TypeOK
<1>7. Clock
  <2>1. count - lag + clkpertick = clkpertick /\ count - 0 = 0 /\ 0 \in 0 .. lag
    BY <1>1, <1>2
  <2>2. Cong(0, 0)
    BY CongSame
  <2>3. \E k \in 0 .. lag : lag - k <= clkpertick /\ Cong(old_count, count - k)
    <3>1. lag - 0 <= clkpertick
      BY <1>1, <1>2
    <3>2. QED
      BY <1>2, <2>1, <2>2, <3>1
  <2>4. lag <= clkpertick
    BY <1>1, <1>2
  <2>5. QED
    BY <1>4, <2>1, <2>3, <2>4 DEF Clock
<1>8. Ordered(calltodo) /\ Early
  BY <1>3 DEF Ordered, Early
<1>9. Counting /\ Running /\ DueIsScheduled
  BY <1>2, <1>3, <1>5 DEF Counting, Running, InCall, DueIsScheduled
<1>10. QED
  BY <1>6, <1>7, <1>8, <1>9 DEF IInv

LEMMA StutterInv ==
  ASSUME IInv, UNCHANGED vars
  PROVE  IInv'
<1>1. UNCHANGED <<calltodo, count, old_count, softcompare, lag, ticks, netisr, ctl, back, running>>
  BY DEF vars, clock
<1>2. ListKept /\ ClockTypes' /\ Clock'
  BY <1>1, ListSame, ClockKept DEF clock
<1>3. Rest /\ Counting /\ Running /\ DueIsScheduled
  BY DEF IInv, TypeOK, Rest
<1>4. Rest' /\ Counting' /\ Running' /\ DueIsScheduled'
  BY <1>1, <1>3 DEF Rest, Counting, Running, InCall, DueIsScheduled
<1>5. QED
  BY <1>2, <1>4, Together

LEMMA StepInv ==
  ASSUME IInv, [Next]_vars
  PROVE  IInv'
<1>1. CASE Main
  <2>1. CASE \E f \in Fns, s \in Levels : untimeout(f, s)
    BY <2>1, untimeoutKeeps
  <2>2. CASE \E f \in Fns, s \in Levels : \E n \in TickArgs : timeout(f, n, s)
    BY <2>2, timeoutKeeps
  <2>3. CASE idle
    BY <2>3, idleKeeps
  <2>4. CASE \E w \in Work : Run(w)
    BY <2>4, RunKeeps
  <2>5. QED
    BY <1>1, <2>1, <2>2, <2>3, <2>4 DEF Main
<1>2. CASE Internal
  <2>1. CASE \E d \in Races : tgt_clkpoll(d)
    BY <2>1, tgt_clkpollKeeps
  <2>2. CASE hardclock
    BY <2>2, hardclockKeeps
  <2>3. CASE splx
    BY <2>3, splxKeeps
  <2>4. CASE softclock_take
    BY <2>4, softclock_takeKeeps
  <2>5. CASE softclock_end
    BY <2>5, softclock_endKeeps
  <2>6. CASE \E n \in TickArgs : call_again(n)
    BY <2>6, call_againKeeps
  <2>7. CASE call_return
    BY <2>7, call_returnKeeps
  <2>8. QED
    BY <1>2, <2>1, <2>2, <2>3, <2>4, <2>5, <2>6, <2>7 DEF Internal
<1>3. CASE UNCHANGED vars \/ Panicked
  BY <1>3, StutterInv DEF Panicked
<1>4. QED
  BY <1>1, <1>2, <1>3 DEF Next

(* The invariant is inductive: it holds when startrtclock has run, and     *)
(* every call of timeout, untimeout and splx and every part of a poll and  *)
(* of softclock keeps it.                                                  *)
THEOREM Invariance == Spec => []IInv
<1>1. Init => IInv
  BY InitInv
<1>2. IInv /\ [Next]_vars => IInv'
  BY StepInv
<1>3. QED
  BY <1>1, <1>2, PTL DEF Spec

-----------------------------------------------------------------------------
(* The properties.                                                         *)

(* The queue and the clock keep their types; the queue never holds more    *)
(* callouts than the pool has, which timeout checks.                       *)
THEOREM TypeCorrect == Spec => []TypeOK
<1>1. IInv => TypeOK
  BY DEF IInv
<1>2. QED
  BY <1>1, Invariance, PTL

(* tgt_clkpoll neither loses a tick nor counts one that has not come,      *)
(* whatever the gap between polls, the race between its two reads of the   *)
(* counter and the counter's wrap.                                         *)
THEOREM ClockKeepsTimeCorrect == Spec => []ClockKeepsTime
<1>1. IInv => ClockKeepsTime
  <2>1. SUFFICES ASSUME IInv, ctl = "hard" PROVE lag \in 0 .. clkpertick
    BY DEF ClockKeepsTime
  <2>2. lag \in Nat /\ lag <= clkpertick /\ clkpertick \in Nat
    BY <2>1, Typed, CalloutAssumption DEF IInv, Counting
  <2>3. QED
    BY <2>2
<1>2. QED
  BY <1>1, Invariance, PTL

(* A call that hardclock has made due is never forgotten: softclock is     *)
(* wanted or under way.                                                    *)
THEOREM DueIsScheduledCorrect == Spec => []DueIsScheduled
<1>1. IInv => DueIsScheduled
  BY DEF IInv
<1>2. QED
  BY <1>1, Invariance, PTL

(* softclock calls no function before the ticks its timeout asked for have *)
(* passed, but for the part of a tick that had passed unseen.              *)
THEOREM NotEarlyCorrect == Spec => []NotEarly
<1>1. IInv => NotEarly
  BY DEF IInv, Running, NotEarly
<1>2. QED
  BY <1>1, Invariance, PTL

-----------------------------------------------------------------------------
(* The timer service that the delta list implements.                       *)

Pend == [fn : Fns, left : Nat]
Pending(q) == [i \in DOMAIN q |-> [fn |-> q[i].fn, left |-> -Left(q, 0, i)]]

LEMMA PendingFacts ==
  ASSUME NEW q \in Queue
  PROVE  /\ Pending(q) \in Seq(Pend) /\ Len(Pending(q)) = Len(q)
         /\ \A i \in 1 .. Len(q) :
              Pending(q)[i].fn = q[i].fn /\ Pending(q)[i].left = Wait(q, i)
<1> DEFINE L == Len(q)
<1>1. L \in Nat /\ DOMAIN q = 1 .. L /\ \A i \in 1 .. L : q[i] \in Entry
  BY DEF Queue
<1>2. \A i \in 1 .. L : q[i].fn \in Fns /\ Wait(q, i) \in Nat
  <2>1. \A i \in 1 .. L : q[i].fn \in Fns
    BY <1>1 DEF Entry
  <2>2. \A i \in 1 .. L : i \in 0 .. L
    BY <1>1
  <2>3. QED
    BY <2>1, <2>2, WaitFacts
<1>3. Pending(q) = [i \in 1 .. L |-> [fn |-> q[i].fn, left |-> Wait(q, i)]]
  BY <1>1 DEF Pending, Wait
<1>4. Pending(q) \in [1 .. L -> Pend]
  BY <1>2, <1>3 DEF Pend
<1>5. Pending(q) \in Seq(Pend) /\ Len(Pending(q)) = L
  BY <1>1, <1>4, SeqFact
<1>6. QED
  BY <1>3, <1>5

(* Two lists are pending alike when their functions and waits agree.       *)
LEMMA PendingEqual ==
  ASSUME NEW q \in Queue, NEW s \in Seq(Pend), Len(s) = Len(q),
         \A i \in 1 .. Len(q) : s[i].fn = q[i].fn /\ s[i].left = Wait(q, i)
  PROVE  Pending(q) = s
<1> DEFINE P == Pending(q)
           L == Len(q)
<1>1. /\ P \in Seq(Pend) /\ Len(P) = L /\ L \in Nat
      /\ \A i \in 1 .. L : P[i].fn = q[i].fn /\ P[i].left = Wait(q, i)
  BY PendingFacts DEF Queue
<1> HIDE DEF P
<1>2. \A i \in 1 .. L : P[i] \in Pend /\ s[i] \in Pend
  BY <1>1
<1>3. \A e, g \in Pend : e.fn = g.fn /\ e.left = g.left => e = g
  BY DEF Pend
<1>4. \A i \in 1 .. L : P[i] = s[i]
  BY <1>1, <1>2, <1>3
<1>5. P = s
  BY <1>1, <1>4, SeqEqual
<1>6. QED
  BY <1>5 DEF P

(* The number of pending calls that come sooner than n ticks.              *)
PlaceOf(P, n) == CHOOSE i \in 0 .. Len(P) : /\ \A j \in 1 .. i : P[j].left < n
                                            /\ \A j \in i + 1 .. Len(P) : P[j].left >= n

(* What the service does with a request.                                   *)
RequestedAt(P, P2, k, f, n) ==
  P2 = SubSeq(P, 1, k) \o <<[fn |-> f, left |-> n]>> \o SubSeq(P, k + 1, Len(P))

(* timeout puts the entry where the service does.                          *)
LEMMA RequestMatches ==
  ASSUME NEW q \in Queue, NEW q2, NEW k \in 0 .. Len(q), NEW f \in Fns, NEW n \in Nat \ {0}, NEW p,
         InsertsAt(q, k, n), InsertedAt(q, q2, k, f, n, p)
  PROVE  k = PlaceOf(Pending(q), n) /\ RequestedAt(Pending(q), Pending(q2), k, f, n)
<1> DEFINE P == Pending(q)
           L == Len(q)
           Place(i) == /\ \A j \in 1 .. i : P[j].left < n
                       /\ \A j \in i + 1 .. L : P[j].left >= n
<1>1. /\ P \in Seq(Pend) /\ Len(P) = L /\ L \in Nat
      /\ \A i \in 1 .. L : P[i].fn = q[i].fn /\ P[i].left = Wait(q, i)
      /\ \A i \in 1 .. L : P[i] \in Pend
  <2>1. /\ P \in Seq(Pend) /\ Len(P) = L /\ L \in Nat
        /\ \A i \in 1 .. L : P[i].fn = q[i].fn /\ P[i].left = Wait(q, i)
    BY PendingFacts DEF Queue
  <2> HIDE DEF P
  <2>2. QED
    BY <2>1
<1> HIDE DEF P
<1>2. /\ \A j \in 0 .. k : Wait(q, j) < n
      /\ k < L => n - Wait(q, k) <= q[k + 1].time
  BY DEF InsertsAt
<1>3. Place(k)
  <2>1. \A j \in 1 .. k : P[j].left < n
    BY <1>1, <1>2
  <2>2. ASSUME NEW j \in k + 1 .. L
        PROVE  P[j].left >= n
    <3>1. /\ k < L /\ k + 1 \in 1 .. L /\ k + 1 \in 0 .. L /\ (k + 1) - 1 = k /\ k \in 0 .. L
          /\ j \in 1 .. L /\ j \in 0 .. L
      BY <1>1
    <3>2. /\ Wait(q, k + 1) = Wait(q, k) + Pos(q[k + 1].time)
          /\ Wait(q, k) \in Nat /\ Wait(q, k + 1) \in Nat /\ Wait(q, j) \in Nat
          /\ q[k + 1].time \in Int
      BY <3>1, WaitFacts
    <3>3. Wait(q, k) < n
      BY <1>2, <3>1
    <3>4. Wait(q, k + 1) >= n
      BY <1>2, <3>1, <3>2, <3>3 DEF Pos
    <3>5. Wait(q, k + 1) <= Wait(q, j)
      BY <3>1, WaitMonotone
    <3>6. QED
      BY <1>1, <3>1, <3>2, <3>4, <3>5
  <2>3. QED
    BY <2>1, <2>2
<1>4. ASSUME NEW i \in 0 .. L, Place(i)
      PROVE  i = k
  <2>1. CASE i < k
    <3>1. k \in 1 .. k /\ k \in i + 1 .. L /\ k \in 1 .. L
      BY <1>1, <2>1
    <3>2. P[k].left < n /\ P[k].left >= n /\ P[k].left \in Nat
      <4>1. P[k].left < n
        BY <1>3, <3>1
      <4>2. P[k].left >= n
        BY <1>4, <3>1
      <4>3. P[k].left \in Nat
        BY <1>1, <3>1 DEF Pend
      <4>4. QED
        BY <4>1, <4>2, <4>3
    <3>3. QED
      BY <3>2
  <2>2. CASE i > k
    <3>1. i \in 1 .. i /\ i \in k + 1 .. L /\ i \in 1 .. L
      BY <1>1, <2>2
    <3>2. P[i].left < n /\ P[i].left >= n /\ P[i].left \in Nat
      <4>1. P[i].left < n
        BY <1>4, <3>1
      <4>2. P[i].left >= n
        BY <1>3, <3>1
      <4>3. P[i].left \in Nat
        BY <1>1, <3>1 DEF Pend
      <4>4. QED
        BY <4>1, <4>2, <4>3
    <3>3. QED
      BY <3>2
  <2>3. QED
    BY <1>1, <2>1, <2>2
<1>5. k = PlaceOf(P, n)
  <2> HIDE DEF Place
  <2>1. k = CHOOSE i \in 0 .. L : Place(i)
    BY <1>3, <1>4
  <2>2. QED
    BY <1>1, <2>1 DEF Place, PlaceOf
<1> DEFINE a == SubSeq(P, 1, k)
           e == [fn |-> f, left |-> n]
           b == a \o <<e>>
           c == SubSeq(P, k + 1, L)
           s == b \o c
<1>6. /\ a \in Seq(Pend) /\ Len(a) = k /\ \A j \in 1 .. k : a[j] = P[j]
  <2>1. \A j \in 1 .. k : P[j] \in Pend
    BY <1>1
  <2>2. k \in Nat
    BY <1>1
  <2>3. QED
    BY <2>1, <2>2, SubSeqProperties
<1>7. /\ c \in Seq(Pend) /\ Len(c) = L - k /\ \A j \in 1 .. L - k : c[j] = P[k + j]
  <2>1. \A j \in k + 1 .. L : P[j] \in Pend
    BY <1>1
  <2>2. k + 1 \in Int /\ L \in Int
    BY <1>1
  <2>3. /\ c \in Seq(Pend) /\ Len(c) = IF k + 1 <= L THEN L - (k + 1) + 1 ELSE 0
        /\ \A j \in 1 .. L - (k + 1) + 1 : c[j] = P[(k + 1) + j - 1]
    BY <2>1, <2>2, SubSeqProperties
  <2>4. \A j \in 1 .. L - k : (k + 1) + j - 1 = k + j
    BY <1>1
  <2>5. L - (k + 1) + 1 = L - k
    BY <1>1
  <2> HIDE DEF c
  <2>6. QED
    BY <1>1, <2>3, <2>4, <2>5
<1>8. e \in Pend /\ <<e>> \in Seq(Pend) /\ Len(<<e>>) = 1 /\ <<e>>[1] = e
  BY DEF Pend
<1> HIDE DEF a, c, e
<1>9. /\ b \in Seq(Pend) /\ Len(b) = k + 1
      /\ \A j \in 1 .. k + 1 : b[j] = IF j <= k THEN P[j] ELSE e
  <2>1. /\ b \in Seq(Pend) /\ Len(b) = Len(a) + Len(<<e>>)
        /\ \A j \in 1 .. Len(a) + Len(<<e>>) :
             b[j] = IF j <= Len(a) THEN a[j] ELSE <<e>>[j - Len(a)]
    BY <1>6, <1>8, ConcatProperties
  <2>2. QED
    BY <1>6, <1>8, <2>1
<1> HIDE DEF b
<1>10. /\ s \in Seq(Pend) /\ Len(s) = L + 1
       /\ \A j \in 1 .. L + 1 : s[j] = IF j <= k + 1 THEN b[j] ELSE c[j - (k + 1)]
  <2>1. /\ s \in Seq(Pend) /\ Len(s) = Len(b) + Len(c)
        /\ \A j \in 1 .. Len(b) + Len(c) : s[j] = IF j <= Len(b) THEN b[j] ELSE c[j - Len(b)]
    BY <1>7, <1>9, ConcatProperties
  <2>2. Len(b) + Len(c) = L + 1
    BY <1>1, <1>7, <1>9
  <2> HIDE DEF s
  <2>3. QED
    BY <1>9, <2>1, <2>2
<1> HIDE DEF s
<1>11. q2 \in Queue /\ Len(q2) = L + 1
  BY DEF InsertedAt
<1>waits. /\ \A j \in 0 .. k : Wait(q2, j) = Wait(q, j)
      /\ Wait(q2, k + 1) = n
      /\ \A j \in k + 1 .. L : Wait(q2, j + 1) = Wait(q, j)
  BY InsertWait
<1>place. k \in Nat /\ k <= L
  BY <1>1
<1>12. ASSUME NEW j \in 1 .. L + 1
       PROVE  s[j].fn = q2[j].fn /\ s[j].left = Wait(q2, j)
  <2>1. CASE j <= k
    <3>1. s[j] = P[j] /\ j \in 1 .. L /\ q2[j] = q[j]
      BY <1>1, <1>9, <1>10, <2>1 DEF InsertedAt
    <3>2. Wait(q2, j) = Wait(q, j)
      <4>1. j \in 0 .. k
        BY <1>place, <2>1
      <4>2. QED
        BY <1>waits, <4>1
    <3>3. QED
      BY <1>1, <3>1, <3>2
  <2>2. CASE j = k + 1
    <3>1. s[j] = e /\ q2[j].fn = f
      BY <1>1, <1>9, <1>10, <2>2 DEF InsertedAt
    <3>2. Wait(q2, j) = n
      BY <1>waits, <2>2
    <3>3. QED
      BY <3>1, <3>2 DEF e
  <2>3. CASE j > k + 1
    <3>1. /\ j - 1 \in 1 .. L /\ j - 1 \in k + 1 .. L /\ (j - 1) + 1 = j
          /\ j - (k + 1) \in 1 .. L - k /\ k + (j - (k + 1)) = j - 1
      <4>1. j \in Nat /\ j <= L + 1 /\ j - 1 \in Nat /\ j - (k + 1) \in Nat
        BY <1>1, <1>place, <2>3
      <4>2. j - 1 \in 1 .. L /\ j - 1 \in k + 1 .. L /\ (j - 1) + 1 = j
        BY <1>1, <1>place, <2>3, <4>1
      <4>3. j - (k + 1) \in 1 .. L - k
        BY <1>1, <1>place, <2>3, <4>1
      <4>4. k + (j - (k + 1)) = j - 1
        BY <1>place, <4>1
      <4>5. QED
        BY <4>2, <4>3, <4>4
    <3>2. s[j] = P[j - 1]
      <4>1. ~(j <= k + 1)
        BY <1>place, <2>3
      <4>2. s[j] = c[j - (k + 1)]
        BY <1>10, <4>1
      <4>3. QED
        BY <1>7, <3>1, <4>2
    <3>3. Wait(q2, j) = Wait(q, j - 1)
      BY <1>waits, <3>1
    <3>4. q2[j].fn = q[j - 1].fn
      <4>1. CASE j = k + 2
        <5>1. k < L /\ j - 1 = k + 1 /\ k + 1 \in 1 .. L
          BY <1>1, <1>place, <3>1, <4>1
        <5>1a. q[k + 1] \in Entry
          BY <5>1 DEF Queue
        <5>2. q2[j] = [q[k + 1] EXCEPT !.time = q[k + 1].time - (n - Wait(q, k))]
          BY <4>1, <5>1 DEF InsertedAt
        <5>3. QED
          BY <5>1, <5>1a, <5>2 DEF Entry
      <4>2. CASE j # k + 2
        <5>1. j - 1 \in k + 2 .. L
          BY <1>1, <3>1, <4>2
        <5>2. q2[(j - 1) + 1] = q[j - 1]
          BY <5>1 DEF InsertedAt
        <5>3. QED
          BY <3>1, <5>2
      <4>3. QED
        BY <4>1, <4>2
    <3>5. QED
      BY <1>1, <3>1, <3>2, <3>3, <3>4
  <2>4. QED
    BY <1>1, <2>1, <2>2, <2>3
<1>13. Pending(q2) = s
  BY <1>10, <1>11, <1>12, PendingEqual
<1>14. QED
  BY <1>1, <1>5, <1>13, Zenon DEF P, s, b, a, c, e, RequestedAt

(* untimeout takes the entry out that the service does.                    *)
LEMMA CancelMatches ==
  ASSUME NEW q \in Queue, NEW q2, NEW i \in 1 .. Len(q), RemovedAt(q, q2, i), Ordered(q)
  PROVE  Pending(q2) = SubSeq(Pending(q), 1, i - 1)
                         \o SubSeq(Pending(q), i + 1, Len(Pending(q)))
<1> DEFINE P == Pending(q)
           L == Len(q)
<1>1. /\ P \in Seq(Pend) /\ Len(P) = L /\ L \in Nat
      /\ \A j \in 1 .. L : P[j].fn = q[j].fn /\ P[j].left = Wait(q, j)
      /\ \A j \in 1 .. L : P[j] \in Pend
  <2>1. /\ P \in Seq(Pend) /\ Len(P) = L /\ L \in Nat
        /\ \A j \in 1 .. L : P[j].fn = q[j].fn /\ P[j].left = Wait(q, j)
    BY PendingFacts DEF Queue
  <2> HIDE DEF P
  <2>2. QED
    BY <2>1
<1> HIDE DEF P
<1>2. i \in Nat \ {0} /\ i <= L
  BY <1>1
<1>3. /\ \A j \in 0 .. i - 1 : Wait(q2, j) = Wait(q, j)
      /\ \A j \in i .. L - 1 : Wait(q2, j) = Wait(q, j + 1)
  BY RemoveWait
<1> DEFINE a == SubSeq(P, 1, i - 1)
           c == SubSeq(P, i + 1, L)
           s == a \o c
<1>4. /\ a \in Seq(Pend) /\ Len(a) = i - 1 /\ \A j \in 1 .. i - 1 : a[j] = P[j]
  <2>1. \A j \in 1 .. i - 1 : P[j] \in Pend
    BY <1>1, <1>2
  <2>2. i - 1 \in Nat
    BY <1>2
  <2>3. QED
    BY <2>1, <2>2, SubSeqProperties
<1>5. /\ c \in Seq(Pend) /\ Len(c) = L - i /\ \A j \in 1 .. L - i : c[j] = P[i + j]
  <2>1. \A j \in i + 1 .. L : P[j] \in Pend
    BY <1>1, <1>2
  <2>2. i + 1 \in Int /\ L \in Int
    BY <1>1, <1>2
  <2>3. /\ c \in Seq(Pend) /\ Len(c) = IF i + 1 <= L THEN L - (i + 1) + 1 ELSE 0
        /\ \A j \in 1 .. L - (i + 1) + 1 : c[j] = P[(i + 1) + j - 1]
    BY <2>1, <2>2, SubSeqProperties
  <2>4. \A j \in 1 .. L - i : (i + 1) + j - 1 = i + j
    BY <1>1, <1>2
  <2>5. L - (i + 1) + 1 = L - i
    BY <1>1, <1>2
  <2> HIDE DEF c
  <2>6. QED
    BY <1>1, <1>2, <2>3, <2>4, <2>5
<1> HIDE DEF a, c
<1>6. /\ s \in Seq(Pend) /\ Len(s) = L - 1
      /\ \A j \in 1 .. L - 1 : s[j] = IF j <= i - 1 THEN a[j] ELSE c[j - (i - 1)]
  <2>1. /\ s \in Seq(Pend) /\ Len(s) = Len(a) + Len(c)
        /\ \A j \in 1 .. Len(a) + Len(c) : s[j] = IF j <= Len(a) THEN a[j] ELSE c[j - Len(a)]
    BY <1>4, <1>5, ConcatProperties
  <2>2. Len(a) + Len(c) = L - 1
    BY <1>1, <1>2, <1>4, <1>5
  <2> HIDE DEF s
  <2>3. QED
    BY <1>4, <2>1, <2>2
<1> HIDE DEF s
<1>7. q2 \in Queue /\ Len(q2) = L - 1
  BY DEF RemovedAt
<1>8. ASSUME NEW j \in 1 .. L - 1
      PROVE  s[j].fn = q2[j].fn /\ s[j].left = Wait(q2, j)
  <2>1. CASE j < i
    <3>1. j \in 1 .. i - 1 /\ j \in 0 .. i - 1 /\ j <= i - 1 /\ j \in 1 .. L
      BY <1>1, <1>2, <2>1
    <3>2. s[j] = P[j] /\ q2[j] = q[j] /\ Wait(q2, j) = Wait(q, j)
      BY <1>3, <1>4, <1>6, <3>1 DEF RemovedAt
    <3>3. QED
      BY <1>1, <3>1, <3>2
  <2>2. CASE j >= i
    <3>1. j + 1 \in 1 .. L /\ ~(j <= i - 1) /\ j \in i .. L - 1
      BY <1>1, <1>2, <2>2
    <3>2. j - (i - 1) \in 1 .. L - i /\ i + (j - (i - 1)) = j + 1
      <4>1. j \in Nat /\ j <= L - 1 /\ j - (i - 1) \in Nat
        BY <1>1, <1>2, <2>2
      <4>2. j - (i - 1) \in 1 .. L - i
        BY <1>1, <1>2, <2>2, <4>1
      <4>3. i + (j - (i - 1)) = j + 1
        BY <1>2, <4>1
      <4>4. QED
        BY <4>2, <4>3
    <3>3. s[j] = P[j + 1]
      <4>1. s[j] = c[j - (i - 1)]
        BY <1>6, <3>1
      <4>2. QED
        BY <1>5, <3>2, <4>1
    <3>4. Wait(q2, j) = Wait(q, j + 1)
      BY <1>3, <3>1
    <3>5. q2[j].fn = q[j + 1].fn
      <4>1. CASE j = i
        <5>1. i < L /\ q[i + 1] \in Entry /\ q[i].time \in Int
          <6>1. i < L /\ i + 1 \in 1 .. L
            BY <1>1, <1>2, <3>1, <4>1
          <6>2. q[i + 1] \in Entry
            BY <6>1 DEF Queue
          <6>3. q[i].time \in Int
            BY WaitFacts
          <6>4. QED
            BY <6>1, <6>2, <6>3
        <5>2. q2[i] = IF q[i].time > 0
                      THEN [q[i + 1] EXCEPT !.time = q[i + 1].time + q[i].time]
                      ELSE q[i + 1]
          BY <5>1 DEF RemovedAt
        <5>3. QED
          BY <4>1, <5>1, <5>2 DEF Entry
      <4>2. CASE j # i
        <5>1. j \in i + 1 .. L - 1
          BY <1>1, <1>2, <2>2, <4>2
        <5>2. QED
          BY <5>1 DEF RemovedAt
      <4>3. QED
        BY <4>1, <4>2
    <3>6. QED
      BY <1>1, <3>1, <3>3, <3>4, <3>5
  <2>3. QED
    BY <1>1, <1>2, <2>1, <2>2
<1>9. Pending(q2) = s
  BY <1>6, <1>7, <1>8, PendingEqual
<1>10. QED
  BY <1>1, <1>9, Zenon DEF P, s, a, c

(* A tick of hardclock is one of the service's.                            *)
LEMMA TickMatches ==
  ASSUME NEW q \in Queue, NEW q2, TickedTo(q, q2)
  PROVE  Pending(q2) = [i \in DOMAIN Pending(q) |->
                          [Pending(q)[i] EXCEPT !.left = IF @ = 0 THEN 0 ELSE @ - 1]]
<1> DEFINE P == Pending(q)
           L == Len(q)
           Less(e) == [e EXCEPT !.left = IF e.left = 0 THEN 0 ELSE e.left - 1]
           s == [i \in 1 .. L |-> Less(P[i])]
<1>1. /\ P \in Seq(Pend) /\ Len(P) = L /\ L \in Nat
      /\ \A j \in 1 .. L : P[j].fn = q[j].fn /\ P[j].left = Wait(q, j)
  BY PendingFacts DEF Queue
<1> HIDE DEF P
<1>2. DOMAIN P = 1 .. L /\ \A j \in 1 .. L : P[j] \in Pend
  BY <1>1
<1>3. \A e \in Pend : /\ Less(e) \in Pend /\ Less(e).fn = e.fn
                      /\ Less(e).left = IF e.left = 0 THEN 0 ELSE e.left - 1
  BY DEF Pend
<1> HIDE DEF Less
<1>4. s \in [1 .. L -> Pend]
  BY <1>2, <1>3
<1>5. s \in Seq(Pend) /\ Len(s) = L
  BY <1>1, <1>4, SeqFact
<1>6. q2 \in Queue /\ Len(q2) = L /\ \A j \in 1 .. L : q2[j].fn = q[j].fn
  BY DEF TickedTo
<1>7. \A j \in 1 .. L : Wait(q2, j) = IF Wait(q, j) = 0 THEN 0 ELSE Wait(q, j) - 1
  <2>1. \A j \in 1 .. L : j \in 0 .. L
    BY <1>1
  <2>2. QED
    BY <2>1, TickWait
<1>8. \A j \in 1 .. L : s[j].fn = q2[j].fn /\ s[j].left = Wait(q2, j)
  BY <1>1, <1>2, <1>3, <1>6, <1>7
<1> HIDE DEF s
<1>9. Pending(q2) = s
  BY <1>5, <1>6, <1>8, PendingEqual
<1>10. s = [i \in DOMAIN P |-> Less(P[i])]
  BY <1>2 DEF s
<1>11. QED
  BY <1>9, <1>10, Zenon DEF Less, P

(* softclock takes what the service fires.                                 *)
LEMMA FireMatches ==
  ASSUME NEW q \in Queue, Due(q)
  PROVE  /\ Pending(q) # <<>> /\ Head(Pending(q)).left = 0
         /\ Head(Pending(q)).fn = Head(q).fn
         /\ Pending(Tail(q)) = Tail(Pending(q))
<1> DEFINE P == Pending(q)
           L == Len(q)
<1>1. /\ P \in Seq(Pend) /\ Len(P) = L /\ L \in Nat
      /\ \A j \in 1 .. L : P[j].fn = q[j].fn /\ P[j].left = Wait(q, j)
  BY PendingFacts DEF Queue
<1> HIDE DEF P
<1>2. /\ Tail(q) \in Queue /\ Len(Tail(q)) = L - 1
      /\ \A j \in 1 .. L - 1 : Tail(q)[j] = q[j + 1]
      /\ \A j \in 0 .. L - 1 : Wait(Tail(q), j) = Wait(q, j + 1)
      /\ 1 \in 1 .. L /\ Head(q) = q[1] /\ Wait(q, 1) = 0
  BY TailFacts
<1>3. /\ P # <<>> /\ Head(P) = P[1]
      /\ Tail(P) \in Seq(Pend) /\ Len(Tail(P)) = L - 1
      /\ \A j \in 1 .. L - 1 : Tail(P)[j] = P[j + 1]
  <2>1. P # <<>>
    BY <1>1, <1>2
  <2>2. Head(P) = P[1]
    BY <1>1, <2>1
  <2>3. QED
    BY <1>1, <2>1, <2>2, HeadTailProperties
<1>4. ASSUME NEW j \in 1 .. L - 1
      PROVE  Tail(P)[j].fn = Tail(q)[j].fn /\ Tail(P)[j].left = Wait(Tail(q), j)
  <2>1. j + 1 \in 1 .. L /\ j \in 0 .. L - 1
    BY <1>1
  <2>2. QED
    BY <1>1, <1>2, <1>3, <2>1
<1>5. Pending(Tail(q)) = Tail(P)
  BY <1>2, <1>3, <1>4, PendingEqual
<1>6. QED
  BY <1>1, <1>2, <1>3, <1>5 DEF P

(* The passing of time does not show.                                      *)
LEMMA AgeMatches ==
  ASSUME NEW q \in Queue, NEW p \in Nat
  PROVE  Pending(Aged(q, p)) = Pending(q)
<1> DEFINE P == Pending(q)
           L == Len(q)
           q2 == Aged(q, p)
<1>1. /\ P \in Seq(Pend) /\ Len(P) = L /\ L \in Nat
      /\ \A j \in 1 .. L : P[j].fn = q[j].fn /\ P[j].left = Wait(q, j)
  BY PendingFacts DEF Queue
<1>2. SameTimes(q, q2) /\ \A j \in 1 .. L : q2[j].fn = q[j].fn
  BY AgedFacts
<1> HIDE DEF P, q2
<1>3. q2 \in Queue /\ Len(q2) = L /\ \A j \in 0 .. L : Wait(q2, j) = Wait(q, j)
  BY <1>2, SameTimesSame DEF SameTimes
<1>4. \A j \in 1 .. L : P[j].fn = q2[j].fn /\ P[j].left = Wait(q2, j)
  BY <1>1, <1>2, <1>3
<1>5. Pending(q2) = P
  BY <1>1, <1>3, <1>4, PendingEqual
<1>6. QED
  BY <1>5 DEF P, q2

-----------------------------------------------------------------------------
(* Every step is a step of the service, or none.                           *)

LEMMA AbsPending == Abs!vars = <<Pending(calltodo), running.fn>>
BY DEF Abs!vars, Pending

LEMMA AbsRequest ==
  ASSUME NEW f \in Fns, NEW n, NEW k,
         k = PlaceOf(Pending(calltodo), AtLeastOne(n)),
         RequestedAt(Pending(calltodo), Pending(calltodo'), k, f, AtLeastOne(n)),
         running' = running
  PROVE  Abs!Request(f, n)
BY Zenon DEF Abs!Request, Abs!AtLeastOne, AtLeastOne, Pending, PlaceOf, RequestedAt

LEMMA AbsCancel ==
  ASSUME NEW f \in Fns, NEW i \in 1 .. Len(Pending(calltodo)),
         Pending(calltodo)[i].fn = f, \A j \in 1 .. i - 1 : Pending(calltodo)[j].fn # f,
         Pending(calltodo') = SubSeq(Pending(calltodo), 1, i - 1)
                                \o SubSeq(Pending(calltodo), i + 1, Len(Pending(calltodo))),
         running' = running
  PROVE  Abs!Cancel(f)
BY Zenon DEF Abs!Cancel, Pending

LEMMA AbsTick ==
  ASSUME Pending(calltodo') =
           [i \in DOMAIN Pending(calltodo) |->
              [Pending(calltodo)[i] EXCEPT !.left = IF @ = 0 THEN 0 ELSE @ - 1]],
         running' = running
  PROVE  Abs!Tick
BY Zenon DEF Abs!Tick, Pending

LEMMA AbsFire ==
  ASSUME running.fn = NoFn, Pending(calltodo) # <<>>, Head(Pending(calltodo)).left = 0,
         running'.fn = Head(Pending(calltodo)).fn,
         Pending(calltodo') = Tail(Pending(calltodo))
  PROVE  Abs!Fire
BY Zenon DEF Abs!Fire, Pending

LEMMA AbsReturn ==
  ASSUME running.fn # NoFn, running'.fn = NoFn, calltodo' = calltodo
  PROVE  Abs!Return
BY Zenon DEF Abs!Return, Pending

LEMMA AbsStutter ==
  ASSUME Pending(calltodo') = Pending(calltodo), running' = running
  PROVE  UNCHANGED Abs!vars
BY Zenon DEF Abs!vars, Pending

LEMMA InsertRefines ==
  ASSUME IInv, NEW f \in Fns, NEW n \in TickArgs,
         calltodo' = Inserted(calltodo, f, AtLeastOne(n)), running' = running
  PROVE  Abs!Request(f, n)
<1> DEFINE q == calltodo
           m == AtLeastOne(n)
<1>1. q \in Queue /\ lag \in Nat
  BY Typed DEF IInv
<1>2. m \in Nat \ {0} /\ clkpertick \in Nat \ {0}
  BY CalloutAssumption DEF AtLeastOne
<1>3. Promised(m) \in Nat
  <2>1. m * clkpertick \in Nat
    BY <1>2
  <2> HIDE DEF m
  <2>2. QED
    BY <1>1, <2>1 DEF Promised
<1> HIDE DEF m
<1>4. PICK k \in 0 .. Len(q) :
        InsertsAt(q, k, m) /\ InsertedAt(q, Inserted(q, f, m), k, f, m, Promised(m))
  BY <1>1, <1>2, <1>3, InsertFacts
<1>5. InsertsAt(q, k, m) /\ InsertedAt(q, calltodo', k, f, m, Promised(m))
  BY <1>4 DEF m
<1>6. k = PlaceOf(Pending(q), m) /\ RequestedAt(Pending(q), Pending(calltodo'), k, f, m)
  BY <1>1, <1>2, <1>5, RequestMatches
<1>7. QED
  BY <1>6, AbsRequest DEF m

LEMMA RemoveRefines ==
  ASSUME IInv, NEW f \in Fns, Queued(f), calltodo' = Removed(calltodo, f), running' = running
  PROVE  Abs!Cancel(f)
<1> DEFINE q == calltodo
<1>1. q \in Queue /\ Ordered(q)
  BY Typed DEF IInv
<1>2. PICK i \in 1 .. Len(q) : FirstOf(q, f, i) /\ RemovedAt(q, Removed(q, f), i)
  BY <1>1, RemoveFacts DEF Queued
<1>3. Pending(calltodo') = SubSeq(Pending(q), 1, i - 1)
                             \o SubSeq(Pending(q), i + 1, Len(Pending(q)))
  BY <1>1, <1>2, CancelMatches
<1>4. /\ i \in 1 .. Len(Pending(q)) /\ Pending(q)[i].fn = f
      /\ \A j \in 1 .. i - 1 : Pending(q)[j].fn # f
  <2>1. /\ Len(Pending(q)) = Len(q) /\ Len(q) \in Nat
        /\ \A j \in 1 .. Len(q) : Pending(q)[j].fn = q[j].fn
    BY <1>1, PendingFacts DEF Queue
  <2>2. q[i].fn = f /\ \A j \in 1 .. i - 1 : q[j].fn # f /\ j \in 1 .. Len(q)
    BY <1>2, <2>1 DEF FirstOf
  <2>3. QED
    BY <2>1, <2>2
<1>5. QED
  BY <1>3, <1>4, AbsCancel

LEMMA RefineStep ==
  ASSUME IInv, [Next]_vars
  PROVE  [Abs!Next]_(Abs!vars)
<1> DEFINE q == calltodo
<1>1. q \in Queue /\ Running /\ Rest
  BY Typed DEF IInv, TypeOK, Rest
<1>2. running \in [fn : Fns \cup {NoFn}, promise : Nat] /\ running.promise = 0
  BY <1>1 DEF Rest, Running
<1>3. ASSUME calltodo' = calltodo, running' = running
      PROVE  UNCHANGED Abs!vars
  BY <1>3, AbsStutter
<1>4. ASSUME NEW p \in Nat, calltodo' = Aged(calltodo, p), running' = Aged(<<running>>, p)[1]
      PROVE  UNCHANGED Abs!vars
  <2>1. Pending(calltodo') = Pending(calltodo)
    BY <1>1, <1>4, AgeMatches
  <2>2. running' = [running EXCEPT !.promise = IF @ > p THEN @ - p ELSE 0]
    BY <1>4 DEF Aged
  <2>3. running' = running
    BY <1>2, <2>2
  <2>4. QED
    BY <2>1, <2>3, AbsStutter
<1>5. CASE \E f \in Fns, s \in Levels : untimeout(f, s)
  <2>1. PICK f \in Fns, s \in Levels : untimeout(f, s)
    BY <1>5
  <2>2. /\ calltodo' = IF Queued(f) THEN Removed(calltodo, f) ELSE calltodo
        /\ running' = running
    BY <2>1, Zenon DEF untimeout
  <2>3. CASE Queued(f)
    <3>1. Abs!Cancel(f)
      BY <2>2, <2>3, RemoveRefines
    <3>2. QED
      BY <3>1 DEF Abs!Next
  <2>4. CASE ~Queued(f)
    BY <1>3, <2>2, <2>4
  <2>5. QED
    BY <2>3, <2>4
<1>6. CASE \E f \in Fns, s \in Levels : \E n \in TickArgs : timeout(f, n, s)
  <2>1. PICK f \in Fns, s \in Levels, n \in TickArgs : timeout(f, n, s)
    BY <1>6
  <2>2. CASE Len(calltodo) = NCALLOUT
    <3>1. calltodo' = calltodo /\ running' = running
      BY <2>1, <2>2 DEF timeout
    <3>2. QED
      BY <1>3, <3>1
  <2>3. CASE Len(calltodo) # NCALLOUT
    <3>1. calltodo' = Inserted(calltodo, f, AtLeastOne(n)) /\ running' = running
      BY <2>1, <2>3, Zenon DEF timeout
    <3>2. Abs!Request(f, n)
      BY <3>1, InsertRefines
    <3>3. QED
      BY <3>2 DEF Abs!Next
  <2>4. QED
    BY <2>2, <2>3
<1>7. CASE \E w \in Work : Run(w)
  <2>1. PICK w \in Work : Run(w)
    BY <1>7
  <2>2. w \in Nat /\ calltodo' = Aged(calltodo, w) /\ running' = Aged(<<running>>, w)[1]
    BY <2>1, CalloutAssumption DEF Run
  <2>3. QED
    BY <1>4, <2>2
<1>8. CASE \E d \in Races : tgt_clkpoll(d)
  <2>1. PICK d \in Races : tgt_clkpoll(d)
    BY <1>8
  <2>2. \E p \in Nat : calltodo' = Aged(calltodo, p) /\ running' = Aged(<<running>>, p)[1]
    BY <2>1, PollKeeps, Typed DEF IInv
  <2>3. QED
    BY <1>4, <2>2
<1>9. CASE hardclock
  <2>1. calltodo' = Ticked(calltodo) /\ running' = running
    BY <1>9, Zenon DEF hardclock, Ticked
  <2>2. Abs!Tick
    BY <1>1, <2>1, TickFacts, TickMatches, AbsTick
  <2>3. QED
    BY <2>2 DEF Abs!Next
<1>10. CASE softclock_take
  <2>1. /\ ctl = "soft" /\ Due(calltodo) /\ calltodo' = Tail(calltodo)
        /\ running' = [fn |-> Head(calltodo).fn, promise |-> Head(calltodo).promise]
    BY <1>10 DEF softclock_take
  <2>2. running.fn = NoFn
    BY <1>1, <2>1 DEF Running, InCall
  <2>3. running'.fn = Head(calltodo).fn
    BY <2>1
  <2>4. Abs!Fire
    BY <1>1, <2>1, <2>2, <2>3, FireMatches, AbsFire
  <2>5. QED
    BY <2>4 DEF Abs!Next
<1>11. CASE \E n \in TickArgs : call_again(n)
  <2>1. PICK n \in TickArgs : call_again(n)
    BY <1>11
  <2>2. CASE Len(calltodo) = NCALLOUT
    <3>1. calltodo' = calltodo /\ running' = running
      BY <2>1, <2>2 DEF call_again
    <3>2. QED
      BY <1>3, <3>1
  <2>3. CASE Len(calltodo) # NCALLOUT
    <3>1. calltodo' = Inserted(calltodo, running.fn, AtLeastOne(n)) /\ running' = running
      BY <2>1, <2>3, Zenon DEF call_again
    <3>2. running.fn \in Fns
      BY <1>1, <2>1 DEF call_again, Running, InCall
    <3>3. Abs!Request(running.fn, n)
      BY <3>1, <3>2, InsertRefines
    <3>4. QED
      BY <3>2, <3>3 DEF Abs!Next
  <2>4. QED
    BY <2>2, <2>3
<1>12. CASE call_return
  <2>1. ctl \in {"call", "ret"} /\ running' = None /\ calltodo' = calltodo
    BY <1>12 DEF call_return
  <2>2. running.fn # NoFn
    BY <1>1, <2>1, CalloutAssumption DEF Running, InCall
  <2>3. running'.fn = NoFn
    BY <2>1 DEF None
  <2>4. Abs!Return
    BY <2>1, <2>2, <2>3, AbsReturn
  <2>5. QED
    BY <2>4 DEF Abs!Next
<1>13. CASE idle \/ splx \/ softclock_end \/ Panicked \/ UNCHANGED vars
  <2>1. calltodo' = calltodo /\ running' = running
    BY <1>13 DEF idle, splx, softclock_end, Panicked, vars
  <2>2. QED
    BY <1>3, <2>1
<1>14. QED
  BY <1>5, <1>6, <1>7, <1>8, <1>9, <1>10, <1>11, <1>12, <1>13 DEF Next, Main, Internal

(* The delta list with its flag and its poll implements the timer service  *)
(* of module Timers: calls come one at a time in the order of their ticks, *)
(* none with a tick left, and neither a request nor a cancellation nor the *)
(* catching up of missed ticks changes another call's ticks.               *)
THEOREM RefinesCorrect == Spec => Refines
<1>1. Init => Abs!Init
  <2>1. SUFFICES ASSUME Init PROVE Abs!Init
    OBVIOUS
  <2>2. calltodo = <<>> /\ running = None
    BY <2>1 DEF Init
  <2>3. <<>> \in Queue /\ Len(<<>>) = 0
    BY DEF Queue
  <2>4. Pending(<<>>) \in Seq(Pend) /\ Len(Pending(<<>>)) = 0
    BY <2>3, PendingFacts
  <2>5. Pending(calltodo) = <<>> /\ running.fn = NoFn
    BY <2>2, <2>4 DEF None
  <2>6. QED
    BY <2>5, Zenon DEF Abs!Init, Pending
<1>2. IInv /\ [Next]_vars => [Abs!Next]_(Abs!vars)
  BY RefineStep
<1>3. QED
  BY <1>1, <1>2, Invariance, PTL DEF Spec, Refines, Abs!Spec
=============================================================================
