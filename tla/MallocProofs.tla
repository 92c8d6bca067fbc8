---------------------------- MODULE MallocProofs ----------------------------
(***************************************************************************)
(* The heap is right for every size of it, every unit and batch size and   *)
(* every sequence of malloc, free and realloc: blocks never share a unit,  *)
(* no unit is lost, and the free list is one ordered ring with nothing     *)
(* left to join.                                                           *)
(*                                                                         *)
(* None of these is inductive alone.  free's check of the header is what   *)
(* keeps a pointer into free space away from the list, so the invariant    *)
(* has to say which units point to themselves (SelfLinked); the list is    *)
(* only right afterwards if the loops are where they believe to be on it   *)
(* (Searching, Placing); and morecore only has room because one batch is   *)
(* enough, which takes the part of the ring that the search has seen.      *)
(***************************************************************************)
EXTENDS Malloc, TLAPS

Used == used \cup Moving

(* Before the first malloc there is no list. *)
Started ==
    /\ size[base] = 0
    /\ allocp = Null => pc = "idle" /\ avail = {} /\ used = {}

(* Where blocks are. *)
Placed ==
    /\ \A b \in Blocks : size[b] > 0 /\ allocp1 <= b /\ b + size[b] <= Top
    /\ avail \cap used = {}
    /\ Moving \cap (avail \cup used) = {}

(* A header that points to itself is that of a block in use, and that of   *)
(* every block in use does: free's check tells them from all other units.  *)
SelfLinked == \A u \in Addr \ {base} : ptr[u] = u <=> u \in Used

(* The nodes that the search has left behind: from the one after allocp to *)
(* q, around the ring.                                                     *)
Seen ==
    {r \in avail : IF allocp <= q THEN allocp < r /\ r <= q
                                  ELSE allocp < r \/ r <= q}

(* A request in progress. *)
Asking ==
    /\ bytes \in Requests
    /\ nunits = Nunits(bytes)
    /\ old \in used \cup {Null}

Searching ==
    pc = "search" =>
        /\ Asking
        /\ q \in Ring /\ ptr[q] = p
        /\ \A r \in Seen : size[r] < nunits
        /\ Room(nunits) \/ \E b \in avail : size[b] >= nunits

Placing ==
    /\ pc = "place" => q \in Ring
    /\ more => pc = "place" /\ Asking /\ size[p] >= nunits

IInv ==
    /\ TypeOK /\ Started /\ Placed /\ SelfLinked /\ Searching /\ Placing
    /\ NoOverlap /\ NothingLost /\ FreeListRight

-----------------------------------------------------------------------------
(* A request is rounded up to at least one unit, which holds it unless its *)
(* number wraps; a batch is never smaller than what it is fetched for.     *)
LEMMA Rounding ==
    /\ \A n \in Requests : Nunits(n) \in Nat \ {0}
    /\ \A n \in Requests : Nunits(n) * HDR >= n + HDR \/ n > W - HDR
    /\ \A k \in Nat \ {0} : Rnu(k) \in Nat /\ Rnu(k) >= k
<1>1. \A m \in Nat, d \in Nat \ {0} :
        m \div d \in Nat /\ d * (m \div d) > m - d
  <2>1. SUFFICES ASSUME NEW m \in Nat, NEW d \in Nat \ {0}
                 PROVE  m \div d \in Nat /\ d * (m \div d) > m - d
    OBVIOUS
  <2>2. m = d * (m \div d) + (m % d) /\ m % d \in 0 .. d - 1
    OBVIOUS
  <2>3. m \div d \in Nat
    OBVIOUS
  <2>4. QED
    BY <2>2, <2>3
<1>2. ASSUME NEW n \in Requests
      PROVE  /\ Nunits(n) \in Nat \ {0}
             /\ Nunits(n) * HDR >= n + HDR \/ n > W - HDR
  <2> DEFINE m == (n + HDR - 1) % W
             k == m \div HDR
  <2>1. n \in 0 .. W - 1 /\ HDR \in Nat \ {0} /\ W \in Nat \ {0}
    BY MallocAssumption
  <2>2. m \in Nat /\ (n <= W - HDR => m = n + HDR - 1)
    BY <2>1
  <2>3. k \in Nat /\ HDR * k > m - HDR
    BY <1>1, <2>1, <2>2
  <2>4. Nunits(n) = k + 1
    BY DEF Nunits
  <2> HIDE DEF m, k
  <2>5. (k + 1) * HDR = HDR * k + HDR
    BY <2>1, <2>3
  <2>6. HDR * k \in Nat
    BY <2>1, <2>3
  <2>7. QED
    BY <2>1, <2>2, <2>3, <2>4, <2>5, <2>6
<1>3. ASSUME NEW k \in Nat \ {0}
      PROVE  Rnu(k) \in Nat /\ Rnu(k) >= k
  <2> DEFINE m == k + NALLOC - 1
  <2>1. NALLOC \in Nat \ {0} /\ m \in Nat
    BY MallocAssumption
  <2>2. m \div NALLOC \in Nat /\ NALLOC * (m \div NALLOC) > m - NALLOC
    BY <1>1, <2>1
  <2>3. NALLOC * (m \div NALLOC) \in Nat
    BY <2>1, <2>2
  <2>4. Rnu(k) = NALLOC * (m \div NALLOC)
    BY DEF Rnu
  <2> HIDE DEF m
  <2>5. QED
    BY <2>1, <2>2, <2>3, <2>4 DEF m
<1>4. QED
  BY <1>2, <1>3

-----------------------------------------------------------------------------
(* The part of it without products, for the steps that need no more. *)
LEMMA UnitsPositive ==
    /\ \A n \in Requests : n \in 0 .. W - 1 /\ Nunits(n) \in Nat \ {0}
    /\ \A k \in Nat \ {0} : Rnu(k) \in Nat /\ Rnu(k) >= k
BY Rounding, MallocAssumption

(* What types say of addresses, in the form the steps need. *)
LEMMA Typing ==
  ASSUME TypeOK
  PROVE  /\ Top \in Nat /\ allocp1 \in Nat /\ 0 < allocp1 /\ allocp1 <= Top
         /\ base = 0 /\ base \in Addr /\ Null = -1 /\ Null \notin Addr
         /\ \A a \in Addr : a \in Nat /\ a < Top /\ size[a] \in Nat
         /\ \A b \in avail \cup used : b \in Addr /\ b # base /\ allocp1 <= b
BY MallocAssumption DEF TypeOK, Addr, base, Null

-----------------------------------------------------------------------------
(* One lemma per action: it preserves the inductive invariant.             *)

LEMMA InitInv == Init => IInv
<1> SUFFICES ASSUME Init PROVE IInv
  OBVIOUS
<1>1. used = {} /\ Moving = {} /\ Blocks = {} /\ 0 \in Addr
  BY MallocAssumption DEF Init, used, Moving, Blocks, Addr
<1>2. TypeOK
  <2>1. asked \in [used -> Requests]
    BY <1>1 DEF Init, used
  <2>2. ptr \in [Addr -> Addr \cup {Null}] /\ size \in [Addr -> Nat]
    BY DEF Init
  <2>3. QED
    BY <1>1, <2>1, <2>2, MallocAssumption DEF Init, TypeOK
<1>3. Started /\ Placed /\ Searching /\ Placing
  BY <1>1 DEF Init, Started, Placed, Searching, Placing, base
<1>4. SelfLinked
  BY <1>1 DEF Init, SelfLinked, Used, Addr, Null
<1>5. NoOverlap /\ NothingLost /\ FreeListRight
  BY <1>1, MallocAssumption
  DEF Init, NoOverlap, NothingLost, FreeListRight, Ordered, Coalesced
<1>6. QED
  BY <1>2, <1>3, <1>4, <1>5 DEF IInv

(* malloc starts on a list it may have to make first. *)
LEMMA StartInv ==
  ASSUME IInv, NEW n \in Requests, NEW o \in used \cup {Null}, StartMalloc(n, o)
  PROVE  IInv'
<1> USE DEF IInv
<1>1. n \in 0 .. W - 1 /\ Nunits(n) \in Nat \ {0}
  BY UnitsPositive
<1>2. /\ UNCHANGED <<allocp1, more, avail, asked, used>>
      /\ pc = "idle" /\ pc' = "search" /\ Moving = {} /\ Moving' = {}
      /\ UNCHANGED Blocks /\ UNCHANGED Used /\ UNCHANGED Ring
  BY DEF StartMalloc, used, Moving, Blocks, Used, Ring
<1>3. allocp' \in Ring /\ allocp' \in Addr
  BY Typing DEF StartMalloc, Ring, FreeListRight, Ordered
<1>4. /\ ptr' \in [Addr -> Addr \cup {Null}] /\ size' \in [Addr -> Nat]
      /\ size'[base] = 0
  BY Typing DEF StartMalloc, TypeOK, Started
<1>5. \A a \in Addr \ {base} : ptr'[a] = ptr[a] /\ size'[a] = size[a]
  BY DEF StartMalloc, TypeOK
<1>6. \A b \in Blocks : size'[b] = size[b] /\ b \in Addr \ {base}
  BY <1>2, <1>5, Typing DEF Blocks
<1>7. FreeListRight'
  <2>1. Coalesced'
    BY <1>2, <1>6 DEF FreeListRight, Coalesced, Blocks
  <2>2. ASSUME allocp = Null PROVE Ordered'
    BY <2>2, <1>2, <1>3, Typing DEF StartMalloc, Ordered, Started, Ring, TypeOK
  <2>3. ASSUME allocp # Null PROVE Ordered'
    BY <2>3, <1>2 DEF StartMalloc, Ordered, FreeListRight
  <2>4. QED
    BY <2>1, <2>2, <2>3 DEF FreeListRight
<1>8. TypeOK'
  <2>1. p' \in Addr \cup {Null} /\ q' \in Addr
    BY <1>3, <1>4 DEF StartMalloc
  <2>2. o \in Addr \cup {Null}
    BY Typing
  <2>3. QED
    BY <1>1, <1>2, <1>3, <1>4, <2>1, <2>2 DEF StartMalloc, TypeOK
<1>9. Started' /\ Placed' /\ SelfLinked'
  BY <1>2, <1>3, <1>4, <1>5, <1>6, Typing DEF Started, Placed, SelfLinked
<1>10. Searching' /\ Placing'
  <2>1. Seen' = {}
    BY <1>3, Typing DEF StartMalloc, Seen
  <2>2. Room(nunits)'
    BY <1>2 DEF StartMalloc, Room, Rnu
  <2>3. QED
    BY <1>2, <1>3, <2>1, <2>2
    DEF StartMalloc, Searching, Placing, Asking, Nunits
<1>11. NoOverlap' /\ NothingLost'
  BY <1>2, <1>6 DEF NoOverlap, NothingLost, Blocks
<1>12. QED
  BY <1>7, <1>8, <1>9, <1>10, <1>11

(* The free list without the heap: n is what comes behind a in the ring    *)
(* through 0 and the addresses S, in their order.                          *)
Follows(S, a, n) ==
    \/ n = 0 /\ \A r \in S : r <= a
    \/ n \in S /\ a < n /\ \A r \in S : r <= a \/ n <= r

(* Ordered says so of every node. *)
LEMMA OrderedFollows ==
  ASSUME NEW S \in SUBSET (Nat \ {0}), NEW f
  PROVE  \A a \in S \cup {0} :
           Follows(S, a, f[a]) <=>
             \/ /\ f[a] \in S /\ f[a] > a
                /\ \A r \in S : ~(a < r /\ r < f[a])
             \/ /\ f[a] = base
                /\ \A r \in S : r <= a
<1>1. SUFFICES ASSUME NEW a \in S \cup {0}, NEW n, n = f[a]
               PROVE  Follows(S, a, n) <=>
                        \/ /\ n \in S /\ n > a
                           /\ \A r \in S : ~(a < r /\ r < n)
                        \/ n = 0 /\ \A r \in S : r <= a
  BY DEF base
<1>2. CASE n \in S
  BY <1>2 DEF Follows
<1>3. CASE n \notin S
  BY <1>3 DEF Follows
<1>4. QED
  BY <1>2, <1>3

(* A node p is taken out behind q. *)
LEMMA FollowsRemove ==
  ASSUME NEW S \in SUBSET (Nat \ {0}), NEW q0 \in S \cup {0}, NEW p0 \in S, NEW n0,
         Follows(S, q0, p0), Follows(S, p0, n0)
  PROVE  /\ Follows(S \ {p0}, q0, n0)
         /\ \A a \in (S \cup {0}) \ {p0, q0} : \A m :
                Follows(S, a, m) => m # p0 /\ Follows(S \ {p0}, a, m)
<1>1. q0 < p0 /\ \A r \in S : r <= q0 \/ p0 <= r
  BY DEF Follows
<1>2. Follows(S \ {p0}, q0, n0)
  <2>1. CASE n0 = 0
    BY <1>1, <2>1 DEF Follows
  <2>2. CASE n0 \in S
    BY <1>1, <2>2 DEF Follows
  <2>3. QED
    BY <2>1, <2>2 DEF Follows
<1>3. ASSUME NEW a \in (S \cup {0}) \ {p0, q0}, NEW m, Follows(S, a, m)
      PROVE  m # p0 /\ Follows(S \ {p0}, a, m)
  <2>1. m # p0
    <3>1. SUFFICES ASSUME m = p0 PROVE FALSE
      OBVIOUS
    <3>2. a < p0 /\ \A r \in S : r <= a \/ p0 <= r
      BY <1>3, <3>1 DEF Follows
    <3>3. CASE a < q0
      BY <1>1, <3>2, <3>3
    <3>4. CASE q0 < a
      BY <1>1, <3>2, <3>4
    <3>5. QED
      BY <1>3, <3>3, <3>4
  <2>2. QED
    BY <1>3, <2>1 DEF Follows
<1>4. QED
  BY <1>2, <1>3

(* A node p is put in behind q. *)
LEMMA FollowsInsert ==
  ASSUME NEW S \in SUBSET (Nat \ {0}), NEW q0 \in S \cup {0}, NEW n0,
         NEW p0 \in Nat \ {0}, p0 \notin S, q0 < p0, n0 = 0 \/ p0 < n0,
         Follows(S, q0, n0)
  PROVE  /\ Follows(S \cup {p0}, q0, p0) /\ Follows(S \cup {p0}, p0, n0)
         /\ \A a \in (S \cup {0}) \ {q0} : \A m :
                Follows(S, a, m) => Follows(S \cup {p0}, a, m)
<1>1. n0 \in Nat /\ \A r \in S : r <= q0 \/ (n0 # 0 /\ n0 <= r)
  <2>1. CASE n0 = 0
    BY <2>1 DEF Follows
  <2>2. CASE n0 \in S
    BY <2>2 DEF Follows
  <2>3. QED
    BY <2>1, <2>2 DEF Follows
<1>2. Follows(S \cup {p0}, q0, p0)
  BY <1>1 DEF Follows
<1>3. Follows(S \cup {p0}, p0, n0)
  BY <1>1 DEF Follows
<1>4. ASSUME NEW a \in (S \cup {0}) \ {q0}, NEW m, Follows(S, a, m)
      PROVE  Follows(S \cup {p0}, a, m)
  <2>1. CASE m = 0 /\ \A r \in S : r <= a
    <3>1. p0 <= a
      BY <1>1, <1>4, <2>1 DEF Follows
    <3>2. QED
      BY <2>1, <3>1 DEF Follows
  <2>2. CASE m \in S /\ a < m /\ \A r \in S : r <= a \/ m <= r
    <3>1. p0 <= a \/ m <= p0
      BY <1>1, <1>4, <2>2
    <3>2. QED
      BY <2>2, <3>1 DEF Follows
  <2>3. QED
    BY <1>4, <2>1, <2>2 DEF Follows
<1>5. QED
  BY <1>2, <1>3, <1>4

(* The whole ring, as a function from each node to the next. *)
Ringed(S, f) == \A a \in S \cup {0} : Follows(S, a, f[a])

LEMMA RingRemove ==
  ASSUME NEW S \in SUBSET (Nat \ {0}), NEW f, NEW g, NEW q0 \in S \cup {0},
         NEW p0 \in S, Ringed(S, f), f[q0] = p0, g[q0] = f[p0],
         \A a \in (S \cup {0}) \ {p0, q0} : g[a] = f[a]
  PROVE  Ringed(S \ {p0}, g)
<1>1. Follows(S, q0, p0) /\ Follows(S, p0, f[p0])
  BY DEF Ringed
<1>2. SUFFICES ASSUME NEW a \in (S \ {p0}) \cup {0}
               PROVE  Follows(S \ {p0}, a, g[a])
  BY DEF Ringed
<1>3. CASE a = q0
  BY <1>1, <1>3, FollowsRemove
<1>4. CASE a # q0
  <2>1. a \in (S \cup {0}) \ {p0, q0} /\ Follows(S, a, f[a])
    BY <1>2, <1>4 DEF Ringed
  <2>2. QED
    BY <1>1, <2>1, FollowsRemove
<1>5. QED
  BY <1>3, <1>4

LEMMA RingInsert ==
  ASSUME NEW S \in SUBSET (Nat \ {0}), NEW f, NEW g, NEW q0 \in S \cup {0},
         NEW p0 \in Nat \ {0}, p0 \notin S, Ringed(S, f),
         q0 < p0, f[q0] = 0 \/ p0 < f[q0], g[q0] = p0, g[p0] = f[q0],
         \A a \in (S \cup {0}) \ {q0} : g[a] = f[a]
  PROVE  Ringed(S \cup {p0}, g)
<1>1. Follows(S, q0, f[q0])
  BY DEF Ringed
<1>2. SUFFICES ASSUME NEW a \in S \cup {p0} \cup {0}
               PROVE  Follows(S \cup {p0}, a, g[a])
  BY DEF Ringed
<1>3. CASE a = q0 \/ a = p0
  BY <1>1, <1>3, FollowsInsert
<1>4. CASE a \in (S \cup {0}) \ {q0}
  <2>1. Follows(S, a, f[a])
    BY <1>4 DEF Ringed
  <2>2. QED
    BY <1>1, <1>4, <2>1, FollowsInsert
<1>5. QED
  BY <1>2, <1>3, <1>4

-----------------------------------------------------------------------------
(* The heap without the list: the blocks B, of sizes z, share no unit and  *)
(* leave none of lo .. hi - 1 out.                                         *)
Partition(B, z, lo, hi) ==
    /\ \A b \in B : z[b] \in Nat /\ z[b] > 0 /\ lo <= b /\ b + z[b] <= hi
    /\ \A x, y \in B : x # y => x + z[x] <= y \/ y + z[y] <= x
    /\ \A u \in lo .. hi - 1 : \E b \in B : b <= u /\ u < b + z[b]

(* A block is cut in two. *)
LEMMA PartitionSplit ==
  ASSUME NEW B \in SUBSET Nat, NEW z, NEW w, NEW lo \in Nat, NEW hi \in Nat,
         Partition(B, z, lo, hi), NEW x \in B, NEW k \in Nat \ {0}, k < z[x],
         NEW y, y = x + z[x] - k, w[x] = z[x] - k, w[y] = k,
         \A b \in B \ {x} : w[b] = z[b]
  PROVE  y \notin B /\ Partition(B \cup {y}, w, lo, hi)
<1>1. z[x] \in Nat /\ lo <= x /\ x + z[x] <= hi /\ y \in Nat /\ x < y
  BY DEF Partition
<1>2. \A b \in B \ {x} : b + z[b] <= x \/ x + z[x] <= b
  BY DEF Partition
<1>3. \A b \in B : z[b] \in Nat /\ z[b] > 0
  BY DEF Partition
<1>4. y \notin B
  BY <1>1, <1>2, <1>3
<1>5. \A b \in B \cup {y} : w[b] \in Nat /\ w[b] > 0 /\ lo <= b /\ b + w[b] <= hi
  <2>1. SUFFICES ASSUME NEW b \in B \cup {y}
                 PROVE  w[b] \in Nat /\ w[b] > 0 /\ lo <= b /\ b + w[b] <= hi
    OBVIOUS
  <2>2. CASE b \in {x, y}
    BY <1>1, <2>2
  <2>3. CASE b \in B \ {x}
    BY <2>3 DEF Partition
  <2>4. QED
    BY <2>1, <2>2, <2>3
<1>6. ASSUME NEW a \in B \cup {y}, NEW b \in B \cup {y}, a # b
      PROVE  a + w[a] <= b \/ b + w[b] <= a
  <2>1. CASE a \in {x, y} /\ b \in {x, y}
    BY <1>1, <1>6, <2>1
  <2>2. CASE a \in {x, y} /\ b \in B \ {x}
    BY <1>1, <1>2, <1>3, <2>2
  <2>3. CASE a \in B \ {x} /\ b \in {x, y}
    BY <1>1, <1>2, <1>3, <2>3
  <2>4. CASE a \in B \ {x} /\ b \in B \ {x}
    BY <1>6, <2>4 DEF Partition
  <2>5. QED
    BY <1>6, <2>1, <2>2, <2>3, <2>4
<1>7. ASSUME NEW u \in lo .. hi - 1
      PROVE  \E b \in B \cup {y} : b <= u /\ u < b + w[b]
  <2>1. PICK b \in B : b <= u /\ u < b + z[b]
    BY DEF Partition
  <2>2. CASE b # x
    BY <2>1, <2>2
  <2>3. CASE b = x /\ u < y
    BY <1>1, <2>1, <2>3
  <2>4. CASE b = x /\ y <= u
    BY <1>1, <2>1, <2>4
  <2>5. QED
    BY <1>1, <2>2, <2>3, <2>4
<1>8. QED
  BY <1>4, <1>5, <1>6, <1>7 DEF Partition

(* Two blocks that touch become one. *)
LEMMA PartitionJoin ==
  ASSUME NEW B \in SUBSET Nat, NEW z, NEW w, NEW lo \in Nat, NEW hi \in Nat,
         Partition(B, z, lo, hi), NEW x \in B, NEW y \in B, y = x + z[x],
         w[x] = z[x] + z[y], \A b \in B \ {x, y} : w[b] = z[b]
  PROVE  Partition(B \ {y}, w, lo, hi)
<1>1. /\ z[x] \in Nat /\ z[y] \in Nat /\ z[x] > 0 /\ z[y] > 0
      /\ lo <= x /\ y + z[y] <= hi /\ x # y
  BY DEF Partition
<1>2. \A b \in B \ {x, y} : /\ b + z[b] <= x \/ x + z[x] <= b
                            /\ b + z[b] <= y \/ y + z[y] <= b
                            /\ z[b] \in Nat /\ z[b] > 0
  BY DEF Partition
<1>3. \A b \in B \ {y} : w[b] \in Nat /\ w[b] > 0 /\ lo <= b /\ b + w[b] <= hi
  BY <1>1, <1>2 DEF Partition
<1>4. ASSUME NEW b \in B \ {x, y}
      PROVE  b + z[b] <= x \/ y + z[y] <= b
  BY <1>1, <1>2
<1>5. ASSUME NEW a \in B \ {y}, NEW b \in B \ {y}, a # b
      PROVE  a + w[a] <= b \/ b + w[b] <= a
  <2>1. CASE a = x
    BY <1>1, <1>4, <1>5, <2>1
  <2>2. CASE b = x
    BY <1>1, <1>4, <1>5, <2>2
  <2>3. CASE a # x /\ b # x
    BY <1>5, <2>3 DEF Partition
  <2>4. QED
    BY <2>1, <2>2, <2>3
<1>6. ASSUME NEW u \in lo .. hi - 1
      PROVE  \E b \in B \ {y} : b <= u /\ u < b + w[b]
  <2>1. PICK b \in B : b <= u /\ u < b + z[b]
    BY DEF Partition
  <2>2. CASE b \notin {x, y}
    BY <2>1, <2>2
  <2>3. CASE b \in {x, y}
    BY <1>1, <2>1, <2>3
  <2>4. QED
    BY <2>2, <2>3
<1>7. QED
  BY <1>3, <1>5, <1>6 DEF Partition

(* Placed, NoOverlap and NothingLost say so of the heap. *)
LEMMA HeapPartition ==
  ASSUME TypeOK, Placed, NoOverlap, NothingLost
  PROVE  Partition(Blocks, size, allocp1, Top) /\ Blocks \subseteq Nat
<1>1. Moving \subseteq Addr
  <2>1. \A b \in Moving : b \in Addr \cup {Null} /\ allocp1 <= b
    BY DEF Moving, Placed, Blocks, TypeOK
  <2>2. QED
    BY <2>1, Typing
<1>2. Blocks \subseteq Addr
  BY <1>1, Typing DEF Blocks
<1>3. QED
  BY <1>2, Typing DEF Partition, Placed, NoOverlap, NothingLost

(* One node of the ring and the next. *)
LEMMA RingNext ==
  ASSUME TypeOK, Ordered, allocp # Null, NEW a \in Ring
  PROVE  /\ a \in Addr /\ ptr[a] \in Ring /\ ptr[a] \in Addr
         /\ a \in avail => ptr[a] # a
         /\ \/ ptr[a] = base /\ \A r \in avail : r <= a
            \/ /\ ptr[a] \in avail /\ a < ptr[a]
               /\ \A r \in avail : r <= a \/ ptr[a] <= r
BY Typing DEF Ordered, Ring

(* A smaller block is passed over: what the search has seen grows by it. *)
LEMMA SearchNextInv ==
  ASSUME IInv, SearchNext
  PROVE  IInv'
<1> USE DEF IInv
<1>1. /\ UNCHANGED <<ptr, size, allocp, allocp1, pc, nunits, bytes, more, old,
                     avail, asked, used>>
      /\ pc = "search" /\ Moving = {} /\ Moving' = {}
      /\ UNCHANGED Blocks /\ UNCHANGED Used /\ UNCHANGED Ring
  BY DEF SearchNext, used, Moving, Blocks, Used, Ring
<1>2. allocp # Null /\ q \in Ring /\ p \in Ring /\ p' \in Addr /\ q' = p /\ p' = ptr[p]
  BY <1>1, RingNext DEF SearchNext, Searching, Started, FreeListRight
<1>3. TypeOK'
  BY <1>1, <1>2, RingNext DEF SearchNext, TypeOK, FreeListRight
<1>4. Started' /\ Placed' /\ SelfLinked' /\ Placing'
  BY <1>1, Typing DEF Started, Placed, SelfLinked, Placing
<1>5. \A r \in Seen' : size[r] < nunits
  <2>1. SUFFICES ASSUME NEW r \in Seen', r # p PROVE r \in Seen
    BY DEF Searching, SearchNext
  <2>2. r \in avail /\ (IF allocp <= p THEN allocp < r /\ r <= p
                                       ELSE allocp < r \/ r <= p)
    BY <1>1, <1>2, <2>1 DEF Seen
  <2>3. /\ ptr[q] = p /\ p # allocp /\ allocp \in Ring
        /\ allocp \in Nat /\ p \in Nat /\ q \in Nat /\ r \in Nat /\ r # 0
    BY <1>1, <1>2, <2>2, RingNext, Typing
    DEF Searching, SearchNext, FreeListRight, Ordered
  <2>4. \/ p = 0 /\ \A x \in Ring : x <= q
        \/ p > q /\ \A x \in Ring : x <= q \/ p <= x
    BY <1>2, <2>3, RingNext, Typing DEF FreeListRight, Ring
  <2>5. r \in Ring
    BY <2>2 DEF Ring
  <2>6. IF allocp <= q THEN allocp < r /\ r <= q ELSE allocp < r \/ r <= q
    BY <2>1, <2>2, <2>3, <2>4, <2>5
  <2>7. QED
    BY <2>2, <2>6 DEF Seen
<1>6. Searching'
  BY <1>1, <1>2, <1>5 DEF Searching, Asking, Room, Rnu, Nunits
<1>7. NoOverlap' /\ NothingLost' /\ FreeListRight'
  BY <1>1 DEF NoOverlap, NothingLost, FreeListRight, Ordered, Coalesced
<1>8. QED
  BY <1>3, <1>4, <1>6, <1>7

(* The loop of free goes on along the ring. *)
LEMMA PlaceNextInv ==
  ASSUME IInv, PlaceNext
  PROVE  IInv'
<1> USE DEF IInv
<1>1. /\ UNCHANGED <<ptr, size, allocp, allocp1, pc, p, nunits, bytes, more, old,
                     avail, asked, used>>
      /\ pc = "place" /\ UNCHANGED Moving
      /\ UNCHANGED Blocks /\ UNCHANGED Used /\ UNCHANGED Ring
  BY DEF PlaceNext, used, Moving, Blocks, Used, Ring
<1>2. allocp # Null /\ q \in Ring /\ q' \in Ring /\ q' \in Addr
  BY <1>1, RingNext DEF PlaceNext, Placing, Started, FreeListRight
<1>3. TypeOK'
  BY <1>1, <1>2 DEF TypeOK
<1>4. Started' /\ Placed' /\ SelfLinked' /\ Searching'
  BY <1>1, Typing DEF Started, Placed, SelfLinked, Searching
<1>5. Placing'
  BY <1>1, <1>2 DEF Placing, Asking, Nunits
<1>6. NoOverlap' /\ NothingLost' /\ FreeListRight'
  BY <1>1 DEF NoOverlap, NothingLost, FreeListRight, Ordered, Coalesced
<1>7. QED
  BY <1>3, <1>4, <1>5, <1>6

(* free of a block in use takes it from its owner; free of anything else   *)
(* stops at the check.                                                     *)
LEMMA FreeInv ==
  ASSUME IInv, NEW b \in Addr, free(b)
  PROVE  IInv'
<1> USE DEF IInv
<1>1. /\ UNCHANGED <<ptr, size, allocp, allocp1, nunits, bytes, more, old, avail>>
      /\ UNCHANGED Ring
      /\ pc = "idle" /\ Moving = {} /\ ~more /\ used' = used \ {b} /\ p' = b
      /\ \A x \in used' : asked'[x] = asked[x]
      /\ asked' \in [used' -> Requests]
  BY DEF free, used, Moving, Ring, Placing, TypeOK
<1>2. \A u \in FreeSpace : u # base /\ u \notin used
  <2>1. SUFFICES ASSUME NEW a \in avail, NEW u \in Units(a)
                 PROVE  u # base /\ u \notin used
    BY DEF FreeSpace
  <2>2. a \in Blocks /\ u \in Nat /\ a <= u /\ u < a + size[a] /\ a \in Nat /\ size[a] \in Nat
    BY Typing DEF Units, Blocks
  <2>3. ASSUME u \in used PROVE FALSE
    <3>1. u \in Blocks /\ u \in Nat /\ size[u] \in Nat /\ size[u] > 0 /\ u # a
      BY <2>3, Typing DEF Blocks, Placed
    <3>2. QED
      BY <2>2, <3>1 DEF NoOverlap
  <2>4. QED
    BY <2>2, <2>3, Typing
<1>3. CASE b \in used
  <2>1. /\ ptr[b] = b /\ pc' = "place" /\ Moving' = {b} /\ b # base
    BY <1>1, <1>3, Typing DEF free, SelfLinked, Used, Moving
  <2>2. UNCHANGED Blocks /\ UNCHANGED Used
    BY <1>1, <1>3, <2>1 DEF Blocks, Used
  <2>3. allocp # Null /\ allocp \in Ring /\ q' = allocp
    BY <1>3 DEF free, Started, FreeListRight, Ordered
  <2>4. TypeOK'
    BY <1>1, <1>3, <2>1, <2>3 DEF TypeOK
  <2>5. Started' /\ Placed' /\ SelfLinked' /\ Searching' /\ Placing'
    BY <1>1, <2>1, <2>2, <2>3, <1>3
    DEF Started, Placed, SelfLinked, Searching, Placing
  <2>6. NoOverlap' /\ NothingLost' /\ FreeListRight'
    BY <1>1, <2>2 DEF NoOverlap, NothingLost, FreeListRight, Ordered, Coalesced
  <2>7. QED
    BY <2>4, <2>5, <2>6
<1>4. CASE b \notin used
  <2>1. ptr[b] # b /\ b # base
    BY <1>1, <1>2, <1>4 DEF free, SelfLinked, Used
  <2>2. pc' = "hung" /\ Moving' = {} /\ UNCHANGED used /\ q' = allocp
    BY <1>1, <1>4, <2>1 DEF free, Moving
  <2>3. UNCHANGED Blocks /\ UNCHANGED Used
    BY <1>1, <2>2 DEF Blocks, Used
  <2>4. avail # {}
    BY <1>4 DEF free, FreeSpace
  <2>5. TypeOK'
    BY <1>1, <2>2 DEF TypeOK
  <2>6. Started' /\ Placed' /\ SelfLinked' /\ Searching' /\ Placing'
    BY <1>1, <2>2, <2>3, <2>4
    DEF Started, Placed, SelfLinked, Searching, Placing
  <2>7. NoOverlap' /\ NothingLost' /\ FreeListRight'
    BY <1>1, <2>2, <2>3 DEF NoOverlap, NothingLost, FreeListRight, Ordered, Coalesced
  <2>8. QED
    BY <2>5, <2>6, <2>7
<1>5. QED
  BY <1>3, <1>4

(* Once around, the search has seen every free block. *)
LEMMA AllSeen ==
  ASSUME IInv, pc = "search", size[p] < nunits, p = allocp
  PROVE  \A b \in avail : size[b] < nunits
<1> USE DEF IInv
<1>1. SUFFICES ASSUME NEW b \in avail, b # p PROVE b \in Seen
  BY DEF Searching
<1>2. allocp # Null /\ q \in Ring /\ ptr[q] = p
  BY DEF Searching, Started
<1>3. /\ q \in Nat /\ p \in Nat /\ b \in Nat /\ b # 0
      /\ b \in Ring
      /\ \/ p = 0 /\ b <= q
         \/ p > q /\ (b <= q \/ p <= b)
  BY <1>1, <1>2, RingNext, Typing DEF FreeListRight, Ring
<1>4. QED
  BY <1>1, <1>3 DEF Seen

(* morecore's block lies below all others, and is large enough. *)
LEMMA MoreCoreInv ==
  ASSUME IInv, MoreCore
  PROVE  IInv'
<1> USE DEF IInv
<1> DEFINE a == allocp1 - Rnu(nunits)
<1>1. /\ UNCHANGED <<allocp, nunits, bytes, old, avail, asked, used, Ring>>
      /\ pc = "search" /\ Moving = {} /\ pc' = "place" /\ Moving' = {a}
      /\ p' = a /\ q' = allocp /\ more' = TRUE /\ allocp1' = a
      /\ size' = [size EXCEPT ![a] = Rnu(nunits)]
      /\ ptr' = [ptr EXCEPT ![a] = a]
  BY DEF MoreCore, used, Moving, Ring
<1>2. /\ nunits \in Nat \ {0} /\ Rnu(nunits) \in Nat /\ Rnu(nunits) >= nunits
      /\ Asking
  BY <1>1, UnitsPositive DEF Searching, Asking
<1>3. Room(nunits)
  BY <1>1, <1>2, AllSeen, Typing DEF MoreCore, Searching
<1> HIDE DEF a
<1>4. a \in Addr \ {base} /\ a \in Nat /\ a < allocp1 /\ a + Rnu(nunits) = allocp1
  BY <1>2, <1>3, Typing DEF Room, Addr, a
<1>5. /\ \A x \in Addr \ {a} : ptr'[x] = ptr[x] /\ size'[x] = size[x]
      /\ ptr'[a] = a /\ size'[a] = Rnu(nunits)
      /\ ptr' \in [Addr -> Addr \cup {Null}] /\ size' \in [Addr -> Nat]
  BY <1>1, <1>2, <1>4 DEF TypeOK
<1>6. /\ Blocks' = Blocks \cup {a} /\ Used' = Used \cup {a}
      /\ Blocks = avail \cup used /\ Used = used
      /\ \A b \in Blocks : b \in Addr \ {a} /\ b \in Nat /\ allocp1 <= b
  <2>1. Blocks = avail \cup used /\ Used = used
    BY <1>1 DEF Blocks, Used
  <2>2. Blocks' = Blocks \cup {a} /\ Used' = Used \cup {a}
    BY <1>1, <2>1 DEF Blocks, Used
  <2>3. ASSUME NEW b \in avail \cup used
        PROVE  b \in Addr \ {a} /\ b \in Nat /\ allocp1 <= b
    <3>1. b \in Addr /\ b \in Nat /\ allocp1 \in Nat /\ allocp1 <= b
      BY Typing
    <3>2. QED
      BY <1>4, <3>1
  <2>4. QED
    BY <2>1, <2>2, <2>3
<1>7. allocp # Null /\ allocp \in Ring /\ a \notin Ring /\ Ring \subseteq Addr
  BY <1>1, <1>4, Typing DEF Started, FreeListRight, Ordered, Ring
<1>8. TypeOK'
  <2>1. a \in 1 .. Top
    BY <1>4, Typing DEF Addr
  <2>2. avail' \subseteq a .. Top - 1 /\ used' \subseteq a .. Top - 1
    BY <1>1, <1>4, Typing DEF Addr
  <2>3. QED
    BY <1>1, <1>4, <1>5, <1>7, <2>1, <2>2 DEF TypeOK
<1>9. Started'
  BY <1>1, <1>4, <1>5, <1>7, Typing DEF Started
<1>10. Placed'
  <2>1. \A b \in Blocks : size'[b] = size[b] /\ allocp1' <= b
    BY <1>1, <1>4, <1>5, <1>6, Typing
  <2>2. size'[a] > 0 /\ a + size'[a] <= Top
    BY <1>2, <1>4, <1>5, Typing
  <2>3. QED
    BY <1>1, <1>4, <1>6, <2>1, <2>2 DEF Placed
<1>11. SelfLinked'
  BY <1>1, <1>4, <1>5, <1>6 DEF SelfLinked
<1>12. Searching' /\ Placing'
  BY <1>1, <1>2, <1>5, <1>7 DEF Searching, Placing, Asking, Nunits
<1>13. NoOverlap'
  <2>1. \A x, y \in Blocks' : x # y => x + size'[x] <= y \/ y + size'[y] <= x
    <3>1. SUFFICES ASSUME NEW x \in Blocks', NEW y \in Blocks', x # y
                   PROVE  x + size'[x] <= y \/ y + size'[y] <= x
      OBVIOUS
    <3>2. CASE x \in Blocks /\ y \in Blocks
      BY <1>5, <1>6, <3>1, <3>2 DEF NoOverlap
    <3>3. CASE x = a \/ y = a
      BY <1>4, <1>5, <1>6, <3>1, <3>3
    <3>4. QED
      BY <1>6, <3>2, <3>3
  <2>2. \A b \in used' : size'[b] = size[b] /\ asked'[b] = asked[b]
    BY <1>1, <1>5, <1>6
  <2>3. QED
    BY <1>1, <2>1, <2>2 DEF NoOverlap
<1>14. NothingLost'
  <2>1. SUFFICES ASSUME NEW u \in a .. Top - 1
                 PROVE  \E b \in Blocks' : b <= u /\ u < b + size'[b]
    BY <1>1 DEF NothingLost
  <2>2. CASE u < allocp1
    BY <1>4, <1>5, <1>6, <2>2
  <2>3. CASE allocp1 <= u
    <3>1. PICK b \in Blocks : b <= u /\ u < b + size[b]
      BY <1>4, <2>3, Typing DEF NothingLost
    <3>2. QED
      BY <1>5, <1>6, <3>1
  <2>4. QED
    BY <1>4, <2>2, <2>3, Typing
<1>15. FreeListRight'
  BY <1>1, <1>5, <1>6, <1>7 DEF FreeListRight, Ordered, Coalesced
<1>16. QED
  BY <1>8, <1>9, <1>10, <1>11, <1>12, <1>13, <1>14, <1>15

(* The two ways in which Grant ends: block b is handed out, and a realloc  *)
(* goes on to put the old one back.                                        *)
LEMMA GrantFacts ==
  ASSUME IInv, pc = "search", NEW b \in Addr, Grant(b), b \notin used,
         old \in used => ptr'[old] = old
  PROVE  /\ allocp' = q /\ UNCHANGED <<allocp1, more>>
         /\ used' \cup Moving' = used \cup {b} /\ used' \cap Moving' = {}
         /\ pc' \in {"idle", "place"} /\ (pc' = "place" => q' = q)
         /\ p' \in Addr \cup {Null} /\ q' \in Addr \cup {Null} /\ old' = Null
         /\ nunits' = 0 /\ bytes' = 0
         /\ asked' \in [used' -> Requests]
         /\ \A x \in used' : IF x = b THEN asked'[x] = bytes
                                      ELSE x \in used /\ asked'[x] = asked[x]
<1> USE DEF IInv
<1>1. bytes \in Requests /\ old \in used \cup {Null} /\ q \in Addr
  BY RingNext DEF Searching, Asking, Ring, Started, FreeListRight
<1>2. CASE old = Null
  <2>1. /\ asked' = [x \in used \cup {b} |-> IF x = b THEN bytes ELSE asked[x]]
        /\ pc' = "idle" /\ p' = Null /\ q' = Null
    BY <1>2 DEF Grant, Return
  <2>2. used' = used \cup {b} /\ Moving' = {}
    BY <2>1 DEF used, Moving
  <2>3. asked' \in [used' -> Requests]
    BY <1>1, <2>1, <2>2 DEF TypeOK
  <2>4. QED
    BY <2>1, <2>2, <2>3 DEF Grant
<1>3. CASE old \in used
  <2>1. old \in Addr /\ old # Null /\ old # b
    BY <1>3, Typing
  <2>2. /\ asked' = [x \in (used \cup {b}) \ {old} |->
                        IF x = b THEN bytes ELSE asked[x]]
        /\ pc' = "place" /\ p' = old /\ q' = q
    BY <1>3, <2>1 DEF Grant
  <2>3. used' = (used \cup {b}) \ {old} /\ Moving' = {old}
    BY <2>2 DEF used, Moving
  <2>4. asked' \in [used' -> Requests]
    BY <1>1, <2>2, <2>3 DEF TypeOK
  <2>5. used' \cup Moving' = used \cup {b} /\ used' \cap Moving' = {}
    BY <1>3, <2>3
  <2>6. QED
    BY <1>1, <2>1, <2>2, <2>3, <2>4, <2>5 DEF Grant
<1>4. QED
  BY <1>1, <1>2, <1>3

(* A block of the right size leaves the ring whole. *)
LEMMA TakeAllInv ==
  ASSUME IInv, TakeAll
  PROVE  IInv'
<1> USE DEF IInv
<1>1. /\ pc = "search" /\ Moving = {} /\ ~more /\ size[p] = nunits
      /\ UNCHANGED size /\ avail' = avail \ {p}
      /\ Blocks = avail \cup used /\ Used = used
      /\ ptr' = [ptr EXCEPT ![q] = ptr[p], ![p] = p]
  BY DEF TakeAll, Moving, Blocks, Used, Placing
<1>2. /\ allocp # Null /\ q \in Ring /\ q \in Addr /\ p \in Ring /\ p \in Addr
      /\ ptr[q] = p /\ nunits \in Nat \ {0} /\ Asking
  BY <1>1, RingNext, UnitsPositive DEF Searching, Asking, Started, FreeListRight
<1>3. p \in avail /\ p # base /\ p \notin used /\ q # p
  BY <1>1, <1>2, RingNext, Typing DEF Started, Ring, FreeListRight, Placed
<1>4. /\ ptr' \in [Addr -> Addr \cup {Null}]
      /\ ptr'[p] = p /\ ptr'[q] = ptr[p]
      /\ \A x \in Addr \ {p, q} : ptr'[x] = ptr[x]
  BY <1>1, <1>2, <1>3 DEF TypeOK
<1>5. q \notin used
  BY <1>2, Typing DEF Ring, Placed
<1>6. old \in used => ptr'[old] = old
  BY <1>1, <1>3, <1>4, <1>5, Typing DEF SelfLinked
<1>7. Grant(p)
  BY DEF TakeAll
<1>8. /\ allocp' = q /\ UNCHANGED <<allocp1, more>>
      /\ Used' = used \cup {p} /\ used' \cap Moving' = {}
      /\ pc' \in {"idle", "place"} /\ (pc' = "place" => q' = q)
      /\ p' \in Addr \cup {Null} /\ q' \in Addr \cup {Null} /\ old' = Null
      /\ nunits' = 0 /\ bytes' = 0
      /\ asked' \in [used' -> Requests]
      /\ \A x \in used' : IF x = p THEN asked'[x] = bytes
                                   ELSE x \in used /\ asked'[x] = asked[x]
  BY <1>1, <1>2, <1>3, <1>6, <1>7, GrantFacts DEF Used
<1>9. UNCHANGED Blocks /\ Ring' = Ring \ {p}
  BY <1>1, <1>3, <1>8 DEF Blocks, Used, Ring
<1>10. TypeOK'
  <2>1. used' \subseteq allocp1 .. Top - 1
    BY <1>3, <1>8 DEF TypeOK, Used
  <2>2. bytes' \in 0 .. W - 1
    BY <1>8, MallocAssumption
  <2>3. avail' \subseteq allocp1 .. Top - 1
    BY <1>1 DEF TypeOK
  <2>4. QED
    BY <1>1, <1>2, <1>4, <1>8, <2>1, <2>2, <2>3 DEF TypeOK
<1>11. Started' /\ Searching' /\ Placing'
  BY <1>1, <1>2, <1>3, <1>8, <1>9, Typing DEF Started, Searching, Placing
<1>12. Placed'
  BY <1>1, <1>8, <1>9 DEF Placed, Used
<1>13. SelfLinked'
  <2>1. SUFFICES ASSUME NEW u \in Addr \ {base}
                 PROVE  ptr'[u] = u <=> u \in Used'
    BY DEF SelfLinked
  <2>2. CASE u = p
    BY <1>4, <1>8, <2>2
  <2>3. CASE u = q
    <3>1. ptr[p] # q \/ q = base
      BY <1>2, <1>3, RingNext, Typing DEF FreeListRight, Ring
    <3>2. QED
      BY <1>3, <1>4, <1>5, <1>8, <2>1, <2>3, <3>1
  <2>4. CASE u \notin {p, q}
    BY <1>1, <1>4, <1>8, <2>4 DEF SelfLinked
  <2>5. QED
    BY <2>2, <2>3, <2>4
<1>14. NoOverlap'
  <2>1. \A x, y \in Blocks' : x # y => x + size'[x] <= y \/ y + size'[y] <= x
    BY <1>1, <1>9 DEF NoOverlap
  <2>2. size[p] * HDR >= bytes + HDR \/ bytes > W - HDR
    BY <1>1, <1>2, Rounding DEF Asking
  <2>3. \A b \in used' : \/ size'[b] * HDR >= asked'[b] + HDR
                         \/ asked'[b] > W - HDR
    <3>1. SUFFICES ASSUME NEW b \in used'
                   PROVE  \/ size'[b] * HDR >= asked'[b] + HDR
                          \/ asked'[b] > W - HDR
      OBVIOUS
    <3>2. CASE b = p
      BY <1>1, <1>8, <2>2, <3>2
    <3>3. CASE b # p
      BY <1>1, <1>8, <3>3 DEF NoOverlap
    <3>4. QED
      BY <3>2, <3>3
  <2>4. QED
    BY <2>1, <2>3 DEF NoOverlap
<1>15. NothingLost'
  BY <1>1, <1>8, <1>9 DEF NothingLost
<1>16. FreeListRight'
  <2>1. Coalesced'
    BY <1>1 DEF FreeListRight, Coalesced
  <2>2. avail \subseteq Nat \ {0} /\ p \in Nat /\ q \in Nat
    BY <1>2, Typing
  <2>3. /\ \A a \in avail \cup {0} : Follows(avail, a, ptr[a])
        /\ avail \cup {0} = Ring
    BY <1>2, <2>2, OrderedFollows DEF FreeListRight, Ordered, Ring, base
  <2>5. Ringed(avail', ptr')
    <3>1. \A a \in (avail \cup {0}) \ {p, q} : ptr'[a] = ptr[a]
      BY <1>4, Typing
    <3>2. Ringed(avail, ptr)
      BY <2>3 DEF Ringed
    <3>3. Ringed(avail \ {p}, ptr')
      BY <1>2, <1>3, <1>4, <2>2, <2>3, <3>1, <3>2, RingRemove
    <3>4. QED
      BY <1>1, <3>3
  <2>6. Ordered'
    <3>1. avail' \in SUBSET (Nat \ {0}) /\ Ring' = avail' \cup {0}
      BY <1>1, <2>2 DEF Ring, base
    <3>2. \A a \in Ring' : Follows(avail', a, ptr'[a])
      BY <2>5, <3>1 DEF Ringed
    <3>3. allocp' \in Ring'
      BY <1>2, <1>3, <1>8, <1>9
    <3>4. QED
      BY <3>1, <3>2, <3>3, OrderedFollows DEF Ordered
  <2>7. QED
    BY <2>1, <2>6 DEF FreeListRight
<1>17. QED
  BY <1>10, <1>11, <1>12, <1>13, <1>14, <1>15, <1>16

(* A larger block is cut in two, and its lower part stays where it was. *)
LEMMA TakeTailInv ==
  ASSUME IInv, TakeTail
  PROVE  IInv'
<1> USE DEF IInv
<1> DEFINE b == p + size[p] - nunits
<1>1. /\ pc = "search" /\ Moving = {} /\ ~more /\ size[p] > nunits
      /\ UNCHANGED avail /\ UNCHANGED Ring
      /\ Blocks = avail \cup used /\ Used = used
      /\ size' = [size EXCEPT ![p] = @ - nunits, ![b] = nunits]
      /\ ptr' = [ptr EXCEPT ![b] = b]
      /\ Grant(b)
  BY DEF TakeTail, Moving, Blocks, Used, Placing, Ring
<1>2. /\ allocp # Null /\ q \in Ring /\ q \in Addr /\ p \in Ring /\ p \in Addr
      /\ ptr[q] = p /\ nunits \in Nat \ {0} /\ Asking
  BY <1>1, RingNext, UnitsPositive DEF Searching, Asking, Started, FreeListRight
<1>3. /\ p \in avail /\ p # base /\ p \in Blocks /\ p \in Nat /\ size[p] \in Nat
      /\ p + size[p] <= Top
  BY <1>1, <1>2, Typing DEF Started, Ring, Placed
<1> HIDE DEF b
<1>4. b \in Nat /\ p < b /\ b \in Addr \ {base} /\ b # p
  BY <1>1, <1>2, <1>3, Typing DEF b, Addr
<1>5. /\ ptr' \in [Addr -> Addr \cup {Null}] /\ size' \in [Addr -> Nat]
      /\ ptr'[b] = b /\ \A x \in Addr \ {b} : ptr'[x] = ptr[x]
      /\ size'[b] = nunits /\ size'[p] = size[p] - nunits
      /\ \A x \in Addr \ {b, p} : size'[x] = size[x]
  BY <1>1, <1>2, <1>3, <1>4 DEF TypeOK
<1>6. b \notin Blocks /\ Partition(Blocks \cup {b}, size', allocp1, Top)
  <2>1. Partition(Blocks, size, allocp1, Top) /\ Blocks \subseteq Nat
    BY HeapPartition
  <2>2. \A x \in Blocks \ {p} : size'[x] = size[x] \/ x = b
    BY <1>1, <1>5, Typing
  <2>3. b \notin Blocks
    <3>1. b \in Blocks => p + size[p] <= b \/ b + size[b] <= p
      BY <1>3, <1>4 DEF NoOverlap
    <3>2. p + size[p] > b /\ size[b] \in Nat
      BY <1>2, <1>3, <1>4, Typing DEF b
    <3>3. QED
      BY <1>3, <1>4, <3>1, <3>2
  <2>4. \A x \in Blocks \ {p} : size'[x] = size[x]
    BY <2>2, <2>3
  <2>5. b = p + size[p] - nunits
    BY DEF b
  <2>6. /\ Blocks \in SUBSET Nat /\ allocp1 \in Nat /\ Top \in Nat
        /\ p \in Blocks /\ nunits \in Nat \ {0} /\ nunits < size[p]
        /\ size'[p] = size[p] - nunits /\ size'[b] = nunits
    BY <1>1, <1>2, <1>3, <1>5, <2>1, Typing
  <2>7. Partition(Blocks \cup {b}, size', allocp1, Top)
    BY <2>1, <2>4, <2>5, <2>6, PartitionSplit
  <2>8. QED
    BY <2>3, <2>7
<1>7. b \notin avail /\ b \notin used /\ b \notin Ring
  BY <1>1, <1>4, <1>6 DEF Ring
<1>8. old \in used => ptr'[old] = old
  BY <1>1, <1>5, <1>7, Typing DEF SelfLinked
<1>9. /\ allocp' = q /\ UNCHANGED <<allocp1, more>>
      /\ Used' = used \cup {b} /\ used' \cap Moving' = {}
      /\ pc' \in {"idle", "place"} /\ (pc' = "place" => q' = q)
      /\ p' \in Addr \cup {Null} /\ q' \in Addr \cup {Null} /\ old' = Null
      /\ nunits' = 0 /\ bytes' = 0
      /\ asked' \in [used' -> Requests]
      /\ \A x \in used' : IF x = b THEN asked'[x] = bytes
                                   ELSE x \in used /\ asked'[x] = asked[x]
  BY <1>1, <1>4, <1>7, <1>8, GrantFacts DEF Used
<1>10. Blocks' = Blocks \cup {b}
  BY <1>1, <1>9 DEF Blocks, Used
<1>11. TypeOK'
  <2>1. b \in allocp1 .. Top - 1
    BY <1>3, <1>4, Typing DEF Addr
  <2>2. used' \subseteq allocp1 .. Top - 1
    BY <1>9, <2>1 DEF TypeOK, Used
  <2>3. bytes' \in 0 .. W - 1
    BY <1>9, MallocAssumption
  <2>4. QED
    BY <1>1, <1>2, <1>5, <1>9, <2>2, <2>3 DEF TypeOK
<1>12. Started' /\ Searching' /\ Placing'
  BY <1>1, <1>2, <1>3, <1>4, <1>5, <1>9, Typing DEF Started, Searching, Placing
<1>13. Placed'
  <2>1. avail' \cap Used' = {}
    BY <1>1, <1>7, <1>9 DEF Placed
  <2>2. QED
    BY <1>6, <1>9, <1>10, <2>1 DEF Placed, Partition, Used
<1>14. SelfLinked'
  BY <1>1, <1>4, <1>5, <1>9 DEF SelfLinked
<1>15. NoOverlap'
  <2>1. \A x, y \in Blocks' : x # y => x + size'[x] <= y \/ y + size'[y] <= x
    BY <1>6, <1>10 DEF Partition
  <2>2. nunits * HDR >= bytes + HDR \/ bytes > W - HDR
    BY <1>2, Rounding DEF Asking
  <2>3. ASSUME NEW x \in used'
        PROVE  size'[x] * HDR >= asked'[x] + HDR \/ asked'[x] > W - HDR
    <3>1. CASE x = b
      BY <1>5, <1>9, <2>2, <3>1
    <3>2. CASE x # b
      <4>1. x \in used /\ asked'[x] = asked[x] /\ x # p
        BY <1>3, <1>9, <3>2 DEF Placed
      <4>2. size'[x] = size[x]
        BY <1>5, <3>2, <4>1, Typing
      <4>3. QED
        BY <4>1, <4>2 DEF NoOverlap
    <3>3. QED
      BY <3>1, <3>2
  <2>4. QED
    BY <2>1, <2>3 DEF NoOverlap
<1>16. NothingLost'
  BY <1>6, <1>9, <1>10 DEF NothingLost, Partition
<1>17. FreeListRight'
  <2>1. Coalesced'
    <3>1. SUFFICES ASSUME NEW x \in avail, NEW y \in avail
                   PROVE  x + size'[x] # y
      BY <1>1 DEF Coalesced
    <3>2. CASE x = p
      BY <1>1, <1>2, <1>3, <1>5, <1>7, <3>2 DEF b
    <3>3. CASE x # p
      BY <1>5, <1>7, <3>3, Typing DEF FreeListRight, Coalesced
    <3>4. QED
      BY <3>2, <3>3
  <2>2. \A a \in Ring : ptr'[a] = ptr[a]
    BY <1>5, <1>7, Typing DEF Ring
  <2>3. Ordered'
    BY <1>1, <1>2, <1>9, <2>2 DEF FreeListRight, Ordered
  <2>4. QED
    BY <2>1, <2>3 DEF FreeListRight
<1>18. QED
  BY <1>11, <1>12, <1>13, <1>14, <1>15, <1>16, <1>17

(* Where the loop of free stops, p is between q and the node behind it,    *)
(* and touches no other free block than these two.                         *)
LEMMA BehindFacts ==
  ASSUME IInv, pc = "place", Behind
  PROVE  /\ allocp # Null /\ q \in Ring /\ q \in Addr /\ q \in Nat
         /\ p \in Addr /\ p \in Nat \ {0} /\ p \in Blocks /\ p # q /\ ptr[p] = p
         /\ p \notin avail /\ p \notin used /\ p \notin Ring
         /\ q < p /\ (ptr[q] = 0 \/ (ptr[q] \in avail /\ p < ptr[q])) /\ ptr[q] \in Nat
         /\ p + size[p] = ptr[q] => ptr[q] \in avail /\ ptr[q] # q
         /\ q + size[q] = p => q \in avail
         /\ \A r \in avail : /\ p + size[p] = r => r = ptr[q]
                             /\ r + size[r] = p => r = q
<1> USE DEF IInv
<1>1. Moving = {p} /\ p \in Blocks
  BY DEF Moving, Blocks
<1>2. /\ p \in Nat /\ allocp1 <= p /\ size[p] \in Nat /\ size[p] > 0
      /\ p \notin avail /\ p \notin used /\ p \in Addr /\ 0 < p
  BY <1>1, Typing DEF Placed, TypeOK
<1>3. allocp # Null /\ q \in Ring /\ q \in Addr /\ q \in Nat
  BY RingNext, Typing DEF Placing, Started, FreeListRight
<1>4. p \notin Ring /\ p # q
  BY <1>2, <1>3, Typing DEF Ring
<1>5. ptr[p] = p
  BY <1>1, <1>2, Typing DEF SelfLinked, Used
<1>6. \/ ptr[q] = 0 /\ \A r \in avail : r <= q
      \/ /\ ptr[q] \in avail /\ q < ptr[q]
         /\ \A r \in avail : r <= q \/ ptr[q] <= r
  BY <1>3, RingNext, Typing DEF FreeListRight
<1>7. ptr[q] \in Nat /\ avail \subseteq Nat \ {0}
  BY <1>6, Typing
<1>8. q < p /\ (ptr[q] = 0 \/ (ptr[q] \in avail /\ p < ptr[q]))
  BY <1>2, <1>3, <1>6, <1>7 DEF Behind
<1>9. p + size[p] = ptr[q] => ptr[q] \in avail /\ ptr[q] # q
  BY <1>2, <1>3, <1>7, <1>8
<1>10. q + size[q] = p => q \in avail
  BY <1>2, <1>3, Typing DEF Started, Ring
<1>11. ASSUME NEW r \in avail
       PROVE  /\ p + size[p] = r => r = ptr[q]
              /\ r + size[r] = p => r = q
  <2>1. r \in Nat /\ size[r] \in Nat /\ r \in Blocks /\ r # p
    BY <1>2, Typing DEF Blocks
  <2>2. ASSUME p + size[p] = r, r # ptr[q] PROVE FALSE
    <3>1. ptr[q] \in avail /\ p < ptr[q] /\ ptr[q] < r
      BY <1>2, <1>3, <1>6, <1>7, <1>8, <2>1, <2>2
    <3>2. ptr[q] \in Blocks /\ size[ptr[q]] > 0 /\ size[ptr[q]] \in Nat
      BY <3>1, Typing DEF Blocks, Placed
    <3>3. QED
      BY <1>1, <1>2, <1>7, <2>2, <3>1, <3>2 DEF NoOverlap
  <2>3. ASSUME r + size[r] = p, r # q PROVE FALSE
    <3>1. r < q /\ q \in avail
      BY <1>2, <1>3, <1>6, <1>7, <1>8, <2>1, <2>3, Typing DEF Ring
    <3>2. q \in Blocks /\ size[q] > 0 /\ size[q] \in Nat
      BY <3>1, Typing DEF Blocks, Placed
    <3>3. QED
      BY <1>3, <1>8, <2>1, <2>3, <3>1, <3>2 DEF NoOverlap
  <2>4. QED
    BY <2>2, <2>3
<1>12. QED
  BY <1>1, <1>2, <1>3, <1>4, <1>5, <1>7, <1>8, <1>9, <1>10, <1>11

(* The lists and the blocks that Link makes, in its four cases. *)
LinkUp   == p + size[p] = ptr[q]
LinkDown == q + size[q] = p

LEMMA LinkEffect ==
  ASSUME IInv, Link
  PROVE  /\ ptr' \in [Addr -> Addr \cup {Null}] /\ size' \in [Addr -> Nat]
         /\ \A x \in Addr \ {p, q} : ptr'[x] = ptr[x] /\ size'[x] = size[x]
         /\ ptr'[p] = IF LinkUp THEN ptr[ptr[q]] ELSE ptr[q]
         /\ ptr'[q] = IF LinkDown THEN ptr'[p] ELSE p
         /\ size'[p] = size[p] + (IF LinkUp THEN size[ptr[q]] ELSE 0)
         /\ size'[q] = size[q] + (IF LinkDown THEN size'[p] ELSE 0)
         /\ avail' = (avail \cup (IF LinkDown THEN {} ELSE {p}))
                            \ (IF LinkUp THEN {ptr[q]} ELSE {})
<1> USE DEF IInv
<1> DEFINE nxt == ptr[q]
           sz == IF LinkUp THEN [size EXCEPT ![p] = @ + size[nxt]] ELSE size
           lk == [ptr EXCEPT ![p] = IF LinkUp THEN ptr[nxt] ELSE nxt]
           down == q + sz[q] = p
<1>1. /\ size' = IF down THEN [sz EXCEPT ![q] = @ + sz[p]] ELSE sz
      /\ ptr' = [lk EXCEPT ![q] = IF down THEN lk[p] ELSE p]
      /\ avail' = (avail \cup (IF down THEN {} ELSE {p}))
                            \ (IF LinkUp THEN {nxt} ELSE {})
  BY DEF Link, LinkUp
<1>2. /\ p \in Addr /\ q \in Addr /\ p # q /\ nxt \in Nat
      /\ LinkUp => nxt \in Addr /\ nxt # p
      /\ nxt \in Addr
  BY BehindFacts, Typing DEF Link, LinkUp
<1>3. /\ sz \in [Addr -> Nat] /\ sz[q] = size[q]
      /\ sz[p] = size[p] + (IF LinkUp THEN size[nxt] ELSE 0)
      /\ \A x \in Addr \ {p} : sz[x] = size[x]
  BY <1>2 DEF TypeOK
<1>4. down = LinkDown
  BY <1>3 DEF LinkDown
<1>5. /\ lk \in [Addr -> Addr \cup {Null}]
      /\ lk[p] = IF LinkUp THEN ptr[nxt] ELSE nxt
      /\ \A x \in Addr \ {p} : lk[x] = ptr[x]
  BY <1>2 DEF TypeOK
<1> HIDE DEF sz, lk, down, nxt
<1>6. /\ ptr' \in [Addr -> Addr \cup {Null}]
      /\ \A x \in Addr \ {p, q} : ptr'[x] = ptr[x]
      /\ ptr'[p] = lk[p]
      /\ ptr'[q] = IF LinkDown THEN lk[p] ELSE p
  BY <1>1, <1>2, <1>4, <1>5
<1>7. /\ size' \in [Addr -> Nat]
      /\ \A x \in Addr \ {p, q} : size'[x] = size[x]
      /\ size'[p] = sz[p]
      /\ size'[q] = size[q] + (IF LinkDown THEN sz[p] ELSE 0)
  BY <1>1, <1>2, <1>3, <1>4, Typing
<1>8. QED
  BY <1>1, <1>3, <1>4, <1>5, <1>6, <1>7 DEF nxt

(* The block that free puts back joins the heap's blocks. *)
LEMMA LinkPartition ==
  ASSUME IInv, Link
  PROVE  Partition(avail' \cup used, size', allocp1, Top)
<1> USE DEF IInv
<1> DEFINE nxt == ptr[q]
           z1 == [x \in Addr |-> IF x = p THEN size'[p] ELSE size[x]]
           B1 == Blocks \ (IF LinkUp THEN {nxt} ELSE {})
<1>1. /\ pc = "place" /\ Behind /\ Blocks = avail \cup used \cup {p}
  BY DEF Link, Blocks, Moving
<1>2. /\ Partition(Blocks, size, allocp1, Top) /\ Blocks \in SUBSET Nat
      /\ allocp1 \in Nat /\ Top \in Nat /\ Blocks \subseteq Addr
  BY <1>1, HeapPartition, BehindFacts, Typing
<1>3. /\ p \in Addr /\ p \notin avail /\ p \notin used /\ p # q
      /\ LinkUp => nxt \in avail /\ nxt # q /\ nxt # p /\ nxt \notin used
      /\ LinkDown => q \in avail /\ q \notin used
  BY <1>1, BehindFacts DEF LinkUp, LinkDown, Placed
<1>4. B1 \in SUBSET Nat /\ p \in B1 /\ (LinkDown => q \in B1)
  BY <1>1, <1>2, <1>3
<1>5. Partition(B1, z1, allocp1, Top)
  <2>1. CASE LinkUp
    <3>1. z1[p] = size[p] + size[nxt] /\ \A x \in Blocks \ {p, nxt} : z1[x] = size[x]
      BY <1>2, <1>3, <2>1, LinkEffect
    <3>2. nxt = p + size[p] /\ p \in Blocks /\ nxt \in Blocks
      BY <1>1, <1>3, <2>1 DEF LinkUp
    <3> HIDE DEF z1, nxt
    <3>3. Partition(Blocks \ {nxt}, z1, allocp1, Top)
      BY <1>2, <3>1, <3>2, PartitionJoin
    <3>4. QED
      BY <2>1, <3>3
  <2>2. CASE ~LinkUp
    <3>1. \A x \in Blocks : z1[x] = size[x]
      BY <1>2, <2>2, LinkEffect, Typing
    <3> HIDE DEF z1
    <3>2. QED
      BY <1>2, <2>2, <3>1 DEF Partition
  <2>3. QED
    BY <2>1, <2>2
<1>6. CASE LinkDown
  <2>1. /\ p = q + z1[q] /\ z1[p] = size'[p] /\ size'[q] = z1[q] + z1[p]
        /\ \A x \in B1 \ {q, p} : size'[x] = z1[x]
    BY <1>2, <1>3, <1>6, BehindFacts, <1>1, LinkEffect DEF LinkDown
  <2>2. avail' \cup used = B1 \ {p}
    BY <1>1, <1>3, <1>6, LinkEffect
  <2> HIDE DEF z1, B1
  <2>3. Partition(B1 \ {p}, size', allocp1, Top)
    BY <1>2, <1>4, <1>5, <1>6, <2>1, PartitionJoin
  <2>4. QED
    BY <2>2, <2>3
<1>7. CASE ~LinkDown
  <2>1. avail' \cup used = B1
    BY <1>1, <1>3, <1>7, LinkEffect
  <2>2. \A x \in B1 : size'[x] = z1[x]
    <3>1. size'[q] = size[q]
      BY <1>7, <1>1, BehindFacts, LinkEffect, Typing
    <3>2. QED
      BY <1>2, <1>3, <3>1, LinkEffect
  <2> HIDE DEF z1, B1
  <2>3. QED
    BY <1>5, <2>1, <2>2 DEF Partition
<1>8. QED
  BY <1>6, <1>7

(* It takes its place in the ring, and what it is joined with leaves it. *)
LEMMA LinkRing ==
  ASSUME IInv, Link
  PROVE  Ringed(avail', ptr') /\ avail' \in SUBSET (Nat \ {0}) /\ q \in avail' \cup {0}
<1> USE DEF IInv
<1> DEFINE nxt == ptr[q]
           f1 == [x \in Addr |-> IF x = p THEN nxt ELSE IF x = q THEN p ELSE ptr[x]]
           f2 == [x \in Addr |-> IF x = p THEN ptr'[p] ELSE f1[x]]
           S1 == avail \cup {p}
           S2 == S1 \ (IF LinkUp THEN {nxt} ELSE {})
<1>1. pc = "place" /\ Behind /\ allocp # Null /\ 0 \in Addr /\ avail \subseteq Addr
  BY BehindFacts, Typing DEF Link
<1>2. /\ q \in avail \cup {0} /\ q \in Addr /\ p \in Addr /\ p \in Nat \ {0} /\ p # q
      /\ p \notin avail /\ q < p /\ (nxt = 0 \/ p < nxt)
      /\ LinkUp => nxt \in avail /\ nxt # q
      /\ LinkDown => q \in avail
  BY <1>1, BehindFacts DEF Ring, base, LinkUp, LinkDown
<1>3. avail \in SUBSET (Nat \ {0}) /\ S1 \in SUBSET (Nat \ {0}) /\ S2 \in SUBSET (Nat \ {0})
  BY <1>2, Typing
<1>4. Ringed(avail, ptr)
  BY <1>1, <1>3, OrderedFollows DEF Ringed, FreeListRight, Ordered, Ring, base
<1>5. Ringed(S1, f1)
  <2>1. f1[q] = p /\ f1[p] = ptr[q] /\ \A a \in (avail \cup {0}) \ {q} : f1[a] = ptr[a]
    BY <1>1, <1>2
  <2> HIDE DEF f1
  <2>2. QED
    BY <1>2, <1>3, <1>4, <2>1, RingInsert
<1>6. Ringed(S2, f2)
  <2>1. CASE LinkUp
    <3>1. /\ nxt \in S1 /\ p \in S1 /\ f1[p] = nxt /\ f2[p] = f1[nxt]
          /\ \A a \in (S1 \cup {0}) \ {nxt, p} : f2[a] = f1[a]
      BY <1>1, <1>2, <2>1, LinkEffect
    <3> HIDE DEF f1, f2, S1, nxt
    <3>2. Ringed(S1 \ {nxt}, f2)
      BY <1>3, <1>5, <3>1, RingRemove
    <3>3. QED
      BY <2>1, <3>2
  <2>2. CASE ~LinkUp
    <3>1. \A a \in S1 \cup {0} : f2[a] = f1[a]
      BY <1>1, <1>2, <2>2, LinkEffect
    <3> HIDE DEF f1, f2, S1
    <3>2. QED
      BY <1>5, <2>2, <3>1 DEF Ringed
  <2>3. QED
    BY <2>1, <2>2
<1>7. q \in S2 \cup {0} /\ p \in S2 /\ S2 \subseteq Addr
  BY <1>1, <1>2
<1>8. CASE LinkDown
  <2>1. avail' = S2 \ {p}
    BY <1>2, <1>8, LinkEffect
  <2>2. /\ f2[q] = p /\ ptr'[q] = f2[p]
        /\ \A a \in (S2 \cup {0}) \ {p, q} : ptr'[a] = f2[a]
    BY <1>1, <1>2, <1>8, LinkEffect
  <2> HIDE DEF f1, f2, S2
  <2>3. Ringed(S2 \ {p}, ptr')
    BY <1>3, <1>6, <1>7, <2>2, RingRemove
  <2>4. QED
    BY <1>2, <1>3, <1>7, <2>1, <2>3
<1>9. CASE ~LinkDown
  <2>1. avail' = S2
    BY <1>2, <1>9, LinkEffect
  <2>2. \A a \in S2 \cup {0} : ptr'[a] = f2[a]
    BY <1>1, <1>2, <1>7, <1>9, LinkEffect
  <2> HIDE DEF f1, f2, S2
  <2>3. QED
    BY <1>3, <1>6, <1>7, <2>1, <2>2 DEF Ringed
<1>10. QED
  BY <1>8, <1>9

(* free ends with the block in the list. *)
LEMMA LinkInv ==
  ASSUME IInv, Link
  PROVE  IInv'
<1> USE DEF IInv
<1>1. /\ pc = "place" /\ Behind /\ allocp' = q /\ more' = FALSE
      /\ UNCHANGED <<allocp1, nunits, bytes, old, asked, used>>
      /\ pc' \in {"idle", "search"} /\ Moving' = {}
      /\ Blocks = avail \cup used \cup {p} /\ Used = used \cup {p}
      /\ Blocks' = avail' \cup used /\ Used' = used
  BY DEF Link, Return, used, Moving, Blocks, Used
<1>2. /\ ~more => pc' = "idle" /\ p' = Null /\ q' = Null
      /\ more => pc' = "search" /\ q' = q /\ p' = ptr'[q]
  BY DEF Link, Return
<1>3. /\ allocp # Null /\ q \in Addr /\ p \in Addr /\ p # q
      /\ p \notin avail /\ p \notin used /\ p # base /\ q \in Ring /\ q \notin used
      /\ LinkUp => ptr[q] \in avail /\ ptr[q] # q /\ ptr[q] # p
      /\ LinkDown => q \in avail
  BY <1>1, BehindFacts, Typing DEF LinkUp, LinkDown, Placed, Ring
<1>4. /\ Partition(avail' \cup used, size', allocp1, Top)
      /\ Ringed(avail', ptr') /\ avail' \in SUBSET (Nat \ {0})
      /\ q \in avail' \cup {0} /\ Ring' = avail' \cup {0}
  BY LinkPartition, LinkRing DEF Ring, base
<1>5. avail' \subseteq avail \cup {p}
  BY LinkEffect
<1>6. avail' \subseteq allocp1 .. Top - 1
  <2>1. p \in allocp1 .. Top - 1
    BY <1>1, <1>3, Typing DEF Placed, Addr
  <2>2. QED
    BY <1>5, <2>1 DEF TypeOK
<1>7. /\ ptr' \in [Addr -> Addr \cup {Null}] /\ size' \in [Addr -> Nat]
      /\ \A x \in Addr \ {p, q} : ptr'[x] = ptr[x] /\ size'[x] = size[x]
  BY LinkEffect
<1>8. TypeOK'
  <2>1. p' \in Addr \cup {Null} /\ q' \in Addr \cup {Null}
    BY <1>2, <1>3, <1>7
  <2>2. QED
    BY <1>1, <1>3, <1>6, <1>7, <2>1 DEF TypeOK
<1>9. Started'
  <2>1. size'[base] = 0
    <3>1. CASE q = base
      BY <1>3, <3>1, LinkEffect, Typing DEF Started
    <3>2. CASE q # base
      BY <1>3, <1>7, <3>2, Typing DEF Started
    <3>3. QED
      BY <3>1, <3>2
  <2>2. QED
    BY <1>1, <1>3, <2>1, Typing DEF Started
<1>10. Placed'
  BY <1>1, <1>3, <1>4, <1>5 DEF Placed, Partition
<1>11. SelfLinked'
  <2>1. SUFFICES ASSUME NEW u \in Addr \ {base}
                 PROVE  ptr'[u] = u <=> u \in used
    BY <1>1 DEF SelfLinked
  <2>2. CASE u \notin {p, q}
    BY <1>1, <1>7, <2>2 DEF SelfLinked
  <2>3. ptr[q] # p /\ (LinkUp => ptr[ptr[q]] # p)
    <3>1. p \notin Ring
      BY <1>3 DEF Ring
    <3>2. ptr[q] \in Ring /\ (LinkUp => ptr[ptr[q]] \in Ring)
      BY <1>3, RingNext DEF FreeListRight
    <3>3. QED
      BY <3>1, <3>2
  <2>4. CASE u = p
    BY <1>3, <2>3, <2>4, LinkEffect
  <2>5. CASE u = q
    <3>1. q \in avail
      BY <1>3, <2>1, <2>5 DEF Ring
    <3>2. ptr[q] # q /\ (LinkUp => ptr[ptr[q]] # q)
      <4>1. ptr[q] # q /\ (LinkUp => ptr[q] > q)
        BY <1>3, <3>1, RingNext, Typing DEF FreeListRight
      <4>2. LinkUp => ptr[ptr[q]] = base \/ ptr[q] < ptr[ptr[q]]
        BY <1>3, RingNext DEF FreeListRight, Ring
      <4>3. LinkUp => ptr[q] \in Nat /\ ptr[ptr[q]] \in Nat /\ q \in Nat
        BY <1>3, RingNext, Typing DEF FreeListRight, Ring
      <4>4. QED
        BY <2>1, <2>5, <4>1, <4>2, <4>3
    <3>3. QED
      BY <1>3, <2>5, <3>2, LinkEffect
  <2>6. QED
    BY <2>2, <2>4, <2>5
<1>12. Searching'
  <2>1. SUFFICES ASSUME more PROVE Searching'
    BY <1>2 DEF Searching
  <2>2. Asking /\ size[p] >= nunits /\ nunits \in Nat
    BY <2>1, UnitsPositive DEF Placing, Asking
  <2>3. Seen' = {}
    <3>1. allocp' = q /\ q' = q /\ q \in Nat /\ \A r \in avail' : r \in Nat
      BY <1>1, <1>2, <1>4, <2>1
    <3>2. QED
      BY <3>1 DEF Seen
  <2>4. \E b \in avail' : size'[b] >= nunits'
    <3>1. size'[p] \in Nat /\ size'[p] >= nunits
      BY <1>3, <2>2, LinkEffect, Typing
    <3>2. CASE LinkDown
      <4>1. q \in avail'
        BY <1>3, <3>2, LinkEffect
      <4>2. size'[q] >= nunits
        BY <1>3, <2>2, <3>1, <3>2, LinkEffect, Typing
      <4>3. QED
        BY <1>1, <4>1, <4>2
    <3>3. CASE ~LinkDown
      <4>1. p \in avail'
        BY <1>3, <3>3, LinkEffect
      <4>2. QED
        BY <1>1, <3>1, <4>1
    <3>4. QED
      BY <3>2, <3>3
  <2>5. QED
    BY <1>1, <1>2, <1>4, <2>1, <2>2, <2>3, <2>4
    DEF Searching, Asking, Nunits
<1>13. Placing'
  BY <1>1 DEF Placing
<1>14. NoOverlap' /\ NothingLost'
  <2>1. \A b \in used : size'[b] = size[b]
    BY <1>3, <1>7, Typing
  <2>2. QED
    BY <1>1, <1>4, <2>1 DEF NoOverlap, NothingLost, Partition
<1>15. FreeListRight'
  <2>1. Ordered'
    BY <1>1, <1>3, <1>4, OrderedFollows DEF Ordered, Ringed
  <2>2. Coalesced'
    <3>1. SUFFICES ASSUME NEW x \in avail', NEW y \in avail'
                   PROVE  x + size'[x] # y
      BY DEF Coalesced
    <3>2. x \in Nat /\ y \in Nat /\ size'[x] \in Nat /\ x \in Addr /\ size[x] \in Nat
      BY <1>3, <1>4, <1>5, <1>7, Typing
    <3>3. /\ \A r \in avail : /\ p + size[p] = r => r = ptr[q]
                              /\ r + size[r] = p => r = q
          /\ \A r, s \in avail : r + size[r] # s
      BY <1>1, BehindFacts DEF FreeListRight, Coalesced
    <3>4. /\ y \in avail \/ y = p
          /\ LinkDown => x # p /\ y # p /\ y \in avail /\ x \in avail
          /\ LinkUp => y # ptr[q] /\ x # ptr[q]
          /\ p + size[p] # p
      BY <1>1, <1>3, <1>5, LinkEffect, Typing DEF Placed
    <3>5. CASE x \notin {p, q}
      BY <1>5, <1>7, <3>2, <3>3, <3>4, <3>5, <3>1
    <3>6. CASE x = p
      <4>1. ~LinkDown /\ size'[p] = size[p] + (IF LinkUp THEN size[ptr[q]] ELSE 0)
        BY <3>4, <3>6, LinkEffect
      <4>2. CASE LinkUp
        <5>1. x + size'[x] = ptr[q] + size[ptr[q]]
          BY <1>3, <3>2, <3>6, <4>1, <4>2, Typing DEF LinkUp
        <5>2. QED
          BY <1>3, <3>3, <3>4, <4>1, <4>2, <5>1
      <4>3. CASE ~LinkUp
        <5>1. x + size'[x] = p + size[p]
          BY <1>3, <3>6, <4>1, <4>3, Typing
        <5>2. QED
          BY <3>3, <3>4, <4>3, <5>1 DEF LinkUp
      <4>4. QED
        BY <4>2, <4>3
    <3>7. CASE x = q
      <4>1. CASE ~LinkDown
        <5>1. size'[x] = size[x]
          BY <1>3, <3>7, <4>1, LinkEffect, Typing
        <5>2. q \in avail
          BY <1>3, <1>5, <3>7
        <5>3. QED
          BY <3>3, <3>4, <3>7, <4>1, <5>1, <5>2 DEF LinkDown
      <4>2. CASE LinkDown /\ LinkUp
        <5>1. x + size'[x] = ptr[q] + size[ptr[q]]
          BY <1>3, <3>2, <3>7, <4>2, LinkEffect, Typing DEF LinkUp, LinkDown
        <5>2. QED
          BY <1>3, <3>3, <3>4, <4>2, <5>1
      <4>3. CASE LinkDown /\ ~LinkUp
        <5>1. x + size'[x] = p + size[p]
          BY <1>3, <3>2, <3>7, <4>3, LinkEffect, Typing DEF LinkDown
        <5>2. QED
          BY <3>3, <3>4, <4>3, <5>1 DEF LinkUp
      <4>4. QED
        BY <4>1, <4>2, <4>3
    <3>8. QED
      BY <3>5, <3>6, <3>7
  <2>3. QED
    BY <2>1, <2>2 DEF FreeListRight
<1>16. QED
  BY <1>8, <1>9, <1>10, <1>11, <1>12, <1>13, <1>14, <1>15

-----------------------------------------------------------------------------
(* The invariant holds of every reachable state of the heap.               *)
THEOREM Invariance == Spec => []IInv
<1>1. Init => IInv
  BY InitInv
<1>2. IInv /\ [Next]_vars => IInv'
  <2>1. SUFFICES ASSUME IInv, [Next]_vars PROVE IInv'
    OBVIOUS
  <2>2. ASSUME NEW n \in Requests, malloc(n) PROVE IInv'
    BY <2>1, <2>2, StartInv DEF malloc
  <2>3. ASSUME NEW n \in Requests, NEW b \in used, realloc(b, n) PROVE IInv'
    BY <2>1, <2>3, StartInv DEF realloc
  <2>4. ASSUME NEW b \in Addr, free(b) PROVE IInv'
    BY <2>1, <2>4, FreeInv
  <2>5. CASE TakeAll
    BY <2>1, <2>5, TakeAllInv
  <2>6. CASE TakeTail
    BY <2>1, <2>6, TakeTailInv
  <2>7. CASE SearchNext
    BY <2>1, <2>7, SearchNextInv
  <2>8. CASE MoreCore
    BY <2>1, <2>8, MoreCoreInv
  <2>9. CASE PlaceNext
    BY <2>1, <2>9, PlaceNextInv
  <2>10. CASE Link
    BY <2>1, <2>10, LinkInv
  <2>11. CASE UNCHANGED vars
    <3>1. UNCHANGED <<used, Moving, Blocks, Ring, Used, Seen>>
      BY <2>11 DEF vars, used, Moving, Blocks, Ring, Used, Seen
    <3>2. UNCHANGED <<ptr, size, allocp, allocp1, pc, p, q, nunits, bytes, more,
                      old, avail, asked>>
      BY <2>11 DEF vars
    <3>3. TypeOK' /\ Started' /\ Placed' /\ SelfLinked'
      BY <2>1, <3>1, <3>2 DEF IInv, TypeOK, Started, Placed, SelfLinked
    <3>4. Searching' /\ Placing'
      BY <2>1, <3>1, <3>2
      DEF IInv, Searching, Placing, Asking, Room, Rnu, Nunits
    <3>5. NoOverlap' /\ NothingLost' /\ FreeListRight'
      BY <2>1, <3>1, <3>2
      DEF IInv, NoOverlap, NothingLost, FreeListRight, Ordered, Coalesced
    <3>6. QED
      BY <3>3, <3>4, <3>5 DEF IInv
  <2>12. QED
    BY <2>1, <2>2, <2>3, <2>4, <2>5, <2>6, <2>7, <2>8, <2>9, <2>10, <2>11
    DEF Next, Internal, Hung
<1>3. QED
  BY <1>1, <1>2, PTL DEF Spec

(* The heap's variables keep their types: in particular sbrk never goes    *)
(* below the heap's bottom, since one batch is enough for a request.       *)
THEOREM TypeCorrect == Spec => []TypeOK
<1>1. IInv => TypeOK
  BY DEF IInv
<1>2. QED
  BY <1>1, Invariance, PTL

(* No two blocks ever share a unit, and every block handed out holds the   *)
(* bytes asked for unless their number wraps, after any sequence of        *)
(* malloc, free (of pointers into free space, too) and realloc.            *)
THEOREM NoOverlapCorrect == Spec => []NoOverlap
<1>1. IInv => NoOverlap
  BY DEF IInv
<1>2. QED
  BY <1>1, Invariance, PTL

(* Every unit that sbrk gave stays in a block: splitting and joining lose  *)
(* none.                                                                   *)
THEOREM NothingLostCorrect == Spec => []NothingLost
<1>1. IInv => NothingLost
  BY DEF IInv
<1>2. QED
  BY <1>1, Invariance, PTL

(* The free list is always one ring in the order of the addresses, and no  *)
(* two of its blocks touch.                                                *)
THEOREM FreeListCorrect == Spec => []FreeListRight
<1>1. IInv => FreeListRight
  BY DEF IInv
<1>2. QED
  BY <1>1, Invariance, PTL

(* malloc only takes memory from sbrk when no free block is large enough.  *)
THEOREM MoreOnlyWhenNeededCorrect == Spec => MoreOnlyWhenNeeded
<1>1. IInv /\ [Next]_vars =>
        [allocp1' # allocp1 => \A b \in avail : size[b] < nunits]_vars
  <2>1. SUFFICES ASSUME IInv, Next, allocp1' # allocp1
                 PROVE  \A b \in avail : size[b] < nunits
    OBVIOUS
  <2>2. MoreCore
    BY <2>1 DEF Next, Internal, malloc, realloc, StartMalloc, free, TakeAll,
       TakeTail, Grant, SearchNext, PlaceNext, Link, Hung, vars
  <2>3. QED
    BY <2>1, <2>2, AllSeen DEF MoreCore
<1>2. QED
  BY <1>1, Invariance, PTL DEF Spec, MoreOnlyWhenNeeded
=============================================================================
