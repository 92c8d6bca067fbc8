----------------------------- MODULE Induction ------------------------------
(***************************************************************************)
(* Induction stated about sets, so that it can be cited with any property, *)
(* and what it gives for the recursive functions of the models: they have  *)
(* the values their equations say.                                         *)
(***************************************************************************)
EXTENDS Integers, TLAPS, WellFoundedInduction

(* A set of naturals has a least one.                                      *)
LEMMA Least ==
  ASSUME NEW T, T \subseteq Nat, T # {}
  PROVE  \E x \in T : \A y \in T : x <= y
<1> DEFINE R == OpToRel(<, Nat)
<1>1. IsWellFoundedOn(R, Nat)
  BY NatLessThanWellFounded
<1>2. R = {ss \in Nat \X Nat : ss[1] < ss[2]}
  BY Zenon DEF OpToRel
<1> HIDE DEF R
<1>3. PICK x \in T : \A y \in T : ~(<<y, x>> \in R)
  BY <1>1, WFMin
<1>4. \A y \in T : ~(y < x)
  BY <1>2, <1>3
<1>5. QED
  BY <1>4

(* A set that holds 0 and the successor of each of its naturals holds them *)
(* all.                                                                    *)
LEMMA Induct ==
  ASSUME NEW S, 0 \in S, \A n \in Nat : n \in S => n + 1 \in S
  PROVE  Nat \subseteq S
<1> DEFINE T == Nat \ S
<1>1. SUFFICES ASSUME T # {} PROVE FALSE
  OBVIOUS
<1> HIDE DEF T
<1>2. PICK x \in T : \A y \in T : x <= y
  BY <1>1, Least DEF T
<1>3. x # 0 /\ x \in Nat /\ x - 1 \in Nat /\ ~(x <= x - 1)
  BY <1>2 DEF T
<1>4. QED
  BY <1>2, <1>3 DEF T

(* The same up to a limit.                                                 *)
LEMMA InductTo ==
  ASSUME NEW S, NEW m \in Nat, 0 \in S,
         \A i \in 1 .. m : i - 1 \in S => i \in S
  PROVE  0 .. m \subseteq S
<1> DEFINE T == {n \in Nat : n <= m => n \in S}
<1>1. 0 \in T
  OBVIOUS
<1>2. ASSUME NEW n \in Nat, n \in T PROVE n + 1 \in T
  <2>1. SUFFICES ASSUME n + 1 <= m PROVE n + 1 \in S
    OBVIOUS
  <2>2. n + 1 \in 1 .. m /\ (n + 1) - 1 = n /\ n <= m
    BY <2>1
  <2>3. QED
    BY <1>2, <2>2
<1> HIDE DEF T
<1>3. Nat \subseteq T
  BY <1>1, <1>2, Induct
<1>4. QED
  BY <1>3 DEF T

(* There is a function of which the first value and each next one are      *)
(* given.                                                                  *)
Runs(f, m, S, b, G) ==
  /\ f \in [0 .. m -> S] /\ f[0] = b
  /\ \A i \in 1 .. m : f[i] = G[<<i, f[i - 1]>>]

LEMMA Recursion ==
  ASSUME NEW m \in Nat, NEW S, NEW b \in S, NEW G,
         \A i \in 1 .. m, x \in S : G[<<i, x>>] \in S
  PROVE  \E f : Runs(f, m, S, b, G)
<1> DEFINE Is(f, k) == /\ f \in [0 .. k -> S] /\ f[0] = b
                       /\ \A i \in 1 .. k : f[i] = G[<<i, f[i - 1]>>]
           Has(k) == \E f : Is(f, k)
           T == {k \in 0 .. m : Has(k)}
<1>1. 0 \in T
  <2> DEFINE f == [i \in 0 .. 0 |-> b]
  <2>1. f \in [0 .. 0 -> S] /\ f[0] = b
    OBVIOUS
  <2> HIDE DEF f
  <2>2. Is(f, 0)
    BY <2>1
  <2>3. QED
    BY <2>2
<1>2. ASSUME NEW k \in 1 .. m, k - 1 \in T
      PROVE  k \in T
  <2>1. PICK f : Is(f, k - 1)
    BY <1>2
  <2> DEFINE g == [i \in 0 .. k |-> IF i = k THEN G[<<k, f[k - 1]>>] ELSE f[i]]
  <2>2. k - 1 \in 0 .. k - 1 /\ f[k - 1] \in S
    BY <2>1
  <2>3. g \in [0 .. k -> S]
    <3>1. G[<<k, f[k - 1]>>] \in S
      BY <2>2
    <3>2. \A i \in 0 .. k : i # k => f[i] \in S
      BY <2>1
    <3>3. QED
      BY <3>1, <3>2
  <2>4. g[0] = b
    BY <2>1
  <2>5. ASSUME NEW i \in 1 .. k
        PROVE  g[i] = G[<<i, g[i - 1]>>]
    <3>1. i - 1 \in 0 .. k /\ i - 1 # k /\ g[i - 1] = f[i - 1]
      OBVIOUS
    <3>2. CASE i = k
      BY <3>1, <3>2
    <3>3. CASE i # k
      <4>1. i \in 1 .. k - 1 /\ g[i] = f[i]
        BY <3>3
      <4>2. QED
        BY <2>1, <3>1, <4>1
    <3>4. QED
      BY <3>2, <3>3
  <2> HIDE DEF g
  <2>6. Is(g, k)
    BY <2>3, <2>4, <2>5
  <2>7. QED
    BY <2>6
<1> HIDE DEF T
<1>3. m \in T
  <2>1. 0 .. m \subseteq T
    BY <1>1, <1>2, InductTo
  <2>2. QED
    BY <2>1
<1>4. QED
  BY <1>3 DEF T, Runs
=============================================================================
