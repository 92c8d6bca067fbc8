----------------------------- MODULE EnvProofs ------------------------------
(***************************************************************************)
(* Proofs about the environment and its copy in flash, for every set of    *)
(* names, variables and values, every number of slots and size of the      *)
(* sector, and every way the power can fail.                               *)
(***************************************************************************)
EXTENDS Env, TLAPS, SequenceTheorems, FiniteSetTheorems, Induction

Slot     == Pair \cup {Free}
OneSlot(e) == \A i, j \in Slots : e[i].name # "" /\ e[j].name # ""
                                  /\ Var[e[i].name] = Var[e[j].name] => i = j
Memory   == {e \in [Slots -> Slot] : OneSlot(e)}
Sound    == {nv \in Sector : Len(nv.ents) <= Room /\ Distinct(nv.ents)}
Set      == [env : Memory, top : Value, ok : BOOLEAN]
Stored   == [nv : Sound, inv : BOOLEAN, ret : {0, 1}, way : SUBSET Sound]
Both     == [env : Memory, top : Value, nv : Sound, inv : BOOLEAN, ret : {0, 1},
             way : SUBSET Sound]

-----------------------------------------------------------------------------
(* The copy in memory.                                                     *)

LEMMA FirstIs ==
  ASSUME NEW S, S \subseteq Nat, S # {}
  PROVE  First(S) \in S /\ \A j \in S : First(S) <= j
BY Least DEF First

LEMMA SlotFacts ==
  /\ Slots \subseteq Nat
  /\ Free.name = "" /\ Free.value = NoVal /\ Free \notin Pair
  /\ \A s \in Slot : s.name # "" => s \in Pair
  /\ \A s \in Slot : s.name = "" => s = Free
  /\ \A n \in Name, v \in Value :
       [name |-> n, value |-> v] \in Pair /\ [name |-> n, value |-> v].name # ""
<1>1. "" \notin Name
  BY EnvAssumption
<1>2. Slots \subseteq Nat
  <2>1. NVAR \in Nat
    BY Zenon, EnvAssumption
  <2>2. QED
    BY <2>1 DEF Slots
<1>3. Free.name = "" /\ Free.value = NoVal /\ Free \notin Pair
  BY <1>1 DEF Pair, Free
<1>4. \A p \in Pair : p.name # ""
  BY <1>1 DEF Pair
<1>5. \A n \in Name, v \in Value :
        [name |-> n, value |-> v] \in Pair /\ [name |-> n, value |-> v].name # ""
  BY <1>1 DEF Pair
<1>6. QED
  BY <1>2, <1>3, <1>4, <1>5 DEF Slot

LEMMA VarFacts ==
  /\ \A n \in Name : Var[n] \in Vars /\ Var[n] \in Name /\ Var[Var[n]] = Var[n]
  /\ \A v \in Vars : v \in Name /\ Var[v] = v
  /\ StdVars \subseteq Vars /\ Vars \subseteq Name
  /\ \A i \in 1 .. Len(Std) : Std[i] \in StdVars
  /\ Len(Std) \in Nat
<1>1. \A n \in Name : Var[n] \in Vars /\ Var[n] \in Name /\ Var[Var[n]] = Var[n]
  BY EnvAssumption DEF Vars
<1>2. \A v \in Vars : v \in Name /\ Var[v] = v
  BY <1>1 DEF Vars
<1>3. Std \in Seq(Vars)
  BY EnvAssumption
<1>4. \A i \in 1 .. Len(Std) : Std[i] \in Vars
  BY <1>3
<1>5. QED
  BY <1>1, <1>2, <1>3, <1>4 DEF StdVars

(* The slots a name matches are those of its variable, at most one.        *)
LEMMA MatchFacts ==
  ASSUME NEW e \in Memory, NEW name \in Name
  PROVE  /\ Matches(e, name) \subseteq Slots
         /\ Matches(e, name) # {} =>
              First(Matches(e, name)) \in Slots /\ e[First(Matches(e, name))] \in Pair
         /\ getenv(e, name) = NoVal <=> Matches(e, name) = {}
         /\ \A i \in Matches(e, name) : getenv(e, name) = e[i].value
<1>1. Matches(e, name) \subseteq Slots
  BY DEF Matches
<1>2. ASSUME Matches(e, name) # {}
      PROVE  /\ First(Matches(e, name)) \in Matches(e, name)
             /\ First(Matches(e, name)) \in Slots /\ e[First(Matches(e, name))] \in Pair
  <2>1. First(Matches(e, name)) \in Matches(e, name)
    BY <1>1, <1>2, FirstIs, SlotFacts
  <2>2. QED
    BY <2>1, SlotFacts DEF Matches, Memory
<1>3. \A i, j \in Matches(e, name) : i = j
  BY DEF Matches, Memory, OneSlot
<1>4. \A p \in Pair : p.value # NoVal
  BY EnvAssumption DEF Pair
<1>5. getenv(e, name) = NoVal <=> Matches(e, name) = {}
  BY <1>2, <1>4 DEF getenv
<1>6. \A i \in Matches(e, name) : getenv(e, name) = e[i].value
  BY <1>2, <1>3 DEF getenv
<1>7. QED
  BY <1>1, <1>2, <1>5, <1>6

Full(e) == \A i \in Slots : e[i].name # ""

(* A pair put into a slot that no other slot shares the variable with.     *)
LEMMA PutFacts ==
  ASSUME NEW e \in Memory, NEW k \in Slots, NEW p \in Pair,
         e[k].name = "" \/ Var[e[k].name] = Var[p.name],
         \A i \in Matches(e, p.name) : i = k
  PROVE  LET e2 == [e EXCEPT ![k] = p]
         IN  /\ e2 \in Memory
             /\ Matches(e2, p.name) = {k}
             /\ getenv(e2, p.name) = p.value
             /\ \A n \in Name : Var[n] # Var[p.name] => getenv(e2, n) = getenv(e, n)
             /\ Full(e) => Full(e2)
<1> DEFINE e2 == [e EXCEPT ![k] = p]
<1>1. p.name # "" /\ p.name \in Name /\ p \in Slot
  BY SlotFacts DEF Slot, Pair
<1>2. e2 \in [Slots -> Slot] /\ e2[k] = p /\ \A i \in Slots \ {k} : e2[i] = e[i]
  BY <1>1 DEF Memory
<1> HIDE DEF e2
<1>3. \A i \in Slots \ {k} : e[i].name # "" => Var[e[i].name] # Var[p.name]
  BY DEF Matches
<1>4. OneSlot(e2)
  <2>1. SUFFICES ASSUME NEW i \in Slots, NEW j \in Slots, e2[i].name # "", e2[j].name # "",
                        Var[e2[i].name] = Var[e2[j].name], i # j
                 PROVE  FALSE
    BY DEF OneSlot
  <2>2. CASE i = k \/ j = k
    BY <1>2, <1>3, <2>1, <2>2
  <2>3. CASE i # k /\ j # k
    <3>1. e2[i] = e[i] /\ e2[j] = e[j]
      BY <1>2, <2>1, <2>3
    <3>2. OneSlot(e)
      BY DEF Memory
    <3>3. QED
      BY <2>1, <3>1, <3>2 DEF OneSlot
  <2>4. QED
    BY <2>2, <2>3
<1>5. e2 \in Memory
  BY <1>2, <1>4 DEF Memory
<1>6. Matches(e2, p.name) = {k}
  <2>1. \A i \in Slots \ {k} : ~(e2[i].name # "" /\ Var[e2[i].name] = Var[p.name])
    BY <1>2, <1>3
  <2>2. e2[k].name # "" /\ Var[e2[k].name] = Var[p.name]
    BY <1>1, <1>2
  <2>3. QED
    BY <2>1, <2>2 DEF Matches
<1>7. getenv(e2, p.name) = p.value
  <2>1. k \in Matches(e2, p.name)
    BY <1>6
  <2>2. QED
    BY <1>1, <1>2, <1>5, <2>1, MatchFacts
<1>8. ASSUME NEW n \in Name, Var[n] # Var[p.name]
      PROVE  getenv(e2, n) = getenv(e, n)
  <2>1. Matches(e2, n) = Matches(e, n)
    <3>1. \A i \in Slots \ {k} : e2[i].name = e[i].name
      BY <1>2
    <3>2. ~(e2[k].name # "" /\ Var[e2[k].name] = Var[n])
      BY <1>2, <1>8
    <3>3. ~(e[k].name # "" /\ Var[e[k].name] = Var[n])
      BY <1>8
    <3>4. QED
      BY <3>1, <3>2, <3>3 DEF Matches
  <2>2. k \notin Matches(e, n)
    BY <1>8 DEF Matches
  <2>3. CASE Matches(e, n) = {}
    BY <2>1, <2>3 DEF getenv
  <2>4. CASE Matches(e, n) # {}
    <3>1. PICK i \in Matches(e, n) : TRUE
      BY <2>4
    <3>2. i \in Slots \ {k}
      BY <2>2, <3>1, MatchFacts
    <3>3. getenv(e2, n) = e2[i].value /\ getenv(e, n) = e[i].value
      BY <1>5, <2>1, <3>1, MatchFacts
    <3>4. QED
      BY <1>2, <3>2, <3>3
  <2>5. QED
    BY <2>3, <2>4
<1>9. Full(e) => Full(e2)
  BY <1>1, <1>2 DEF Full
<1>10. QED
  BY <1>5, <1>6, <1>7, <1>8, <1>9 DEF e2

(* _setenv fails if the value is refused or there is no slot; else the     *)
(* variable has the value.  No other changes.                              *)
LEMMA SetFacts ==
  ASSUME NEW e \in Memory, NEW h \in Value, NEW name \in Name, NEW value \in Value,
         NEW b \in BOOLEAN
  PROVE  LET s == _setenv(e, h, name, value, b)
         IN  /\ s \in Set
             /\ ~s.ok <=> \/ Refused(h, name, value, b)
                          \/ getenv(e, name) = NoVal /\ Full(e)
             /\ ~s.ok => s.env = e
             /\ s.ok => getenv(s.env, name) = value
             /\ \A n \in Name : Var[n] # Var[name] => getenv(s.env, n) = getenv(e, n)
             /\ Full(e) => Full(s.env)
             /\ Var[name] # Heaptop => s.top = h
             /\ ~b /\ Refused(h, name, value, b) => s.top = h
<1> DEFINE s == _setenv(e, h, name, value, b)
           match == Matches(e, name)
           free == {i \in Slots : e[i].name = ""}
           h1 == IF Var[name] = Heaptop /\ value >= h THEN value ELSE h
           k == First(match)
           j == First(free)
           p == [name |-> e[k].name, value |-> value]
           r == [name |-> name, value |-> value]
<1>1. s = IF Refused(h, name, value, b) THEN [env |-> e, top |-> h1, ok |-> FALSE]
          ELSE IF match # {}
            THEN [env |-> [e EXCEPT ![k].value = value], top |-> h1, ok |-> TRUE]
          ELSE IF free # {}
            THEN [env |-> [e EXCEPT ![j] = r], top |-> h1, ok |-> TRUE]
          ELSE [env |-> e, top |-> h1, ok |-> FALSE]
  BY DEF _setenv
<1>2. h1 \in Value /\ (Var[name] # Heaptop => h1 = h)
  OBVIOUS
<1>3. ~b /\ Refused(h, name, value, b) => h1 = h
  <2>1. value \in Nat /\ h \in Nat
    BY Zenon, EnvAssumption
  <2>2. QED
    BY <2>1 DEF Refused
<1>4. free = {} <=> Full(e)
  BY DEF Full
<1>5. match = {} <=> getenv(e, name) = NoVal
  BY MatchFacts
<1>6. ASSUME match # {}
      PROVE  /\ k \in Slots /\ p \in Pair
             /\ [e EXCEPT ![k].value = value] = [e EXCEPT ![k] = p]
             /\ Var[e[k].name] = Var[p.name] /\ Var[p.name] = Var[name]
             /\ \A i \in Matches(e, p.name) : i = k
  <2>1. k \in match /\ k \in Slots /\ e[k] \in Pair
    BY <1>6, MatchFacts, FirstIs, SlotFacts
  <2>2. p \in Pair /\ Var[p.name] = Var[name]
    BY <2>1 DEF Pair, Matches
  <2>3. [e[k] EXCEPT !.value = value] = p
    BY <2>1 DEF Pair
  <2>4. \A i \in Matches(e, p.name) : i = k
    BY <2>1, <2>2 DEF Matches, Memory, OneSlot
  <2>5. QED
    BY <2>1, <2>2, <2>3, <2>4
<1>7. ASSUME match = {}, free # {}
      PROVE  /\ j \in Slots /\ r \in Pair /\ e[j].name = ""
             /\ \A i \in Matches(e, r.name) : i = j
  <2>1. j \in free
    BY <1>7, FirstIs, SlotFacts
  <2>2. QED
    BY <1>7, <2>1, SlotFacts
<1>8. CASE Refused(h, name, value, b)
  <2>1. s = [env |-> e, top |-> h1, ok |-> FALSE]
    BY <1>1, <1>8
  <2> HIDE DEF s, h1
  <2>2. QED
    BY <1>2, <1>3, <1>8, <2>1 DEF Set, s
<1>9. CASE ~Refused(h, name, value, b) /\ match # {}
  <2> DEFINE e2 == [e EXCEPT ![k] = p]
  <2>1. s = [env |-> e2, top |-> h1, ok |-> TRUE]
    BY <1>1, <1>6, <1>9
  <2>2. /\ e2 \in Memory /\ getenv(e2, p.name) = p.value
        /\ \A n \in Name : Var[n] # Var[p.name] => getenv(e2, n) = getenv(e, n)
        /\ Full(e) => Full(e2)
    BY <1>6, <1>9, PutFacts
  <2>3. Matches(e2, p.name) = Matches(e2, name) /\ p.value = value
    BY <1>6, <1>9 DEF Matches
  <2>4. getenv(e2, name) = value
    BY <2>2, <2>3 DEF getenv
  <2> HIDE DEF s, h1, e2, match, p, k
  <2>5. QED
    BY <1>2, <1>5, <1>6, <1>9, <2>1, <2>2, <2>4 DEF Set, s
<1>10. CASE ~Refused(h, name, value, b) /\ match = {} /\ free # {}
  <2> DEFINE e2 == [e EXCEPT ![j] = r]
  <2>1. s = [env |-> e2, top |-> h1, ok |-> TRUE]
    BY <1>1, <1>10
  <2>2. /\ e2 \in Memory /\ getenv(e2, r.name) = r.value
        /\ \A n \in Name : Var[n] # Var[r.name] => getenv(e2, n) = getenv(e, n)
        /\ Full(e) => Full(e2)
    BY <1>7, <1>10, PutFacts
  <2>3. r.name = name /\ r.value = value
    OBVIOUS
  <2> HIDE DEF s, h1, e2, match, free, r, j
  <2>4. QED
    BY <1>2, <1>4, <1>10, <2>1, <2>2, <2>3 DEF Set, s
<1>11. CASE ~Refused(h, name, value, b) /\ match = {} /\ free = {}
  <2>1. s = [env |-> e, top |-> h1, ok |-> FALSE]
    BY <1>1, <1>11
  <2> HIDE DEF s, h1, match, free
  <2>2. QED
    BY <1>2, <1>4, <1>5, <1>11, <2>1 DEF Set, s
<1>12. QED
  BY <1>8, <1>9, <1>10, <1>11

-----------------------------------------------------------------------------
(* The copy in flash.                                                      *)

Cut(q, i) == SubSeq(q, 1, i - 1) \o SubSeq(q, i + 1, Len(q))

LEMMA CutFacts ==
  ASSUME NEW S, NEW q \in Seq(S), NEW i \in 1 .. Len(q)
  PROVE  /\ Cut(q, i) \in Seq(S) /\ Len(Cut(q, i)) = Len(q) - 1
         /\ \A j \in 1 .. Len(q) - 1 : Cut(q, i)[j] = IF j < i THEN q[j] ELSE q[j + 1]
<1> DEFINE a == SubSeq(q, 1, i - 1)
           b == SubSeq(q, i + 1, Len(q))
<1>1. Len(q) \in Nat
  OBVIOUS
<1>2. a \in Seq(S) /\ Len(a) = i - 1 /\ \A j \in 1 .. i - 1 : a[j] = q[j]
  BY <1>1, SubSeqProperties
<1>3. b \in Seq(S) /\ Len(b) = Len(q) - i /\ \A j \in 1 .. Len(q) - i : b[j] = q[i + j]
  <2>1. i + 1 \in 1 .. Len(q) + 1 /\ Len(q) \in i .. Len(q)
    BY <1>1
  <2>2. b \in Seq(S) /\ Len(b) = Len(q) - i
    BY <1>1, <2>1, SubSeqProperties
  <2>3. ASSUME NEW j \in 1 .. Len(q) - i
        PROVE  b[j] = q[i + j]
    <3>1. (i + 1) + j - 1 = i + j
      BY <1>1
    <3>2. b[j] = q[(i + 1) + j - 1]
      BY <1>1, <2>1, <2>2, SubSeqProperties
    <3>3. QED
      BY <3>1, <3>2
  <2>4. QED
    BY <2>2, <2>3
<1> HIDE DEF a, b
<1>4. Cut(q, i) = a \o b
  BY DEF Cut, a, b
<1>5. a \o b \in Seq(S) /\ Len(a \o b) = Len(q) - 1
  <2>1. a \o b \in Seq(S) /\ Len(a \o b) = Len(a) + Len(b)
    BY <1>2, <1>3, ConcatProperties
  <2>2. QED
    BY <1>1, <1>2, <1>3, <2>1
<1>6. ASSUME NEW j \in 1 .. Len(q) - 1
      PROVE  (a \o b)[j] = IF j < i THEN q[j] ELSE q[j + 1]
  <2>1. CASE j < i
    BY <1>1, <1>2, <1>3, <2>1
  <2>2. CASE ~(j < i)
    <3>1. (a \o b)[j] = b[j - Len(a)]
      BY <1>1, <1>2, <1>3, <2>2
    <3>2. j - (i - 1) \in 1 .. Len(q) - i /\ i + (j - (i - 1)) = j + 1
      BY <1>1, <2>2
    <3>3. QED
      BY <1>2, <1>3, <2>2, <3>1, <3>2
  <2>3. QED
    BY <2>1, <2>2
<1>7. QED
  BY <1>4, <1>5, <1>6

(* An entry too few leaves the others as they were.                        *)
LEMMA CutDistinct ==
  ASSUME NEW q \in Seq(Pair), Distinct(q), NEW i \in 1 .. Len(q)
  PROVE  /\ Distinct(Cut(q, i))
         /\ \A j \in 1 .. Len(Cut(q, i)) : Cut(q, i)[j].name # q[i].name
         /\ \A j \in 1 .. Len(Cut(q, i)) : \E k \in 1 .. Len(q) : Cut(q, i)[j] = q[k]
<1> DEFINE c == Cut(q, i)
           At(j) == IF j < i THEN j ELSE j + 1
<1>1. Len(q) \in Nat /\ Len(c) = Len(q) - 1
  BY CutFacts
<1>2. ASSUME NEW j \in 1 .. Len(c)
      PROVE  c[j] = q[At(j)] /\ At(j) \in 1 .. Len(q) /\ At(j) # i
  <2>1. j \in 1 .. Len(q) - 1
    BY <1>1
  <2>2. c[j] = IF j < i THEN q[j] ELSE q[j + 1]
    BY <2>1, CutFacts
  <2> HIDE DEF c
  <2>3. QED
    BY <1>1, <2>1, <2>2
<1>3. \A j, k \in 1 .. Len(c) : At(j) = At(k) => j = k
  BY <1>1
<1> HIDE DEF c, At
<1>4. Distinct(c)
  BY <1>2, <1>3 DEF Distinct
<1>5. \A j \in 1 .. Len(c) : c[j].name # q[i].name
  BY <1>2 DEF Distinct
<1>6. QED
  BY <1>2, <1>4, <1>5 DEF c

(* Written(nv, name): no entry of the sector has that name.                *)
NoEntry(nv, name) == \A i \in 1 .. Len(nv.ents) : nv.ents[i].name # name
Within(nv, old) == \A i \in 1 .. Len(nv.ents) :
                     \E k \in 1 .. Len(old.ents) : nv.ents[i] = old.ents[k]

LEMMA SoundFacts ==
  /\ Erased \in Sound /\ Entries(<<>>) \in Sound
  /\ \A q \in Seq(Pair) : Len(q) <= Room /\ Distinct(q) => Entries(q) \in Sound
  /\ \A nv \in Sound : /\ nv.ents \in Seq(Pair) /\ Len(nv.ents) \in Nat
                       /\ Len(nv.ents) <= Room /\ Distinct(nv.ents)
                       /\ nv.ok \in BOOLEAN /\ nv.cut \in BOOLEAN
                       /\ \A i \in 1 .. Len(nv.ents) : nv.ents[i] \in Pair
                                                      /\ nv.ents[i].name \in Name
                                                      /\ nv.ents[i].value \in Value
<1>1. Room \in Nat
  BY Zenon, EnvAssumption
<1>2. <<>> \in Seq(Pair) /\ Len(<<>>) = 0 /\ Distinct(<<>>)
  BY DEF Distinct
<1>3. \A q \in Seq(Pair) : Len(q) <= Room /\ Distinct(q) => Entries(q) \in Sound
  BY DEF Entries, Sound, Sector
<1>4. Entries(<<>>) \in Sound /\ Erased \in Sound
  BY <1>1, <1>2 DEF Entries, Sound, Sector, Erased
<1>5. \A nv \in Sound : /\ nv.ents \in Seq(Pair) /\ Len(nv.ents) \in Nat
                        /\ Len(nv.ents) <= Room /\ Distinct(nv.ents)
                        /\ nv.ok \in BOOLEAN /\ nv.cut \in BOOLEAN
                        /\ \A i \in 1 .. Len(nv.ents) : nv.ents[i] \in Pair
  BY DEF Sound, Sector
<1>6. \A p \in Pair : p.name \in Name /\ p.value \in Value
  BY DEF Pair
<1>7. QED
  BY <1>3, <1>4, <1>5, <1>6

LEMMA SameFacts ==
  ASSUME NEW nv \in Sound, NEW inv \in BOOLEAN, NEW r \in {0, 1}
  PROVE  Same(nv, inv, r) \in Stored
BY DEF Same, Stored

(* tgt_unsetenv removes the entry of that name, unless it must not write.  *)
LEMMA UnsetFacts ==
  ASSUME NEW nv \in Sound, NEW inv \in BOOLEAN, NEW name \in Name
  PROVE  LET f == tgt_unsetenv(nv, inv, name)
         IN  /\ f \in Stored /\ f.inv = inv
             /\ inv \/ NoEntry(nv, name) => f.nv = nv
             /\ ~inv => NoEntry(f.nv, name)
             /\ ~inv /\ ~NoEntry(nv, name) =>
                  \E i \in 1 .. Len(nv.ents) :
                    nv.ents[i].name = name /\ f.nv = Entries(Cut(nv.ents, i))
             /\ Within(f.nv, nv)
             /\ Len(f.nv.ents) <= Len(nv.ents)
             /\ ~inv /\ ~nv.cut => ~f.nv.cut
             /\ \A s \in f.way : s = Erased \/ s = nv \/ s = f.nv
<1> DEFINE f == tgt_unsetenv(nv, inv, name)
           hit == {i \in 1 .. Len(nv.ents) : nv.ents[i].name = name}
           i == First(hit)
           rest == Entries(Cut(nv.ents, i))
<1>1. f = IF inv \/ hit = {} THEN Same(nv, inv, 0)
          ELSE [nv |-> rest, inv |-> inv, ret |-> 1, way |-> {nv, Erased, rest}]
  BY DEF tgt_unsetenv, Cut
<1>2. hit = {} <=> NoEntry(nv, name)
  BY DEF NoEntry
<1>3. CASE inv \/ hit = {}
  <2>1. f = Same(nv, inv, 0)
    BY <1>1, <1>3
  <2>2. Within(nv, nv)
    BY DEF Within
  <2>3. f \in Stored /\ f.inv = inv /\ f.nv = nv /\ f.way = {nv}
    <3>1. Same(nv, inv, 0) \in Stored
      BY SameFacts
    <3>2. Same(nv, inv, 0).inv = inv /\ Same(nv, inv, 0).nv = nv /\ Same(nv, inv, 0).way = {nv}
      BY DEF Same
    <3> HIDE DEF f
    <3>3. QED
      BY <2>1, <3>1, <3>2
  <2>4. Len(nv.ents) <= Len(nv.ents)
    BY SoundFacts
  <2> HIDE DEF f, hit
  <2>5. QED
    BY <1>2, <1>3, <2>2, <2>3, <2>4 DEF f
<1>4. CASE ~inv /\ hit # {}
  <2>1. i \in 1 .. Len(nv.ents) /\ nv.ents[i].name = name
    <3>1. hit \subseteq Nat
      OBVIOUS
    <3>2. i \in hit
      BY <1>4, <3>1, FirstIs
    <3>3. QED
      BY <3>2
  <2>2. f = [nv |-> rest, inv |-> inv, ret |-> 1, way |-> {nv, Erased, rest}]
    BY <1>1, <1>4
  <2> HIDE DEF i
  <2>3. nv.ents \in Seq(Pair) /\ Distinct(nv.ents) /\ Len(nv.ents) \in Nat
        /\ Len(nv.ents) <= Room /\ Room \in Nat
    <3>1. Room \in Nat
      BY Zenon, EnvAssumption
    <3>2. QED
      BY <3>1, SoundFacts
  <2>4. Cut(nv.ents, i) \in Seq(Pair) /\ Len(Cut(nv.ents, i)) = Len(nv.ents) - 1
    BY <2>1, <2>3, CutFacts
  <2>5. /\ Distinct(Cut(nv.ents, i))
        /\ \A j \in 1 .. Len(Cut(nv.ents, i)) : Cut(nv.ents, i)[j].name # nv.ents[i].name
        /\ \A j \in 1 .. Len(Cut(nv.ents, i)) :
             \E k \in 1 .. Len(nv.ents) : Cut(nv.ents, i)[j] = nv.ents[k]
    BY <2>1, <2>3, CutDistinct
  <2>6. rest \in Sound
    BY <2>3, <2>4, <2>5, SoundFacts
  <2>7. rest.ents = Cut(nv.ents, i) /\ ~rest.cut
    BY DEF Entries
  <2>8. NoEntry(rest, name) /\ Within(rest, nv) /\ Len(rest.ents) <= Len(nv.ents)
    <3>1. NoEntry(rest, name)
      BY <2>1, <2>5, <2>7 DEF NoEntry
    <3>2. Within(rest, nv)
      BY <2>5, <2>7 DEF Within
    <3>3. Len(rest.ents) <= Len(nv.ents)
      BY <2>3, <2>4, <2>7
    <3>4. QED
      BY <3>1, <3>2, <3>3
  <2>9. \E k \in 1 .. Len(nv.ents) : nv.ents[k].name = name /\ rest = Entries(Cut(nv.ents, k))
    BY <2>1
  <2> HIDE DEF rest
  <2>10. f \in Stored /\ f.inv = inv /\ f.nv = rest /\ f.way = {nv, Erased, rest}
    BY <2>2, <2>6, SoundFacts DEF Stored
  <2> HIDE DEF f, hit
  <2>11. QED
    BY <1>2, <1>4, <2>7, <2>8, <2>9, <2>10 DEF f
<1>5. QED
  BY <1>3, <1>4

(* The new entry does not share its name with the old ones.                *)
LEMMA AddedFacts ==
  ASSUME NEW q \in Seq(Pair), Distinct(q), NEW name \in Name, NEW value \in Value,
         \A i \in 1 .. Len(q) : q[i].name # name
  PROVE  LET r == Added(q, name, value)
         IN  /\ r \in Seq(Pair) /\ Len(r) = Len(q) + 1 /\ Distinct(r)
             /\ \A i \in 1 .. Len(r) : r[i].name = name \/ \E k \in 1 .. Len(q) : r[i] = q[k]
<1> DEFINE p == [name |-> name, value |-> value]
<1>1. p \in Pair /\ p.name = name
  BY DEF Pair
<1> HIDE DEF p
<1>2. Len(q) \in Nat
  OBVIOUS
<1>3. CASE name = Heaptop
  <2> DEFINE r == <<p>> \o q
  <2>1. <<p>> \in Seq(Pair) /\ Len(<<p>>) = 1 /\ <<p>>[1] = p
    BY <1>1
  <2>2. r \in Seq(Pair) /\ Len(r) = Len(q) + 1
        /\ \A i \in 1 .. Len(q) + 1 : r[i] = IF i <= 1 THEN p ELSE q[i - 1]
    <3>1. r \in Seq(Pair) /\ Len(r) = 1 + Len(q)
          /\ \A i \in 1 .. 1 + Len(q) : r[i] = IF i <= 1 THEN <<p>>[i] ELSE q[i - 1]
      BY <2>1, ConcatProperties
    <3>2. \A i \in 1 .. 1 + Len(q) : i <= 1 => i = 1
      OBVIOUS
    <3>3. 1 + Len(q) = Len(q) + 1
      BY <1>2
    <3> HIDE DEF r
    <3>4. QED
      BY <2>1, <3>1, <3>2, <3>3
  <2>3. Added(q, name, value) = r
    BY <1>3 DEF Added, p
  <2> HIDE DEF r
  <2>4. \A i \in 1 .. Len(r) : i = 1 \/ i - 1 \in 1 .. Len(q)
    BY <1>2, <2>2
  <2>5. \A i \in 1 .. Len(r) : r[i] = p \/ (i - 1 \in 1 .. Len(q) /\ r[i] = q[i - 1])
    BY <1>2, <2>2
  <2>6. \A i \in 1 .. Len(r) : r[i] = p => i = 1
    BY <1>1, <1>2, <2>2, <2>4
  <2>7. Distinct(r)
    <3>1. SUFFICES ASSUME NEW i \in 1 .. Len(r), NEW j \in 1 .. Len(r), r[i].name = r[j].name
                   PROVE  i = j
      BY DEF Distinct
    <3>2. CASE r[i] = p \/ r[j] = p
      BY <1>1, <2>5, <2>6, <3>1, <3>2
    <3>3. CASE r[i] # p /\ r[j] # p
      <4>1. i - 1 \in 1 .. Len(q) /\ j - 1 \in 1 .. Len(q) /\ q[i - 1].name = q[j - 1].name
        BY <2>5, <3>1, <3>3
      <4>2. i - 1 = j - 1
        BY <4>1 DEF Distinct
      <4>3. QED
        BY <2>2, <4>2
    <3>4. QED
      BY <3>2, <3>3
  <2>8. QED
    BY <1>1, <2>2, <2>3, <2>5, <2>7
<1>4. CASE name # Heaptop
  <2> DEFINE r == Append(q, p)
  <2>1. r \in Seq(Pair) /\ Len(r) = Len(q) + 1 /\ r[Len(q) + 1] = p
        /\ \A i \in 1 .. Len(q) : r[i] = q[i]
    BY <1>1, AppendProperties
  <2>2. Added(q, name, value) = r
    BY <1>4 DEF Added, p
  <2> HIDE DEF r
  <2>3. \A i \in 1 .. Len(r) : i = Len(q) + 1 \/ i \in 1 .. Len(q)
    BY <1>2, <2>1
  <2>4. Distinct(r)
    BY <1>1, <2>1, <2>3 DEF Distinct
  <2>5. QED
    BY <1>1, <2>1, <2>2, <2>3, <2>4
<1>5. QED
  BY <1>3, <1>4

(* Its beginning, when the sector is full.                                 *)
LEMMA PrefixFacts ==
  ASSUME NEW q \in Seq(Pair), Distinct(q), NEW m \in Nat, m <= Len(q)
  PROVE  LET r == SubSeq(q, 1, m)
         IN  /\ r \in Seq(Pair) /\ Len(r) = m /\ Distinct(r)
             /\ \A i \in 1 .. Len(r) : i \in 1 .. Len(q) /\ r[i] = q[i]
<1> DEFINE r == SubSeq(q, 1, m)
<1>1. \A i \in 1 .. m : i \in 1 .. Len(q) /\ q[i] \in Pair
  OBVIOUS
<1>2. r \in Seq(Pair) /\ Len(r) = m
  BY <1>1, SubSeqProperties
<1>3. \A i \in 1 .. m : r[i] = q[i]
  <2>1. \A i \in 1 .. m - 1 + 1 : r[i] = q[1 + i - 1]
    BY <1>1, SubSeqProperties
  <2>2. \A i \in 1 .. m : i \in 1 .. m - 1 + 1 /\ 1 + i - 1 = i
    OBVIOUS
  <2> HIDE DEF r
  <2>3. QED
    BY <2>1, <2>2
<1> HIDE DEF r
<1>4. Distinct(r)
  BY <1>1, <1>2, <1>3 DEF Distinct
<1>5. QED
  BY <1>1, <1>2, <1>3, <1>4 DEF r

(* Whatever else the sector holds was there before.                        *)
Derived(nv, old, name) == \A i \in 1 .. Len(nv.ents) :
                            \/ nv.ents[i].name = name
                            \/ \E k \in 1 .. Len(old.ents) : nv.ents[i] = old.ents[k]

LEMMA DerivedFacts ==
  ASSUME NEW nv, NEW old, NEW name
  PROVE  /\ Within(nv, old) => Derived(nv, old, name)
         /\ Derived(old, old, name) /\ Derived(Erased, old, name)
         /\ Derived(Entries(<<>>), old, name)
BY DEF Within, Derived, Erased, Entries

(* tgt_setenv leaves at most one entry of that name, and none is lost but  *)
(* at the end.                                                             *)
LEMMA StoreFacts ==
  ASSUME NEW nv \in Sound, NEW inv \in BOOLEAN, NEW name \in Name, NEW value \in Value
  PROVE  LET f == tgt_setenv(nv, inv, name, value)
         IN  /\ f \in Stored
             /\ \A s \in f.way : Derived(s, nv, name)
             /\ Derived(f.nv, nv, name)
<1> DEFINE f    == tgt_setenv(nv, inv, name, value)
           nv0  == IF inv THEN Entries(<<>>) ELSE nv
           uns  == tgt_unsetenv(nv0, FALSE, name)
           ents == Added(uns.nv.ents, name, value)
           cut  == [ok |-> TRUE, cut |-> TRUE, ents |-> SubSeq(ents, 1, Room)]
           new  == IF Len(ents) <= Room THEN Entries(ents) ELSE cut
<1>1. f = IF name = Expert THEN Same(nv, inv, 1)
          ELSE IF value \in Long THEN Same(nv, inv, 0)
          ELSE [nv |-> new, inv |-> FALSE, ret |-> 1,
                way |-> {nv, Erased, nv0, new} \cup uns.way]
  BY DEF tgt_setenv
<1>2. Room \in Nat
  BY Zenon, EnvAssumption
<1>3. nv0 \in Sound /\ Within(nv0, nv)
  BY SoundFacts DEF Within, Entries
<1> HIDE DEF nv0
<1>4. /\ uns \in Stored /\ uns.nv \in Sound /\ NoEntry(uns.nv, name) /\ Within(uns.nv, nv0)
      /\ uns.way \subseteq Sound
      /\ \A s \in uns.way : s = Erased \/ s = nv0 \/ s = uns.nv
  <2>1. /\ uns \in Stored /\ NoEntry(uns.nv, name) /\ Within(uns.nv, nv0)
        /\ \A s \in uns.way : s = Erased \/ s = nv0 \/ s = uns.nv
    BY <1>3, UnsetFacts
  <2>2. \A u \in Stored : u.nv \in Sound /\ u.way \subseteq Sound
    BY DEF Stored
  <2> HIDE DEF uns
  <2>3. QED
    BY <2>1, <2>2
<1> HIDE DEF uns
<1>5. Within(uns.nv, nv)
  BY <1>3, <1>4 DEF Within
<1>6. uns.nv.ents \in Seq(Pair) /\ Distinct(uns.nv.ents) /\ Len(uns.nv.ents) \in Nat
  BY <1>4, SoundFacts
<1>7. /\ ents \in Seq(Pair) /\ Len(ents) = Len(uns.nv.ents) + 1 /\ Distinct(ents)
      /\ \A i \in 1 .. Len(ents) :
           ents[i].name = name \/ \E k \in 1 .. Len(uns.nv.ents) : ents[i] = uns.nv.ents[k]
  BY <1>4, <1>6, AddedFacts DEF NoEntry
<1> HIDE DEF ents
<1>8. \A i \in 1 .. Len(ents) :
        ents[i].name = name \/ \E k \in 1 .. Len(nv.ents) : ents[i] = nv.ents[k]
  BY <1>5, <1>7 DEF Within
<1>9. new \in Sound /\ Derived(new, nv, name)
  <2>1. CASE Len(ents) <= Room
    <3>1. new = Entries(ents) /\ Entries(ents).ents = ents
      BY <2>1 DEF Entries
    <3>2. QED
      BY <1>7, <1>8, <2>1, <3>1, SoundFacts DEF Derived
  <2>2. CASE ~(Len(ents) <= Room)
    <3> DEFINE r == SubSeq(ents, 1, Room)
    <3>1. /\ r \in Seq(Pair) /\ Len(r) = Room /\ Distinct(r)
          /\ \A i \in 1 .. Len(r) : i \in 1 .. Len(ents) /\ r[i] = ents[i]
      <4>1. Room <= Len(ents)
        BY <1>2, <1>6, <1>7, <2>2
      <4>2. QED
        BY <1>2, <1>7, <4>1, PrefixFacts
    <3>2. new = [ok |-> TRUE, cut |-> TRUE, ents |-> r]
      BY <2>2
    <3> HIDE DEF r
    <3>3. [ok |-> TRUE, cut |-> TRUE, ents |-> r] \in Sound
      BY <1>2, <3>1 DEF Sound, Sector
    <3>4. Derived([ok |-> TRUE, cut |-> TRUE, ents |-> r], nv, name)
      BY <1>8, <3>1 DEF Derived
    <3>5. QED
      BY <3>2, <3>3, <3>4
  <2>3. QED
    BY <2>1, <2>2
<1> HIDE DEF new
<1>10. CASE name = Expert \/ value \in Long
  <2>1. \A r \in {0, 1} : Same(nv, inv, r) \in Stored /\ Same(nv, inv, r).nv = nv
                          /\ Same(nv, inv, r).way = {nv}
    BY SameFacts DEF Same
  <2>2. f = Same(nv, inv, 1) \/ f = Same(nv, inv, 0)
    BY <1>1, <1>10
  <2> HIDE DEF f
  <2>3. QED
    BY <2>1, <2>2, DerivedFacts DEF f
<1>11. CASE name # Expert /\ value \notin Long
  <2>1. f = [nv |-> new, inv |-> FALSE, ret |-> 1,
             way |-> {nv, Erased, nv0, new} \cup uns.way]
    BY <1>1, <1>11
  <2>2. {nv, Erased, nv0, new} \cup uns.way \subseteq Sound
    BY <1>3, <1>4, <1>9, SoundFacts
  <2>3. \A s \in {nv, Erased, nv0, new} \cup uns.way : Derived(s, nv, name)
    BY <1>3, <1>4, <1>5, <1>9, DerivedFacts
  <2> HIDE DEF f
  <2>4. f \in Stored /\ f.way = {nv, Erased, nv0, new} \cup uns.way /\ f.nv = new
    BY <1>9, <2>1, <2>2 DEF Stored
  <2>5. QED
    BY <1>9, <2>3, <2>4 DEF f
<1>12. QED
  BY <1>10, <1>11

-----------------------------------------------------------------------------
(* Both copies.                                                            *)

LEMMA StateFacts ==
  ASSUME NEW e \in Memory, NEW h \in Value, NEW f \in Stored
  PROVE  LET s == State(e, h, f)
         IN  /\ s \in Both /\ s.env = e /\ s.top = h /\ s.nv = f.nv /\ s.inv = f.inv
             /\ s.ret = f.ret /\ s.way = f.way
BY DEF State, Both, Stored

LEMMA BothFacts ==
  ASSUME NEW s \in Both
  PROVE  /\ s.env \in Memory /\ s.top \in Value /\ s.nv \in Sound /\ s.inv \in BOOLEAN
         /\ s.ret \in {0, 1} /\ s.way \subseteq Sound
BY DEF Both

(* _setenv once envinit is done.                                           *)
Change(e, h, name, value) == _setenv(e, h, name, value, TRUE)
Barred(h, name, value) == Refused(h, name, value, TRUE)

LEMMA ChangeFacts ==
  ASSUME NEW e \in Memory, NEW h \in Value, NEW name \in Name, NEW value \in Value
  PROVE  LET s == Change(e, h, name, value)
         IN  /\ s \in Set /\ s.env \in Memory /\ s.top \in Value /\ s.ok \in BOOLEAN
             /\ ~s.ok <=> \/ Barred(h, name, value)
                          \/ getenv(e, name) = NoVal /\ Full(e)
             /\ ~s.ok => s.env = e
             /\ s.ok => getenv(s.env, name) = value
             /\ \A n \in Name : Var[n] # Var[name] => getenv(s.env, n) = getenv(e, n)
             /\ Full(e) => Full(s.env)
             /\ Var[name] # Heaptop => s.top = h
<1> DEFINE b == TRUE
           s == _setenv(e, h, name, value, b)
<1>1. b \in BOOLEAN
  OBVIOUS
<1> HIDE DEF b
<1>2. /\ s \in Set
      /\ ~s.ok <=> \/ Refused(h, name, value, b)
                   \/ getenv(e, name) = NoVal /\ Full(e)
      /\ ~s.ok => s.env = e
      /\ s.ok => getenv(s.env, name) = value
      /\ \A n \in Name : Var[n] # Var[name] => getenv(s.env, n) = getenv(e, n)
      /\ Full(e) => Full(s.env)
      /\ Var[name] # Heaptop => s.top = h
  BY <1>1, SetFacts
<1>3. s = Change(e, h, name, value) /\ (Refused(h, name, value, b) <=> Barred(h, name, value))
  BY DEF b, Change, Barred
<1> HIDE DEF s
<1>4. s.env \in Memory /\ s.top \in Value /\ s.ok \in BOOLEAN
  BY <1>2 DEF Set
<1>5. QED
  BY <1>2, <1>3, <1>4

LEMMA do_setenvFacts ==
  ASSUME NEW e \in Memory, NEW h \in Value, NEW nv \in Sound, NEW inv \in BOOLEAN,
         NEW name \in Name, NEW value \in Value, NEW temp \in BOOLEAN
  PROVE  LET s == Change(e, h, name, value)
             d == do_setenv(e, h, nv, inv, name, value, temp)
         IN  /\ d \in Both /\ d.env = s.env /\ d.top = s.top
             /\ \A w \in d.way : Derived(w, nv, name)
             /\ Derived(d.nv, nv, name)
             /\ ~s.ok => d.nv = nv /\ d.inv = inv /\ d.ret = 0 /\ d.way = {nv}
             /\ s.ok /\ IsDefault(name, value) =>
                  LET u == tgt_unsetenv(nv, inv, name)
                  IN  d.nv = u.nv /\ d.inv = inv /\ d.way = u.way
<1> DEFINE s == Change(e, h, name, value)
           d == do_setenv(e, h, nv, inv, name, value, temp)
           u == tgt_unsetenv(nv, inv, name)
           t == tgt_setenv(nv, inv, name, value)
<1>1. s.env \in Memory /\ s.top \in Value /\ s.ok \in BOOLEAN
  BY ChangeFacts
<1>2. u \in Stored /\ u.inv = inv /\ Derived(u.nv, nv, name)
      /\ \A w \in u.way : Derived(w, nv, name)
  <2>1. /\ u \in Stored /\ u.inv = inv /\ Within(u.nv, nv)
        /\ \A w \in u.way : w = Erased \/ w = nv \/ w = u.nv
    BY UnsetFacts
  <2> HIDE DEF u
  <2>2. QED
    BY <2>1, DerivedFacts
<1>3. t \in Stored /\ Derived(t.nv, nv, name) /\ \A w \in t.way : Derived(w, nv, name)
  BY StoreFacts
<1>4. \A r \in {0, 1} : LET x == Same(nv, inv, r)
                        IN  /\ x \in Stored /\ x.nv = nv /\ x.inv = inv /\ x.ret = r
                            /\ x.way = {nv} /\ Derived(x.nv, nv, name)
                            /\ \A w \in x.way : Derived(w, nv, name)
  BY SameFacts, DerivedFacts DEF Same
<1>5. d = State(s.env, s.top,
                CASE ~s.ok -> Same(nv, inv, 0)
                  [] s.ok /\ IsDefault(name, value) -> u
                  [] s.ok /\ ~IsDefault(name, value) /\ ~temp -> t
                  [] OTHER -> Same(nv, inv, 1))
  BY DEF do_setenv, Change
<1> HIDE DEF u, t, s
<1>6. CASE ~s.ok
  <2>1. d = State(s.env, s.top, Same(nv, inv, 0))
    BY <1>1, <1>5, <1>6
  <2> HIDE DEF d
  <2>2. QED
    <3>1. /\ d \in Both /\ d.env = s.env /\ d.top = s.top /\ d.nv = nv /\ d.inv = inv
          /\ d.ret = 0 /\ d.way = {nv}
      BY <1>1, <1>4, <2>1, StateFacts
    <3>2. QED
      BY <1>6, <3>1, DerivedFacts DEF s, d
<1>7. CASE s.ok /\ IsDefault(name, value)
  <2>1. d = State(s.env, s.top, u)
    BY <1>1, <1>5, <1>7
  <2> HIDE DEF d
  <2>2. /\ d \in Both /\ d.env = s.env /\ d.top = s.top /\ d.nv = u.nv /\ d.inv = u.inv
        /\ d.way = u.way
    BY <1>1, <1>2, <2>1, StateFacts
  <2>3. QED
    BY <1>2, <1>7, <2>2 DEF s, d, u
<1>8. CASE s.ok /\ ~IsDefault(name, value)
  <2>1. d = State(s.env, s.top, t) \/ d = State(s.env, s.top, Same(nv, inv, 1))
    BY <1>1, <1>5, <1>8
  <2> HIDE DEF d
  <2>2. CASE d = State(s.env, s.top, t)
    <3>1. /\ d \in Both /\ d.env = s.env /\ d.top = s.top /\ d.nv = t.nv /\ d.way = t.way
      BY <1>1, <1>3, <2>2, StateFacts
    <3>2. QED
      BY <1>3, <1>8, <3>1 DEF s, d
  <2>3. CASE d = State(s.env, s.top, Same(nv, inv, 1))
    <3>1. /\ d \in Both /\ d.env = s.env /\ d.top = s.top /\ d.nv = nv /\ d.way = {nv}
      BY <1>1, <1>4, <2>3, StateFacts
    <3>2. QED
      BY <1>8, <3>1, DerivedFacts DEF s, d
  <2>4. QED
    BY <2>1, <2>2, <2>3
<1>9. QED
  BY <1>1, <1>6, <1>7, <1>8

(* A slot may be emptied.                                                  *)
LEMMA EmptyFacts ==
  ASSUME NEW e \in Memory, NEW k \in Slots
  PROVE  LET e2 == [e EXCEPT ![k] = Free]
         IN  /\ e2 \in Memory
             /\ \A n \in Name : Var[n] # Var[e[k].name] \/ e[k].name = "" =>
                  getenv(e2, n) = getenv(e, n)
<1> DEFINE e2 == [e EXCEPT ![k] = Free]
<1>1. e2 \in [Slots -> Slot] /\ e2[k] = Free /\ \A i \in Slots \ {k} : e2[i] = e[i]
  BY DEF Memory, Slot
<1> HIDE DEF e2
<1>2. OneSlot(e2)
  <2>1. OneSlot(e)
    BY DEF Memory
  <2>2. \A i \in Slots : e2[i].name # "" => i # k /\ e2[i] = e[i]
    BY <1>1, SlotFacts
  <2>3. QED
    BY <2>1, <2>2 DEF OneSlot
<1>3. e2 \in Memory
  BY <1>1, <1>2 DEF Memory
<1>4. ASSUME NEW n \in Name, Var[n] # Var[e[k].name] \/ e[k].name = ""
      PROVE  getenv(e2, n) = getenv(e, n)
  <2>1. Matches(e2, n) = Matches(e, n)
    <3>1. \A i \in Slots \ {k} : e2[i].name = e[i].name
      BY <1>1
    <3>2. ~(e2[k].name # "" /\ Var[e2[k].name] = Var[n])
      BY <1>1, SlotFacts
    <3>3. ~(e[k].name # "" /\ Var[e[k].name] = Var[n])
      BY <1>4
    <3>4. QED
      BY <3>1, <3>2, <3>3 DEF Matches
  <2>2. CASE Matches(e, n) = {}
    BY <2>1, <2>2 DEF getenv
  <2>3. CASE Matches(e, n) # {}
    <3>1. PICK i \in Matches(e, n) : TRUE
      BY <2>3
    <3>2. i \in Slots /\ i # k
      BY <1>4, <3>1 DEF Matches
    <3>3. getenv(e2, n) = e2[i].value /\ getenv(e, n) = e[i].value
      BY <1>3, <2>1, <3>1, MatchFacts
    <3>4. QED
      BY <1>1, <3>2, <3>3
  <2>4. QED
    BY <2>2, <2>3
<1>5. QED
  BY <1>3, <1>4 DEF e2

LEMMA DefaultFacts ==
  /\ \A n \in Name : Var[n] \in StdVars => Default[Var[n]] \in Value
  /\ \A i \in 1 .. Len(Std) : /\ Std[i] \in StdVars /\ Std[i] \in Name
                              /\ Var[Std[i]] = Std[i] /\ Default[Std[i]] \in Value
                              /\ IsDefault(Std[i], Default[Std[i]])
<1>1. Default \in [StdVars -> Value]
  BY Zenon, EnvAssumption
<1>2. \A s \in StdVars : Default[s] \in Value
  BY <1>1
<1>3. \A i \in 1 .. Len(Std) : Std[i] \in StdVars /\ Std[i] \in Vars
  BY VarFacts
<1>4. \A i \in 1 .. Len(Std) : Std[i] \in Name /\ Var[Std[i]] = Std[i]
  BY <1>3, VarFacts
<1>5. QED
  BY <1>2, <1>3, <1>4 DEF IsDefault

(* A record of both copies that differs in the contents on the way.        *)
LEMMA WayFacts ==
  ASSUME NEW g \in Both, NEW w \in SUBSET Sound
  PROVE  LET x == [g EXCEPT !.way = @ \cup w]
         IN  /\ x \in Both /\ x.env = g.env /\ x.top = g.top /\ x.nv = g.nv
             /\ x.inv = g.inv /\ x.way = g.way \cup w
BY DEF Both

(* A standard variable keeps its value or gets the default; then no entry  *)
(* of the sector has its name, unless there was no room.                   *)
LEMMA WithDefaultFacts ==
  ASSUME NEW f \in Both, NEW i \in 1 .. Len(Std)
  PROVE  LET name == Std[i]
             s == Change(f.env, f.top, name, Default[name])
             u == tgt_unsetenv(f.nv, f.inv, name)
             x == WithDefault(f, name)
         IN  /\ x \in Both /\ x.inv = f.inv
             /\ \A w \in x.way : w \in f.way \/ Derived(w, f.nv, name)
             /\ Derived(x.nv, f.nv, name)
             /\ getenv(f.env, name) # NoVal => x = f
             /\ getenv(f.env, name) = NoVal => x.env = s.env /\ x.top = s.top
             /\ getenv(f.env, name) = NoVal /\ ~s.ok => x.nv = f.nv
             /\ getenv(f.env, name) = NoVal /\ s.ok => x.nv = u.nv
<1> DEFINE name == Std[i]
           s == Change(f.env, f.top, name, Default[name])
           u == tgt_unsetenv(f.nv, f.inv, name)
           no == FALSE
           g == do_setenv(f.env, f.top, f.nv, f.inv, name, Default[name], no)
           x == WithDefault(f, name)
<1>1. name \in Name /\ Default[name] \in Value /\ Var[name] = name
      /\ IsDefault(name, Default[name]) /\ no \in BOOLEAN
  BY DefaultFacts
<1> HIDE DEF name
<1>2. f.env \in Memory /\ f.top \in Value /\ f.nv \in Sound /\ f.inv \in BOOLEAN
      /\ f.way \subseteq Sound
  BY BothFacts
<1>3. x = IF getenv(f.env, name) # NoVal THEN f ELSE [g EXCEPT !.way = @ \cup f.way]
  BY <1>1 DEF WithDefault
<1> HIDE DEF no
<1>4. /\ g \in Both /\ g.env = s.env /\ g.top = s.top
      /\ \A w \in g.way : Derived(w, f.nv, name)
      /\ Derived(g.nv, f.nv, name)
      /\ ~s.ok => g.nv = f.nv /\ g.inv = f.inv
      /\ s.ok => g.nv = u.nv /\ g.inv = f.inv
  BY <1>1, <1>2, do_setenvFacts
<1>5. s.ok \in BOOLEAN
  BY <1>1, <1>2, ChangeFacts
<1> HIDE DEF g, s, u, x
<1>6. CASE getenv(f.env, name) # NoVal
  <2>1. x = f
    BY <1>3, <1>6
  <2>2. Derived(f.nv, f.nv, name)
    BY DerivedFacts
  <2>3. QED
    BY <1>6, <2>1, <2>2 DEF x, s, u, name
<1>7. CASE getenv(f.env, name) = NoVal
  <2>1. x = [g EXCEPT !.way = @ \cup f.way]
    BY <1>3, <1>7
  <2>2. /\ x \in Both /\ x.env = g.env /\ x.top = g.top /\ x.nv = g.nv
        /\ x.inv = g.inv /\ x.way = g.way \cup f.way
    BY <1>2, <1>4, <2>1, WayFacts
  <2>3. /\ x \in Both /\ x.inv = f.inv
        /\ \A w \in x.way : w \in f.way \/ Derived(w, f.nv, name)
        /\ Derived(x.nv, f.nv, name)
        /\ x.env = s.env /\ x.top = s.top
        /\ ~s.ok => x.nv = f.nv
        /\ s.ok => x.nv = u.nv
    BY <1>4, <1>5, <2>2
  <2>4. QED
    BY <1>7, <2>3 DEF x, s, u, name
<1>8. QED
  BY <1>6, <1>7

-----------------------------------------------------------------------------
(* What a start makes of the sector.                                       *)

LEMMA BlankFacts ==
  /\ Blank \in Set /\ Blank.env \in Memory /\ Blank.top = HeapStart
  /\ \A n \in Name : getenv(Blank.env, n) = NoVal
<1>1. HeapStart \in Value
  BY Zenon, EnvAssumption
<1>2. [i \in Slots |-> Free] \in Memory
  BY SlotFacts DEF Memory, Slot, OneSlot
<1>3. Blank \in Set /\ Blank.env = [i \in Slots |-> Free] /\ Blank.top = HeapStart
  BY <1>1, <1>2 DEF Blank, Set
<1>4. ASSUME NEW n \in Name
      PROVE  getenv(Blank.env, n) = NoVal
  <2>1. Matches(Blank.env, n) = {}
    BY <1>3, SlotFacts DEF Matches
  <2>2. QED
    BY <2>1 DEF getenv
<1>5. QED
  BY <1>2, <1>3, <1>4

Step(m, p) == _setenv(m.env, m.top, p.name, p.value, FALSE)

LEMMA MappedFacts ==
  ASSUME NEW q \in Seq(Pair)
  PROVE  /\ Mapped(q) \in [0 .. Len(q) -> Set]
         /\ Mapped(q)[0] = Blank
         /\ \A i \in 1 .. Len(q) : Mapped(q)[i] = Step(Mapped(q)[i - 1], q[i])
<1> DEFINE L == Len(q)
           Body(g) == [i \in 0 .. Len(q) |->
                         IF i = 0 THEN Blank
                         ELSE _setenv(g[i - 1].env, g[i - 1].top,
                                      q[i].name, q[i].value, FALSE)]
           G == [z \in (1 .. L) \X Set |-> Step(z[2], q[z[1]])]
<1>1. L \in Nat /\ \A i \in 1 .. L : q[i] \in Pair
  OBVIOUS
<1>2. \A i \in 1 .. L, m \in Set : G[<<i, m>>] = Step(m, q[i]) /\ Step(m, q[i]) \in Set
  <2>1. SUFFICES ASSUME NEW i \in 1 .. L, NEW m \in Set
                 PROVE  G[<<i, m>>] = Step(m, q[i]) /\ Step(m, q[i]) \in Set
    OBVIOUS
  <2>2. m.env \in Memory /\ m.top \in Value /\ q[i].name \in Name /\ q[i].value \in Value
    BY <1>1 DEF Set, Pair
  <2>3. Step(m, q[i]) \in Set
    BY <2>2, SetFacts DEF Step
  <2>4. G[<<i, m>>] = Step(m, q[i])
    OBVIOUS
  <2>5. QED
    BY <2>3, <2>4
<1> HIDE DEF G
<1>3. PICK f \in [0 .. L -> Set] : f[0] = Blank /\ \A i \in 1 .. L : f[i] = G[<<i, f[i - 1]>>]
  <2>1. \E f \in [0 .. L -> Set] : f[0] = Blank /\ \A i \in 1 .. L : f[i] = G[<<i, f[i - 1]>>]
    <3>1. \A i \in 1 .. L, m \in Set : G[<<i, m>>] \in Set
      BY <1>2
    <3>2. Blank \in Set
      BY BlankFacts
    <3>3. \E f : Runs(f, L, Set, Blank, G)
      BY <1>1, <3>1, <3>2, Recursion
    <3>4. QED
      BY <3>3 DEF Runs
  <2>2. QED
    BY <2>1
<1>4. ASSUME NEW i \in 1 .. L
      PROVE  i - 1 \in 0 .. L /\ f[i] = Step(f[i - 1], q[i])
  <2>1. i - 1 \in 0 .. L /\ f[i - 1] \in Set
    BY <1>1
  <2>2. QED
    BY <1>2, <1>3, <2>1
<1>5. f = Body(f)
  <2>1. \A i \in 0 .. L : i = 0 \/ i \in 1 .. L
    BY <1>1
  <2>2. \A i \in 0 .. L : Body(f)[i] = f[i]
    BY <1>3, <1>4, <2>1 DEF Step
  <2>3. Body(f) = [i \in 0 .. L |-> Body(f)[i]] /\ f = [i \in 0 .. L |-> f[i]]
    OBVIOUS
  <2> HIDE DEF Body
  <2>4. QED
    BY <2>2, <2>3
<1> DEFINE mapped == CHOOSE g : g = Body(g)
<1>6. mapped = Body(mapped)
  BY <1>5
<1>7. Mapped(q) = mapped
  BY Zenon DEF Mapped
<1> HIDE DEF mapped
<1>8. mapped[0] = Blank /\ DOMAIN mapped = 0 .. L
  BY <1>1, <1>6
<1>9. ASSUME NEW i \in 1 .. L
      PROVE  mapped[i] = Step(mapped[i - 1], q[i])
  <2>1. i \in 0 .. L /\ i # 0
    BY <1>1
  <2>2. Body(mapped)[i] = Step(mapped[i - 1], q[i])
    BY <2>1 DEF Step
  <2> HIDE DEF Body
  <2>3. QED
    BY <1>6, <2>2
<1>10. \A i \in 0 .. L : mapped[i] \in Set
  <2> DEFINE T == {i \in 0 .. L : mapped[i] \in Set}
  <2>1. 0 \in T
    BY <1>1, <1>8, BlankFacts
  <2>2. ASSUME NEW i \in 1 .. L, i - 1 \in T
        PROVE  i \in T
    <3>1. mapped[i - 1] \in Set
      BY <2>2
    <3>2. mapped[i] = Step(mapped[i - 1], q[i]) /\ Step(mapped[i - 1], q[i]) \in Set
      BY <1>2, <1>9, <3>1
    <3>3. QED
      BY <1>1, <3>2
  <2> HIDE DEF T
  <2>3. 0 .. L \subseteq T
    BY <1>1, <2>1, <2>2, InductTo
  <2>4. QED
    BY <2>3 DEF T
<1>11. mapped = [i \in 0 .. L |-> mapped[i]]
  <2>1. Body(mapped) = [i \in 0 .. L |-> Body(mapped)[i]]
    OBVIOUS
  <2> HIDE DEF Body
  <2>2. QED
    BY <1>6, <2>1
<1>12. mapped \in [0 .. L -> Set]
  BY <1>10, <1>11
<1>13. QED
  BY <1>7, <1>8, <1>9, <1>12

LEMMA FilledFacts ==
  ASSUME NEW start \in Both
  PROVE  /\ Filled(start) \in [0 .. Len(Std) -> Both]
         /\ Filled(start)[0] = start
         /\ \A i \in 1 .. Len(Std) :
              Filled(start)[i] = WithDefault(Filled(start)[i - 1], Std[i])
<1> DEFINE L == Len(Std)
           Body(g) == [i \in 0 .. Len(Std) |->
                         IF i = 0 THEN start ELSE WithDefault(g[i - 1], Std[i])]
           G == [z \in (1 .. L) \X Both |-> WithDefault(z[2], Std[z[1]])]
<1>1. L \in Nat
  BY VarFacts
<1>2. \A i \in 1 .. L, m \in Both :
        G[<<i, m>>] = WithDefault(m, Std[i]) /\ WithDefault(m, Std[i]) \in Both
  <2>1. SUFFICES ASSUME NEW i \in 1 .. L, NEW m \in Both
                 PROVE  G[<<i, m>>] = WithDefault(m, Std[i]) /\ WithDefault(m, Std[i]) \in Both
    OBVIOUS
  <2>2. WithDefault(m, Std[i]) \in Both
    BY WithDefaultFacts
  <2>3. G[<<i, m>>] = WithDefault(m, Std[i])
    OBVIOUS
  <2>4. QED
    BY <2>2, <2>3
<1> HIDE DEF G
<1>3. PICK f : Runs(f, L, Both, start, G)
  <2>1. \A i \in 1 .. L, m \in Both : G[<<i, m>>] \in Both
    BY <1>2
  <2>2. QED
    BY <1>1, <2>1, Recursion
<1>4. f \in [0 .. L -> Both] /\ f[0] = start
  BY <1>3 DEF Runs
<1>5. ASSUME NEW i \in 1 .. L
      PROVE  f[i] = WithDefault(f[i - 1], Std[i])
  <2>1. i - 1 \in 0 .. L /\ f[i - 1] \in Both
    BY <1>1, <1>4
  <2>2. f[i] = G[<<i, f[i - 1]>>]
    BY <1>3 DEF Runs
  <2>3. QED
    BY <1>2, <2>1, <2>2
<1>6. f = Body(f)
  <2>1. \A i \in 0 .. L : i = 0 \/ i \in 1 .. L
    BY <1>1
  <2>2. \A i \in 0 .. L : Body(f)[i] = f[i]
    BY <1>4, <1>5, <2>1
  <2>3. Body(f) = [i \in 0 .. L |-> Body(f)[i]] /\ f = [i \in 0 .. L |-> f[i]]
    BY <1>4
  <2> HIDE DEF Body
  <2>4. QED
    BY <2>2, <2>3
<1> DEFINE filled == CHOOSE g : g = Body(g)
<1>7. filled = Body(filled)
  BY <1>6
<1>8. Filled(start) = filled
  BY Zenon DEF Filled
<1> HIDE DEF filled
<1>9. filled[0] = start /\ DOMAIN filled = 0 .. L
  BY <1>1, <1>7
<1>10. ASSUME NEW i \in 1 .. L
       PROVE  filled[i] = WithDefault(filled[i - 1], Std[i])
  <2>1. i \in 0 .. L /\ i # 0
    BY <1>1
  <2>2. Body(filled)[i] = WithDefault(filled[i - 1], Std[i])
    BY <2>1
  <2> HIDE DEF Body
  <2>3. QED
    BY <1>7, <2>2
<1>11. \A i \in 0 .. L : filled[i] \in Both
  <2> DEFINE T == {i \in 0 .. L : filled[i] \in Both}
  <2>1. 0 \in T
    BY <1>1, <1>9
  <2>2. ASSUME NEW i \in 1 .. L, i - 1 \in T
        PROVE  i \in T
    <3>1. filled[i - 1] \in Both
      BY <2>2
    <3>2. filled[i] = WithDefault(filled[i - 1], Std[i])
          /\ WithDefault(filled[i - 1], Std[i]) \in Both
      BY <1>2, <1>10, <3>1
    <3>3. QED
      BY <1>1, <3>2
  <2> HIDE DEF T
  <2>3. 0 .. L \subseteq T
    BY <1>1, <2>1, <2>2, InductTo
  <2>4. QED
    BY <2>3 DEF T
<1>12. filled = [i \in 0 .. L |-> filled[i]]
  <2>1. Body(filled) = [i \in 0 .. L |-> Body(filled)[i]]
    OBVIOUS
  <2> HIDE DEF Body
  <2>2. QED
    BY <1>7, <2>1
<1>13. filled \in [0 .. L -> Both]
  BY <1>11, <1>12
<1>14. QED
  BY <1>8, <1>9, <1>10, <1>13

LEMMA PairsFacts ==
  ASSUME NEW nv \in Sound
  PROVE  Pairs(nv) \in Seq(Pair) /\ Len(Pairs(nv)) \in Nat
<1>1. Sysvars \in Seq(Pair)
  BY Zenon, EnvAssumption
<1>2. (IF nv.ok THEN nv.ents ELSE <<>>) \in Seq(Pair)
  BY SoundFacts
<1>3. QED
  BY <1>1, <1>2, ConcatProperties DEF Pairs

Last(q) == Mapped(q)[Len(q)]

LEMMA tgt_mapenvFacts ==
  ASSUME NEW nv \in Sound
  PROVE  LET m == Last(Pairs(nv))
             s == tgt_mapenv(nv)
         IN  /\ m \in Set /\ m.env \in Memory /\ m.top \in Value
             /\ s \in Both /\ s.env = m.env /\ s.top = m.top /\ s.nv = nv
             /\ s.inv = (~nv.ok \/ nv.cut) /\ s.way = {nv}
<1> DEFINE m == Last(Pairs(nv))
           inv == ~nv.ok \/ nv.cut
           s == tgt_mapenv(nv)
<1>1. m \in Set
  <2>1. Len(Pairs(nv)) \in 0 .. Len(Pairs(nv))
    BY PairsFacts
  <2>2. QED
    BY <2>1, PairsFacts, MappedFacts DEF Last
<1>2. m.env \in Memory /\ m.top \in Value
  BY <1>1 DEF Set
<1>3. s = State(m.env, m.top, Same(nv, inv, 1))
  BY DEF tgt_mapenv, Last
<1>4. inv \in BOOLEAN
  OBVIOUS
<1> HIDE DEF inv, m
<1>5. Same(nv, inv, 1) \in Stored
  BY <1>4, SameFacts
<1>6. Same(nv, inv, 1).nv = nv /\ Same(nv, inv, 1).inv = inv /\ Same(nv, inv, 1).way = {nv}
  BY DEF Same
<1> HIDE DEF s
<1>7. s \in Both /\ s.env = m.env /\ s.top = m.top /\ s.nv = nv /\ s.inv = inv /\ s.way = {nv}
  BY <1>2, <1>3, <1>5, <1>6, StateFacts
<1>8. QED
  BY <1>1, <1>2, <1>7 DEF s, m, inv

LEMMA envinitFacts ==
  ASSUME NEW nv \in Sound
  PROVE  envinit(nv) \in Both
<1>1. tgt_mapenv(nv) \in Both
  BY tgt_mapenvFacts
<1>2. Len(Std) \in 0 .. Len(Std)
  BY VarFacts
<1>3. QED
  BY <1>1, <1>2, FilledFacts DEF envinit

LEMMA unsetenvFacts ==
  ASSUME NEW e \in Memory, NEW h \in Value, NEW nv \in Sound, NEW inv \in BOOLEAN,
         NEW name \in Name
  PROVE  LET s == unsetenv(e, h, nv, inv, name)
         IN  s \in Both
<1> DEFINE s    == unsetenv(e, h, nv, inv, name)
           hit  == {i \in Slots : e[i].name = name}
           no   == FALSE
           back == do_setenv(e, h, nv, inv, Var[name], Default[Var[name]], no)
           e2   == [e EXCEPT ![First(hit)] = Free]
<1>1. no \in BOOLEAN
  OBVIOUS
<1>2. s = IF hit = {} THEN State(e, h, Same(nv, inv, 0))
          ELSE IF Var[name] \in StdVars THEN back
          ELSE State(e2, h, tgt_unsetenv(nv, inv, name))
  BY DEF unsetenv
<1> HIDE DEF no
<1>3. State(e, h, Same(nv, inv, 0)) \in Both
  BY SameFacts, StateFacts
<1>4. Var[name] \in StdVars => back \in Both
  <2>1. Var[name] \in Name
    BY VarFacts
  <2>2. Var[name] \in StdVars => Default[Var[name]] \in Value
    BY DefaultFacts
  <2>3. QED
    BY <1>1, <2>1, <2>2, do_setenvFacts
<1>5. hit # {} => State(e2, h, tgt_unsetenv(nv, inv, name)) \in Both
  <2>1. SUFFICES ASSUME hit # {} PROVE State(e2, h, tgt_unsetenv(nv, inv, name)) \in Both
    OBVIOUS
  <2>2. First(hit) \in Slots
    BY <2>1, FirstIs, SlotFacts
  <2>3. e2 \in Memory
    BY <2>2, EmptyFacts
  <2>4. tgt_unsetenv(nv, inv, name) \in Stored
    BY UnsetFacts
  <2>5. QED
    BY <2>3, <2>4, StateFacts
<1>6. QED
  BY <1>2, <1>3, <1>4, <1>5

-----------------------------------------------------------------------------
(* One slot per variable and one entry per spelling.  Together with the    *)
(* types this is inductive: the sector as it is found has one entry per    *)
(* spelling, tgt_setenv removes the old entry before it adds the new one,  *)
(* and _setenv takes a free slot only if no slot has the variable.         *)
IInv == TypeOK /\ NoDuplicates

Ghosts == /\ stored \in [Vars -> Value \cup {NoVal, Lost}]
          /\ removed \subseteq Vars /\ respelled \subseteq Vars
Copies == /\ envvar \in Memory /\ heaptop \in Value /\ nvram \in Sound
          /\ nvram_invalid \in BOOLEAN /\ up \in BOOLEAN

LEMMA IInvIs == IInv <=> Copies /\ Ghosts
BY DEF IInv, TypeOK, NoDuplicates, Copies, Ghosts, Memory, OneSlot, Slot, Sound

LEMMA ApplyTypes ==
  ASSUME NEW s \in Both, Apply(s), up' \in BOOLEAN
  PROVE  Copies'
<1>1. s.env \in Memory /\ s.top \in Value /\ s.nv \in Sound /\ s.inv \in BOOLEAN
  BY BothFacts
<1>2. QED
  BY <1>1 DEF Apply, Copies

LEMMA OffTypes ==
  ASSUME Off, nvram' \in Sound
  PROVE  Copies'
<1>1. [i \in Slots |-> Free] \in Memory /\ HeapStart \in Value
  BY BlankFacts DEF Blank, Set
<1>2. QED
  BY <1>1 DEF Off, Copies

LEMMA RespelledTypes ==
  ASSUME respelled \subseteq Vars, NEW name \in Name, Respelled(name)
  PROVE  respelled' \subseteq Vars
BY VarFacts DEF Respelled

LEMMA NothingTypes ==
  /\ Nothing \in [Vars -> Value \cup {NoVal, Lost}]
  /\ Everything \in [Vars -> Value \cup {NoVal, Lost}]
BY DEF Nothing, Everything

LEMMA OwedTypes ==
  ASSUME Ghosts, NEW s, NEW name \in Name, NEW value \in Value, NEW temp,
         Owed(s, Var[name], name, value, temp)
  PROVE  Ghosts'
<1>1. Var[name] \in Vars
  BY VarFacts
<1>2. respelled' \subseteq Vars
  BY RespelledTypes DEF Ghosts, Owed
<1>3. removed' \subseteq Vars
  BY <1>1 DEF Ghosts, Owed
<1>4. PICK old \in [Vars -> Value \cup {NoVal, Lost}], x \in Value \cup {NoVal, Lost} :
         stored' = [old EXCEPT ![Var[name]] = x]
  <2> DEFINE old == IF (nvram_invalid /\ ~s.inv) \/ s.nv.cut THEN Everything ELSE stored
             x == IF s.ret = 1 /\ (~IsDefault(name, value) /\ ~temp /\ name # Expert)
                     /\ ~s.nv.cut THEN value
                  ELSE IF s.nv = nvram THEN old[Var[name]] ELSE NoVal
  <2>1. stored' = [old EXCEPT ![Var[name]] = x]
    BY DEF Owed
  <2>2. old \in [Vars -> Value \cup {NoVal, Lost}]
    BY NothingTypes DEF Ghosts
  <2> HIDE DEF old
  <2>3. x \in Value \cup {NoVal, Lost}
    BY <1>1, <2>2
  <2> HIDE DEF x
  <2>4. QED
    BY <2>1, <2>2, <2>3
<1>5. stored' \in [Vars -> Value \cup {NoVal, Lost}]
  BY <1>4
<1>6. QED
  BY <1>2, <1>3, <1>5 DEF Ghosts

LEMMA PowerFailsTypes ==
  ASSUME Copies, Ghosts, NEW s \in Both, NEW v \in Vars, PowerFails(s, v),
         respelled' \subseteq Vars
  PROVE  Copies' /\ Ghosts'
<1>1. nvram' \in Sound
  BY BothFacts DEF PowerFails
<1>2. Copies'
  BY <1>1, OffTypes DEF PowerFails
<1>3. stored' \in [Vars -> Value \cup {NoVal, Lost}]
  BY NothingTypes DEF PowerFails, Ghosts
<1>4. removed' \subseteq Vars
  BY DEF PowerFails, Ghosts
<1>5. QED
  BY <1>2, <1>3, <1>4 DEF Ghosts

LEMMA TypedFacts ==
  ASSUME NEW t \in Typed
  PROVE  t.name \in Name /\ t.value \in Value /\ t.temp \in BOOLEAN
<1>1. Typed \subseteq [name : Name, value : Value, temp : BOOLEAN]
  BY Zenon, EnvAssumption
<1>2. t \in [name : Name, value : Value, temp : BOOLEAN]
  BY <1>1
<1>3. QED
  BY <1>2

LEMMA InitTypes ==
  ASSUME Init
  PROVE  Copies /\ Ghosts
<1>1. envvar \in Memory /\ heaptop \in Value
  BY BlankFacts DEF Init, Blank, Set
<1>2. nvram \in Sound
  <2>1. Factory \subseteq Sector
        /\ \A nv \in Factory : Len(nv.ents) <= Room /\ Distinct(nv.ents)
    BY Zenon, EnvAssumption
  <2>2. QED
    BY <2>1 DEF Init, Sound
<1>3. Spelled(nvram.ents) \subseteq Vars
  BY <1>2, SoundFacts, VarFacts DEF Spelled
<1>4. QED
  BY <1>1, <1>2, <1>3, NothingTypes DEF Init, Copies, Ghosts

LEMMA StepTypes ==
  ASSUME Copies, Ghosts, [Next]_vars
  PROVE  Copies' /\ Ghosts'
<1> DEFINE S(t) == do_setenv(envvar, heaptop, nvram, nvram_invalid, t.name, t.value, t.temp)
           U(t) == unsetenv(envvar, heaptop, nvram, nvram_invalid, t.name)
<1>1. envvar \in Memory /\ heaptop \in Value /\ nvram \in Sound /\ nvram_invalid \in BOOLEAN
      /\ up \in BOOLEAN
  BY DEF Copies
<1>2. \A t \in Typed : S(t) \in Both
  BY <1>1, TypedFacts, do_setenvFacts
<1>3. \A t \in Typed : U(t) \in Both
  BY <1>1, TypedFacts, unsetenvFacts
<1>4. \A t \in Typed : Var[t.name] \in Vars
  BY TypedFacts, VarFacts
<1>5. \A t \in Typed : Respelled(t.name) => respelled' \subseteq Vars
  BY TypedFacts, RespelledTypes DEF Ghosts
<1>6. envinit(nvram) \in Both
  BY <1>1, envinitFacts
<1>7. ASSUME NEW t \in Typed, cmd_set(t.name, t.value, t.temp)
      PROVE  Copies' /\ Ghosts'
  <2>1. S(t) \in Both
    BY <1>2
  <2>2. /\ up
        /\ IF S(t).nv.cut /\ ~nvram.cut THEN Off /\ nvram' = S(t).nv
           ELSE Apply(S(t)) /\ UNCHANGED up
        /\ Owed(S(t), Var[t.name], t.name, t.value, t.temp)
    BY <1>7 DEF cmd_set
  <2> HIDE DEF S
  <2>3. Copies'
    <3>1. CASE S(t).nv.cut /\ ~nvram.cut
      BY <2>1, <2>2, <3>1, BothFacts, OffTypes
    <3>2. CASE ~(S(t).nv.cut /\ ~nvram.cut)
      BY <1>1, <2>1, <2>2, <3>2, ApplyTypes
    <3>3. QED
      BY <3>1, <3>2
  <2>4. Ghosts'
    <3>1. t.name \in Name /\ t.value \in Value
      BY TypedFacts
    <3>2. QED
      BY <2>2, <3>1, OwedTypes
  <2>5. QED
    BY <2>3, <2>4
<1>8. ASSUME NEW t \in Typed, cmd_eset(t.name, t.value, t.temp)
      PROVE  Copies' /\ Ghosts'
  BY <1>7, <1>8 DEF cmd_eset
<1>9. ASSUME NEW t \in Typed, PowerFailsInSet(t.name, t.value, t.temp)
      PROVE  Copies' /\ Ghosts'
  <2>1. PowerFails(S(t), Var[t.name]) /\ Respelled(t.name)
    BY <1>9 DEF PowerFailsInSet
  <2> HIDE DEF S
  <2>2. QED
    BY <1>2, <1>4, <1>5, <2>1, PowerFailsTypes
<1>10. ASSUME NEW t \in Typed, cmd_unset(t.name)
       PROVE  Copies' /\ Ghosts'
  <2>1. Apply(U(t)) /\ up' = up
    BY <1>10 DEF cmd_unset
  <2>2. Copies'
    BY <1>1, <1>3, <2>1, ApplyTypes
  <2>3. stored' \in [Vars -> Value \cup {NoVal, Lost}]
    BY <1>4, <1>10 DEF cmd_unset, Ghosts
  <2>4. removed' \subseteq Vars
    BY <1>4, <1>10 DEF cmd_unset, Ghosts
  <2>5. respelled' \subseteq Vars
    BY <1>5, <1>10 DEF cmd_unset
  <2>6. QED
    BY <2>2, <2>3, <2>4, <2>5 DEF Ghosts
<1>11. ASSUME NEW t \in Typed, PowerFailsInUnset(t.name)
       PROVE  Copies' /\ Ghosts'
  <2>1. PowerFails(U(t), Var[t.name]) /\ Respelled(t.name)
    BY <1>11 DEF PowerFailsInUnset
  <2> HIDE DEF U
  <2>2. QED
    BY <1>3, <1>4, <1>5, <2>1, PowerFailsTypes
<1>12. CASE Boot
  <2>1. Apply(envinit(nvram)) /\ up' = TRUE /\ UNCHANGED <<stored, removed, respelled>>
    BY <1>12 DEF Boot
  <2>2. Copies'
    BY <1>6, <2>1, ApplyTypes
  <2>3. QED
    BY <2>1, <2>2 DEF Ghosts
<1>13. CASE PowerFailsInBoot
  <2>1. PowerFails(envinit(nvram), Heaptop) /\ respelled' = respelled
    BY <1>13 DEF PowerFailsInBoot
  <2>2. Heaptop \in Vars
    <3>1. Heaptop \in StdVars
      BY Zenon, EnvAssumption
    <3>2. QED
      BY <3>1, VarFacts
  <2>3. respelled' \subseteq Vars
    BY <2>1 DEF Ghosts
  <2>4. QED
    BY <1>6, <2>1, <2>2, <2>3, PowerFailsTypes
<1>14. CASE PowerOff
  BY <1>1, <1>14, OffTypes DEF PowerOff, Ghosts
<1>15. CASE UNCHANGED vars
  BY <1>15 DEF vars, Copies, Ghosts
<1> HIDE DEF S, U
<1>16. QED
  BY <1>7, <1>8, <1>9, <1>10, <1>11, <1>12, <1>13, <1>14, <1>15 DEF Next

(* Types and uniqueness are an inductive invariant of the two copies,      *)
(* whatever is typed and wherever the power fails.                         *)
THEOREM Invariance == Spec => []IInv
<1>1. Init => IInv
  BY InitTypes, IInvIs
<1>2. IInv /\ [Next]_vars => IInv'
  <2>1. Copies' /\ Ghosts' => IInv'
    BY DEF IInv, TypeOK, NoDuplicates, Copies, Ghosts, Memory, OneSlot, Slot, Sound
  <2>2. QED
    BY <2>1, StepTypes, IInvIs
<1>3. QED
  BY <1>1, <1>2, PTL DEF Spec

(* The types of the copies of the environment and of what is owed.         *)
THEOREM TypeCorrect == Spec => []TypeOK
<1>1. IInv => TypeOK
  BY DEF IInv
<1>2. QED
  BY <1>1, Invariance, PTL

(* getenv, set and unset of env.c mean the same slot, and tgt_unsetenv of  *)
(* fl_nvram.c, which removes one entry, removes the spelling.              *)
THEOREM NoDuplicatesCorrect == Spec => []NoDuplicates
<1>1. IInv => NoDuplicates
  BY DEF IInv
<1>2. QED
  BY <1>1, Invariance, PTL

-----------------------------------------------------------------------------
(* A second start.                                                         *)

(* Slots fill up and are not emptied while the sector is read.             *)
Kept(e, e2) == /\ \A n \in Name : getenv(e, n) # NoVal => getenv(e2, n) # NoVal
               /\ Full(e) => Full(e2)

LEMMA SameVar ==
  ASSUME NEW e, NEW n, NEW k, Var[n] = Var[k]
  PROVE  getenv(e, n) = getenv(e, k)
BY DEF getenv, Matches

LEMMA NoValIsNone == \A v \in Value : v # NoVal
<1>1. NoVal \notin Value
  BY Zenon, EnvAssumption
<1>2. QED
  BY <1>1

LEMMA StepFacts ==
  ASSUME NEW m \in Set, NEW p \in Pair
  PROVE  LET s == Step(m, p)
         IN  /\ s \in Set /\ Kept(m.env, s.env)
             /\ getenv(s.env, p.name) # NoVal
                \/ (s.env = m.env /\ (s.top = m.top \/ Full(m.env)))
<1> DEFINE s == Step(m, p)
           no == FALSE
<1>1. /\ m.env \in Memory /\ m.top \in Value /\ p.name \in Name /\ p.value \in Value
      /\ no \in BOOLEAN
  BY DEF Set, Pair
<1>2. s = _setenv(m.env, m.top, p.name, p.value, no) /\ ~no
  BY DEF Step
<1> HIDE DEF no, s
<1>3. /\ s \in Set
      /\ ~s.ok <=> \/ Refused(m.top, p.name, p.value, no)
                   \/ getenv(m.env, p.name) = NoVal /\ Full(m.env)
      /\ ~s.ok => s.env = m.env
      /\ s.ok => getenv(s.env, p.name) = p.value
      /\ \A n \in Name : Var[n] # Var[p.name] => getenv(s.env, n) = getenv(m.env, n)
      /\ Full(m.env) => Full(s.env)
      /\ ~no /\ Refused(m.top, p.name, p.value, no) => s.top = m.top
  BY <1>1, <1>2, SetFacts
<1>4. s.ok \in BOOLEAN
  BY <1>3 DEF Set
<1>5. CASE s.ok
  <2>1. getenv(s.env, p.name) # NoVal
    BY <1>1, <1>3, <1>5, NoValIsNone
  <2>2. ASSUME NEW n \in Name, getenv(m.env, n) # NoVal
        PROVE  getenv(s.env, n) # NoVal
    <3>1. CASE Var[n] = Var[p.name]
      BY <2>1, <3>1, SameVar
    <3>2. CASE Var[n] # Var[p.name]
      BY <1>3, <2>2, <3>2
    <3>3. QED
      BY <3>1, <3>2
  <2>3. Kept(m.env, s.env)
    BY <1>3, <2>2 DEF Kept
  <2>4. QED
    BY <1>3, <2>1, <2>3 DEF s
<1>6. CASE ~s.ok
  <2>1. s.env = m.env /\ (s.top = m.top \/ Full(m.env))
    BY <1>2, <1>3, <1>6
  <2>2. Kept(m.env, s.env)
    BY <2>1 DEF Kept
  <2>3. QED
    BY <1>3, <2>1, <2>2 DEF s
<1>7. QED
  BY <1>4, <1>5, <1>6

LEMMA MappedKept ==
  ASSUME NEW q \in Seq(Pair), NEW i \in 0 .. Len(q)
  PROVE  \A j \in i .. Len(q) : Kept(Mapped(q)[i].env, Mapped(q)[j].env)
<1> DEFINE M == Mapped(q)
           L == Len(q)
           T == {j \in 0 .. L : i <= j => Kept(M[i].env, M[j].env)}
<1>1. L \in Nat /\ M \in [0 .. L -> Set] /\ \A j \in 1 .. L : q[j] \in Pair /\ M[j] = Step(M[j - 1], q[j])
  BY MappedFacts
<1> HIDE DEF M, L
<1>2. Kept(M[i].env, M[i].env)
  BY DEF Kept
<1>3. 0 \in T
  <2>1. i <= 0 => i = 0
    BY <1>1 DEF L
  <2>2. QED
    BY <1>1, <1>2, <2>1
<1>4. ASSUME NEW j \in 1 .. L, j - 1 \in T
      PROVE  j \in T
  <2>1. CASE j <= i
    <3>1. i <= j => i = j
      BY <1>1, <2>1 DEF L
    <3>2. QED
      BY <1>1, <1>2, <3>1
  <2>2. CASE ~(j <= i)
    <3>1. i <= j - 1 /\ j - 1 \in 0 .. L
      BY <1>1, <2>2 DEF L
    <3>2. Kept(M[i].env, M[j - 1].env)
      BY <1>4, <3>1
    <3>3. Kept(M[j - 1].env, M[j].env)
      BY <1>1, <3>1, StepFacts
    <3>4. Kept(M[i].env, M[j].env)
      BY <3>2, <3>3 DEF Kept
    <3>5. QED
      BY <1>1, <3>4
  <2>3. QED
    BY <2>1, <2>2
<1> HIDE DEF T
<1>5. 0 .. L \subseteq T
  BY <1>1, <1>3, <1>4, InductTo
<1>6. \A j \in i .. L : j \in 0 .. L /\ i <= j
  BY <1>1 DEF L
<1>7. QED
  BY <1>5, <1>6 DEF T, M, L

(* An entry that was read in vain, though there was a free slot, need not  *)
(* have been there.                                                        *)
LEMMA CutSame ==
  ASSUME NEW q \in Seq(Pair), NEW i \in 1 .. Len(q),
         getenv(Last(q).env, q[i].name) = NoVal, ~Full(Last(q).env)
  PROVE  Last(Cut(q, i)).env = Last(q).env /\ Last(Cut(q, i)).top = Last(q).top
<1> DEFINE M == Mapped(q)
           L == Len(q)
           r == Cut(q, i)
           R == Mapped(r)
           At(j) == IF j < i THEN j ELSE j + 1
           T == {j \in 0 .. L - 1 : R[j].env = M[At(j)].env /\ R[j].top = M[At(j)].top}
<1>1. /\ L \in Nat /\ M \in [0 .. L -> Set] /\ M[0] = Blank
      /\ \A j \in 1 .. L : q[j] \in Pair /\ M[j] = Step(M[j - 1], q[j])
  BY MappedFacts
<1>2. r \in Seq(Pair) /\ Len(r) = L - 1 /\ \A j \in 1 .. L - 1 : r[j] = q[At(j)]
  BY CutFacts
<1> HIDE DEF r
<1>3. R[0] = Blank /\ \A j \in 1 .. L - 1 : R[j] = Step(R[j - 1], r[j])
  BY <1>2, MappedFacts
<1>4. i \in 1 .. L /\ L - 1 \in Nat
  BY <1>1
<1> HIDE DEF R
<1>5. M[i].env = M[i - 1].env /\ M[i].top = M[i - 1].top
  <2>1. i - 1 \in 0 .. L /\ i \in 0 .. L /\ L \in i .. L /\ L \in i - 1 .. L
    BY <1>1, <1>4
  <2>2. Kept(M[i].env, M[L].env) /\ Kept(M[i - 1].env, M[L].env)
    BY <2>1, MappedKept
  <2>3. M[L] = Last(q) /\ q[i].name \in Name
    BY <1>1 DEF Last, Pair
  <2> HIDE DEF M, L
  <2>4. getenv(M[i].env, q[i].name) = NoVal /\ ~Full(M[i - 1].env)
    BY <2>2, <2>3 DEF Kept
  <2>5. M[i - 1] \in Set /\ q[i] \in Pair /\ M[i] = Step(M[i - 1], q[i])
    BY <1>1, <1>4, <2>1
  <2>6. QED
    BY <2>4, <2>5, StepFacts
<1> HIDE DEF M, L
<1>6. 0 \in T
  <2>1. At(0) = 0
    BY <1>4
  <2>2. QED
    BY <1>1, <1>3, <1>4, <2>1
<1>7. ASSUME NEW j \in 1 .. L - 1, j - 1 \in T
      PROVE  j \in T
  <2>1. R[j - 1].env = M[At(j - 1)].env /\ R[j - 1].top = M[At(j - 1)].top
    BY <1>7
  <2>2. At(j) \in 1 .. L /\ r[j] = q[At(j)] /\ M[At(j)] = Step(M[At(j) - 1], q[At(j)])
    BY <1>1, <1>2, <1>4
  <2>3. R[j] = Step(R[j - 1], r[j])
    BY <1>3
  <2>4. M[At(j) - 1].env = M[At(j - 1)].env /\ M[At(j) - 1].top = M[At(j - 1)].top
    <3>1. CASE j = i
      <4>1. At(j) - 1 = i /\ At(j - 1) = i - 1
        BY <1>4, <3>1
      <4> HIDE DEF At
      <4>2. QED
        BY <1>5, <4>1
    <3>2. CASE j # i
      <4>1. At(j) - 1 = At(j - 1)
        BY <1>1, <1>4, <3>2
      <4> HIDE DEF At
      <4>2. QED
        BY <4>1
    <3>3. QED
      BY <3>1, <3>2
  <2> HIDE DEF At
  <2>5. Step(R[j - 1], r[j]) = Step(M[At(j) - 1], q[At(j)])
    BY <2>1, <2>2, <2>4 DEF Step
  <2>6. R[j] = M[At(j)]
    BY <2>2, <2>3, <2>5
  <2>7. j \in 0 .. L - 1
    BY <1>4
  <2>8. QED
    BY <2>6, <2>7
<1> HIDE DEF T
<1>8. L - 1 \in T
  <2>1. 0 .. L - 1 \subseteq T
    BY <1>4, <1>6, <1>7, InductTo
  <2>2. QED
    BY <1>4, <2>1
<1>9. M[At(L - 1)].env = M[L].env /\ M[At(L - 1)].top = M[L].top
  <2>1. CASE i = L
    <3>1. At(L - 1) = i - 1
      BY <1>1, <2>1
    <3> HIDE DEF At
    <3>2. QED
      BY <1>5, <2>1, <3>1
  <2>2. CASE i # L
    <3>1. At(L - 1) = L
      BY <1>1, <1>4, <2>2
    <3> HIDE DEF At
    <3>2. QED
      BY <3>1
  <2>3. QED
    BY <2>1, <2>2
<1>10. R[L - 1].env = M[L].env /\ R[L - 1].top = M[L].top
  BY <1>8, <1>9 DEF T
<1>11. QED
  BY <1>2, <1>10 DEF Last, R, M, L, r

LEMMA CutPairs ==
  ASSUME NEW nv \in Sound, nv.ok, NEW k \in 1 .. Len(nv.ents)
  PROVE  /\ k \in 1 .. Len(Pairs(nv)) /\ Pairs(nv)[k] = nv.ents[k]
         /\ Pairs(Entries(Cut(nv.ents, k))) = Cut(Pairs(nv), k)
<1> DEFINE a == nv.ents
           S == Sysvars
           c == Cut(a, k)
           q == Pairs(nv)
           l == Pairs(Entries(c))
           r == Cut(q, k)
<1>1. a \in Seq(Pair) /\ S \in Seq(Pair) /\ Len(a) \in Nat /\ Len(S) \in Nat
  <2>1. S \in Seq(Pair)
    BY Zenon, EnvAssumption
  <2>2. QED
    BY <2>1, SoundFacts
<1>2. q = a \o S /\ l = c \o S
  BY DEF Pairs, Entries
<1>3. c \in Seq(Pair) /\ Len(c) = Len(a) - 1
      /\ \A j \in 1 .. Len(a) - 1 : c[j] = IF j < k THEN a[j] ELSE a[j + 1]
  BY <1>1, CutFacts
<1> HIDE DEF a, S, c, q, l, r
<1>4. /\ q \in Seq(Pair) /\ Len(q) = Len(a) + Len(S)
      /\ \A j \in 1 .. Len(a) + Len(S) : q[j] = IF j <= Len(a) THEN a[j] ELSE S[j - Len(a)]
  BY <1>1, <1>2, ConcatProperties
<1>5. /\ l \in Seq(Pair) /\ Len(l) = Len(c) + Len(S)
      /\ \A j \in 1 .. Len(c) + Len(S) : l[j] = IF j <= Len(c) THEN c[j] ELSE S[j - Len(c)]
  BY <1>1, <1>2, <1>3, ConcatProperties
<1>6. k \in 1 .. Len(a)
  BY DEF a
<1>7. k \in 1 .. Len(q) /\ q[k] = a[k]
  BY <1>1, <1>4, <1>6
<1>8. /\ r \in Seq(Pair) /\ Len(r) = Len(q) - 1
      /\ \A j \in 1 .. Len(q) - 1 : r[j] = IF j < k THEN q[j] ELSE q[j + 1]
  BY <1>4, <1>7, CutFacts DEF r
<1>9. Len(l) = Len(r)
  BY <1>1, <1>3, <1>4, <1>5, <1>8
<1>10. ASSUME NEW j \in 1 .. Len(l)
       PROVE  l[j] = r[j]
  <2>1. j \in 1 .. Len(c) + Len(S) /\ j \in 1 .. Len(q) - 1 /\ j \in Nat
    BY <1>1, <1>3, <1>5, <1>8, <1>9
  <2>2. CASE j < k
    <3>1. j <= Len(c) /\ j \in 1 .. Len(a) - 1 /\ j <= Len(a) /\ j \in 1 .. Len(a) + Len(S)
      BY <1>1, <1>3, <1>6, <2>1, <2>2
    <3>2. QED
      BY <1>3, <1>4, <1>5, <1>8, <2>1, <2>2, <3>1
  <2>3. CASE ~(j < k) /\ j < Len(a)
    <3>1. j <= Len(c) /\ j \in 1 .. Len(a) - 1 /\ j + 1 <= Len(a) /\ j + 1 \in 1 .. Len(a) + Len(S)
      BY <1>1, <1>3, <1>6, <2>1, <2>3
    <3>2. QED
      BY <1>3, <1>4, <1>5, <1>8, <2>1, <2>3, <3>1
  <2>4. CASE ~(j < Len(a))
    <3>1. ~(j <= Len(c)) /\ ~(j < k) /\ ~(j + 1 <= Len(a)) /\ j + 1 \in 1 .. Len(a) + Len(S)
          /\ j - Len(c) = (j + 1) - Len(a)
      BY <1>1, <1>3, <1>4, <1>6, <2>1, <2>4
    <3>2. l[j] = S[j - Len(c)]
      BY <1>5, <2>1, <3>1
    <3>3. r[j] = q[j + 1] /\ q[j + 1] = S[(j + 1) - Len(a)]
      BY <1>4, <1>8, <2>1, <3>1
    <3>4. QED
      BY <3>1, <3>2, <3>3
  <2>5. QED
    BY <2>2, <2>3, <2>4
<1>11. l = r
  BY <1>5, <1>8, <1>9, <1>10, SeqEqual
<1>12. QED
  BY <1>7, <1>11 DEF a, q, l, r, c

(* What the defaults have made of a start: reading the sector as it is now *)
(* gives the memory the defaults began with, and no default that was taken *)
(* has an entry left.                                                      *)
Taken(f, i) == getenv(f.env, Std[i]) = NoVal
               /\ Change(f.env, f.top, Std[i], Default[Std[i]]).ok

Settled(F, s, i) ==
  /\ ~F[i].inv /\ F[i].nv.ok /\ ~F[i].nv.cut
  /\ Last(Pairs(F[i].nv)).env = s.env /\ Last(Pairs(F[i].nv)).top = s.top
  /\ Kept(s.env, F[i].env)
  /\ \A j \in 1 .. i : Taken(F[j - 1], j) => NoEntry(F[i].nv, Std[j])

LEMMA FillStep ==
  ASSUME NEW f \in Both, NEW s \in Both, NEW i \in 1 .. Len(Std),
         ~f.inv, f.nv.ok, ~f.nv.cut,
         Last(Pairs(f.nv)).env = s.env, Last(Pairs(f.nv)).top = s.top,
         Kept(s.env, f.env)
  PROVE  LET x == WithDefault(f, Std[i])
         IN  /\ ~x.inv /\ x.nv.ok /\ ~x.nv.cut
             /\ Last(Pairs(x.nv)).env = s.env /\ Last(Pairs(x.nv)).top = s.top
             /\ Kept(s.env, x.env)
             /\ Within(x.nv, f.nv)
             /\ Taken(f, i) => NoEntry(x.nv, Std[i])
<1> DEFINE name == Std[i]
           c == Change(f.env, f.top, name, Default[name])
           u == tgt_unsetenv(f.nv, f.inv, name)
           x == WithDefault(f, name)
<1>1. name \in Name /\ Default[name] \in Value /\ Var[name] = name
  BY DefaultFacts
<1>2. f.env \in Memory /\ f.top \in Value /\ f.nv \in Sound /\ f.inv \in BOOLEAN
  BY BothFacts
<1>3. /\ x \in Both /\ x.inv = f.inv
      /\ getenv(f.env, name) # NoVal => x = f
      /\ getenv(f.env, name) = NoVal => x.env = c.env
      /\ getenv(f.env, name) = NoVal /\ ~c.ok => x.nv = f.nv
      /\ getenv(f.env, name) = NoVal /\ c.ok => x.nv = u.nv
  BY WithDefaultFacts
<1>4. /\ c.ok \in BOOLEAN
      /\ ~c.ok <=> Barred(f.top, name, Default[name]) \/ (getenv(f.env, name) = NoVal /\ Full(f.env))
      /\ ~c.ok => c.env = f.env
      /\ c.ok => getenv(c.env, name) = Default[name]
      /\ \A n \in Name : Var[n] # Var[name] => getenv(c.env, n) = getenv(f.env, n)
      /\ Full(f.env) => Full(c.env)
  BY <1>1, <1>2, ChangeFacts
<1>5. /\ NoEntry(f.nv, name) => u.nv = f.nv
      /\ NoEntry(u.nv, name)
      /\ ~NoEntry(f.nv, name) =>
           \E k \in 1 .. Len(f.nv.ents) :
             f.nv.ents[k].name = name /\ u.nv = Entries(Cut(f.nv.ents, k))
      /\ Within(u.nv, f.nv)
  BY <1>1, <1>2, UnsetFacts
<1>6. Taken(f, i) <=> getenv(f.env, name) = NoVal /\ c.ok
  BY DEF Taken
<1>7. Within(f.nv, f.nv)
  BY DEF Within
<1> HIDE DEF c, u, x, name
<1>8. CASE getenv(f.env, name) # NoVal
  <2>1. x = f /\ ~Taken(f, i)
    BY <1>3, <1>6, <1>8
  <2>2. QED
    BY <1>7, <2>1 DEF x, name
<1>9. CASE getenv(f.env, name) = NoVal /\ ~c.ok
  <2>1. x.env = f.env /\ x.nv = f.nv /\ ~x.inv /\ ~Taken(f, i)
    BY <1>3, <1>4, <1>6, <1>9
  <2>2. QED
    BY <1>7, <2>1 DEF x, name
<1>10. CASE getenv(f.env, name) = NoVal /\ c.ok
  <2>1. x.env = c.env /\ x.nv = u.nv /\ ~x.inv
    BY <1>3, <1>10
  <2>2. Kept(f.env, c.env)
    <3>1. ASSUME NEW n \in Name, getenv(f.env, n) # NoVal
          PROVE  getenv(c.env, n) # NoVal
      <4>1. Var[n] # Var[name]
        BY <1>10, <3>1, SameVar
      <4>2. QED
        BY <1>4, <3>1, <4>1
    <3>2. QED
      BY <1>4, <3>1 DEF Kept
  <2>3. Kept(s.env, x.env)
    BY <2>1, <2>2 DEF Kept
  <2>4. ~Full(f.env)
    BY <1>4, <1>10
  <2>5. getenv(s.env, name) = NoVal /\ ~Full(s.env)
    BY <1>1, <1>10, <2>4 DEF Kept
  <2>6. /\ u.nv.ok /\ ~u.nv.cut
        /\ Last(Pairs(u.nv)).env = s.env /\ Last(Pairs(u.nv)).top = s.top
    <3>1. CASE NoEntry(f.nv, name)
      BY <1>5, <3>1
    <3>2. CASE ~NoEntry(f.nv, name)
      <4>1. PICK k \in 1 .. Len(f.nv.ents) :
               f.nv.ents[k].name = name /\ u.nv = Entries(Cut(f.nv.ents, k))
        BY <1>5, <3>2
      <4> DEFINE q == Pairs(f.nv)
      <4>2. k \in 1 .. Len(q) /\ q[k].name = name /\ Pairs(u.nv) = Cut(q, k)
        BY <1>2, <4>1, CutPairs
      <4>3. q \in Seq(Pair)
        BY <1>2, PairsFacts
      <4>4. getenv(Last(q).env, q[k].name) = NoVal /\ ~Full(Last(q).env)
        BY <2>5, <4>2
      <4> HIDE DEF q
      <4>5. Last(Cut(q, k)).env = Last(q).env /\ Last(Cut(q, k)).top = Last(q).top
        BY <4>2, <4>3, <4>4, CutSame
      <4>6. u.nv.ok /\ ~u.nv.cut
        BY <4>1 DEF Entries
      <4>7. QED
        BY <4>2, <4>5, <4>6 DEF q
    <3>3. QED
      BY <3>1, <3>2
  <2>7. QED
    BY <1>5, <2>1, <2>3, <2>6 DEF x, name
<1>11. QED
  BY <1>4, <1>8, <1>9, <1>10

LEMMA FillSettles ==
  ASSUME NEW nv \in Sound, nv.ok, ~nv.cut
  PROVE  \A i \in 0 .. Len(Std) : Settled(Filled(tgt_mapenv(nv)), tgt_mapenv(nv), i)
<1> DEFINE s == tgt_mapenv(nv)
           F == Filled(s)
           L == Len(Std)
           T == {i \in 0 .. L : Settled(F, s, i)}
<1>1. s \in Both /\ s.nv = nv /\ s.inv = FALSE
      /\ s.env = Last(Pairs(nv)).env /\ s.top = Last(Pairs(nv)).top
  BY tgt_mapenvFacts
<1> HIDE DEF s
<1>2. /\ F \in [0 .. L -> Both] /\ F[0] = s
      /\ \A i \in 1 .. L : F[i] = WithDefault(F[i - 1], Std[i])
  BY <1>1, FilledFacts
<1>3. L \in Nat
  BY VarFacts
<1> HIDE DEF F
<1>4. 0 \in T
  <2>1. Kept(s.env, s.env)
    BY DEF Kept
  <2>2. \A j \in 1 .. 0 : FALSE
    OBVIOUS
  <2>3. Settled(F, s, 0)
    BY <1>1, <1>2, <2>1, <2>2 DEF Settled
  <2>4. QED
    BY <1>3, <2>3
<1>5. ASSUME NEW i \in 1 .. L, i - 1 \in T
      PROVE  i \in T
  <2>1. F[i - 1] \in Both /\ Settled(F, s, i - 1) /\ i - 1 \in 0 .. L /\ i \in 0 .. L
    BY <1>2, <1>3, <1>5
  <2>2. F[i] = WithDefault(F[i - 1], Std[i])
    BY <1>2
  <2>3. /\ ~F[i].inv /\ F[i].nv.ok /\ ~F[i].nv.cut
        /\ Last(Pairs(F[i].nv)).env = s.env /\ Last(Pairs(F[i].nv)).top = s.top
        /\ Kept(s.env, F[i].env)
        /\ Within(F[i].nv, F[i - 1].nv)
        /\ Taken(F[i - 1], i) => NoEntry(F[i].nv, Std[i])
    BY <1>1, <2>1, <2>2, FillStep DEF Settled
  <2>4. ASSUME NEW j \in 1 .. i, Taken(F[j - 1], j)
        PROVE  NoEntry(F[i].nv, Std[j])
    <3>1. CASE j = i
      BY <2>3, <2>4, <3>1
    <3>2. CASE j # i
      <4>1. j \in 1 .. i - 1
        BY <1>3, <3>2
      <4>2. NoEntry(F[i - 1].nv, Std[j])
        BY <2>1, <2>4, <4>1 DEF Settled
      <4>3. QED
        BY <2>3, <4>2 DEF NoEntry, Within
    <3>3. QED
      BY <3>1, <3>2
  <2>5. Settled(F, s, i)
    BY <2>3, <2>4 DEF Settled
  <2>6. QED
    BY <2>1, <2>5
<1> HIDE DEF T
<1>6. 0 .. L \subseteq T
  BY <1>3, <1>4, <1>5, InductTo
<1>7. QED
  BY <1>6 DEF T, F, s

(* A memory is what envinit makes of it, not of the contents on the way.   *)
LEMMA SameDefaults ==
  ASSUME NEW f \in Both, NEW g \in Both, NEW i \in 1 .. Len(Std),
         g.env = f.env, g.top = f.top, ~g.inv,
         Taken(f, i) => NoEntry(g.nv, Std[i])
  PROVE  LET x == WithDefault(f, Std[i])
             y == WithDefault(g, Std[i])
         IN  y.env = x.env /\ y.top = x.top /\ y.nv = g.nv /\ ~y.inv
<1> DEFINE name == Std[i]
           c == Change(f.env, f.top, name, Default[name])
           x == WithDefault(f, name)
           y == WithDefault(g, name)
           u == tgt_unsetenv(g.nv, g.inv, name)
<1>1. name \in Name /\ Default[name] \in Value
  BY DefaultFacts
<1>2. f.env \in Memory /\ f.top \in Value /\ g.nv \in Sound /\ g.inv \in BOOLEAN
  BY BothFacts
<1>3. c = Change(g.env, g.top, name, Default[name])
  OBVIOUS
<1>4. c.ok \in BOOLEAN
  BY <1>1, <1>2, ChangeFacts
<1>5. /\ getenv(f.env, name) # NoVal => x = f
      /\ getenv(f.env, name) = NoVal => x.env = c.env /\ x.top = c.top
  BY WithDefaultFacts
<1> HIDE DEF c
<1>6. /\ getenv(g.env, name) # NoVal => y = g
      /\ getenv(g.env, name) = NoVal => y.env = c.env /\ y.top = c.top
      /\ getenv(g.env, name) = NoVal /\ ~c.ok => y.nv = g.nv
      /\ getenv(g.env, name) = NoVal /\ c.ok => y.nv = u.nv
      /\ y.inv = g.inv
  BY <1>3, WithDefaultFacts
<1>7. NoEntry(g.nv, name) => u.nv = g.nv
  BY <1>1, <1>2, UnsetFacts
<1>8. Taken(f, i) <=> getenv(f.env, name) = NoVal /\ c.ok
  BY DEF Taken, c
<1> HIDE DEF x, y, u, name
<1>9. y.env = x.env /\ y.top = x.top
  BY <1>5, <1>6
<1>10. y.nv = g.nv /\ ~y.inv
  BY <1>4, <1>6, <1>7, <1>8 DEF name
<1>11. QED
  BY <1>9, <1>10 DEF x, y, name

(* Defaults write nothing to a sector that must not be written to.         *)
LEMMA FillInvalid ==
  ASSUME NEW s \in Both, s.inv
  PROVE  \A i \in 0 .. Len(Std) : Filled(s)[i].nv = s.nv /\ Filled(s)[i].inv
<1> DEFINE F == Filled(s)
           L == Len(Std)
           T == {i \in 0 .. L : F[i].nv = s.nv /\ F[i].inv}
<1>1. /\ F \in [0 .. L -> Both] /\ F[0] = s
      /\ \A i \in 1 .. L : F[i] = WithDefault(F[i - 1], Std[i])
  BY FilledFacts
<1>2. L \in Nat
  BY VarFacts
<1> HIDE DEF F
<1>3. 0 \in T
  BY <1>1, <1>2
<1>4. ASSUME NEW i \in 1 .. L, i - 1 \in T
      PROVE  i \in T
  <2> DEFINE f == F[i - 1]
             name == Std[i]
             c == Change(f.env, f.top, name, Default[name])
             u == tgt_unsetenv(f.nv, f.inv, name)
             x == WithDefault(f, name)
  <2>1. f \in Both /\ f.nv = s.nv /\ f.inv
    BY <1>1, <1>2, <1>4
  <2> HIDE DEF f
  <2>2. name \in Name /\ Default[name] \in Value
    BY DefaultFacts
  <2>3. f.env \in Memory /\ f.top \in Value /\ f.nv \in Sound /\ f.inv \in BOOLEAN
    BY <2>1, BothFacts
  <2>4. u.nv = f.nv
    BY <2>1, <2>2, <2>3, UnsetFacts
  <2>5. c.ok \in BOOLEAN
    BY <2>2, <2>3, ChangeFacts
  <2>6. /\ x.inv = f.inv
        /\ getenv(f.env, name) # NoVal => x = f
        /\ getenv(f.env, name) = NoVal /\ ~c.ok => x.nv = f.nv
        /\ getenv(f.env, name) = NoVal /\ c.ok => x.nv = u.nv
    BY <2>1, WithDefaultFacts
  <2>7. F[i] = x /\ i \in 0 .. L
    BY <1>1, <1>2 DEF f
  <2> HIDE DEF x, u, c, name
  <2>8. x.nv = s.nv /\ x.inv
    BY <2>1, <2>4, <2>5, <2>6
  <2>9. QED
    BY <2>7, <2>8
<1> HIDE DEF T
<1>5. 0 .. L \subseteq T
  BY <1>2, <1>3, <1>4, InductTo
<1>6. QED
  BY <1>5 DEF T, F

(* envinit of what envinit has left yields the same.                       *)
LEMMA Stable ==
  ASSUME NEW nv \in Sound
  PROVE  LET once  == envinit(nv)
             again == envinit(once.nv)
         IN  again.env = once.env /\ again.nv = once.nv
<1> DEFINE s == tgt_mapenv(nv)
           F == Filled(s)
           L == Len(Std)
           once == envinit(nv)
           again == envinit(once.nv)
<1>1. s \in Both /\ s.nv = nv /\ s.inv = (~nv.ok \/ nv.cut)
  BY tgt_mapenvFacts
<1>2. L \in Nat /\ L \in 0 .. L /\ once = F[L]
  BY VarFacts DEF envinit
<1>3. nv.ok \in BOOLEAN /\ nv.cut \in BOOLEAN
  BY SoundFacts
<1> HIDE DEF s
<1>4. CASE ~nv.ok \/ nv.cut
  <2>1. F[L].nv = s.nv
    BY <1>1, <1>2, <1>4, FillInvalid
  <2> HIDE DEF F
  <2>2. once.nv = nv
    BY <1>1, <1>2, <2>1
  <2> HIDE DEF once
  <2>3. QED
    BY <2>2 DEF once
<1>5. CASE nv.ok /\ ~nv.cut
  <2> DEFINE nv2 == once.nv
             s2 == tgt_mapenv(nv2)
             G == Filled(s2)
             T == {i \in 0 .. L : /\ G[i].env = F[i].env /\ G[i].top = F[i].top
                                  /\ G[i].nv = nv2 /\ ~G[i].inv}
  <2>1. Settled(F, s, L)
    BY <1>2, <1>5, FillSettles DEF s
  <2>2. /\ F \in [0 .. L -> Both] /\ F[0] = s
        /\ \A i \in 1 .. L : F[i] = WithDefault(F[i - 1], Std[i])
    BY <1>1, FilledFacts
  <2> HIDE DEF F
  <2>3. F[L] \in Both /\ nv2 = F[L].nv
    BY <1>2, <2>2
  <2> HIDE DEF once
  <2>4. /\ nv2 \in Sound /\ nv2.ok /\ ~nv2.cut
        /\ Last(Pairs(nv2)).env = s.env /\ Last(Pairs(nv2)).top = s.top
        /\ \A j \in 1 .. L : Taken(F[j - 1], j) => NoEntry(nv2, Std[j])
    BY <2>1, <2>3, BothFacts DEF Settled
  <2> HIDE DEF nv2
  <2>5. s2 \in Both /\ s2.env = s.env /\ s2.top = s.top /\ s2.nv = nv2 /\ ~s2.inv
    BY <2>4, tgt_mapenvFacts
  <2> HIDE DEF s2
  <2>6. /\ G \in [0 .. L -> Both] /\ G[0] = s2
        /\ \A i \in 1 .. L : G[i] = WithDefault(G[i - 1], Std[i])
    BY <2>5, FilledFacts
  <2> HIDE DEF G
  <2>7. 0 \in T
    BY <1>2, <2>2, <2>5, <2>6
  <2>8. ASSUME NEW i \in 1 .. L, i - 1 \in T
        PROVE  i \in T
    <3>1. F[i - 1] \in Both /\ G[i - 1] \in Both /\ i \in 0 .. L
      BY <1>2, <2>2, <2>6
    <3>2. /\ G[i - 1].env = F[i - 1].env /\ G[i - 1].top = F[i - 1].top
          /\ G[i - 1].nv = nv2 /\ ~G[i - 1].inv
      BY <2>8
    <3>3. Taken(F[i - 1], i) => NoEntry(G[i - 1].nv, Std[i])
      BY <2>4, <3>2
    <3>4. F[i] = WithDefault(F[i - 1], Std[i]) /\ G[i] = WithDefault(G[i - 1], Std[i])
      BY <2>2, <2>6
    <3>5. G[i].env = F[i].env /\ G[i].top = F[i].top /\ G[i].nv = G[i - 1].nv /\ ~G[i].inv
      BY <3>1, <3>2, <3>3, <3>4, SameDefaults
    <3>6. QED
      BY <3>1, <3>2, <3>5
  <2> HIDE DEF T
  <2>9. 0 .. L \subseteq T
    BY <1>2, <2>7, <2>8, InductTo
  <2>10. G[L].env = F[L].env /\ G[L].nv = nv2
    BY <1>2, <2>9 DEF T
  <2>11. again = G[L]
    BY DEF again, envinit, G, s2, nv2, once
  <2> HIDE DEF again
  <2>12. again.env = once.env /\ again.nv = nv2
    BY <1>2, <2>10, <2>11 DEF once
  <2>13. QED
    BY <2>12 DEF again, nv2, once
<1>6. QED
  BY <1>3, <1>4, <1>5

(* A start leaves the two copies so that another one changes nothing:      *)
(* envinit writes to the sector only to remove an entry that tgt_mapenv    *)
(* could not use.                                                          *)
THEOREM StartStableCorrect == Spec => []StartStable
<1>1. IInv => StartStable
  BY IInvIs, Stable DEF Copies, StartStable, Restarted
<1>2. QED
  BY <1>1, Invariance, PTL

-----------------------------------------------------------------------------
(* Slots and variables.                                                    *)

MemVars(e) == {Var[e[i].name] : i \in {j \in Slots : e[j].name # ""}}

LEMMA MemVarsIs ==
  ASSUME NEW e \in Memory
  PROVE  /\ MemVars(e) \subseteq Vars
         /\ \A n \in Name : getenv(e, n) # NoVal <=> Var[n] \in MemVars(e)
<1>1. \A i \in Slots : e[i].name # "" => e[i].name \in Name
  <2>1. \A i \in Slots : e[i] \in Slot
    BY DEF Memory
  <2>2. \A p \in Pair : p.name \in Name
    BY DEF Pair
  <2>3. QED
    BY <2>1, <2>2, SlotFacts
<1>2. MemVars(e) \subseteq Vars
  BY <1>1, VarFacts DEF MemVars
<1>3. ASSUME NEW n \in Name
      PROVE  getenv(e, n) # NoVal <=> Var[n] \in MemVars(e)
  <2>1. Matches(e, n) # {} <=> Var[n] \in MemVars(e)
    BY DEF Matches, MemVars
  <2>2. QED
    BY <2>1, MatchFacts
<1>4. QED
  BY <1>2, <1>3

(* A variable takes one slot, so a full memory has as many variables as    *)
(* there are slots.                                                        *)
LEMMA MemVarsCount ==
  ASSUME NEW e \in Memory
  PROVE  /\ IsFiniteSet(MemVars(e)) /\ Cardinality(MemVars(e)) \in Nat
         /\ Cardinality(MemVars(e)) <= NVAR
         /\ Full(e) <=> Cardinality(MemVars(e)) = NVAR
<1> DEFINE U == {i \in Slots : e[i].name # ""}
           f == [i \in U |-> Var[e[i].name]]
<1>1. NVAR \in Nat \ {0}
  BY Zenon, EnvAssumption
<1>2. IsFiniteSet(Slots) /\ Cardinality(Slots) = NVAR
  <2>1. 1 \in Int /\ NVAR \in Int
    BY <1>1
  <2>2. /\ IsFiniteSet(1 .. NVAR)
        /\ Cardinality(1 .. NVAR) = IF 1 > NVAR THEN 0 ELSE NVAR - 1 + 1
    BY <2>1, FS_Interval
  <2>3. QED
    BY <1>1, <2>2 DEF Slots
<1>3. /\ IsFiniteSet(U) /\ Cardinality(U) <= NVAR
      /\ NVAR = Cardinality(U) => U = Slots
  <2>1. U \in SUBSET Slots
    OBVIOUS
  <2> HIDE DEF U
  <2>2. /\ IsFiniteSet(U) /\ Cardinality(U) <= Cardinality(Slots)
        /\ Cardinality(Slots) = Cardinality(U) => Slots = U
    BY <1>2, <2>1, FS_Subset
  <2>3. QED
    BY <1>2, <2>2
<1>4. f \in Surjection(U, MemVars(e)) /\ f \in Injection(U, MemVars(e))
  <2>1. f \in [U -> MemVars(e)]
    BY DEF MemVars
  <2>2. \A v \in MemVars(e) : \E i \in U : f[i] = v
    BY DEF MemVars
  <2>3. \A i, j \in U : f[i] = f[j] => i = j
    BY DEF Memory, OneSlot
  <2> HIDE DEF f, U
  <2>4. QED
    BY <2>1, <2>2, <2>3 DEF Surjection, Injection, IsInjective
<1>5. Full(e) <=> U = Slots
  BY DEF Full
<1> HIDE DEF f, U
<1>6. IsFiniteSet(MemVars(e)) /\ Cardinality(MemVars(e)) = Cardinality(U)
  BY <1>3, <1>4, FS_Surjection
<1>7. Cardinality(MemVars(e)) \in Nat
  BY <1>6, FS_CardinalityType
<1>8. QED
  BY <1>2, <1>3, <1>5, <1>6, <1>7

LEMMA RoomLeft ==
  ASSUME NEW e \in Memory, NEW S, IsFiniteSet(S), Cardinality(S) <= NVAR,
         MemVars(e) \subseteq S, NEW v \in S, v \notin MemVars(e)
  PROVE  ~Full(e)
<1>1. SUFFICES ASSUME Full(e) PROVE FALSE
  OBVIOUS
<1>2. Cardinality(MemVars(e)) = NVAR /\ NVAR \in Nat
  BY <1>1, MemVarsCount
<1>3. /\ Cardinality(MemVars(e)) <= Cardinality(S)
      /\ Cardinality(S) = Cardinality(MemVars(e)) => S = MemVars(e)
  BY FS_Subset
<1>4. Cardinality(S) \in Nat
  BY FS_CardinalityType
<1>5. QED
  BY <1>2, <1>3, <1>4

LEMMA NoFuller ==
  ASSUME NEW e \in Memory, NEW f \in Memory, MemVars(f) \subseteq MemVars(e), Full(f)
  PROVE  Full(e)
<1>1. Cardinality(MemVars(f)) = NVAR
  BY MemVarsCount
<1>2. IsFiniteSet(MemVars(e)) /\ Cardinality(MemVars(e)) <= NVAR /\ Cardinality(MemVars(e)) \in Nat
  BY MemVarsCount
<1>3. Cardinality(MemVars(f)) <= Cardinality(MemVars(e))
  BY <1>2, FS_Subset
<1>4. QED
  BY <1>1, <1>2, <1>3, MemVarsCount

(* A slot more for the variable that was set.                              *)
LEMMA SetAdds ==
  ASSUME NEW e \in Memory, NEW s \in Set, NEW name \in Name, NEW value \in Value,
         ~s.ok => s.env = e,
         s.ok => getenv(s.env, name) = value,
         \A n \in Name : Var[n] # Var[name] => getenv(s.env, n) = getenv(e, n)
  PROVE  MemVars(s.env) = MemVars(e) \cup (IF s.ok THEN {Var[name]} ELSE {})
<1>1. s.env \in Memory /\ s.ok \in BOOLEAN
  BY DEF Set
<1>2. ASSUME s.ok
      PROVE  MemVars(s.env) = MemVars(e) \cup {Var[name]}
  <2>1. ASSUME NEW v \in Vars
        PROVE  v \in MemVars(s.env) <=> v \in MemVars(e) \cup {Var[name]}
    <3>1. v \in Name /\ Var[v] = v
      BY VarFacts
    <3>2. /\ getenv(s.env, v) # NoVal <=> v \in MemVars(s.env)
          /\ getenv(e, v) # NoVal <=> v \in MemVars(e)
      BY <1>1, <3>1, MemVarsIs
    <3>3. CASE v = Var[name]
      <4>1. getenv(s.env, v) = getenv(s.env, name)
        BY <3>1, <3>3, SameVar
      <4>2. QED
        BY <1>2, <3>2, <3>3, <4>1, NoValIsNone
    <3>4. CASE v # Var[name]
      BY <1>1, <3>1, <3>2, <3>4
    <3>5. QED
      BY <3>3, <3>4
  <2>2. MemVars(s.env) \subseteq Vars /\ MemVars(e) \subseteq Vars /\ Var[name] \in Vars
    BY <1>1, MemVarsIs, VarFacts
  <2>3. QED
    BY <2>1, <2>2
<1>3. QED
  BY <1>1, <1>2

(* What _setenv adds, and what it makes of the top of the heap.            *)
LEMMA SetMore ==
  ASSUME NEW e \in Memory, NEW h \in Value, NEW name \in Name, NEW value \in Value,
         NEW b \in BOOLEAN
  PROVE  LET s == _setenv(e, h, name, value, b)
         IN  /\ s.env \in Memory /\ s.top \in Value /\ s.ok \in BOOLEAN
             /\ s.top = IF Var[name] = Heaptop /\ value >= h THEN value ELSE h
             /\ s.top >= h /\ (Var[name] = Heaptop => s.top >= value)
             /\ s.ok /\ Var[name] = Heaptop => value >= h
<1> DEFINE s == _setenv(e, h, name, value, b)
<1>1. /\ s \in Set
      /\ ~s.ok <=> \/ Refused(h, name, value, b)
                   \/ getenv(e, name) = NoVal /\ Full(e)
      /\ ~s.ok => s.env = e
      /\ s.ok => getenv(s.env, name) = value
      /\ \A n \in Name : Var[n] # Var[name] => getenv(s.env, n) = getenv(e, n)
  BY SetFacts
<1>2. s.top = IF Var[name] = Heaptop /\ value >= h THEN value ELSE h
  BY DEF _setenv
<1> HIDE DEF s
<1>3. s.env \in Memory /\ s.top \in Value /\ s.ok \in BOOLEAN
  BY <1>1 DEF Set
<1>4. value \in Nat /\ h \in Nat
  BY Zenon, EnvAssumption
<1>5. s.top >= h /\ (Var[name] = Heaptop => s.top >= value)
  BY <1>2, <1>4
<1>6. s.ok /\ Var[name] = Heaptop => value >= h
  <2>1. Heaptop \in StdVars
    BY Zenon, EnvAssumption
  <2>2. QED
    BY <1>1, <1>4, <2>1 DEF Refused
<1>7. QED
  BY <1>1, <1>2, <1>3, <1>5, <1>6 DEF s

-----------------------------------------------------------------------------
(* What the sector owes to the next start: for heaptop the highest of its  *)
(* entries counts, for the others the last.                                *)
Owes(q, v, w) ==
  /\ \E i \in 1 .. Len(q) : /\ Var[q[i].name] = v /\ q[i].value = w
                            /\ v # Heaptop => \A j \in i + 1 .. Len(q) : Var[q[j].name] # v
  /\ v = Heaptop => /\ w >= HeapStart
                    /\ \A j \in 1 .. Len(q) : Var[q[j].name] = v => q[j].value <= w

(* q is r without entry k.                                                 *)
Place(k, j) == IF j < k THEN j ELSE j + 1
Thin(q, r, k) ==
  /\ q \in Seq(Pair) /\ r \in Seq(Pair) /\ k \in 1 .. Len(r) /\ Len(r) = Len(q) + 1
  /\ \A j \in 1 .. Len(q) : q[j] = r[Place(k, j)]

LEMMA ThinOwes ==
  ASSUME NEW q, NEW r, NEW k, Thin(q, r, k), NEW v, NEW w, Var[r[k].name] # v
  PROVE  Owes(q, v, w) <=> Owes(r, v, w)
<1>1. /\ Len(q) \in Nat /\ Len(r) = Len(q) + 1 /\ k \in 1 .. Len(r)
      /\ \A j \in 1 .. Len(q) : q[j] = r[Place(k, j)]
  BY DEF Thin
<1> DEFINE Old(i) == IF i < k THEN i ELSE i - 1
<1>2. \A j \in 1 .. Len(q) : Place(k, j) \in 1 .. Len(r)
  BY <1>1 DEF Place
<1>3. \A i \in 1 .. Len(r) : i # k => Old(i) \in 1 .. Len(q) /\ Place(k, Old(i)) = i
  BY <1>1 DEF Place
<1>4. \A i, j \in 1 .. Len(q) : j >= i + 1 <=> Place(k, j) >= Place(k, i) + 1
  BY <1>1 DEF Place
<1> HIDE DEF Old
<1>5. \A i \in 1 .. Len(r) : Var[r[i].name] = v => i # k /\ r[i] = q[Old(i)]
  BY <1>1, <1>3
<1>6. ASSUME NEW i \in 1 .. Len(q)
      PROVE  (\A j \in i + 1 .. Len(q) : Var[q[j].name] # v)
               <=> (\A j \in Place(k, i) + 1 .. Len(r) : Var[r[j].name] # v)
  <2>1. Place(k, i) \in 1 .. Len(r)
    BY <1>2
  <2>2. ASSUME \A j \in i + 1 .. Len(q) : Var[q[j].name] # v,
               NEW j \in Place(k, i) + 1 .. Len(r), Var[r[j].name] = v
        PROVE  FALSE
    <3>1. j \in 1 .. Len(r) /\ j >= Place(k, i) + 1
      BY <1>1, <2>1
    <3>2. j # k /\ r[j] = q[Old(j)] /\ Old(j) \in 1 .. Len(q) /\ Place(k, Old(j)) = j
      BY <1>3, <1>5, <2>2, <3>1
    <3>3. Old(j) >= i + 1
      BY <1>4, <3>1, <3>2
    <3>4. Old(j) \in i + 1 .. Len(q)
      BY <1>1, <3>2, <3>3
    <3>5. QED
      BY <2>2, <3>2, <3>4
  <2>3. ASSUME \A j \in Place(k, i) + 1 .. Len(r) : Var[r[j].name] # v,
               NEW j \in i + 1 .. Len(q), Var[q[j].name] = v
        PROVE  FALSE
    <3>1. j \in 1 .. Len(q) /\ j >= i + 1
      BY <1>1
    <3>2. q[j] = r[Place(k, j)] /\ Place(k, j) \in 1 .. Len(r) /\ Place(k, j) >= Place(k, i) + 1
      BY <1>1, <1>2, <1>4, <3>1
    <3>3. Place(k, j) \in Place(k, i) + 1 .. Len(r)
      BY <1>1, <2>1, <3>2
    <3>4. QED
      BY <2>3, <3>2, <3>3
  <2>4. QED
    BY <2>2, <2>3
<1>7. Owes(q, v, w) => Owes(r, v, w)
  <2>1. ASSUME Owes(q, v, w) PROVE Owes(r, v, w)
    <3>1. PICK i \in 1 .. Len(q) :
             /\ Var[q[i].name] = v /\ q[i].value = w
             /\ v # Heaptop => \A j \in i + 1 .. Len(q) : Var[q[j].name] # v
      BY <2>1 DEF Owes
    <3>2. /\ Place(k, i) \in 1 .. Len(r) /\ Var[r[Place(k, i)].name] = v
          /\ r[Place(k, i)].value = w
          /\ v # Heaptop => \A j \in Place(k, i) + 1 .. Len(r) : Var[r[j].name] # v
      BY <1>1, <1>2, <1>6, <3>1
    <3>3. v = Heaptop => /\ w >= HeapStart
                         /\ \A j \in 1 .. Len(r) : Var[r[j].name] = v => r[j].value <= w
      BY <1>3, <1>5, <2>1 DEF Owes
    <3>4. QED
      BY <3>2, <3>3 DEF Owes
  <2>2. QED
    BY <2>1
<1>8. Owes(r, v, w) => Owes(q, v, w)
  <2>1. ASSUME Owes(r, v, w) PROVE Owes(q, v, w)
    <3>1. PICK i \in 1 .. Len(r) :
             /\ Var[r[i].name] = v /\ r[i].value = w
             /\ v # Heaptop => \A j \in i + 1 .. Len(r) : Var[r[j].name] # v
      BY <2>1 DEF Owes
    <3>2. i # k /\ r[i] = q[Old(i)] /\ Old(i) \in 1 .. Len(q) /\ Place(k, Old(i)) = i
      BY <1>3, <1>5, <3>1
    <3>3. v # Heaptop => \A j \in Old(i) + 1 .. Len(q) : Var[q[j].name] # v
      BY <1>6, <3>1, <3>2
    <3>4. v = Heaptop => /\ w >= HeapStart
                         /\ \A j \in 1 .. Len(q) : Var[q[j].name] = v => q[j].value <= w
      BY <1>1, <1>2, <2>1 DEF Owes
    <3>5. QED
      BY <3>1, <3>2, <3>3, <3>4 DEF Owes
  <2>2. QED
    BY <2>1
<1>9. QED
  BY <1>7, <1>8

LEMMA CutThin ==
  ASSUME NEW q \in Seq(Pair), NEW k \in 1 .. Len(q)
  PROVE  Thin(Cut(q, k), q, k)
<1> DEFINE c == Cut(q, k)
<1>1. /\ Len(q) \in Nat /\ c \in Seq(Pair) /\ Len(c) = Len(q) - 1
      /\ \A j \in 1 .. Len(q) - 1 : c[j] = IF j < k THEN q[j] ELSE q[j + 1]
  <2>1. Len(q) \in Nat
    OBVIOUS
  <2>2. c \in Seq(Pair) /\ Len(c) = Len(q) - 1
    BY CutFacts
  <2>3. ASSUME NEW j \in 1 .. Len(q) - 1
        PROVE  c[j] = IF j < k THEN q[j] ELSE q[j + 1]
    BY CutFacts
  <2> HIDE DEF c
  <2>4. QED
    BY <2>1, <2>2, <2>3
<1> HIDE DEF c
<1>2. Len(q) = Len(c) + 1
  BY <1>1
<1>3. \A j \in 1 .. Len(c) : c[j] = q[Place(k, j)]
  BY <1>1 DEF Place
<1>4. Thin(c, q, k)
  BY <1>1, <1>2, <1>3 DEF Thin
<1>5. QED
  BY <1>4 DEF c

(* The new entry is the last one, or it is heaptop's.                      *)
LEMMA AddedThin ==
  ASSUME NEW q \in Seq(Pair), NEW name \in Name, NEW value \in Value
  PROVE  LET r == Added(q, name, value)
         IN  \E k \in 1 .. Len(r) : /\ Thin(q, r, k)
                                    /\ r[k] = [name |-> name, value |-> value]
                                    /\ name # Heaptop => k = Len(r)
<1> DEFINE p == [name |-> name, value |-> value]
           r == Added(q, name, value)
<1>1. p \in Pair /\ Len(q) \in Nat
  BY DEF Pair
<1> HIDE DEF p
<1>2. CASE name = Heaptop
  <2>1. r = <<p>> \o q
    BY <1>2 DEF Added, p
  <2>2. <<p>> \in Seq(Pair) /\ Len(<<p>>) = 1 /\ <<p>>[1] = p
    BY <1>1
  <2> HIDE DEF r
  <2>3. r \in Seq(Pair) /\ Len(r) = 1 + Len(q)
        /\ \A i \in 1 .. 1 + Len(q) : r[i] = IF i <= 1 THEN <<p>>[i] ELSE q[i - 1]
    BY <2>1, <2>2, ConcatProperties
  <2>4. r[1] = p
    BY <1>1, <2>2, <2>3
  <2>5. \A j \in 1 .. Len(q) : q[j] = r[Place(1, j)]
    BY <1>1, <2>3 DEF Place
  <2>6. 1 \in 1 .. Len(r) /\ Len(r) = Len(q) + 1
    BY <1>1, <2>3
  <2>7. Thin(q, r, 1)
    BY <2>3, <2>5, <2>6 DEF Thin
  <2>8. QED
    BY <1>2, <2>4, <2>6, <2>7 DEF r, p
<1>3. CASE name # Heaptop
  <2>1. r = Append(q, p)
    BY <1>3 DEF Added, p
  <2> HIDE DEF r
  <2>2. r \in Seq(Pair) /\ Len(r) = Len(q) + 1 /\ r[Len(q) + 1] = p
        /\ \A i \in 1 .. Len(q) : r[i] = q[i]
    BY <1>1, <2>1, AppendProperties
  <2>3. \A j \in 1 .. Len(q) : Place(Len(r), j) = j
    BY <1>1, <2>2 DEF Place
  <2>4. Len(r) \in 1 .. Len(r) /\ r[Len(r)] = p
    BY <1>1, <2>2
  <2>5. Thin(q, r, Len(r))
    BY <2>2, <2>3, <2>4 DEF Thin
  <2>6. QED
    BY <2>4, <2>5 DEF r, p
<1>4. QED
  BY <1>2, <1>3

LEMMA OwesNew ==
  ASSUME NEW q \in Seq(Pair), NEW name \in Name, NEW value \in Value,
         Var[name] = Heaptop =>
           /\ value >= HeapStart
           /\ \A j \in 1 .. Len(q) : Var[q[j].name] = Heaptop => q[j].value <= value
  PROVE  Owes(Added(q, name, value), Var[name], value)
<1> DEFINE r == Added(q, name, value)
<1>1. PICK k \in 1 .. Len(r) : /\ Thin(q, r, k)
                               /\ r[k] = [name |-> name, value |-> value]
                               /\ name # Heaptop => k = Len(r)
  BY AddedThin
<1> HIDE DEF r
<1>2. /\ r[k].name = name /\ r[k].value = value /\ Len(q) \in Nat /\ Len(r) = Len(q) + 1
      /\ \A j \in 1 .. Len(q) : q[j] = r[Place(k, j)]
  BY <1>1 DEF Thin
<1>3. Var[Heaptop] = Heaptop
  <2>1. Heaptop \in StdVars
    BY Zenon, EnvAssumption
  <2>2. QED
    BY <2>1, VarFacts
<1>4. Var[name] # Heaptop => \A j \in k + 1 .. Len(r) : Var[r[j].name] # Var[name]
  BY <1>1, <1>2, <1>3
<1>5. ASSUME Var[name] = Heaptop, NEW j \in 1 .. Len(r), Var[r[j].name] = Heaptop
      PROVE  r[j].value <= value
  <2>1. CASE j = k
    <3>1. value \in Nat
      BY Zenon, EnvAssumption
    <3>2. QED
      BY <1>2, <2>1, <3>1
  <2>2. CASE j # k
    <3> DEFINE i == IF j < k THEN j ELSE j - 1
    <3>1. i \in 1 .. Len(q) /\ Place(k, i) = j
      BY <1>2, <2>2 DEF Place
    <3> HIDE DEF i
    <3>2. q[i] = r[j]
      BY <1>2, <3>1
    <3>3. QED
      BY <1>5, <3>1, <3>2
  <2>3. QED
    BY <2>1, <2>2
<1>6. Owes(r, Var[name], value)
  BY <1>2, <1>4, <1>5 DEF Owes
<1>7. QED
  BY <1>6 DEF r

-----------------------------------------------------------------------------
(* What the operations do to the sector, in three kinds: nothing, remove   *)
(* an entry, or remove an entry and add a new one.                         *)
Left(x, nv, inv) == x.nv = nv /\ x.inv = inv /\ x.way = {nv}
CutAt(nv, name, old) == \E k \in 1 .. Len(nv.ents) :
                          nv.ents[k].name = name /\ old = Entries(Cut(nv.ents, k))
Removes(x, nv, inv, name) ==
  /\ ~inv /\ ~x.inv /\ x.ret = 1
  /\ CutAt(nv, name, x.nv) /\ NoEntry(x.nv, name)
  /\ x.way \subseteq {nv, Erased, x.nv}
Stores(x, nv, inv, name, value) ==
  /\ ~x.inv /\ x.ret = 1
  /\ \E old \in Sound :
       /\ NoEntry(old, name)
       /\ IF inv THEN old = Entries(<<>>) /\ ~x.nv.cut
                 ELSE old = nv \/ CutAt(nv, name, old)
       /\ x.nv.cut \/ x.nv = Entries(Added(old.ents, name, value))
       /\ x.way \subseteq {nv, Erased, old, x.nv}

LEMMA UnsetIs ==
  ASSUME NEW nv \in Sound, NEW inv \in BOOLEAN, NEW name \in Name
  PROVE  LET f == tgt_unsetenv(nv, inv, name)
         IN  \/ Left(f, nv, inv) /\ f.ret = 0 /\ (inv \/ NoEntry(f.nv, name))
             \/ Removes(f, nv, inv, name)
<1> DEFINE f == tgt_unsetenv(nv, inv, name)
           hit == {i \in 1 .. Len(nv.ents) : nv.ents[i].name = name}
           rest == Entries(Cut(nv.ents, First(hit)))
<1>1. f = IF inv \/ hit = {} THEN Same(nv, inv, 0)
          ELSE [nv |-> rest, inv |-> inv, ret |-> 1, way |-> {nv, Erased, rest}]
  BY DEF tgt_unsetenv, Cut
<1>2. hit = {} <=> NoEntry(nv, name)
  BY DEF NoEntry
<1>3. /\ ~inv => NoEntry(f.nv, name)
      /\ ~inv /\ ~NoEntry(nv, name) =>
           \E i \in 1 .. Len(nv.ents) : nv.ents[i].name = name /\ f.nv = Entries(Cut(nv.ents, i))
  BY UnsetFacts
<1> HIDE DEF f, hit, rest
<1>4. CASE inv \/ hit = {}
  <2>1. f = Same(nv, inv, 0)
    BY <1>1, <1>4
  <2>2. Left(f, nv, inv) /\ f.ret = 0
    BY <2>1 DEF Same, Left
  <2>3. QED
    BY <1>3, <2>2 DEF f
<1>5. CASE ~inv /\ hit # {}
  <2>1. f.nv = rest /\ f.inv = inv /\ f.ret = 1 /\ f.way = {nv, Erased, rest}
    BY <1>1, <1>5
  <2>2. Removes(f, nv, inv, name)
    BY <1>2, <1>3, <1>5, <2>1 DEF Removes, CutAt
  <2>3. QED
    BY <2>2 DEF f
<1>6. QED
  BY <1>4, <1>5

LEMMA StoreIs ==
  ASSUME NEW nv \in Sound, NEW inv \in BOOLEAN, NEW name \in Name, NEW value \in Value
  PROVE  LET f == tgt_setenv(nv, inv, name, value)
         IN  \/ Left(f, nv, inv) /\ (name = Expert \/ f.ret = 0)
             \/ Stores(f, nv, inv, name, value)
<1> DEFINE f    == tgt_setenv(nv, inv, name, value)
           nv0  == IF inv THEN Entries(<<>>) ELSE nv
           uns  == tgt_unsetenv(nv0, FALSE, name)
           ents == Added(uns.nv.ents, name, value)
           cut  == [ok |-> TRUE, cut |-> TRUE, ents |-> SubSeq(ents, 1, Room)]
           new  == IF Len(ents) <= Room THEN Entries(ents) ELSE cut
<1>1. f = IF name = Expert THEN Same(nv, inv, 1)
          ELSE IF value \in Long THEN Same(nv, inv, 0)
          ELSE [nv |-> new, inv |-> FALSE, ret |-> 1,
                way |-> {nv, Erased, nv0, new} \cup uns.way]
  BY DEF tgt_setenv
<1>2. nv0 \in Sound /\ (~inv => nv0 = nv) /\ (inv => nv0 = Entries(<<>>))
  BY SoundFacts
<1> HIDE DEF nv0
<1>3. /\ uns.nv \in Sound /\ NoEntry(uns.nv, name)
      /\ uns.nv = nv0 \/ CutAt(nv0, name, uns.nv)
      /\ uns.way \subseteq {Erased, nv0, uns.nv}
  <2>1. /\ uns \in Stored /\ NoEntry(uns.nv, name)
        /\ FALSE \/ NoEntry(nv0, name) => uns.nv = nv0
        /\ ~FALSE /\ ~NoEntry(nv0, name) =>
             \E i \in 1 .. Len(nv0.ents) :
               nv0.ents[i].name = name /\ uns.nv = Entries(Cut(nv0.ents, i))
        /\ \A s \in uns.way : s = Erased \/ s = nv0 \/ s = uns.nv
    BY <1>2, UnsetFacts
  <2> HIDE DEF uns
  <2>2. QED
    BY <2>1 DEF Stored, CutAt
<1> HIDE DEF uns
<1>4. inv => uns.nv = Entries(<<>>)
  <2>1. Entries(<<>>).ents = <<>> /\ Len(<<>>) = 0
    BY DEF Entries
  <2>2. QED
    BY <1>2, <1>3, <2>1 DEF CutAt
<1>5. inv => Len(ents) <= Room
  <2>1. Room \in Nat \ {0}
    BY Zenon, EnvAssumption
  <2>2. Len(ents) = Len(uns.nv.ents) + 1
    BY <1>3, SoundFacts, AddedFacts DEF NoEntry
  <2>3. Entries(<<>>).ents = <<>> /\ Len(<<>>) = 0
    BY DEF Entries
  <2> HIDE DEF ents
  <2>4. QED
    BY <1>4, <2>1, <2>2, <2>3
<1>6. new.cut \/ new = Entries(ents)
  OBVIOUS
<1>7. inv => ~new.cut
  BY <1>5 DEF Entries
<1> HIDE DEF new, cut, f
<1>8. CASE name = Expert \/ value \in Long
  <2>1. Left(f, nv, inv) /\ (name = Expert \/ f.ret = 0)
    BY <1>1, <1>8 DEF Same, Left
  <2>2. QED
    BY <2>1 DEF f
<1>9. CASE name # Expert /\ value \notin Long
  <2>1. /\ f.nv = new /\ f.inv = FALSE /\ f.ret = 1
        /\ f.way = {nv, Erased, nv0, new} \cup uns.way
    BY <1>1, <1>9
  <2>2. IF inv THEN uns.nv = Entries(<<>>) /\ ~new.cut
               ELSE uns.nv = nv \/ CutAt(nv, name, uns.nv)
    BY <1>2, <1>3, <1>4, <1>7
  <2>3. nv0 = nv \/ nv0 = uns.nv
    BY <1>2, <1>4
  <2>4. f.way \subseteq {nv, Erased, uns.nv, new}
    BY <1>3, <2>1, <2>3
  <2>5. Stores(f, nv, inv, name, value)
    BY <1>3, <1>6, <2>1, <2>2, <2>4 DEF Stores
  <2>6. QED
    BY <2>5 DEF f
<1>10. QED
  BY <1>8, <1>9

LEMMA do_setenvIs ==
  ASSUME NEW e \in Memory, NEW h \in Value, NEW nv \in Sound, NEW inv \in BOOLEAN,
         NEW name \in Name, NEW value \in Value, NEW temp \in BOOLEAN
  PROVE  LET s == Change(e, h, name, value)
             d == do_setenv(e, h, nv, inv, name, value, temp)
         IN  /\ \/ Left(d, nv, inv)
                \/ s.ok /\ IsDefault(name, value) /\ Removes(d, nv, inv, name)
                \/ s.ok /\ ~IsDefault(name, value) /\ Stores(d, nv, inv, name, value)
             /\ d.ret = 1 /\ IsDefault(name, value) => Removes(d, nv, inv, name)
             /\ d.ret = 1 /\ ~IsDefault(name, value) /\ ~temp /\ name # Expert
                  => s.ok /\ Stores(d, nv, inv, name, value)
             /\ s.ok /\ IsDefault(name, value) => inv \/ NoEntry(d.nv, name)
<1> DEFINE s == Change(e, h, name, value)
           d == do_setenv(e, h, nv, inv, name, value, temp)
           u == tgt_unsetenv(nv, inv, name)
           t == tgt_setenv(nv, inv, name, value)
<1>1. s.env \in Memory /\ s.top \in Value /\ s.ok \in BOOLEAN
  BY ChangeFacts
<1>2. /\ u \in Stored
      /\ \/ Left(u, nv, inv) /\ u.ret = 0 /\ (inv \/ NoEntry(u.nv, name))
         \/ Removes(u, nv, inv, name)
  BY UnsetFacts, UnsetIs
<1>3. /\ t \in Stored
      /\ \/ Left(t, nv, inv) /\ (name = Expert \/ t.ret = 0)
         \/ Stores(t, nv, inv, name, value)
  BY StoreFacts, StoreIs
<1>4. \A r \in {0, 1} : LET x == Same(nv, inv, r)
                        IN  x \in Stored /\ Left(x, nv, inv) /\ x.ret = r
  BY SameFacts DEF Same, Left
<1>5. d = State(s.env, s.top,
                CASE ~s.ok -> Same(nv, inv, 0)
                  [] s.ok /\ IsDefault(name, value) -> u
                  [] s.ok /\ ~IsDefault(name, value) /\ ~temp -> t
                  [] OTHER -> Same(nv, inv, 1))
  BY DEF do_setenv, Change
<1> HIDE DEF u, t, s
<1>6. ASSUME NEW f \in Stored
      PROVE  LET x == State(s.env, s.top, f)
             IN  /\ x.nv = f.nv /\ x.ret = f.ret
                 /\ Left(x, nv, inv) <=> Left(f, nv, inv)
                 /\ Removes(x, nv, inv, name) <=> Removes(f, nv, inv, name)
                 /\ Stores(x, nv, inv, name, value) <=> Stores(f, nv, inv, name, value)
  <2> DEFINE x == State(s.env, s.top, f)
  <2>1. x.nv = f.nv /\ x.inv = f.inv /\ x.ret = f.ret /\ x.way = f.way
    BY <1>1, StateFacts
  <2> HIDE DEF x
  <2>2. QED
    BY <2>1 DEF Left, Removes, Stores, x
<1>7. IsDefault(name, value) \in BOOLEAN
  BY DEF IsDefault
<1> HIDE DEF d
<1>8. CASE ~s.ok
  <2> DEFINE f == Same(nv, inv, 0)
  <2>1. d = State(s.env, s.top, f)
    BY <1>1, <1>5, <1>8
  <2>2. f \in Stored /\ Left(f, nv, inv) /\ f.ret = 0
    BY <1>4
  <2> HIDE DEF f
  <2>3. Left(d, nv, inv) /\ d.ret = 0
    BY <1>6, <2>1, <2>2
  <2>4. QED
    BY <1>8, <2>3 DEF d, s
<1>9. CASE s.ok /\ IsDefault(name, value)
  <2>1. d = State(s.env, s.top, u)
    BY <1>1, <1>5, <1>9
  <2>2. /\ d.nv = u.nv /\ d.ret = u.ret
        /\ Left(d, nv, inv) <=> Left(u, nv, inv)
        /\ Removes(d, nv, inv, name) <=> Removes(u, nv, inv, name)
    BY <1>2, <1>6, <2>1
  <2>3. \/ Left(d, nv, inv) /\ d.ret = 0 /\ (inv \/ NoEntry(d.nv, name))
        \/ Removes(d, nv, inv, name)
    BY <1>2, <2>2
  <2>4. Removes(d, nv, inv, name) => NoEntry(d.nv, name)
    BY DEF Removes
  <2>5. QED
    BY <1>9, <2>3, <2>4 DEF d, s
<1>10. CASE s.ok /\ ~IsDefault(name, value) /\ ~temp
  <2>1. d = State(s.env, s.top, t)
    BY <1>1, <1>5, <1>10
  <2>2. /\ d.ret = t.ret
        /\ Left(d, nv, inv) <=> Left(t, nv, inv)
        /\ Stores(d, nv, inv, name, value) <=> Stores(t, nv, inv, name, value)
    BY <1>3, <1>6, <2>1
  <2>3. \/ Left(d, nv, inv) /\ (name = Expert \/ d.ret = 0)
        \/ Stores(d, nv, inv, name, value)
    BY <1>3, <2>2
  <2>4. QED
    BY <1>10, <2>3 DEF d, s
<1>11. CASE s.ok /\ ~IsDefault(name, value) /\ temp
  <2> DEFINE f == Same(nv, inv, 1)
  <2>1. d = State(s.env, s.top, f)
    BY <1>1, <1>5, <1>11
  <2>2. f \in Stored /\ Left(f, nv, inv)
    BY <1>4
  <2> HIDE DEF f
  <2>3. Left(d, nv, inv)
    BY <1>6, <2>1, <2>2
  <2>4. QED
    BY <1>11, <2>3 DEF d, s
<1>12. QED
  BY <1>1, <1>7, <1>8, <1>9, <1>10, <1>11

LEMMA do_setenvMemory ==
  ASSUME NEW e \in Memory, NEW h \in Value, NEW nv \in Sound, NEW inv \in BOOLEAN,
         NEW name \in Name, NEW value \in Value, NEW temp \in BOOLEAN
  PROVE  LET s == Change(e, h, name, value)
             d == do_setenv(e, h, nv, inv, name, value, temp)
         IN  d.env = s.env /\ d.top = s.top
BY do_setenvFacts

(* A default is on the list of its variable: only the heap top refuses it. *)
LEMMA DefaultBarred ==
  ASSUME NEW h \in Value, NEW v \in StdVars, Barred(h, v, Default[v])
  PROVE  v = Heaptop
<1>1. \A s \in StdVars : Default[s] \in Allowed[s]
  BY Zenon, EnvAssumption
<1>2. Var[v] = v
  BY VarFacts
<1>3. Default[v] \in Allowed[v]
  BY <1>1
<1>4. QED
  BY <1>2, <1>3 DEF Barred, Refused

LEMMA unsetenvIs ==
  ASSUME NEW e \in Memory, NEW h \in Value, NEW nv \in Sound, NEW inv \in BOOLEAN,
         NEW name \in Name
  PROVE  LET s == unsetenv(e, h, nv, inv, name)
         IN  /\ \/ Left(s, nv, inv)
                \/ \E n \in Name : Var[n] = Var[name] /\ Removes(s, nv, inv, n)
             /\ s.top >= h
             /\ MemVars(e) \ ({Var[name]} \ StdVars) \subseteq MemVars(s.env)
             /\ (\E i \in Slots : e[i].name = name) /\ name = Var[name] /\ name # Heaptop
                  => inv \/ NoEntry(s.nv, name)
             /\ (\A i \in Slots : e[i].name # name) => Left(s, nv, inv) /\ s.env = e
<1> DEFINE s    == unsetenv(e, h, nv, inv, name)
           hit  == {i \in Slots : e[i].name = name}
           v    == Var[name]
           no   == FALSE
           d    == Default[v]
           back == do_setenv(e, h, nv, inv, v, d, no)
           e2   == [e EXCEPT ![First(hit)] = Free]
           u    == tgt_unsetenv(nv, inv, name)
<1>1. no \in BOOLEAN
  OBVIOUS
<1>2. s = IF hit = {} THEN State(e, h, Same(nv, inv, 0))
          ELSE IF v \in StdVars THEN back
          ELSE State(e2, h, u)
  BY DEF unsetenv
<1> HIDE DEF no
<1>3. v \in Name /\ v \in Vars /\ Var[v] = v /\ h \in Nat /\ h >= h
  <2>1. h \in Nat
    BY Zenon, EnvAssumption
  <2>2. QED
    BY <2>1, VarFacts
<1> HIDE DEF v
<1>4. hit = {} <=> \A i \in Slots : e[i].name # name
  OBVIOUS
<1>5. CASE hit = {}
  <2>1. s = State(e, h, Same(nv, inv, 0))
    BY <1>2, <1>5
  <2> DEFINE f == Same(nv, inv, 0)
  <2>2. f \in Stored /\ f.nv = nv /\ f.inv = inv /\ f.way = {nv}
    BY SameFacts DEF Same
  <2> HIDE DEF f, s
  <2>3. s.env = e /\ s.top = h /\ s.nv = nv /\ s.inv = inv /\ s.way = {nv}
    BY <2>1, <2>2, StateFacts DEF f
  <2>4. Left(s, nv, inv)
    BY <2>3 DEF Left
  <2>5. QED
    BY <1>3, <1>4, <1>5, <2>3, <2>4 DEF s, v
<1>6. CASE hit # {} /\ v \in StdVars
  <2>1. s = back
    BY <1>2, <1>6
  <2>2. d \in Value /\ IsDefault(v, d)
    <3>1. Default[v] \in Value
      BY <1>3, <1>6, DefaultFacts
    <3>2. QED
      BY <1>3, <1>6, <3>1 DEF IsDefault
  <2>21. Barred(h, v, d) => v = Heaptop
    BY <1>6, DefaultBarred
  <2> HIDE DEF d
  <2> DEFINE c == Change(e, h, v, d)
  <2>3. /\ c.env \in Memory /\ c.ok \in BOOLEAN
        /\ ~c.ok <=> Barred(h, v, d) \/ (getenv(e, v) = NoVal /\ Full(e))
        /\ ~c.ok => c.env = e
        /\ c.ok => getenv(c.env, v) = d
        /\ \A n \in Name : Var[n] # Var[v] => getenv(c.env, n) = getenv(e, n)
    BY <1>3, <2>2, ChangeFacts
  <2>4. c.top >= h
    <3> DEFINE b == TRUE
               s2 == _setenv(e, h, v, d, b)
    <3>1. b \in BOOLEAN
      OBVIOUS
    <3>2. c = s2
      BY DEF Change
    <3> HIDE DEF b, c
    <3>3. s2.top >= h
      BY <1>3, <2>2, <3>1, SetMore DEF s2
    <3>4. QED
      BY <3>2, <3>3
  <2>5. back.env = c.env /\ back.top = c.top
    BY <1>1, <1>3, <2>2, do_setenvMemory
  <2>6. /\ \/ Left(back, nv, inv)
           \/ c.ok /\ IsDefault(v, d) /\ Removes(back, nv, inv, v)
           \/ c.ok /\ ~IsDefault(v, d) /\ Stores(back, nv, inv, v, d)
        /\ c.ok /\ IsDefault(v, d) => inv \/ NoEntry(back.nv, v)
    BY <1>1, <1>3, <2>2, do_setenvIs
  <2> HIDE DEF c, back, s
  <2>7. MemVars(e) \subseteq MemVars(c.env)
    <3>1. ASSUME NEW n \in MemVars(e)
          PROVE  n \in MemVars(c.env)
      <4>1. n \in Name /\ Var[n] = n
        BY MemVarsIs, VarFacts
      <4>2. getenv(e, n) # NoVal
        BY <4>1, MemVarsIs
      <4>3. getenv(c.env, n) # NoVal
        <5>1. CASE n = v
          BY <1>3, <2>2, <2>3, <4>2, <5>1, NoValIsNone
        <5>2. CASE n # v
          BY <1>3, <2>3, <4>1, <4>2, <5>2
        <5>3. QED
          BY <5>1, <5>2
      <4>4. QED
        BY <2>3, <4>1, <4>3, MemVarsIs
    <3>2. QED
      BY <3>1
  <2>8. ASSUME name = v, name # Heaptop
        PROVE  c.ok
    <3>1. ~Barred(h, v, d)
      BY <2>8, <2>21
    <3>2. PICK i \in Slots : e[i].name = name
      BY <1>6
    <3>3. e[i] \in Slot
      BY DEF Memory
    <3>4. name # ""
      BY SlotFacts
    <3>5. i \in Matches(e, v)
      BY <2>8, <3>2, <3>4 DEF Matches
    <3>6. getenv(e, v) # NoVal
      BY <1>3, <3>5, MatchFacts
    <3>7. QED
      BY <2>3, <3>1, <3>6
  <2>9. QED
    BY <1>3, <1>4, <1>6, <2>1, <2>2, <2>4, <2>5, <2>6, <2>7, <2>8 DEF s, v
<1>7. CASE hit # {} /\ v \notin StdVars
  <2>1. s = State(e2, h, u)
    BY <1>2, <1>7
  <2>2. First(hit) \in Slots /\ e[First(hit)].name = name
    <3>1. hit \subseteq Nat
      BY SlotFacts
    <3>2. First(hit) \in hit
      BY <1>7, <3>1, FirstIs
    <3>3. QED
      BY <3>2
  <2>3. /\ e2 \in Memory
        /\ \A n \in Name : Var[n] # Var[e[First(hit)].name] \/ e[First(hit)].name = "" =>
             getenv(e2, n) = getenv(e, n)
    BY <2>2, EmptyFacts
  <2> HIDE DEF e2
  <2>4. u \in Stored
    BY UnsetFacts
  <2>5. \/ Left(u, nv, inv) /\ u.ret = 0 /\ (inv \/ NoEntry(u.nv, name))
        \/ Removes(u, nv, inv, name)
    BY UnsetIs
  <2> HIDE DEF u
  <2> HIDE DEF s, hit
  <2>6. s.env = e2 /\ s.top = h /\ s.nv = u.nv /\ s.inv = u.inv /\ s.ret = u.ret /\ s.way = u.way
    BY <2>1, <2>3, <2>4, StateFacts
  <2>7. \/ Left(s, nv, inv) /\ (inv \/ NoEntry(s.nv, name))
        \/ Removes(s, nv, inv, name)
    BY <2>5, <2>6 DEF Left, Removes
  <2>8. MemVars(e) \ {v} \subseteq MemVars(s.env)
    <3>1. ASSUME NEW n \in MemVars(e), n # v
          PROVE  n \in MemVars(s.env)
      <4>1. n \in Name /\ Var[n] = n
        BY MemVarsIs, VarFacts
      <4>2. getenv(e, n) # NoVal
        BY <4>1, MemVarsIs
      <4>3. getenv(s.env, n) # NoVal
        BY <2>2, <2>3, <2>6, <3>1, <4>1, <4>2 DEF v
      <4>4. QED
        BY <2>3, <2>6, <4>1, <4>3, MemVarsIs
    <3>2. QED
      BY <3>1
  <2>9. Removes(s, nv, inv, name) => NoEntry(s.nv, name)
    BY DEF Removes
  <2>10. QED
    BY <1>3, <1>4, <1>7, <2>6, <2>7, <2>8, <2>9 DEF s, v
<1>8. QED
  BY <1>5, <1>6, <1>7

-----------------------------------------------------------------------------
(* Reading the sector.                                                     *)

LEMMA ValueNat == \A v \in Value : v \in Nat
<1>1. Value \subseteq Nat
  BY Zenon, EnvAssumption
<1>2. QED
  BY <1>1

LEMMA HeaptopFacts ==
  /\ Heaptop \in StdVars /\ Heaptop \in Vars /\ Heaptop \in Name /\ Var[Heaptop] = Heaptop
  /\ HeapStart \in Value /\ HeapStart \in Nat
<1>1. Heaptop \in StdVars /\ HeapStart \in Value
  BY Zenon, EnvAssumption
<1>2. QED
  BY <1>1, VarFacts, ValueNat

(* A pair is taken unless it is a lower heaptop or there is no slot.       *)
Rises(h, p) == IF Var[p.name] = Heaptop /\ p.value >= h THEN p.value ELSE h
Fits(m, p)  == getenv(m.env, p.name) # NoVal \/ ~Full(m.env)
Takes(m, p) == ~(Var[p.name] = Heaptop /\ p.value < m.top) /\ Fits(m, p)

LEMMA StepIs ==
  ASSUME NEW m \in Set, NEW p \in Pair
  PROVE  LET s == Step(m, p)
         IN  /\ s \in Set
             /\ s.ok <=> Takes(m, p)
             /\ s.top = Rises(m.top, p) /\ s.top \in Nat /\ s.top >= m.top
             /\ Var[p.name] = Heaptop => s.top >= p.value
             /\ s.ok => getenv(s.env, p.name) = p.value
             /\ ~s.ok => s.env = m.env
             /\ \A n \in Name : Var[n] # Var[p.name] => getenv(s.env, n) = getenv(m.env, n)
<1> DEFINE no == FALSE
           s == _setenv(m.env, m.top, p.name, p.value, no)
<1>1. /\ m.env \in Memory /\ m.top \in Value /\ p.name \in Name /\ p.value \in Value
      /\ no \in BOOLEAN
  BY DEF Set, Pair
<1>2. Step(m, p) = s /\ ~no
  BY DEF Step
<1> HIDE DEF no
<1>3. /\ s \in Set
      /\ ~s.ok <=> \/ Refused(m.top, p.name, p.value, no)
                   \/ getenv(m.env, p.name) = NoVal /\ Full(m.env)
      /\ ~s.ok => s.env = m.env
      /\ s.ok => getenv(s.env, p.name) = p.value
      /\ \A n \in Name : Var[n] # Var[p.name] => getenv(s.env, n) = getenv(m.env, n)
  BY <1>1, SetFacts
<1>4. /\ s.top \in Value /\ s.ok \in BOOLEAN
      /\ s.top = IF Var[p.name] = Heaptop /\ p.value >= m.top THEN p.value ELSE m.top
      /\ s.top >= m.top /\ (Var[p.name] = Heaptop => s.top >= p.value)
  <2> DEFINE e == m.env
             h == m.top
             name == p.name
             value == p.value
  <2>1. e \in Memory /\ h \in Value /\ name \in Name /\ value \in Value
    BY <1>1
  <2> HIDE DEF e, h, name, value
  <2> DEFINE x == _setenv(e, h, name, value, no)
  <2>2. x.top \in Value /\ x.ok \in BOOLEAN
    BY <1>1, <2>1, SetMore
  <2>3. x.top = IF Var[name] = Heaptop /\ value >= h THEN value ELSE h
    BY <1>1, <2>1, SetMore
  <2>4. x.top >= h /\ (Var[name] = Heaptop => x.top >= value)
    BY <1>1, <2>1, SetMore
  <2>5. QED
    BY <2>2, <2>3, <2>4 DEF e, h, name, value
<1>5. Refused(m.top, p.name, p.value, no) <=> Var[p.name] = Heaptop /\ p.value < m.top
  BY <1>2, HeaptopFacts DEF Refused
<1> HIDE DEF s
<1>6. s.ok <=> Takes(m, p)
  BY <1>3, <1>4, <1>5 DEF Takes, Fits
<1>7. s.top \in Nat /\ s.top = Rises(m.top, p)
  BY <1>4, ValueNat DEF Rises
<1>8. QED
  BY <1>2, <1>3, <1>4, <1>6, <1>7

LEMMA StepVars ==
  ASSUME NEW m \in Set, NEW p \in Pair
  PROVE  /\ MemVars(m.env) \subseteq MemVars(Step(m, p).env)
         /\ MemVars(Step(m, p).env) \subseteq MemVars(m.env) \cup {Var[p.name]}
         /\ Takes(m, p) => Var[p.name] \in MemVars(Step(m, p).env)
         /\ ~Takes(m, p) => MemVars(Step(m, p).env) = MemVars(m.env)
<1> DEFINE s == Step(m, p)
<1>1. s \in Set /\ (s.ok <=> Takes(m, p)) /\ (~s.ok => s.env = m.env)
  BY StepIs
<1>2. s.ok => getenv(s.env, p.name) = p.value
  BY StepIs
<1>3. \A n \in Name : Var[n] # Var[p.name] => getenv(s.env, n) = getenv(m.env, n)
  BY StepIs
<1>4. m.env \in Memory /\ p.name \in Name /\ p.value \in Value
  BY DEF Set, Pair
<1> HIDE DEF s
<1>5. MemVars(s.env) = MemVars(m.env) \cup (IF s.ok THEN {Var[p.name]} ELSE {})
  BY <1>1, <1>2, <1>3, <1>4, SetAdds
<1>6. QED
  BY <1>1, <1>5 DEF s

(* The same of the memory before and after pair j.                         *)
Steps(m, s, p) ==
  /\ m \in Set /\ s \in Set /\ p \in Pair /\ p.name \in Name
  /\ m.env \in Memory /\ s.env \in Memory
  /\ m.top \in Nat /\ s.top \in Nat /\ p.value \in Nat
  /\ Takes(m, p) => getenv(s.env, p.name) = p.value
  /\ ~Takes(m, p) => s.env = m.env
  /\ s.top = Rises(m.top, p) /\ s.top >= m.top
  /\ Var[p.name] = Heaptop => s.top >= p.value
  /\ \A n \in Name : Var[n] # Var[p.name] => getenv(s.env, n) = getenv(m.env, n)
  /\ MemVars(m.env) \subseteq MemVars(s.env)
  /\ MemVars(s.env) \subseteq MemVars(m.env) \cup {Var[p.name]}
  /\ Takes(m, p) => Var[p.name] \in MemVars(s.env)

LEMMA StepSteps ==
  ASSUME NEW m \in Set, NEW p \in Pair
  PROVE  Steps(m, Step(m, p), p)
<1> DEFINE s == Step(m, p)
<1>1. s \in Set /\ (s.ok <=> Takes(m, p)) /\ (~s.ok => s.env = m.env)
      /\ (s.ok => getenv(s.env, p.name) = p.value)
  BY StepIs
<1>2. s.top = Rises(m.top, p) /\ s.top \in Nat /\ s.top >= m.top
      /\ (Var[p.name] = Heaptop => s.top >= p.value)
  BY StepIs
<1>3. \A n \in Name : Var[n] # Var[p.name] => getenv(s.env, n) = getenv(m.env, n)
  BY StepIs
<1>4. /\ MemVars(m.env) \subseteq MemVars(s.env)
      /\ MemVars(s.env) \subseteq MemVars(m.env) \cup {Var[p.name]}
      /\ Takes(m, p) => Var[p.name] \in MemVars(s.env)
  BY StepVars
<1>5. p.name \in Name /\ m.env \in Memory /\ m.top \in Nat /\ p.value \in Nat
  BY ValueNat DEF Set, Pair
<1> HIDE DEF s
<1>6. s.env \in Memory
  BY <1>1 DEF Set
<1>7. Steps(m, s, p)
  BY <1>1, <1>2, <1>3, <1>4, <1>5, <1>6 DEF Steps
<1>8. QED
  BY <1>7 DEF s

LEMMA MapIs ==
  ASSUME NEW q \in Seq(Pair)
  PROVE  LET M == Mapped(q)
         IN  /\ Len(q) \in Nat /\ M \in [0 .. Len(q) -> Set] /\ M[0] = Blank
             /\ \A j \in 1 .. Len(q) : j - 1 \in 0 .. Len(q) /\ j \in 0 .. Len(q)
                                      /\ Steps(M[j - 1], M[j], q[j])
<1> DEFINE M == Mapped(q)
<1>1. /\ Len(q) \in Nat /\ M \in [0 .. Len(q) -> Set] /\ M[0] = Blank
      /\ \A j \in 1 .. Len(q) : q[j] \in Pair /\ M[j] = Step(M[j - 1], q[j])
  BY MappedFacts
<1> HIDE DEF M
<1>2. ASSUME NEW j \in 1 .. Len(q)
      PROVE  j - 1 \in 0 .. Len(q) /\ j \in 0 .. Len(q) /\ Steps(M[j - 1], M[j], q[j])
  <2>1. j - 1 \in 0 .. Len(q) /\ j \in 0 .. Len(q)
    BY <1>1
  <2>2. M[j - 1] \in Set /\ q[j] \in Pair /\ M[j] = Step(M[j - 1], q[j])
    BY <1>1, <2>1
  <2>3. QED
    BY <2>1, <2>2, StepSteps
<1>3. QED
  BY <1>1, <1>2 DEF M

LEMMA TopBound ==
  ASSUME NEW q \in Seq(Pair), NEW w \in Value, HeapStart <= w,
         \A j \in 1 .. Len(q) : Var[q[j].name] = Heaptop => q[j].value <= w
  PROVE  \A j \in 0 .. Len(q) : Mapped(q)[j].top <= w
<1> DEFINE M == Mapped(q)
           L == Len(q)
           T == {j \in 0 .. L : M[j].top <= w}
<1>1. /\ L \in Nat /\ M \in [0 .. L -> Set] /\ M[0] = Blank
      /\ \A j \in 1 .. L : j - 1 \in 0 .. L /\ j \in 0 .. L /\ Steps(M[j - 1], M[j], q[j])
  BY MapIs
<1> HIDE DEF M
<1>2. 0 \in T
  BY <1>1, BlankFacts
<1>3. ASSUME NEW j \in 1 .. L, j - 1 \in T
      PROVE  j \in T
  <2>1. j - 1 \in 0 .. L /\ j \in 0 .. L /\ M[j - 1].top <= w
    BY <1>1, <1>3
  <2>2. M[j].top = Rises(M[j - 1].top, q[j])
    BY <1>1 DEF Steps
  <2>3. M[j].top <= w
    BY <2>1, <2>2 DEF Rises
  <2>4. QED
    BY <2>1, <2>3
<1> HIDE DEF T
<1>4. 0 .. L \subseteq T
  BY <1>1, <1>2, <1>3, InductTo
<1>5. QED
  BY <1>4 DEF T, M

(* What the sector owes is what is read, if there is a slot for it.        *)
LEMMA ReadBack ==
  ASSUME NEW q \in Seq(Pair), NEW v \in Vars, NEW w, Owes(q, v, w),
         \A i \in 1 .. Len(q) : Var[q[i].name] = v => Fits(Mapped(q)[i - 1], q[i])
  PROVE  getenv(Last(q).env, v) = w
<1> DEFINE M == Mapped(q)
           L == Len(q)
<1>1. /\ L \in Nat /\ M \in [0 .. L -> Set] /\ M[0] = Blank
      /\ \A j \in 1 .. L : j - 1 \in 0 .. L /\ j \in 0 .. L /\ Steps(M[j - 1], M[j], q[j])
  BY MapIs
<1>2. PICK i \in 1 .. L : /\ Var[q[i].name] = v /\ q[i].value = w
                          /\ v # Heaptop => \A j \in i + 1 .. L : Var[q[j].name] # v
  BY DEF Owes
<1>3. w \in Value /\ w \in Nat
  BY <1>1, <1>2, ValueNat DEF Pair, Steps
<1>4. v = Heaptop => \A j \in 0 .. L : M[j].top <= w
  <2>1. SUFFICES ASSUME v = Heaptop PROVE \A j \in 0 .. L : M[j].top <= w
    OBVIOUS
  <2>2. HeapStart <= w /\ \A j \in 1 .. L : Var[q[j].name] = Heaptop => q[j].value <= w
    BY <2>1, HeaptopFacts, <1>3 DEF Owes
  <2> HIDE DEF M
  <2>3. QED
    BY <1>3, <2>2, TopBound DEF M
<1>5. \A j \in 1 .. L : Var[q[j].name] = v => Fits(M[j - 1], q[j])
  OBVIOUS
<1>6. v \in Name /\ Var[v] = v
  BY VarFacts
<1> DEFINE Has(j) == getenv(M[j].env, v) = w /\ (v = Heaptop => M[j].top = w)
           T == {j \in 0 .. L : i <= j => Has(j)}
<1> HIDE DEF M
<1>7. \A j \in 1 .. L : j - 1 \in 0 .. L /\ j \in 0 .. L
                        /\ M[j - 1].top \in Nat /\ M[j].top \in Nat /\ q[j].value \in Nat
                        /\ q[j].name \in Name
  BY <1>1 DEF Steps
<1>8. ASSUME NEW j \in 1 .. L, Var[q[j].name] = v, q[j].value = w
      PROVE  Has(j)
  <2>1. Takes(M[j - 1], q[j])
    <3>1. Fits(M[j - 1], q[j])
      BY <1>5, <1>8
    <3>2. j - 1 \in 0 .. L /\ M[j - 1].top \in Nat
      BY <1>7
    <3>3. Var[q[j].name] = Heaptop => M[j - 1].top <= w
      BY <1>4, <1>8, <3>2
    <3>4. ~(Var[q[j].name] = Heaptop /\ q[j].value < M[j - 1].top)
      BY <1>3, <1>8, <3>2, <3>3
    <3>5. QED
      BY <3>1, <3>4 DEF Takes
  <2>2. getenv(M[j].env, q[j].name) = w
    BY <1>1, <1>8, <2>1 DEF Steps
  <2>3. getenv(M[j].env, v) = w
    BY <1>6, <1>8, <2>2, SameVar
  <2>4. v = Heaptop => M[j].top >= w
    BY <1>1, <1>8 DEF Steps
  <2>5. M[j].top \in Nat /\ (v = Heaptop => M[j].top <= w)
    BY <1>4, <1>7
  <2>6. v = Heaptop => M[j].top = w
    BY <1>3, <2>4, <2>5
  <2>7. QED
    BY <2>3, <2>6
<1>9. ASSUME NEW j \in 1 .. L, i < j, Has(j - 1)
      PROVE  Has(j)
  <2>1. CASE Var[q[j].name] # v
    <3>1. getenv(M[j].env, v) = getenv(M[j - 1].env, v)
      BY <1>1, <1>6, <2>1 DEF Steps
    <3>2. v = Heaptop => M[j].top = M[j - 1].top
      <4>1. M[j].top = Rises(M[j - 1].top, q[j])
        BY <1>1 DEF Steps
      <4>2. QED
        BY <2>1, <4>1 DEF Rises
    <3>3. QED
      BY <1>9, <3>1, <3>2
  <2>2. CASE Var[q[j].name] = v /\ q[j].value = w
    BY <1>8, <2>2
  <2>3. CASE Var[q[j].name] = v /\ q[j].value # w
    <3>1. v = Heaptop
      <4>1. j \in i + 1 .. L
        BY <1>1, <1>9
      <4>2. QED
        BY <1>2, <2>3, <4>1
    <3>2. M[j - 1].top = w
      BY <1>9, <3>1
    <3>3. q[j].value <= w
      BY <2>3, <3>1 DEF Owes
    <3>4. q[j].value < w
      BY <1>3, <1>7, <2>3, <3>3
    <3>5. ~Takes(M[j - 1], q[j])
      BY <2>3, <3>1, <3>2, <3>4 DEF Takes
    <3>6. M[j].env = M[j - 1].env
      BY <1>1, <3>5 DEF Steps
    <3>7. M[j].top = w
      <4>1. M[j].top = Rises(M[j - 1].top, q[j])
        BY <1>1 DEF Steps
      <4>2. QED
        BY <1>3, <1>7, <3>2, <3>4, <4>1 DEF Rises
    <3>8. QED
      BY <1>9, <3>6, <3>7
  <2>4. QED
    BY <2>1, <2>2, <2>3
<1> HIDE DEF Has
<1>10. 0 \in T
  BY <1>1
<1>11. ASSUME NEW j \in 1 .. L, j - 1 \in T
       PROVE  j \in T
  <2>1. CASE j < i
    BY <1>1, <2>1
  <2>2. CASE j = i
    BY <1>2, <1>7, <1>8, <2>2
  <2>3. CASE i < j
    <3>1. i <= j - 1
      BY <2>3
    <3>2. QED
      BY <1>7, <1>9, <1>11, <2>3, <3>1
  <2>4. QED
    BY <2>1, <2>2, <2>3
<1> HIDE DEF T
<1>12. 0 .. L \subseteq T
  BY <1>1, <1>10, <1>11, InductTo
<1>13. Has(L)
  <2>1. L \in 0 .. L /\ i <= L
    BY <1>1
  <2>2. QED
    BY <1>12, <2>1 DEF T
<1>14. QED
  BY <1>13 DEF Has, M, Last

LEMMA PairsIs ==
  ASSUME NEW nv \in Sound, nv.ok
  PROVE  /\ Pairs(nv) \in Seq(Pair) /\ Len(Sysvars) \in Nat
         /\ Len(Pairs(nv)) = Len(nv.ents) + Len(Sysvars)
         /\ \A j \in 1 .. Len(nv.ents) : j \in 1 .. Len(Pairs(nv)) /\ Pairs(nv)[j] = nv.ents[j]
         /\ \A j \in 1 .. Len(Pairs(nv)) : j \in 1 .. Len(nv.ents)
                                           \/ Var[Pairs(nv)[j].name] \in Named(Sysvars)
<1> DEFINE a == nv.ents
           S == Sysvars
           q == Pairs(nv)
<1>1. a \in Seq(Pair) /\ S \in Seq(Pair) /\ Len(a) \in Nat /\ Len(S) \in Nat
  <2>1. S \in Seq(Pair)
    BY Zenon, EnvAssumption
  <2>2. QED
    BY <2>1, SoundFacts
<1>2. q = a \o S
  BY DEF Pairs
<1> HIDE DEF a, S, q
<1>3. /\ q \in Seq(Pair) /\ Len(q) = Len(a) + Len(S)
      /\ \A j \in 1 .. Len(a) + Len(S) : q[j] = IF j <= Len(a) THEN a[j] ELSE S[j - Len(a)]
  BY <1>1, <1>2, ConcatProperties
<1>4. \A j \in 1 .. Len(a) : j \in 1 .. Len(q) /\ q[j] = a[j]
  BY <1>1, <1>3
<1>5. ASSUME NEW j \in 1 .. Len(q), j \notin 1 .. Len(a)
      PROVE  Var[q[j].name] \in Named(S)
  <2>1. q[j] = S[j - Len(a)] /\ j - Len(a) \in 1 .. Len(S)
    BY <1>1, <1>3, <1>5
  <2>2. QED
    BY <2>1 DEF Named
<1>6. QED
  BY <1>1, <1>3, <1>4, <1>5 DEF a, S, q

LEMMA PairsOwes ==
  ASSUME NEW nv \in Sound, nv.ok, NEW v, v \notin Named(Sysvars), NEW w, Owes(nv.ents, v, w)
  PROVE  Owes(Pairs(nv), v, w)
<1> DEFINE a == nv.ents
           q == Pairs(nv)
<1>1. /\ Len(a) \in Nat /\ Len(q) \in Nat
      /\ \A j \in 1 .. Len(a) : j \in 1 .. Len(q) /\ q[j] = a[j]
      /\ \A j \in 1 .. Len(q) : Var[q[j].name] = v => j \in 1 .. Len(a)
  BY PairsIs, PairsFacts, SoundFacts
<1> HIDE DEF a, q
<1>2. PICK i \in 1 .. Len(a) : /\ Var[a[i].name] = v /\ a[i].value = w
                               /\ v # Heaptop => \A j \in i + 1 .. Len(a) : Var[a[j].name] # v
  BY DEF Owes, a
<1>3. ASSUME v # Heaptop, NEW j \in i + 1 .. Len(q), Var[q[j].name] = v
      PROVE  FALSE
  <2>1. j \in 1 .. Len(q)
    BY <1>1
  <2>2. j \in i + 1 .. Len(a) /\ q[j] = a[j]
    BY <1>1, <1>3, <2>1
  <2>3. QED
    BY <1>2, <1>3, <2>2
<1>4. v = Heaptop => /\ w >= HeapStart
                     /\ \A j \in 1 .. Len(q) : Var[q[j].name] = v => q[j].value <= w
  <2>1. v = Heaptop => /\ w >= HeapStart
                       /\ \A j \in 1 .. Len(a) : Var[a[j].name] = v => a[j].value <= w
    BY DEF Owes, a
  <2>2. QED
    BY <1>1, <2>1
<1>5. i \in 1 .. Len(q) /\ q[i] = a[i]
  BY <1>1
<1>6. Owes(q, v, w)
  BY <1>2, <1>3, <1>4, <1>5 DEF Owes
<1>7. QED
  BY <1>6 DEF q

(* Only variables that have been read have a slot.                         *)
LEMMA SlotsUsed ==
  ASSUME NEW q \in Seq(Pair), NEW S, NEW m \in 0 .. Len(q),
         \A j \in 1 .. m : Var[q[j].name] \in S
  PROVE  \A i \in 0 .. m : MemVars(Mapped(q)[i].env) \subseteq S
<1> DEFINE M == Mapped(q)
           T == {j \in 0 .. m : MemVars(M[j].env) \subseteq S}
<1>1. /\ Len(q) \in Nat /\ M \in [0 .. Len(q) -> Set] /\ M[0] = Blank
      /\ \A j \in 1 .. Len(q) : Steps(M[j - 1], M[j], q[j])
  BY MapIs
<1> HIDE DEF M
<1>2. 0 \in T
  <2>1. MemVars(Blank.env) = {}
    BY BlankFacts, MemVarsIs, VarFacts
  <2>2. QED
    BY <1>1, <2>1
<1>3. ASSUME NEW j \in 1 .. m, j - 1 \in T
      PROVE  j \in T
  <2>1. j \in 1 .. Len(q) /\ j - 1 \in 0 .. Len(q) /\ j \in 0 .. m
    BY <1>1
  <2>3. MemVars(M[j].env) \subseteq MemVars(M[j - 1].env) \cup {Var[q[j].name]}
    BY <1>1, <2>1 DEF Steps
  <2>4. Var[q[j].name] \in S /\ MemVars(M[j - 1].env) \subseteq S
    BY <1>3
  <2>5. MemVars(M[j].env) \subseteq S
    BY <2>3, <2>4
  <2>6. QED
    BY <2>1, <2>5
<1> HIDE DEF T
<1>4. 0 .. m \subseteq T
  <2>1. m \in Nat
    BY <1>1
  <2>2. QED
    BY <2>1, <1>2, <1>3, InductTo
<1>5. QED
  BY <1>4 DEF T, M

LEMMA NamedFinite ==
  ASSUME NEW q \in Seq(Pair)
  PROVE  IsFiniteSet(Named(q))
<1> DEFINE f == [i \in 1 .. Len(q) |-> Var[q[i].name]]
<1>1. Len(q) \in Nat /\ 1 \in Int /\ Len(q) \in Int
  OBVIOUS
<1>2. IsFiniteSet(1 .. Len(q))
  BY <1>1, FS_Interval
<1>3. f \in Surjection(1 .. Len(q), Named(q))
  BY DEF Named, Surjection
<1> HIDE DEF f
<1>4. QED
  BY <1>2, <1>3, FS_Surjection

(* There is a slot if the sector names no more variables than there are    *)
(* slots, or if there is one left in the end.                              *)
LEMMA FewFit ==
  ASSUME NEW nv \in Sound, nv.ok, Cardinality(Named(nv.ents)) <= NVAR,
         NEW v, v \notin Named(Sysvars)
  PROVE  LET q == Pairs(nv)
         IN  \A i \in 1 .. Len(q) : Var[q[i].name] = v => Fits(Mapped(q)[i - 1], q[i])
<1> DEFINE a == nv.ents
           q == Pairs(nv)
           M == Mapped(q)
<1>1. /\ Len(a) \in Nat /\ Len(q) \in Nat /\ Len(q) = Len(a) + Len(Sysvars) /\ Len(Sysvars) \in Nat
      /\ q \in Seq(Pair) /\ a \in Seq(Pair)
      /\ \A j \in 1 .. Len(a) : j \in 1 .. Len(q) /\ q[j] = a[j]
      /\ \A j \in 1 .. Len(q) : Var[q[j].name] = v => j \in 1 .. Len(a)
  BY PairsIs, PairsFacts, SoundFacts
<1> HIDE DEF q
<1>2. M \in [0 .. Len(q) -> Set] /\ \A j \in 1 .. Len(q) : q[j] \in Pair
  <2>1. \A j \in 1 .. Len(q) : q[j] \in Pair
    BY <1>1
  <2>2. M \in [0 .. Len(q) -> Set]
    BY <1>1, MappedFacts
  <2>3. QED
    BY <2>1, <2>2
<1> HIDE DEF M
<1>3. ASSUME NEW i \in 1 .. Len(q), Var[q[i].name] = v, getenv(M[i - 1].env, q[i].name) = NoVal
      PROVE  ~Full(M[i - 1].env)
  <2>1. i \in 1 .. Len(a) /\ i - 1 \in 0 .. Len(a) /\ Len(a) \in 0 .. Len(q)
    BY <1>1, <1>3
  <2>2. \A j \in 1 .. Len(a) : Var[q[j].name] \in Named(a)
    BY <1>1 DEF Named
  <2>3. MemVars(M[i - 1].env) \subseteq Named(a)
    BY <1>1, <2>1, <2>2, SlotsUsed DEF M
  <2>4. M[i - 1].env \in Memory /\ q[i].name \in Name
    <3>1. i - 1 \in 0 .. Len(q)
      BY <1>1
    <3>2. QED
      BY <1>2, <3>1 DEF Set, Pair
  <2>5. Var[q[i].name] \notin MemVars(M[i - 1].env)
    BY <1>3, <2>4, MemVarsIs
  <2>6. Var[q[i].name] \in Named(a) /\ IsFiniteSet(Named(a))
    BY <1>1, <2>1, <2>2, NamedFinite
  <2>7. QED
    BY <2>3, <2>4, <2>5, <2>6, RoomLeft
<1>4. QED
  BY <1>3 DEF Fits, q, M

LEMMA OpenFit ==
  ASSUME NEW q \in Seq(Pair), ~Full(Last(q).env)
  PROVE  \A i \in 1 .. Len(q) : Fits(Mapped(q)[i - 1], q[i])
<1>1. ASSUME NEW i \in 1 .. Len(q)
      PROVE  Fits(Mapped(q)[i - 1], q[i])
  <2>1. i - 1 \in 0 .. Len(q) /\ Len(q) \in i - 1 .. Len(q)
    OBVIOUS
  <2>2. Kept(Mapped(q)[i - 1].env, Mapped(q)[Len(q)].env)
    BY <2>1, MappedKept
  <2>3. QED
    BY <2>2 DEF Kept, Fits, Last
<1>2. QED
  BY <1>1

(* No default takes the place of what the sector owes.                     *)
LEMMA OwedFound ==
  ASSUME NEW nv \in Sound, nv.ok, NEW v \in Vars, v \notin Named(Sysvars),
         NEW w, Owes(nv.ents, v, w), ~Full(Last(Pairs(nv)).env)
  PROVE  getenv(Last(Pairs(nv)).env, v) # NoVal
<1> DEFINE q == Pairs(nv)
<1>1. q \in Seq(Pair) /\ Owes(q, v, w)
  BY PairsIs, PairsOwes
<1>2. w # NoVal
  <2>1. PICK i \in 1 .. Len(q) : q[i].value = w
    BY <1>1 DEF Owes
  <2>2. q[i] \in Pair
    BY <1>1
  <2>3. QED
    BY <2>1, <2>2, NoValIsNone DEF Pair
<1> HIDE DEF q
<1>3. \A i \in 1 .. Len(q) : Fits(Mapped(q)[i - 1], q[i])
  BY <1>1, OpenFit DEF q
<1>4. getenv(Last(q).env, v) = w
  BY <1>1, <1>3, ReadBack
<1>5. QED
  BY <1>2, <1>4 DEF q

-----------------------------------------------------------------------------
(* What the sector owes survives what is done for other variables.         *)
Keeps(x, v, w) == x.ok /\ ~x.cut /\ Owes(x.ents, v, w)

LEMMA CutKeeps ==
  ASSUME NEW nv \in Sound, NEW n, NEW old, CutAt(nv, n, old), NEW v, NEW w,
         Var[n] # v, Keeps(nv, v, w)
  PROVE  Keeps(old, v, w)
<1>1. PICK k \in 1 .. Len(nv.ents) : nv.ents[k].name = n /\ old = Entries(Cut(nv.ents, k))
  BY DEF CutAt
<1>2. nv.ents \in Seq(Pair)
  BY SoundFacts
<1> DEFINE c == Cut(nv.ents, k)
<1>3. Thin(c, nv.ents, k)
  BY <1>2, CutThin
<1>4. old.ok /\ ~old.cut /\ old.ents = c
  BY <1>1 DEF Entries
<1> HIDE DEF c
<1>5. Owes(c, v, w)
  BY <1>1, <1>3, ThinOwes DEF Keeps
<1>6. QED
  BY <1>4, <1>5 DEF Keeps

LEMMA AddKeeps ==
  ASSUME NEW old \in Sound, NEW name \in Name, NEW value \in Value, NEW v, NEW w,
         Var[name] # v, Owes(old.ents, v, w)
  PROVE  Keeps(Entries(Added(old.ents, name, value)), v, w)
<1> DEFINE q == old.ents
           r == Added(q, name, value)
<1>1. q \in Seq(Pair)
  BY SoundFacts
<1>2. PICK k \in 1 .. Len(r) : Thin(q, r, k) /\ r[k] = [name |-> name, value |-> value]
  BY <1>1, AddedThin
<1>3. Entries(r).ok /\ ~Entries(r).cut /\ Entries(r).ents = r
  BY DEF Entries
<1> HIDE DEF q, r
<1>4. Owes(r, v, w)
  BY <1>2, ThinOwes DEF q
<1>5. QED
  BY <1>3, <1>4 DEF Keeps, r, q

LEMMA WithDefaultIs ==
  ASSUME NEW f \in Both, NEW i \in 1 .. Len(Std)
  PROVE  LET x == WithDefault(f, Std[i])
         IN  \/ x.nv = f.nv /\ x.way \subseteq f.way \cup {f.nv}
             \/ /\ Taken(f, i) /\ ~f.inv /\ CutAt(f.nv, Std[i], x.nv)
                /\ x.way \subseteq f.way \cup {f.nv, Erased, x.nv}
<1> DEFINE name == Std[i]
           d == Default[name]
           no == FALSE
           c == Change(f.env, f.top, name, d)
           g == do_setenv(f.env, f.top, f.nv, f.inv, name, d, no)
           x == WithDefault(f, name)
<1>1. name \in Name /\ d \in Value /\ Var[name] = name /\ IsDefault(name, d) /\ no \in BOOLEAN
  BY DefaultFacts
<1> HIDE DEF name
<1>2. f.env \in Memory /\ f.top \in Value /\ f.nv \in Sound /\ f.inv \in BOOLEAN
      /\ f.way \subseteq Sound
  BY BothFacts
<1>3. x = IF getenv(f.env, name) # NoVal THEN f ELSE [g EXCEPT !.way = @ \cup f.way]
  BY <1>1 DEF WithDefault
<1>31. Taken(f, i) <=> getenv(f.env, name) = NoVal /\ c.ok
  BY DEF Taken, name
<1> HIDE DEF no, d
<1>4. g \in Both
  BY <1>1, <1>2, do_setenvFacts
<1>5. \/ Left(g, f.nv, f.inv)
      \/ c.ok /\ IsDefault(name, d) /\ Removes(g, f.nv, f.inv, name)
      \/ c.ok /\ ~IsDefault(name, d) /\ Stores(g, f.nv, f.inv, name, d)
  BY <1>1, <1>2, do_setenvIs
<1> HIDE DEF g, c, x
<1>6. CASE getenv(f.env, name) # NoVal
  <2>1. x = f
    BY <1>3, <1>6
  <2>2. QED
    BY <2>1 DEF x, name
<1>7. CASE getenv(f.env, name) = NoVal
  <2>1. x = [g EXCEPT !.way = @ \cup f.way]
    BY <1>3, <1>7
  <2>2. x.nv = g.nv /\ x.way = g.way \cup f.way
    BY <1>2, <1>4, <2>1, WayFacts
  <2>3. CASE Left(g, f.nv, f.inv)
    BY <2>2, <2>3 DEF Left, x, name
  <2>4. CASE c.ok /\ Removes(g, f.nv, f.inv, name)
    <3>1. /\ Taken(f, i) /\ ~f.inv /\ CutAt(f.nv, name, x.nv)
          /\ x.way \subseteq f.way \cup {f.nv, Erased, x.nv}
      BY <1>7, <1>31, <2>2, <2>4 DEF Removes
    <3>2. QED
      BY <3>1 DEF x, name
  <2>5. QED
    BY <1>1, <1>5, <2>3, <2>4
<1>8. QED
  BY <1>6, <1>7

(* A start keeps what the sector owes, even if it is interrupted.          *)
LEMMA StartKeeps ==
  ASSUME NEW nv \in Sound, NEW v \in Vars, v \notin Named(Sysvars), NEW w, Keeps(nv, v, w)
  PROVE  LET s == envinit(nv)
         IN  Keeps(s.nv, v, w) /\ \A x \in s.way : x = Erased \/ Keeps(x, v, w)
<1> DEFINE s == tgt_mapenv(nv)
           F == Filled(s)
           L == Len(Std)
           Good(f) == Keeps(f.nv, v, w) /\ \A x \in f.way : x = Erased \/ Keeps(x, v, w)
           T == {i \in 0 .. L : Good(F[i])}
<1>1. nv.ok /\ ~nv.cut
  BY DEF Keeps
<1>2. s \in Both /\ s.nv = nv /\ s.way = {nv}
  BY tgt_mapenvFacts
<1>3. \A i \in 0 .. L : Settled(F, s, i)
  BY <1>1, FillSettles
<1> HIDE DEF s
<1>4. /\ F \in [0 .. L -> Both] /\ F[0] = s
      /\ \A i \in 1 .. L : F[i] = WithDefault(F[i - 1], Std[i])
  BY <1>2, FilledFacts
<1>5. L \in Nat
  BY VarFacts
<1> HIDE DEF F
<1>6. 0 \in T
  BY <1>2, <1>4, <1>5
<1>7. ASSUME NEW i \in 1 .. L, i - 1 \in T
      PROVE  i \in T
  <2> DEFINE f == F[i - 1]
             x == WithDefault(f, Std[i])
  <2>1. f \in Both /\ f.nv \in Sound /\ Good(f) /\ Settled(F, s, i - 1) /\ i \in 0 .. L
    <3>1. i - 1 \in 0 .. L /\ i \in 0 .. L
      BY <1>5
    <3>2. QED
      BY <1>3, <1>4, <1>7, <3>1, BothFacts
  <2>2. F[i] = x
    BY <1>4
  <2>3. Kept(s.env, f.env) /\ f.nv.ok /\ Last(Pairs(f.nv)).env = s.env
    BY <2>1 DEF Settled
  <2> HIDE DEF f
  <2>4. \/ x.nv = f.nv /\ x.way \subseteq f.way \cup {f.nv}
        \/ /\ Taken(f, i) /\ ~f.inv /\ CutAt(f.nv, Std[i], x.nv)
           /\ x.way \subseteq f.way \cup {f.nv, Erased, x.nv}
    BY <2>1, WithDefaultIs
  <2> HIDE DEF x
  <2>5. ASSUME Taken(f, i), CutAt(f.nv, Std[i], x.nv)
        PROVE  Keeps(x.nv, v, w)
    <3>1. Std[i] \in Name /\ Var[Std[i]] = Std[i] /\ Default[Std[i]] \in Value
      BY DefaultFacts
    <3>2. getenv(f.env, Std[i]) = NoVal /\ Change(f.env, f.top, Std[i], Default[Std[i]]).ok
      BY <2>5 DEF Taken
    <3>3. ~Full(f.env)
      <4>1. f.env \in Memory /\ f.top \in Value
        BY <2>1, BothFacts
      <4>2. QED
        BY <3>1, <3>2, <4>1, ChangeFacts
    <3>4. getenv(s.env, Std[i]) = NoVal /\ ~Full(s.env)
      BY <2>3, <3>1, <3>2, <3>3 DEF Kept
    <3>5. Std[i] # v
      <4>1. getenv(Last(Pairs(f.nv)).env, v) # NoVal
        BY <2>1, <2>3, <3>4, OwedFound DEF Keeps
      <4>2. QED
        BY <2>3, <3>4, <4>1
    <3>6. QED
      BY <2>1, <2>5, <3>1, <3>5, CutKeeps
  <2>6. Good(x)
    BY <2>1, <2>4, <2>5
  <2>7. QED
    BY <2>1, <2>2, <2>6
<1> HIDE DEF T
<1>8. 0 .. L \subseteq T
  BY <1>5, <1>6, <1>7, InductTo
<1>9. L \in 0 .. L
  BY <1>5
<1>10. Good(F[L])
  BY <1>8, <1>9 DEF T
<1>11. QED
  BY <1>10 DEF F, s, envinit

(* _setenv never lowers the top of the heap.                               *)
LEMMA ChangeTop ==
  ASSUME NEW e \in Memory, NEW h \in Value, NEW name \in Name, NEW value \in Value
  PROVE  LET s == Change(e, h, name, value)
         IN  /\ s.top = IF Var[name] = Heaptop /\ value >= h THEN value ELSE h
             /\ s.top \in Nat /\ s.top >= h /\ (Var[name] = Heaptop => s.top >= value)
             /\ s.ok /\ Var[name] = Heaptop => value >= h
             /\ MemVars(s.env) = MemVars(e) \cup (IF s.ok THEN {Var[name]} ELSE {})
<1> DEFINE b == TRUE
           s == _setenv(e, h, name, value, b)
<1>1. b \in BOOLEAN
  OBVIOUS
<1>2. Change(e, h, name, value) = s
  BY DEF Change
<1> HIDE DEF b
<1>3. /\ s.top \in Value
      /\ s.top = IF Var[name] = Heaptop /\ value >= h THEN value ELSE h
      /\ s.top >= h /\ (Var[name] = Heaptop => s.top >= value)
      /\ s.ok /\ Var[name] = Heaptop => value >= h
  <2>1. s.top \in Value
    BY <1>1, SetMore
  <2>2. s.top = IF Var[name] = Heaptop /\ value >= h THEN value ELSE h
    BY <1>1, SetMore
  <2>3. s.top >= h /\ (Var[name] = Heaptop => s.top >= value)
    BY <1>1, SetMore
  <2>4. s.ok /\ Var[name] = Heaptop => value >= h
    BY <1>1, SetMore
  <2> HIDE DEF s
  <2>5. QED
    BY <2>1, <2>2, <2>3, <2>4
<1> DEFINE c == Change(e, h, name, value)
<1>4. /\ c \in Set /\ (~c.ok => c.env = e) /\ (c.ok => getenv(c.env, name) = value)
      /\ \A n \in Name : Var[n] # Var[name] => getenv(c.env, n) = getenv(e, n)
  BY ChangeFacts
<1> HIDE DEF s, c
<1>5. MemVars(c.env) = MemVars(e) \cup (IF c.ok THEN {Var[name]} ELSE {})
  BY <1>4, SetAdds
<1>6. QED
  BY <1>2, <1>3, <1>5, ValueNat DEF c

(* Defaults change no variable that has a value.                           *)
LEMMA FillMore ==
  ASSUME NEW s \in Both
  PROVE  \A i \in 0 .. Len(Std) :
           LET f == Filled(s)[i]
           IN  /\ f \in Both /\ f.inv = s.inv /\ f.top >= s.top
               /\ \A n \in Name : getenv(s.env, n) # NoVal => getenv(f.env, n) = getenv(s.env, n)
<1> DEFINE F == Filled(s)
           L == Len(Std)
           Good(f) == /\ f \in Both /\ f.inv = s.inv /\ f.top >= s.top
                      /\ \A n \in Name : getenv(s.env, n) # NoVal =>
                                           getenv(f.env, n) = getenv(s.env, n)
           T == {i \in 0 .. L : Good(F[i])}
<1>1. /\ F \in [0 .. L -> Both] /\ F[0] = s
      /\ \A i \in 1 .. L : F[i] = WithDefault(F[i - 1], Std[i])
  BY FilledFacts
<1>2. L \in Nat /\ s.top \in Nat
  BY VarFacts, BothFacts, ValueNat
<1> HIDE DEF F
<1>3. 0 \in T
  BY <1>1, <1>2
<1>4. ASSUME NEW i \in 1 .. L, i - 1 \in T
      PROVE  i \in T
  <2> DEFINE f == F[i - 1]
             name == Std[i]
             d == Default[name]
             c == Change(f.env, f.top, name, d)
             x == WithDefault(f, name)
  <2>1. Good(f) /\ i \in 0 .. L
    BY <1>2, <1>4
  <2>2. F[i] = x
    BY <1>1
  <2> HIDE DEF f
  <2>3. name \in Name /\ d \in Value
    BY DefaultFacts
  <2>4. f.env \in Memory /\ f.top \in Value /\ f.top \in Nat
    BY <2>1, BothFacts, ValueNat
  <2>5. /\ x \in Both /\ x.inv = f.inv
        /\ getenv(f.env, name) # NoVal => x = f
        /\ getenv(f.env, name) = NoVal => x.env = c.env /\ x.top = c.top
    BY <2>1, WithDefaultFacts
  <2> HIDE DEF d, name
  <2>6. /\ c.top >= f.top /\ c.top \in Nat
        /\ \A n \in Name : Var[n] # Var[name] => getenv(c.env, n) = getenv(f.env, n)
    BY <2>3, <2>4, ChangeFacts, ChangeTop
  <2> HIDE DEF c, x
  <2>7. CASE getenv(f.env, name) # NoVal
    BY <2>1, <2>2, <2>5, <2>7
  <2>8. CASE getenv(f.env, name) = NoVal
    <3>1. x.top >= s.top
      BY <1>2, <2>1, <2>4, <2>5, <2>6, <2>8
    <3>2. ASSUME NEW n \in Name, getenv(s.env, n) # NoVal
          PROVE  getenv(x.env, n) = getenv(s.env, n)
      <4>1. getenv(f.env, n) = getenv(s.env, n)
        BY <2>1, <3>2
      <4>2. Var[n] # Var[name]
        BY <2>8, <3>2, <4>1, SameVar
      <4>3. QED
        BY <2>5, <2>6, <2>8, <4>1, <4>2
    <3>3. QED
      BY <2>1, <2>2, <2>5, <3>1, <3>2
  <2>9. QED
    BY <2>7, <2>8
<1> HIDE DEF T
<1>5. 0 .. L \subseteq T
  BY <1>2, <1>3, <1>4, InductTo
<1>6. QED
  BY <1>5 DEF T, F

LEMMA StartMore ==
  ASSUME NEW nv \in Sound
  PROVE  LET m == Last(Pairs(nv))
             s == envinit(nv)
         IN  /\ s \in Both /\ s.inv = (~nv.ok \/ nv.cut) /\ s.top >= m.top
             /\ m \in Set
             /\ \A n \in Name : getenv(m.env, n) # NoVal => getenv(s.env, n) = getenv(m.env, n)
<1> DEFINE t == tgt_mapenv(nv)
           L == Len(Std)
           f == Filled(t)[L]
<1>1. /\ t \in Both /\ t.env = Last(Pairs(nv)).env /\ t.top = Last(Pairs(nv)).top
      /\ t.inv = (~nv.ok \/ nv.cut) /\ Last(Pairs(nv)) \in Set
  BY tgt_mapenvFacts
<1>2. L \in 0 .. L
  BY VarFacts
<1> HIDE DEF t, L
<1>3. /\ f \in Both /\ f.inv = t.inv /\ f.top >= t.top
      /\ \A n \in Name : getenv(t.env, n) # NoVal => getenv(f.env, n) = getenv(t.env, n)
  BY <1>1, <1>2, FillMore DEF L
<1>4. envinit(nv) = f
  BY DEF envinit, t, L
<1> HIDE DEF f
<1>5. QED
  BY <1>1, <1>3, <1>4

(* What the sector owes is what the next start finds.                      *)
LEMMA StartReads ==
  ASSUME NEW nv \in Sound, NEW v \in Vars, v \notin Named(Sysvars), NEW w, Keeps(nv, v, w),
         Cardinality(Named(nv.ents)) <= NVAR
  PROVE  getenv(envinit(nv).env, v) = w
<1> DEFINE q == Pairs(nv)
<1>1. nv.ok /\ Owes(nv.ents, v, w)
  BY DEF Keeps
<1>2. q \in Seq(Pair) /\ Owes(q, v, w)
  BY <1>1, PairsIs, PairsOwes
<1>3. \A i \in 1 .. Len(q) : Var[q[i].name] = v => Fits(Mapped(q)[i - 1], q[i])
  BY <1>1, FewFit
<1>4. w # NoVal
  <2> HIDE DEF q
  <2>1. PICK i \in 1 .. Len(q) : q[i].value = w
    BY <1>2 DEF Owes
  <2>2. q[i] \in Pair
    BY <1>2
  <2>3. QED
    BY <2>1, <2>2, NoValIsNone DEF Pair
<1> HIDE DEF q
<1>5. getenv(Last(q).env, v) = w
  BY <1>2, <1>3, ReadBack
<1>6. v \in Name
  BY VarFacts
<1>7. QED
  BY <1>4, <1>5, <1>6, StartMore DEF q

(* The top of the heap is not below any heaptop of the sector.             *)
LEMMA StartTop ==
  ASSUME NEW nv \in Sound, nv.ok
  PROVE  \A j \in 1 .. Len(nv.ents) :
           Var[nv.ents[j].name] = Heaptop => envinit(nv).top >= nv.ents[j].value
<1> DEFINE q == Pairs(nv)
           M == Mapped(q)
           L == Len(q)
<1>1. q \in Seq(Pair) /\ \A j \in 1 .. Len(nv.ents) : j \in 1 .. L /\ q[j] = nv.ents[j]
  BY PairsIs
<1>2. envinit(nv).top >= Last(q).top /\ envinit(nv).top \in Nat
  BY StartMore, BothFacts, ValueNat
<1> HIDE DEF q
<1>3. /\ L \in Nat /\ M \in [0 .. L -> Set]
      /\ \A j \in 1 .. L : j - 1 \in 0 .. L /\ j \in 0 .. L /\ Steps(M[j - 1], M[j], q[j])
  BY <1>1, MapIs
<1>4. Last(q) = M[L]
  BY DEF Last
<1> DEFINE T == {j \in 0 .. L : \A i \in 1 .. j : /\ M[j].top \in Nat
                                                  /\ Var[q[i].name] = Heaptop => M[j].top >= q[i].value}
<1> HIDE DEF M, L
<1>5. 0 \in T
  BY <1>3
<1>6. ASSUME NEW j \in 1 .. L, j - 1 \in T
      PROVE  j \in T
  <2>1. /\ M[j].top \in Nat /\ M[j - 1].top \in Nat /\ M[j].top >= M[j - 1].top
        /\ Var[q[j].name] = Heaptop => M[j].top >= q[j].value
    BY <1>3 DEF Steps
  <2>2. ASSUME NEW i \in 1 .. j, Var[q[i].name] = Heaptop
        PROVE  M[j].top >= q[i].value
    <3>1. CASE i = j
      BY <2>1, <2>2, <3>1
    <3>2. CASE i # j
      <4>1. i \in 1 .. j - 1 /\ i \in 1 .. L
        BY <1>3, <3>2
      <4>2. M[j - 1].top >= q[i].value /\ q[i].value \in Nat
        BY <1>3, <1>6, <2>2, <4>1 DEF Steps
      <4>3. QED
        BY <2>1, <4>2
    <3>3. QED
      BY <3>1, <3>2
  <2>3. QED
    BY <1>3, <2>1, <2>2
<1> HIDE DEF T
<1>7. L \in T
  <2>1. 0 .. L \subseteq T
    BY <1>3, <1>5, <1>6, InductTo
  <2>2. QED
    BY <1>3, <2>1
<1>8. ASSUME NEW j \in 1 .. Len(nv.ents), Var[nv.ents[j].name] = Heaptop
      PROVE  envinit(nv).top >= nv.ents[j].value
  <2>1. j \in 1 .. L /\ q[j] = nv.ents[j]
    BY <1>1 DEF L
  <2>2. M[L].top \in Nat /\ M[L].top >= q[j].value
    BY <1>7, <1>8, <2>1 DEF T
  <2>3. q[j].value \in Nat
    BY <1>3, <2>1 DEF Steps
  <2>4. QED
    BY <1>2, <1>4, <2>1, <2>2, <2>3
<1>9. QED
  BY <1>8

(* No heaptop of the sector is above h.                                    *)
Below(nv, h) == \A j \in 1 .. Len(nv.ents) :
                  Var[nv.ents[j].name] = Heaptop => nv.ents[j].value <= h

LEMMA LeftSpares ==
  ASSUME NEW nv, NEW inv, NEW x, Left(x, nv, inv), NEW v, NEW w, Keeps(nv, v, w)
  PROVE  Keeps(x.nv, v, w) /\ \A y \in x.way : Keeps(y, v, w)
BY DEF Left

LEMMA RemovesSpares ==
  ASSUME NEW nv \in Sound, NEW inv, NEW n, NEW x, Removes(x, nv, inv, n)
  PROVE  /\ \A v, w : Var[n] # v /\ Keeps(nv, v, w) =>
              Keeps(x.nv, v, w) /\ \A y \in x.way : y = Erased \/ Keeps(y, v, w)
         /\ \A h : Below(nv, h) => Below(x.nv, h)
         /\ x.nv.ok /\ ~x.nv.cut
<1>1. CutAt(nv, n, x.nv) /\ x.way \subseteq {nv, Erased, x.nv}
  BY DEF Removes
<1>2. PICK k \in 1 .. Len(nv.ents) : x.nv = Entries(Cut(nv.ents, k))
  BY <1>1 DEF CutAt
<1>3. x.nv.ents = Cut(nv.ents, k) /\ x.nv.ok /\ ~x.nv.cut
  BY <1>2 DEF Entries
<1>4. \A v, w : Var[n] # v /\ Keeps(nv, v, w) => Keeps(x.nv, v, w)
  BY <1>1, CutKeeps
<1>5. nv.ents \in Seq(Pair) /\ Distinct(nv.ents)
  BY SoundFacts
<1>6. \A j \in 1 .. Len(x.nv.ents) : \E i \in 1 .. Len(nv.ents) : x.nv.ents[j] = nv.ents[i]
  BY <1>3, <1>5, CutDistinct
<1>7. \A h : Below(nv, h) => Below(x.nv, h)
  BY <1>6 DEF Below
<1>8. QED
  BY <1>1, <1>3, <1>4, <1>7

LEMMA AddedEach ==
  ASSUME NEW q \in Seq(Pair), NEW name \in Name, NEW value \in Value
  PROVE  LET r == Added(q, name, value)
         IN  \A j \in 1 .. Len(r) : \/ r[j] = [name |-> name, value |-> value]
                                    \/ \E i \in 1 .. Len(q) : r[j] = q[i]
<1> DEFINE r == Added(q, name, value)
<1>1. PICK k \in 1 .. Len(r) : Thin(q, r, k) /\ r[k] = [name |-> name, value |-> value]
  BY AddedThin
<1> HIDE DEF r
<1>2. /\ Len(q) \in Nat /\ Len(r) = Len(q) + 1
      /\ \A j \in 1 .. Len(q) : q[j] = r[Place(k, j)]
  BY <1>1 DEF Thin
<1>3. ASSUME NEW j \in 1 .. Len(r), j # k
      PROVE  \E i \in 1 .. Len(q) : r[j] = q[i]
  <2> DEFINE i == IF j < k THEN j ELSE j - 1
  <2>1. i \in 1 .. Len(q) /\ Place(k, i) = j
    BY <1>2, <1>3 DEF Place
  <2> HIDE DEF i
  <2>2. QED
    BY <1>2, <2>1
<1>4. QED
  BY <1>1, <1>3 DEF r

LEMMA StoresSpares ==
  ASSUME NEW nv \in Sound, NEW inv \in BOOLEAN, inv <=> ~nv.ok \/ nv.cut,
         NEW name \in Name, NEW value \in Value, NEW x, Stores(x, nv, inv, name, value)
  PROVE  /\ \A v, w : Var[name] # v /\ Keeps(nv, v, w) =>
              /\ x.nv.cut \/ Keeps(x.nv, v, w)
              /\ \A y \in x.way : y = Erased \/ y.cut \/ Keeps(y, v, w)
         /\ (Var[name] = Heaptop => value >= HeapStart /\ (inv \/ Below(nv, value)))
              => x.nv.cut \/ Keeps(x.nv, Var[name], value)
         /\ \A h : (inv \/ Below(nv, h)) /\ (Var[name] = Heaptop => value <= h)
              => x.nv.cut \/ Below(x.nv, h)
         /\ ~x.nv.cut => x.nv.ok
         /\ inv => ~x.nv.cut
<1>1. PICK old \in Sound :
        /\ NoEntry(old, name)
        /\ IF inv THEN old = Entries(<<>>) /\ ~x.nv.cut
                  ELSE old = nv \/ CutAt(nv, name, old)
        /\ x.nv.cut \/ x.nv = Entries(Added(old.ents, name, value))
        /\ x.way \subseteq {nv, Erased, old, x.nv}
  BY DEF Stores
<1> DEFINE new == Entries(Added(old.ents, name, value))
<1>2. new.ok /\ ~new.cut /\ new.ents = Added(old.ents, name, value) /\ old.ents \in Seq(Pair)
  BY SoundFacts DEF Entries
<1>3. ASSUME NEW v, NEW w, Var[name] # v, Keeps(nv, v, w)
      PROVE  /\ x.nv.cut \/ Keeps(x.nv, v, w)
             /\ \A y \in x.way : y = Erased \/ y.cut \/ Keeps(y, v, w)
  <2>1. ~inv
    BY <1>3 DEF Keeps
  <2>2. Keeps(old, v, w)
    BY <1>1, <1>3, <2>1, CutKeeps
  <2>3. Keeps(new, v, w)
    BY <1>3, <2>2, AddKeeps DEF Keeps
  <2>4. QED
    BY <1>1, <1>3, <2>2, <2>3
<1>4. \A h : inv \/ Below(nv, h) => Below(old, h)
  <2>1. CASE inv
    <3>1. Entries(<<>>).ents = <<>> /\ Len(<<>>) = 0
      BY DEF Entries
    <3>2. QED
      BY <1>1, <2>1, <3>1 DEF Below
  <2>2. CASE ~inv
    <3>1. CASE old = nv
      BY <2>2, <3>1
    <3>2. CASE CutAt(nv, name, old)
      <4>1. PICK k \in 1 .. Len(nv.ents) : old = Entries(Cut(nv.ents, k))
        BY <3>2 DEF CutAt
      <4>2. old.ents = Cut(nv.ents, k) /\ nv.ents \in Seq(Pair) /\ Distinct(nv.ents)
        BY <4>1, SoundFacts DEF Entries
      <4>3. \A j \in 1 .. Len(old.ents) : \E i \in 1 .. Len(nv.ents) : old.ents[j] = nv.ents[i]
        BY <4>2, CutDistinct
      <4>4. QED
        BY <2>2, <4>3 DEF Below
    <3>3. QED
      BY <1>1, <2>2, <3>1, <3>2
  <2>3. QED
    BY <2>1, <2>2
<1>5. ASSUME Var[name] = Heaptop => value >= HeapStart /\ (inv \/ Below(nv, value))
      PROVE  Keeps(new, Var[name], value)
  <2>1. Var[name] = Heaptop => value >= HeapStart /\ Below(old, value)
    BY <1>4, <1>5
  <2>2. Var[name] = Heaptop =>
          /\ value >= HeapStart
          /\ \A j \in 1 .. Len(old.ents) :
               Var[old.ents[j].name] = Heaptop => old.ents[j].value <= value
    BY <2>1 DEF Below
  <2>3. Owes(Added(old.ents, name, value), Var[name], value)
    BY <1>2, <2>2, OwesNew
  <2> HIDE DEF new
  <2>4. QED
    BY <1>2, <2>3 DEF Keeps
<1>6. ASSUME NEW h, inv \/ Below(nv, h), Var[name] = Heaptop => value <= h
      PROVE  Below(new, h)
  <2> DEFINE r == Added(old.ents, name, value)
  <2>1. \A j \in 1 .. Len(r) : \/ r[j] = [name |-> name, value |-> value]
                               \/ \E i \in 1 .. Len(old.ents) : r[j] = old.ents[i]
    BY <1>2, AddedEach
  <2>2. new.ents = r
    BY <1>2
  <2>3. Below(old, h)
    BY <1>4, <1>6
  <2> HIDE DEF r, new
  <2>4. \A j \in 1 .. Len(r) : Var[r[j].name] = Heaptop => r[j].value <= h
    BY <1>6, <2>1, <2>3 DEF Below
  <2>5. QED
    BY <2>2, <2>4 DEF Below
<1> HIDE DEF new
<1>7. x.nv.cut \/ x.nv = new
  BY <1>1 DEF new
<1>8. QED
  BY <1>1, <1>2, <1>3, <1>5, <1>6, <1>7

LEMMA StartHigh ==
  ASSUME NEW nv \in Sound
  PROVE  envinit(nv).top >= HeapStart
<1> DEFINE q == Pairs(nv)
           M == Mapped(q)
           L == Len(q)
           T == {j \in 0 .. L : M[j].top \in Nat /\ M[j].top >= HeapStart}
<1>1. q \in Seq(Pair)
  BY PairsFacts
<1>2. envinit(nv).top >= Last(q).top /\ envinit(nv).top \in Nat
  BY StartMore, BothFacts, ValueNat
<1> HIDE DEF q
<1>3. /\ L \in Nat /\ M[0] = Blank
      /\ \A j \in 1 .. L : j - 1 \in 0 .. L /\ j \in 0 .. L /\ Steps(M[j - 1], M[j], q[j])
  BY <1>1, MapIs
<1>4. Last(q) = M[L]
  BY DEF Last
<1> HIDE DEF M, L
<1>5. 0 \in T
  BY <1>3, BlankFacts, HeaptopFacts
<1>6. ASSUME NEW j \in 1 .. L, j - 1 \in T
      PROVE  j \in T
  BY <1>3, <1>6, HeaptopFacts DEF Steps
<1> HIDE DEF T
<1>7. L \in T
  <2>1. 0 .. L \subseteq T
    BY <1>3, <1>5, <1>6, InductTo
  <2>2. QED
    BY <1>3, <2>1
<1>8. QED
  BY <1>2, <1>4, <1>7, HeaptopFacts DEF T

-----------------------------------------------------------------------------
(* What was saved is in the sector.  SetSurvives says what the next start  *)
(* makes of it; of itself it is not inductive, since a start that reads    *)
(* the right values may still have entries in its way.  The ledger says    *)
(* what the entries are: each variable that is owed a value has it in the  *)
(* entry that counts, a good sector is never taken for a bad one, and no   *)
(* heaptop in it is above the one in use, so that a set that chg_heaptop   *)
(* accepts is the highest.                                                 *)
Holds(nv, st) == \A v \in Vars : st[v] \notin {NoVal, Lost} => Keeps(nv, v, st[v])
Ledger ==
  /\ Holds(nvram, stored)
  /\ \A v \in Vars : stored[v] \notin {NoVal, Lost} => v \notin Named(Sysvars)
  /\ up => heaptop >= HeapStart /\ (nvram_invalid <=> ~nvram.ok \/ nvram.cut)
  /\ up /\ ~nvram_invalid => Below(nvram, heaptop)

LEMMA LedgerInit ==
  ASSUME Init
  PROVE  Ledger
BY DEF Init, Ledger, Holds, Nothing

(* A set for the variable that is set.                                     *)
LEMMA SetStores ==
  ASSUME Copies, Ledger, up, NEW name \in Name, NEW value \in Value, NEW x,
         Stores(x, nvram, nvram_invalid, name, value),
         Change(envvar, heaptop, name, value).ok
  PROVE  x.nv.cut \/ Keeps(x.nv, Var[name], value)
<1> DEFINE c == Change(envvar, heaptop, name, value)
<1>1. envvar \in Memory /\ heaptop \in Value /\ heaptop \in Nat /\ value \in Nat
      /\ nvram \in Sound /\ nvram_invalid \in BOOLEAN
  BY ValueNat DEF Copies
<1>2. c.ok /\ Var[name] = Heaptop => value >= heaptop
  BY <1>1, ChangeTop
<1> HIDE DEF c
<1>3. heaptop >= HeapStart /\ (nvram_invalid <=> ~nvram.ok \/ nvram.cut)
      /\ (nvram_invalid \/ Below(nvram, heaptop))
  BY DEF Ledger
<1>4. ASSUME Var[name] = Heaptop
      PROVE  value >= HeapStart /\ (nvram_invalid \/ Below(nvram, value))
  <2>1. value >= heaptop
    BY <1>2, <1>4 DEF c
  <2>2. value >= HeapStart
    BY <1>1, <1>3, <2>1, HeaptopFacts
  <2>3. Below(nvram, heaptop) => Below(nvram, value)
    <3>1. \A j \in 1 .. Len(nvram.ents) : nvram.ents[j].value \in Nat
      BY <1>1, SoundFacts, ValueNat
    <3>2. QED
      BY <1>1, <2>1, <3>1 DEF Below
  <2>4. QED
    BY <1>3, <2>2, <2>3
<1>5. QED
  BY <1>1, <1>3, <1>4, StoresSpares

(* What a set leaves to the others.                                        *)
LEMMA SetSpares ==
  ASSUME Copies, Ledger, up, NEW t \in Typed
  PROVE  LET s == do_setenv(envvar, heaptop, nvram, nvram_invalid, t.name, t.value, t.temp)
         IN  \A v, w : Var[t.name] # v /\ Keeps(nvram, v, w) =>
               /\ s.nv.cut \/ Keeps(s.nv, v, w)
               /\ \A y \in s.way : y = Erased \/ y.cut \/ Keeps(y, v, w)
<1> DEFINE name == t.name
           value == t.value
           temp == t.temp
           c == Change(envvar, heaptop, name, value)
           s == do_setenv(envvar, heaptop, nvram, nvram_invalid, name, value, temp)
<1>1. envvar \in Memory /\ heaptop \in Value /\ nvram \in Sound /\ nvram_invalid \in BOOLEAN
  BY DEF Copies
<1>2. name \in Name /\ value \in Value /\ temp \in BOOLEAN
  BY TypedFacts
<1> HIDE DEF name, value, temp
<1>3. \/ Left(s, nvram, nvram_invalid)
      \/ c.ok /\ IsDefault(name, value) /\ Removes(s, nvram, nvram_invalid, name)
      \/ c.ok /\ ~IsDefault(name, value) /\ Stores(s, nvram, nvram_invalid, name, value)
  BY <1>1, <1>2, do_setenvIs
<1>4. nvram_invalid <=> ~nvram.ok \/ nvram.cut
  BY DEF Ledger
<1> HIDE DEF c, s
<1>5. CASE Left(s, nvram, nvram_invalid)
  BY <1>5, LeftSpares DEF s, name, value, temp
<1>6. CASE Removes(s, nvram, nvram_invalid, name)
  BY <1>1, <1>6, RemovesSpares DEF s, name, value, temp
<1>7. CASE Stores(s, nvram, nvram_invalid, name, value)
  <2>1. \A v, w : Var[name] # v /\ Keeps(nvram, v, w) =>
          /\ s.nv.cut \/ Keeps(s.nv, v, w)
          /\ \A y \in s.way : y = Erased \/ y.cut \/ Keeps(y, v, w)
    BY <1>1, <1>2, <1>4, <1>7, StoresSpares
  <2>2. QED
    BY <2>1 DEF s, name, value, temp
<1>8. QED
  BY <1>3, <1>5, <1>6, <1>7

LEMMA LedgerSet ==
  ASSUME LeavesBoardAlone, Copies, Ghosts, Ledger, NEW t \in Typed,
         cmd_set(t.name, t.value, t.temp)
  PROVE  Ledger'
<1> DEFINE name == t.name
           value == t.value
           temp == t.temp
           u == Var[name]
           c == Change(envvar, heaptop, name, value)
           s == do_setenv(envvar, heaptop, nvram, nvram_invalid, name, value, temp)
           saves == ~IsDefault(name, value) /\ ~temp /\ name # Expert
           old == IF (nvram_invalid /\ ~s.inv) \/ s.nv.cut THEN Everything ELSE stored
           new == IF s.ret = 1 /\ saves /\ ~s.nv.cut THEN value
                  ELSE IF s.nv = nvram THEN old[u] ELSE NoVal
<1>1. envvar \in Memory /\ heaptop \in Value /\ nvram \in Sound /\ nvram_invalid \in BOOLEAN
  BY DEF Copies
<1>2. name \in Name /\ value \in Value /\ temp \in BOOLEAN
  BY TypedFacts
<1>3. u \in Vars /\ u \notin Named(Sysvars)
  BY <1>2, VarFacts DEF LeavesBoardAlone
<1>4. /\ up
      /\ IF s.nv.cut /\ ~nvram.cut THEN Off /\ nvram' = s.nv ELSE Apply(s) /\ UNCHANGED up
      /\ stored' = [old EXCEPT ![u] = new]
  BY DEF cmd_set, Owed
<1>5. \A v, w : u # v /\ Keeps(nvram, v, w) => s.nv.cut \/ Keeps(s.nv, v, w)
  BY <1>4, SetSpares
<1> HIDE DEF name, value, temp
<1>6. /\ \/ Left(s, nvram, nvram_invalid)
         \/ c.ok /\ IsDefault(name, value) /\ Removes(s, nvram, nvram_invalid, name)
         \/ c.ok /\ ~IsDefault(name, value) /\ Stores(s, nvram, nvram_invalid, name, value)
      /\ s.ret = 1 /\ ~IsDefault(name, value) /\ ~temp /\ name # Expert
           => c.ok /\ Stores(s, nvram, nvram_invalid, name, value)
  BY <1>1, <1>2, do_setenvIs
<1>7. s \in Both /\ s.top = c.top /\ c.top \in Nat /\ c.top >= heaptop
      /\ (u = Heaptop => c.top >= value)
  BY <1>1, <1>2, do_setenvFacts, do_setenvMemory, ChangeTop
<1>8. nvram_invalid <=> ~nvram.ok \/ nvram.cut
  BY <1>4 DEF Ledger
<1> HIDE DEF c, s, u
<1>9. stored \in [Vars -> Value \cup {NoVal, Lost}] /\ old \in [Vars -> Value \cup {NoVal, Lost}]
      /\ \A v \in Vars : old[v] \notin {NoVal, Lost} => old[v] = stored[v] /\ ~s.nv.cut
  BY NothingTypes DEF Ghosts, Everything
<1>10. \A v \in Vars : stored'[v] = IF v = u THEN new ELSE old[v]
  BY <1>3, <1>4, <1>9
<1>11. ASSUME NEW v \in Vars, stored'[v] \notin {NoVal, Lost}
       PROVE  v \notin Named(Sysvars) /\ Keeps(s.nv, v, stored'[v]) /\ ~s.nv.cut
  <2>1. CASE v # u
    <3>1. stored'[v] = stored[v] /\ stored[v] \notin {NoVal, Lost} /\ ~s.nv.cut
      BY <1>9, <1>10, <1>11, <2>1
    <3>2. Keeps(nvram, v, stored[v]) /\ v \notin Named(Sysvars)
      BY <3>1 DEF Ledger, Holds
    <3>3. QED
      BY <1>5, <2>1, <3>1, <3>2
  <2>2. CASE v = u /\ s.ret = 1 /\ saves /\ ~s.nv.cut
    <3>1. stored'[v] = value
      BY <1>10, <2>2
    <3>2. c.ok /\ Stores(s, nvram, nvram_invalid, name, value)
      BY <1>6, <2>2
    <3>3. s.nv.cut \/ Keeps(s.nv, Var[name], value)
      BY <1>2, <1>4, <3>2, SetStores DEF c
    <3>4. QED
      BY <1>3, <2>2, <3>1, <3>3 DEF u
  <2>3. CASE v = u /\ ~(s.ret = 1 /\ saves /\ ~s.nv.cut)
    <3>1. s.nv = nvram /\ stored'[v] = old[v]
      BY <1>10, <1>11, <2>3
    <3>2. stored'[v] = stored[v] /\ stored[v] \notin {NoVal, Lost} /\ ~s.nv.cut
      BY <1>9, <1>11, <3>1
    <3>3. Keeps(nvram, v, stored[v])
      BY <3>2 DEF Ledger, Holds
    <3>4. QED
      BY <1>3, <2>3, <3>1, <3>2, <3>3
  <2>4. QED
    BY <2>1, <2>2, <2>3
<1> HIDE DEF old, new
<1>12. nvram' = s.nv
  BY <1>4 DEF Apply
<1>13. Holds(nvram', stored')
  BY <1>11, <1>12 DEF Holds
<1>14. CASE s.nv.cut /\ ~nvram.cut
  <2>1. ~up'
    BY <1>4, <1>14 DEF Off
  <2>2. QED
    BY <1>11, <1>13, <2>1 DEF Ledger, Holds
<1>15. CASE ~(s.nv.cut /\ ~nvram.cut)
  <2>1. heaptop' = s.top /\ nvram_invalid' = s.inv /\ heaptop >= HeapStart
        /\ (nvram_invalid \/ Below(nvram, heaptop))
    BY <1>4, <1>15 DEF Apply, Ledger
  <2>2. heaptop' >= HeapStart
    BY <1>1, <1>7, <2>1, ValueNat, HeaptopFacts
  <2>3. \A h : Below(nvram, heaptop) /\ h \in Nat /\ h >= heaptop => Below(nvram, h)
    <3>1. \A j \in 1 .. Len(nvram.ents) : nvram.ents[j].value \in Nat
      BY <1>1, SoundFacts, ValueNat
    <3>2. heaptop \in Nat
      BY <1>1, ValueNat
    <3>3. QED
      BY <3>1, <3>2 DEF Below
  <2>4. nvram_invalid \/ Below(nvram, heaptop')
    BY <1>7, <2>1, <2>3
  <2>5. (nvram_invalid' <=> ~nvram'.ok \/ nvram'.cut) /\ (nvram_invalid' \/ Below(nvram', heaptop'))
    <3>1. CASE Left(s, nvram, nvram_invalid)
      BY <1>8, <1>12, <2>1, <2>4, <3>1 DEF Left
    <3>2. CASE Removes(s, nvram, nvram_invalid, name)
      <4>1. s.nv.ok /\ ~s.nv.cut /\ (Below(nvram, heaptop') => Below(s.nv, heaptop'))
        BY <1>1, <3>2, RemovesSpares
      <4>2. ~s.inv /\ ~nvram_invalid
        BY <3>2 DEF Removes
      <4>3. QED
        BY <1>12, <2>1, <2>4, <4>1, <4>2
    <3>3. CASE Stores(s, nvram, nvram_invalid, name, value)
      <4>1. u = Heaptop => value <= heaptop'
        BY <1>2, <1>7, <2>1, ValueNat
      <4>2. /\ s.nv.cut \/ Below(s.nv, heaptop')
            /\ ~s.nv.cut => s.nv.ok
            /\ nvram_invalid => ~s.nv.cut
        BY <1>1, <1>2, <1>8, <2>4, <3>3, <4>1, StoresSpares DEF u
      <4>3. ~s.nv.cut
        BY <1>8, <1>15, <4>2
      <4>4. ~s.inv
        BY <3>3 DEF Stores
      <4>5. QED
        BY <1>12, <2>1, <4>2, <4>3, <4>4
    <3>4. QED
      BY <1>6, <3>1, <3>2, <3>3
  <2>6. QED
    BY <1>11, <1>13, <2>2, <2>5 DEF Ledger
<1>16. QED
  BY <1>14, <1>15

(* The power fails in an operation for v that keeps what is owed for others. *)
LEMMA LedgerPowerFails ==
  ASSUME Ghosts, Ledger, NEW s, NEW v \in Vars, PowerFails(s, v),
         \A u \in Vars : \A w : u # v /\ u \notin Named(Sysvars) /\ Keeps(nvram, u, w)
                            => nvram' = Erased \/ Keeps(nvram', u, w)
  PROVE  Ledger'
<1>1. /\ ~up'
      /\ stored' = [IF nvram' = Erased \/ nvram_invalid THEN Everything ELSE stored
                     EXCEPT ![v] = NoVal]
  BY DEF PowerFails, Off
<1>2. stored \in [Vars -> Value \cup {NoVal, Lost}]
  BY DEF Ghosts
<1>3. ASSUME NEW u \in Vars, stored'[u] \notin {NoVal, Lost}
      PROVE  u \notin Named(Sysvars) /\ Keeps(nvram', u, stored'[u])
  <2>1. nvram' # Erased /\ u # v /\ stored'[u] = stored[u]
    BY <1>1, <1>2, <1>3, NothingTypes DEF Everything
  <2>2. u \notin Named(Sysvars) /\ Keeps(nvram, u, stored[u])
    BY <1>3, <2>1 DEF Ledger, Holds
  <2>3. QED
    BY <2>1, <2>2
<1>4. QED
  BY <1>1, <1>3 DEF Ledger, Holds

LEMMA LedgerPowerFailsInSet ==
  ASSUME Copies, Ghosts, Ledger, NEW t \in Typed,
         PowerFailsInSet(t.name, t.value, t.temp)
  PROVE  Ledger'
<1> DEFINE s == do_setenv(envvar, heaptop, nvram, nvram_invalid, t.name, t.value, t.temp)
<1>1. up /\ PowerFails(s, Var[t.name]) /\ ~nvram'.cut /\ nvram' \in s.way
  BY DEF PowerFailsInSet, PowerFails
<1>2. Var[t.name] \in Vars
  BY TypedFacts, VarFacts
<1>3. \A v, w : Var[t.name] # v /\ Keeps(nvram, v, w) =>
         \A y \in s.way : y = Erased \/ y.cut \/ Keeps(y, v, w)
  BY <1>1, SetSpares
<1> HIDE DEF s
<1>4. QED
  BY <1>1, <1>2, <1>3, LedgerPowerFails

(* What unsetenv leaves in the sector of the other variables.              *)
LEMMA UnsetSpares ==
  ASSUME Copies, NEW name \in Name
  PROVE  LET s == unsetenv(envvar, heaptop, nvram, nvram_invalid, name)
         IN  /\ \A v, w : Var[name] # v /\ Keeps(nvram, v, w) =>
                  Keeps(s.nv, v, w) /\ \A y \in s.way : y = Erased \/ Keeps(y, v, w)
             /\ \A h : Below(nvram, h) => Below(s.nv, h)
             /\ (nvram_invalid <=> ~nvram.ok \/ nvram.cut)
                  => (s.inv <=> ~s.nv.ok \/ s.nv.cut)
             /\ nvram_invalid <=> s.inv
             /\ s.top >= heaptop /\ s.top \in Nat
<1> DEFINE s == unsetenv(envvar, heaptop, nvram, nvram_invalid, name)
<1>1. envvar \in Memory /\ heaptop \in Value /\ nvram \in Sound /\ nvram_invalid \in BOOLEAN
  BY DEF Copies
<1>2. /\ \/ Left(s, nvram, nvram_invalid)
         \/ \E n \in Name : Var[n] = Var[name] /\ Removes(s, nvram, nvram_invalid, n)
      /\ s.top >= heaptop
  BY <1>1, unsetenvIs
<1>3. s.top \in Nat
  BY <1>1, unsetenvFacts, BothFacts, ValueNat
<1> HIDE DEF s
<1>4. CASE Left(s, nvram, nvram_invalid)
  <2>1. s.nv = nvram /\ s.inv = nvram_invalid /\ s.way = {nvram}
    BY <1>4 DEF Left
  <2>2. QED
    BY <1>2, <1>3, <2>1 DEF s
<1>5. ASSUME NEW n \in Name, Var[n] = Var[name], Removes(s, nvram, nvram_invalid, n)
      PROVE  /\ \A v, w : Var[name] # v /\ Keeps(nvram, v, w) =>
                  Keeps(s.nv, v, w) /\ \A y \in s.way : y = Erased \/ Keeps(y, v, w)
             /\ \A h : Below(nvram, h) => Below(s.nv, h)
             /\ s.nv.ok /\ ~s.nv.cut
             /\ ~nvram_invalid /\ ~s.inv
  <2>1. ~nvram_invalid /\ ~s.inv
    BY <1>5 DEF Removes
  <2>2. QED
    BY <1>1, <1>5, <2>1, RemovesSpares
<1>6. QED
  BY <1>2, <1>3, <1>4, <1>5 DEF s

LEMMA LedgerUnset ==
  ASSUME Copies, Ghosts, Ledger, NEW name \in Name, cmd_unset(name)
  PROVE  Ledger'
<1> DEFINE u == Var[name]
           s == unsetenv(envvar, heaptop, nvram, nvram_invalid, name)
<1>1. /\ up /\ up' = up /\ heaptop' = s.top /\ nvram' = s.nv /\ nvram_invalid' = s.inv
      /\ stored' = IF s.nv = nvram THEN stored ELSE [stored EXCEPT ![u] = NoVal]
  BY DEF cmd_unset, Apply
<1>2. u \in Vars
  BY VarFacts
<1>3. /\ \A v, w : u # v /\ Keeps(nvram, v, w) => Keeps(s.nv, v, w)
      /\ \A h : Below(nvram, h) => Below(s.nv, h)
      /\ (nvram_invalid <=> ~nvram.ok \/ nvram.cut) => (s.inv <=> ~s.nv.ok \/ s.nv.cut)
      /\ nvram_invalid <=> s.inv
      /\ s.top >= heaptop /\ s.top \in Nat
  BY UnsetSpares
<1> HIDE DEF s, u
<1>4. heaptop \in Nat /\ stored \in [Vars -> Value \cup {NoVal, Lost}] /\ nvram \in Sound
  BY ValueNat DEF Copies, Ghosts
<1>5. ASSUME NEW v \in Vars, stored'[v] \notin {NoVal, Lost}
      PROVE  v \notin Named(Sysvars) /\ Keeps(nvram', v, stored'[v])
  <2>1. stored'[v] = stored[v] /\ (v # u \/ nvram' = nvram)
    BY <1>1, <1>2, <1>4, <1>5
  <2>2. v \notin Named(Sysvars) /\ Keeps(nvram, v, stored[v])
    BY <1>5, <2>1 DEF Ledger, Holds
  <2>3. QED
    BY <1>1, <1>3, <2>1, <2>2
<1>6. heaptop' >= HeapStart /\ (nvram_invalid' <=> ~nvram'.ok \/ nvram'.cut)
  <2>1. heaptop >= HeapStart /\ (nvram_invalid <=> ~nvram.ok \/ nvram.cut)
    BY <1>1 DEF Ledger
  <2>2. heaptop' >= heaptop /\ heaptop' \in Nat
    BY <1>1, <1>3
  <2>3. heaptop' >= HeapStart
    BY <1>4, <2>1, <2>2, HeaptopFacts
  <2>4. QED
    BY <1>1, <1>3, <2>1, <2>3
<1>7. ASSUME ~nvram_invalid'
      PROVE  Below(nvram', heaptop')
  <2>1. Below(nvram, heaptop)
    BY <1>1, <1>3, <1>7 DEF Ledger
  <2>2. \A j \in 1 .. Len(nvram.ents) : nvram.ents[j].value \in Nat
    BY <1>4, SoundFacts, ValueNat
  <2>3. heaptop' >= heaptop /\ heaptop' \in Nat
    BY <1>1, <1>3
  <2>4. Below(nvram, heaptop')
    BY <1>4, <2>1, <2>2, <2>3 DEF Below
  <2>5. QED
    BY <1>1, <1>3, <2>4
<1>8. QED
  BY <1>1, <1>5, <1>6, <1>7 DEF Ledger, Holds

LEMMA LedgerPowerFailsInUnset ==
  ASSUME Copies, Ghosts, Ledger, NEW name \in Name, PowerFailsInUnset(name)
  PROVE  Ledger'
<1> DEFINE s == unsetenv(envvar, heaptop, nvram, nvram_invalid, name)
<1>1. PowerFails(s, Var[name]) /\ nvram' \in s.way
  BY DEF PowerFailsInUnset, PowerFails
<1>2. Var[name] \in Vars
  BY VarFacts
<1>3. \A v, w : Var[name] # v /\ Keeps(nvram, v, w) =>
         \A y \in s.way : y = Erased \/ Keeps(y, v, w)
  BY UnsetSpares
<1> HIDE DEF s
<1>4. QED
  BY <1>1, <1>2, <1>3, LedgerPowerFails

LEMMA CutWithin ==
  ASSUME NEW nv \in Sound, NEW base, Within(nv, base), NEW n, NEW old, CutAt(nv, n, old)
  PROVE  Within(old, base)
<1>1. PICK k \in 1 .. Len(nv.ents) : old = Entries(Cut(nv.ents, k))
  BY DEF CutAt
<1>2. nv.ents \in Seq(Pair) /\ Distinct(nv.ents)
  BY SoundFacts
<1>3. \A j \in 1 .. Len(Cut(nv.ents, k)) :
         \E m \in 1 .. Len(nv.ents) : Cut(nv.ents, k)[j] = nv.ents[m]
  BY <1>2, CutDistinct
<1>4. old.ents = Cut(nv.ents, k)
  BY <1>1 DEF Entries
<1>5. ASSUME NEW j \in 1 .. Len(old.ents)
      PROVE  \E m \in 1 .. Len(base.ents) : old.ents[j] = base.ents[m]
  <2>1. PICK m \in 1 .. Len(nv.ents) : old.ents[j] = nv.ents[m]
    BY <1>3, <1>4
  <2>2. QED
    BY <2>1 DEF Within
<1>6. QED
  BY <1>5 DEF Within

(* A start adds nothing to the sector, leaves a bad one as it is, and      *)
(* knows a bad one from a good one.                                        *)
LEMMA StartSector ==
  ASSUME NEW nv \in Sound
  PROVE  LET s == envinit(nv)
         IN  /\ Within(s.nv, nv)
             /\ \A y \in s.way : y = Erased \/ y = nv \/ (~s.inv /\ Within(y, nv))
             /\ s.inv <=> ~nv.ok \/ nv.cut
             /\ s.inv <=> ~s.nv.ok \/ s.nv.cut
<1> DEFINE s == tgt_mapenv(nv)
           F == Filled(s)
           L == Len(Std)
           Fine(y) == y = Erased \/ y = nv \/ (~s.inv /\ Within(y, nv))
           Good(f) == /\ f.inv = s.inv /\ Within(f.nv, nv) /\ Fine(f.nv)
                      /\ \A y \in f.way : Fine(y)
           T == {i \in 0 .. L : Good(F[i])}
<1>1. s \in Both /\ s.nv = nv /\ s.way = {nv} /\ s.inv = (~nv.ok \/ nv.cut)
  BY tgt_mapenvFacts
<1>2. nv.ok /\ ~nv.cut => Settled(F, s, L)
  <2>1. L \in 0 .. L
    BY VarFacts
  <2>2. QED
    BY <2>1, FillSettles
<1>3. s.inv => F[L].nv = s.nv
  <2>1. L \in 0 .. L
    BY VarFacts
  <2>2. QED
    BY <1>1, <2>1, FillInvalid
<1> HIDE DEF s
<1>4. /\ F \in [0 .. L -> Both] /\ F[0] = s
      /\ \A i \in 1 .. L : F[i] = WithDefault(F[i - 1], Std[i])
  BY <1>1, FilledFacts
<1>5. L \in Nat
  BY VarFacts
<1> HIDE DEF F
<1>6. 0 \in T
  <2>1. Within(nv, nv)
    BY DEF Within
  <2>2. QED
    BY <1>1, <1>4, <1>5, <2>1
<1>7. ASSUME NEW i \in 1 .. L, i - 1 \in T
      PROVE  i \in T
  <2> DEFINE f == F[i - 1]
             x == WithDefault(f, Std[i])
  <2>1. f \in Both /\ f.nv \in Sound /\ Good(f) /\ i \in 0 .. L /\ F[i] = x
    <3>1. i - 1 \in 0 .. L /\ i \in 0 .. L
      BY <1>5
    <3>2. QED
      BY <1>4, <1>7, <3>1, BothFacts
  <2> HIDE DEF f
  <2>2. \/ x.nv = f.nv /\ x.way \subseteq f.way \cup {f.nv}
        \/ /\ ~f.inv /\ CutAt(f.nv, Std[i], x.nv)
           /\ x.way \subseteq f.way \cup {f.nv, Erased, x.nv}
    BY <2>1, WithDefaultIs
  <2>3. x.inv = f.inv
    BY <2>1, WithDefaultFacts
  <2> HIDE DEF x
  <2>4. CutAt(f.nv, Std[i], x.nv) => Within(x.nv, nv)
    BY <2>1, CutWithin
  <2> HIDE DEF Fine
  <2>5. ~s.inv /\ Within(x.nv, nv) => Fine(x.nv)
    BY DEF Fine
  <2>6. Fine(Erased)
    BY DEF Fine
  <2>7. Good(x)
    BY <2>1, <2>2, <2>3, <2>4, <2>5, <2>6
  <2>8. QED
    BY <2>1, <2>7
<1> HIDE DEF T
<1>8. 0 .. L \subseteq T
  BY <1>5, <1>6, <1>7, InductTo
<1>9. L \in 0 .. L
  BY <1>5
<1>10. Good(F[L])
  BY <1>8, <1>9 DEF T
<1>11. envinit(nv) = F[L]
  BY DEF F, s, envinit
<1>12. envinit(nv).inv <=> ~envinit(nv).nv.ok \/ envinit(nv).nv.cut
  BY <1>1, <1>2, <1>3, <1>10, <1>11 DEF Settled
<1>13. QED
  BY <1>1, <1>10, <1>11, <1>12

LEMMA LedgerBoot ==
  ASSUME Copies, Ghosts, Ledger, Boot
  PROVE  Ledger'
<1> DEFINE s == envinit(nvram)
<1>1. heaptop' = s.top /\ nvram' = s.nv /\ nvram_invalid' = s.inv /\ stored' = stored
  BY DEF Boot, Apply
<1>2. nvram \in Sound
  BY DEF Copies
<1>3. /\ Within(s.nv, nvram)
      /\ s.inv <=> ~nvram.ok \/ nvram.cut
      /\ s.inv <=> ~s.nv.ok \/ s.nv.cut
  BY <1>2, StartSector
<1>4. s.top >= HeapStart
  BY <1>2, StartHigh
<1>5. \A v \in Vars : \A w : v \notin Named(Sysvars) /\ Keeps(nvram, v, w) => Keeps(s.nv, v, w)
  BY <1>2, StartKeeps
<1>6. nvram.ok => \A j \in 1 .. Len(nvram.ents) :
                    Var[nvram.ents[j].name] = Heaptop => s.top >= nvram.ents[j].value
  BY <1>2, StartTop
<1>7. s.top \in Nat /\ \A j \in 1 .. Len(nvram.ents) : nvram.ents[j].value \in Nat
  BY <1>2, envinitFacts, BothFacts, SoundFacts, ValueNat
<1> HIDE DEF s
<1>8. ~s.inv => Below(s.nv, s.top)
  BY <1>3, <1>6, <1>7 DEF Below, Within
<1>9. QED
  BY <1>1, <1>3, <1>4, <1>5, <1>8 DEF Ledger, Holds

LEMMA LedgerPowerFailsInBoot ==
  ASSUME Copies, Ghosts, Ledger, PowerFailsInBoot
  PROVE  Ledger'
<1> DEFINE s == envinit(nvram)
<1>1. PowerFails(s, Heaptop) /\ nvram' \in s.way
  BY DEF PowerFailsInBoot, PowerFails
<1>2. \A v \in Vars : \A w : v \notin Named(Sysvars) /\ Keeps(nvram, v, w) =>
        \A y \in s.way : y = Erased \/ Keeps(y, v, w)
  BY StartKeeps DEF Copies
<1> HIDE DEF s
<1>3. QED
  BY <1>1, <1>2, HeaptopFacts, LedgerPowerFails

LEMMA LedgerStep ==
  ASSUME LeavesBoardAlone, Copies, Ghosts, Ledger, [Next]_vars
  PROVE  Ledger'
<1>1. ASSUME NEW t \in Typed, cmd_set(t.name, t.value, t.temp)
      PROVE  Ledger'
  BY <1>1, LedgerSet
<1>2. ASSUME NEW t \in Typed, cmd_eset(t.name, t.value, t.temp)
      PROVE  Ledger'
  BY <1>2, LedgerSet DEF cmd_eset
<1>3. ASSUME NEW t \in Typed, PowerFailsInSet(t.name, t.value, t.temp)
      PROVE  Ledger'
  BY <1>3, LedgerPowerFailsInSet
<1>4. ASSUME NEW t \in Typed, cmd_unset(t.name)
      PROVE  Ledger'
  BY <1>4, TypedFacts, LedgerUnset
<1>5. ASSUME NEW t \in Typed, PowerFailsInUnset(t.name)
      PROVE  Ledger'
  BY <1>5, TypedFacts, LedgerPowerFailsInUnset
<1>6. CASE Boot
  BY <1>6, LedgerBoot
<1>7. CASE PowerFailsInBoot
  BY <1>7, LedgerPowerFailsInBoot
<1>8. CASE PowerOff
  BY <1>8 DEF PowerOff, Off, Ledger, Holds
<1>9. CASE UNCHANGED vars
  BY <1>9 DEF vars, Ledger, Holds
<1>10. QED
  BY <1>1, <1>2, <1>3, <1>4, <1>5, <1>6, <1>7, <1>8, <1>9 DEF Next

(* A set that reported success survives a restart, unless the whole sector *)
(* is lost (the power fails with it erased, or an entry runs over its      *)
(* end): the value saved last is the one the next start finds, as long as  *)
(* the sector names no more variables than envvar has slots (do_setenv,    *)
(* tgt_setenv, envinit).  A power failure costs all or one: every variable *)
(* or only that which was being set or unset.  The user leaves the         *)
(* variables the board itself sets (tgt_mapenv) alone.                     *)
THEOREM SetSurvivesCorrect == LeavesBoardAlone => (Spec => []SetSurvives)
<1> SUFFICES ASSUME LeavesBoardAlone
             PROVE  Spec => []SetSurvives
  OBVIOUS
<1>1. Init => Ledger
  BY LedgerInit
<1>2. IInv /\ Ledger /\ [Next]_vars => Ledger'
  BY IInvIs, LedgerStep
<1>3. IInv /\ Ledger => SetSurvives
  <2> SUFFICES ASSUME IInv, Ledger, Cardinality(Named(nvram.ents)) <= NVAR,
                      NEW v \in Vars, stored[v] \notin {NoVal, Lost}
               PROVE  getenv(envinit(nvram).env, v) = stored[v]
    BY DEF SetSurvives, Restarted
  <2>1. v \notin Named(Sysvars) /\ Keeps(nvram, v, stored[v])
    BY DEF Ledger, Holds
  <2>2. nvram \in Sound
    BY IInvIs DEF Copies
  <2>3. QED
    BY <2>1, <2>2, StartReads
<1>4. QED
  BY <1>1, <1>2, <1>3, Invariance, PTL DEF Spec

-----------------------------------------------------------------------------
(* What was removed is not in the sector.  tgt_unsetenv removes an exact   *)
(* spelling, so this is an invariant of the entries' names: each is the    *)
(* variable's own spelling or the variable was respelled.                  *)
Awake == up => (nvram_invalid <=> ~nvram.ok \/ nvram.cut)
Accounted(n) == /\ n = Var[n] \/ Var[n] \in respelled
                /\ Var[n] \in removed => Var[n] \in respelled \cup {Heaptop}
Spelt == nvram.ok /\ ~nvram.cut => \A i \in 1 .. Len(nvram.ents) : Accounted(nvram.ents[i].name)

(* A sector that is good and holds what the old one held, if that was good, *)
(* and perhaps the name that was set.                                       *)
Follows(y, name) == y.ok /\ ~y.cut =>
  \A i \in 1 .. Len(y.ents) :
    \/ y.ents[i].name = name
    \/ /\ nvram.ok /\ ~nvram.cut
       /\ \E k \in 1 .. Len(nvram.ents) : y.ents[i] = nvram.ents[k]

LEMMA FollowsIs ==
  /\ \A name : Follows(nvram, name) /\ Follows(Erased, name)
  /\ \A y, name : Within(y, nvram) /\ nvram.ok /\ ~nvram.cut => Follows(y, name)
BY DEF Follows, Erased, Within

LEMMA WithinItself == \A nv : Within(nv, nv)
BY DEF Within

LEMMA RemovesFollows ==
  ASSUME nvram \in Sound, nvram_invalid <=> ~nvram.ok \/ nvram.cut,
         NEW n, NEW x, Removes(x, nvram, nvram_invalid, n)
  PROVE  /\ \A name : Follows(x.nv, name) /\ \A y \in x.way : Follows(y, name)
         /\ x.nv.ok /\ ~x.nv.cut
<1>1. nvram.ok /\ ~nvram.cut /\ CutAt(nvram, n, x.nv) /\ x.way \subseteq {nvram, Erased, x.nv}
  BY DEF Removes
<1>2. Within(x.nv, nvram)
  BY <1>1, WithinItself, CutWithin
<1>3. x.nv.ok /\ ~x.nv.cut
  BY <1>1 DEF CutAt, Entries
<1>4. QED
  BY <1>1, <1>2, <1>3, FollowsIs

LEMMA StoresFollows ==
  ASSUME nvram \in Sound, nvram_invalid <=> ~nvram.ok \/ nvram.cut,
         NEW name \in Name, NEW value \in Value, NEW x,
         Stores(x, nvram, nvram_invalid, name, value)
  PROVE  /\ \A y \in x.way : Follows(y, name)
         /\ Follows(x.nv, name) /\ (x.nv.cut \/ x.nv.ok) /\ (nvram_invalid => ~x.nv.cut)
<1>1. PICK old \in Sound :
        /\ IF nvram_invalid THEN old = Entries(<<>>) /\ ~x.nv.cut
                            ELSE old = nvram \/ CutAt(nvram, name, old)
        /\ x.nv.cut \/ x.nv = Entries(Added(old.ents, name, value))
        /\ x.way \subseteq {nvram, Erased, old, x.nv}
  BY DEF Stores
<1>2. \A i \in 1 .. Len(old.ents) :
        /\ nvram.ok /\ ~nvram.cut
        /\ \E k \in 1 .. Len(nvram.ents) : old.ents[i] = nvram.ents[k]
  <2>1. CASE nvram_invalid
    <3>1. Len(old.ents) = 0
      BY <1>1, <2>1 DEF Entries
    <3>2. QED
      BY <3>1
  <2>2. CASE ~nvram_invalid
    <3>1. Within(old, nvram)
      BY <1>1, <2>2, WithinItself, CutWithin
    <3>2. QED
      BY <2>2, <3>1 DEF Within
  <2>3. QED
    BY <2>1, <2>2
<1>3. Follows(old, name)
  BY <1>2 DEF Follows
<1> DEFINE r == Added(old.ents, name, value)
<1>4. \A j \in 1 .. Len(r) : \/ r[j] = [name |-> name, value |-> value]
                             \/ \E i \in 1 .. Len(old.ents) : r[j] = old.ents[i]
  BY SoundFacts, AddedEach
<1> HIDE DEF r
<1>5. Follows(Entries(r), name)
  <2>1. Entries(r).ents = r
    BY DEF Entries
  <2>2. ASSUME NEW j \in 1 .. Len(r), r[j].name # name
        PROVE  /\ nvram.ok /\ ~nvram.cut
               /\ \E k \in 1 .. Len(nvram.ents) : r[j] = nvram.ents[k]
    <3>1. PICK i \in 1 .. Len(old.ents) : r[j] = old.ents[i]
      BY <1>4, <2>2
    <3>2. QED
      BY <1>2, <3>1
  <2>3. QED
    BY <2>1, <2>2 DEF Follows
<1>6. x.nv.cut => Follows(x.nv, name)
  BY DEF Follows
<1>7. Follows(x.nv, name)
  BY <1>1, <1>5, <1>6 DEF r
<1>8. QED
  BY <1>1, <1>3, <1>7, FollowsIs DEF Entries

(* The step to a sector that follows, in which name was removed or set.    *)
LEMMA SpeltStep ==
  ASSUME Spelt, NEW name \in Name, Follows(nvram', name), Respelled(name),
         removed' \subseteq removed \cup {Var[name]},
         \A i \in 1 .. Len(nvram'.ents) :
           LET n == nvram'.ents[i].name
           IN  Var[n] = Var[name] /\ Var[name] \in removed' /\ nvram'.ok /\ ~nvram'.cut
                 => Var[name] \in respelled' \cup {Heaptop}
  PROVE  Spelt'
<1>1. respelled \subseteq respelled' /\ (name = Var[name] \/ Var[name] \in respelled')
  BY DEF Respelled
<1>2. ASSUME nvram'.ok, ~nvram'.cut, NEW i \in 1 .. Len(nvram'.ents)
      PROVE  LET n == nvram'.ents[i].name
             IN  /\ n = Var[n] \/ Var[n] \in respelled'
                 /\ Var[n] \in removed' => Var[n] \in respelled' \cup {Heaptop}
  <2> DEFINE n == nvram'.ents[i].name
  <2>1. CASE n = name
    BY <1>1, <1>2, <2>1
  <2>2. CASE n # name
    <3>1. nvram.ok /\ ~nvram.cut /\ \E k \in 1 .. Len(nvram.ents) : n = nvram.ents[k].name
      BY <1>2, <2>2 DEF Follows
    <3>2. Accounted(n)
      BY <3>1 DEF Spelt
    <3>3. QED
      BY <1>1, <1>2, <3>2 DEF Accounted
  <2>3. QED
    BY <2>1, <2>2
<1>3. QED
  BY <1>2 DEF Spelt, Accounted

(* With the name itself gone, what is left of its variable is in another   *)
(* spelling.                                                               *)
LEMMA OthersRespelled ==
  ASSUME Spelt, NEW name \in Name, Follows(nvram', name), Respelled(name),
         NoEntry(nvram', name)
  PROVE  \A i \in 1 .. Len(nvram'.ents) :
           LET n == nvram'.ents[i].name
           IN  Var[n] = Var[name] /\ Var[name] \in removed' /\ nvram'.ok /\ ~nvram'.cut
                 => Var[name] \in respelled' \cup {Heaptop}
<1>1. respelled \subseteq respelled' /\ (name = Var[name] \/ Var[name] \in respelled')
  BY DEF Respelled
<1>2. ASSUME NEW i \in 1 .. Len(nvram'.ents), nvram'.ok, ~nvram'.cut,
             Var[nvram'.ents[i].name] = Var[name], name = Var[name]
      PROVE  Var[name] \in respelled
  <2> DEFINE n == nvram'.ents[i].name
  <2>1. n # name
    BY DEF NoEntry
  <2>2. nvram.ok /\ ~nvram.cut /\ \E k \in 1 .. Len(nvram.ents) : n = nvram.ents[k].name
    BY <1>2, <2>1 DEF Follows
  <2>3. Accounted(n)
    BY <2>2 DEF Spelt
  <2>4. QED
    BY <1>2, <2>1, <2>3 DEF Accounted
<1>3. QED
  BY <1>1, <1>2

LEMMA SpeltSet ==
  ASSUME Copies, Awake, Spelt, NEW t \in Typed, cmd_set(t.name, t.value, t.temp)
  PROVE  Awake' /\ Spelt'
<1> DEFINE name == t.name
           value == t.value
           temp == t.temp
           u == Var[name]
           c == Change(envvar, heaptop, name, value)
           s == do_setenv(envvar, heaptop, nvram, nvram_invalid, name, value, temp)
<1>1. envvar \in Memory /\ heaptop \in Value /\ nvram \in Sound /\ nvram_invalid \in BOOLEAN
  BY DEF Copies
<1>2. name \in Name /\ value \in Value /\ temp \in BOOLEAN
  BY TypedFacts
<1>3. /\ up
      /\ IF s.nv.cut /\ ~nvram.cut THEN Off /\ nvram' = s.nv ELSE Apply(s) /\ UNCHANGED up
      /\ removed' = IF s.ret = 1 /\ IsDefault(name, value) THEN removed \cup {u}
                    ELSE IF s.nv = nvram THEN removed ELSE removed \ {u}
      /\ Respelled(name)
  BY DEF cmd_set, Owed
<1> HIDE DEF name, value, temp
<1>4. /\ \/ Left(s, nvram, nvram_invalid)
         \/ Removes(s, nvram, nvram_invalid, name)
         \/ Stores(s, nvram, nvram_invalid, name, value)
      /\ s.ret = 1 /\ IsDefault(name, value) => Removes(s, nvram, nvram_invalid, name)
  BY <1>1, <1>2, do_setenvIs
<1> HIDE DEF s, u
<1>5. nvram_invalid <=> ~nvram.ok \/ nvram.cut
  BY <1>3 DEF Awake
<1>6. /\ Follows(s.nv, name)
      /\ ~(s.nv.cut /\ ~nvram.cut) => (s.inv <=> ~s.nv.ok \/ s.nv.cut)
  <2>1. CASE Left(s, nvram, nvram_invalid)
    BY <1>5, <2>1, FollowsIs DEF Left
  <2>2. CASE Removes(s, nvram, nvram_invalid, name)
    BY <1>1, <1>5, <2>2, RemovesFollows DEF Removes
  <2>3. CASE Stores(s, nvram, nvram_invalid, name, value)
    <3>1. Follows(s.nv, name) /\ (s.nv.cut \/ s.nv.ok) /\ (nvram_invalid => ~s.nv.cut)
      BY <1>1, <1>2, <1>5, <2>3, StoresFollows
    <3>2. ~s.inv
      BY <2>3 DEF Stores
    <3>3. QED
      BY <1>5, <3>1, <3>2
  <2>4. QED
    BY <1>4, <2>1, <2>2, <2>3
<1>7. nvram' = s.nv
  BY <1>3 DEF Apply
<1>8. Awake'
  <2>1. CASE s.nv.cut /\ ~nvram.cut
    BY <1>3, <2>1 DEF Off, Awake
  <2>2. CASE ~(s.nv.cut /\ ~nvram.cut)
    BY <1>3, <1>6, <1>7, <2>2 DEF Apply, Awake
  <2>3. QED
    BY <2>1, <2>2
<1>9. removed' \subseteq removed \cup {Var[name]}
  BY <1>3 DEF u
<1>10. \A i \in 1 .. Len(nvram'.ents) :
         LET n == nvram'.ents[i].name
         IN  Var[n] = Var[name] /\ Var[name] \in removed' /\ nvram'.ok /\ ~nvram'.cut
               => Var[name] \in respelled' \cup {Heaptop}
  <2>1. CASE s.ret = 1 /\ IsDefault(name, value)
    <3>1. NoEntry(nvram', name)
      BY <1>4, <1>7, <2>1 DEF Removes
    <3>2. QED
      BY <1>2, <1>3, <1>6, <1>7, <3>1, OthersRespelled
  <2>2. CASE ~(s.ret = 1 /\ IsDefault(name, value))
    <3>1. Var[name] \in removed' => nvram' = nvram /\ removed' = removed
      BY <1>3, <1>7, <2>2 DEF u
    <3>2. respelled \subseteq respelled'
      BY <1>3 DEF Respelled
    <3>3. QED
      BY <3>1, <3>2 DEF Spelt, Accounted
  <2>3. QED
    BY <2>1, <2>2
<1>11. Spelt'
  BY <1>2, <1>3, <1>6, <1>7, <1>9, <1>10, SpeltStep
<1>12. QED
  BY <1>8, <1>11

LEMMA SpeltPowerFails ==
  ASSUME Spelt, NEW s, NEW name \in Name, PowerFails(s, Var[name]), Respelled(name),
         Follows(nvram', name)
  PROVE  Awake' /\ Spelt'
<1>1. ~up' /\ removed' \subseteq removed \ {Var[name]}
  BY DEF PowerFails, Off
<1>2. QED
  BY <1>1, SpeltStep DEF Awake

LEMMA SpeltPowerFailsInSet ==
  ASSUME Copies, Awake, Spelt, NEW t \in Typed, PowerFailsInSet(t.name, t.value, t.temp)
  PROVE  Awake' /\ Spelt'
<1> DEFINE name == t.name
           value == t.value
           s == do_setenv(envvar, heaptop, nvram, nvram_invalid, name, value, t.temp)
<1>1. envvar \in Memory /\ heaptop \in Value /\ nvram \in Sound /\ nvram_invalid \in BOOLEAN
  BY DEF Copies
<1>2. name \in Name /\ value \in Value /\ t.temp \in BOOLEAN
  BY TypedFacts
<1>3. up /\ PowerFails(s, Var[name]) /\ Respelled(name) /\ nvram' \in s.way
  BY DEF PowerFailsInSet, PowerFails
<1> HIDE DEF name, value
<1>4. \/ Left(s, nvram, nvram_invalid)
      \/ Removes(s, nvram, nvram_invalid, name)
      \/ Stores(s, nvram, nvram_invalid, name, value)
  BY <1>1, <1>2, do_setenvIs
<1> HIDE DEF s
<1>5. nvram_invalid <=> ~nvram.ok \/ nvram.cut
  BY <1>3 DEF Awake
<1>6. CASE Left(s, nvram, nvram_invalid)
  <2>1. Follows(nvram', name)
    BY <1>3, <1>6, FollowsIs DEF Left
  <2>2. QED
    BY <1>2, <1>3, <2>1, SpeltPowerFails
<1>7. CASE Removes(s, nvram, nvram_invalid, name)
  <2>1. Follows(nvram', name)
    BY <1>1, <1>3, <1>5, <1>7, RemovesFollows
  <2>2. QED
    BY <1>2, <1>3, <2>1, SpeltPowerFails
<1>8. CASE Stores(s, nvram, nvram_invalid, name, value)
  <2>1. Follows(nvram', name)
    BY <1>1, <1>2, <1>3, <1>5, <1>8, StoresFollows
  <2>2. QED
    BY <1>2, <1>3, <2>1, SpeltPowerFails
<1>9. QED
  BY <1>4, <1>6, <1>7, <1>8

LEMMA UnsetFollows ==
  ASSUME Copies, Awake, up, NEW name \in Name
  PROVE  LET s == unsetenv(envvar, heaptop, nvram, nvram_invalid, name)
         IN  /\ Follows(s.nv, name) /\ \A y \in s.way : Follows(y, name)
             /\ s.inv = nvram_invalid /\ (s.inv <=> ~s.nv.ok \/ s.nv.cut)
             /\ (\E i \in Slots : envvar[i].name = name) /\ name = Var[name] /\ name # Heaptop
                  => s.inv \/ NoEntry(s.nv, name)
             /\ (\A i \in Slots : envvar[i].name # name) => s.nv = nvram
<1> DEFINE s == unsetenv(envvar, heaptop, nvram, nvram_invalid, name)
<1>1. envvar \in Memory /\ heaptop \in Value /\ nvram \in Sound /\ nvram_invalid \in BOOLEAN
  BY DEF Copies
<1>2. /\ \/ Left(s, nvram, nvram_invalid)
         \/ \E n \in Name : Var[n] = Var[name] /\ Removes(s, nvram, nvram_invalid, n)
      /\ (\E i \in Slots : envvar[i].name = name) /\ name = Var[name] /\ name # Heaptop
           => nvram_invalid \/ NoEntry(s.nv, name)
      /\ (\A i \in Slots : envvar[i].name # name) => Left(s, nvram, nvram_invalid)
  BY <1>1, unsetenvIs
<1>3. s.inv \in BOOLEAN
  BY <1>1, unsetenvFacts, BothFacts
<1> HIDE DEF s
<1>4. nvram_invalid <=> ~nvram.ok \/ nvram.cut
  BY DEF Awake
<1>5. /\ Follows(s.nv, name) /\ \A y \in s.way : Follows(y, name)
      /\ s.inv = nvram_invalid /\ (s.inv <=> ~s.nv.ok \/ s.nv.cut)
  <2>1. CASE Left(s, nvram, nvram_invalid)
    BY <1>4, <2>1, FollowsIs DEF Left
  <2>2. ASSUME NEW n \in Name, Removes(s, nvram, nvram_invalid, n)
        PROVE  /\ Follows(s.nv, name) /\ \A y \in s.way : Follows(y, name)
               /\ s.inv = nvram_invalid /\ (s.inv <=> ~s.nv.ok \/ s.nv.cut)
    <3>1. nvram_invalid = FALSE /\ s.inv = FALSE
      BY <1>1, <1>3, <2>2 DEF Removes
    <3>2. QED
      BY <1>1, <1>4, <2>2, <3>1, RemovesFollows
  <2>3. QED
    BY <1>2, <2>1, <2>2
<1>6. QED
  BY <1>2, <1>5 DEF Left, s

LEMMA SpeltUnset ==
  ASSUME Copies, Awake, Spelt, NEW name \in Name, cmd_unset(name)
  PROVE  Awake' /\ Spelt'
<1> DEFINE s == unsetenv(envvar, heaptop, nvram, nvram_invalid, name)
           here == \E i \in Slots : envvar[i].name = name
<1>1. /\ up /\ up' = up /\ nvram' = s.nv /\ nvram_invalid' = s.inv
      /\ removed' = removed \cup {w \in {Var[name]} : here}
      /\ Respelled(name)
  BY DEF cmd_unset, Apply
<1>2. /\ Follows(s.nv, name)
      /\ s.inv <=> ~s.nv.ok \/ s.nv.cut
      /\ here /\ name = Var[name] /\ name # Heaptop => s.inv \/ NoEntry(s.nv, name)
      /\ ~here => s.nv = nvram
  BY <1>1, UnsetFollows
<1> HIDE DEF s
<1>3. respelled \subseteq respelled' /\ (name = Var[name] \/ Var[name] \in respelled')
  BY <1>1 DEF Respelled
<1>4. \A i \in 1 .. Len(nvram'.ents) :
        LET n == nvram'.ents[i].name
        IN  Var[n] = Var[name] /\ Var[name] \in removed' /\ nvram'.ok /\ ~nvram'.cut
              => Var[name] \in respelled' \cup {Heaptop}
  <2>1. CASE ~here
    <3>1. nvram' = nvram /\ removed' = removed
      BY <1>1, <1>2, <2>1
    <3>2. QED
      BY <1>3, <3>1 DEF Spelt, Accounted
  <2>2. CASE here /\ name = Var[name] /\ name # Heaptop /\ nvram'.ok /\ ~nvram'.cut
    <3>1. NoEntry(nvram', name)
      BY <1>1, <1>2, <2>2
    <3>2. QED
      BY <1>1, <1>2, <3>1, OthersRespelled
  <2>3. CASE here /\ ~(name = Var[name] /\ name # Heaptop /\ nvram'.ok /\ ~nvram'.cut)
    BY <1>3, <2>3
  <2>4. QED
    BY <2>1, <2>2, <2>3
<1>5. removed' \subseteq removed \cup {Var[name]}
  BY <1>1
<1>6. Spelt'
  BY <1>1, <1>2, <1>4, <1>5, SpeltStep
<1>7. QED
  BY <1>1, <1>2, <1>6 DEF Awake

LEMMA SpeltPowerFailsInUnset ==
  ASSUME Copies, Awake, Spelt, NEW name \in Name, PowerFailsInUnset(name)
  PROVE  Awake' /\ Spelt'
<1> DEFINE s == unsetenv(envvar, heaptop, nvram, nvram_invalid, name)
<1>1. up /\ PowerFails(s, Var[name]) /\ Respelled(name) /\ nvram' \in s.way
  BY DEF PowerFailsInUnset, PowerFails
<1>2. \A y \in s.way : Follows(y, name)
  BY <1>1, UnsetFollows
<1> HIDE DEF s
<1>3. QED
  BY <1>1, <1>2, SpeltPowerFails

(* A start leaves only entries that were there, and only of a good sector. *)
LEMMA SpeltLess ==
  ASSUME Spelt, nvram' = Erased \/ nvram' = nvram
                \/ (nvram.ok /\ ~nvram.cut /\ Within(nvram', nvram)),
         removed' \subseteq removed, respelled' = respelled
  PROVE  Spelt'
<1>1. CASE nvram' = Erased
  BY <1>1 DEF Spelt, Erased
<1>2. CASE nvram' = nvram
  BY <1>2 DEF Spelt, Accounted
<1>3. CASE nvram.ok /\ ~nvram.cut /\ Within(nvram', nvram)
  BY <1>3 DEF Spelt, Accounted, Within
<1>4. QED
  BY <1>1, <1>2, <1>3

LEMMA SpeltStart ==
  ASSUME Copies, Spelt, Boot \/ PowerFailsInBoot
  PROVE  Awake' /\ Spelt'
<1> DEFINE s == envinit(nvram)
<1>1. nvram \in Sound
  BY DEF Copies
<1>2. /\ Within(s.nv, nvram)
      /\ \A y \in s.way : y = Erased \/ y = nvram \/ (~s.inv /\ Within(y, nvram))
      /\ s.inv <=> ~nvram.ok \/ nvram.cut
      /\ s.inv <=> ~s.nv.ok \/ s.nv.cut
  BY <1>1, StartSector
<1>3. CASE Boot
  <2>1. nvram' = s.nv /\ nvram_invalid' = s.inv /\ removed' = removed /\ respelled' = respelled
    BY <1>3 DEF Boot, Apply
  <2> HIDE DEF s
  <2>2. CASE s.inv
    BY <1>2, <2>1, <2>2 DEF Awake, Spelt
  <2>3. CASE ~s.inv
    <3>1. Spelt'
      BY <1>2, <2>1, <2>3, SpeltLess
    <3>2. QED
      BY <1>2, <2>1, <3>1 DEF Awake
  <2>4. QED
    BY <2>2, <2>3
<1>4. CASE PowerFailsInBoot
  <2>1. nvram' \in s.way /\ removed' \subseteq removed /\ respelled' = respelled /\ ~up'
    BY <1>4 DEF PowerFailsInBoot, PowerFails, Off
  <2> HIDE DEF s
  <2>2. Spelt'
    BY <1>2, <2>1, SpeltLess
  <2>3. QED
    BY <2>1, <2>2 DEF Awake
<1>5. QED
  BY <1>3, <1>4

LEMMA SpeltInit ==
  ASSUME Init
  PROVE  Awake /\ Spelt
<1>1. ~up /\ removed = {} /\ respelled = Spelled(nvram.ents)
  BY DEF Init
<1>2. \A i \in 1 .. Len(nvram.ents) : nvram.ents[i].name = Var[nvram.ents[i].name]
                                      \/ Var[nvram.ents[i].name] \in respelled
  BY <1>1 DEF Spelled
<1>3. QED
  BY <1>1, <1>2 DEF Awake, Spelt, Accounted

LEMMA SpeltAlways ==
  ASSUME Copies, Awake, Spelt, [Next]_vars
  PROVE  Awake' /\ Spelt'
<1>1. ASSUME NEW t \in Typed, cmd_set(t.name, t.value, t.temp)
      PROVE  Awake' /\ Spelt'
  BY <1>1, SpeltSet
<1>2. ASSUME NEW t \in Typed, cmd_eset(t.name, t.value, t.temp)
      PROVE  Awake' /\ Spelt'
  BY <1>2, SpeltSet DEF cmd_eset
<1>3. ASSUME NEW t \in Typed, PowerFailsInSet(t.name, t.value, t.temp)
      PROVE  Awake' /\ Spelt'
  BY <1>3, SpeltPowerFailsInSet
<1>4. ASSUME NEW t \in Typed, cmd_unset(t.name)
      PROVE  Awake' /\ Spelt'
  BY <1>4, TypedFacts, SpeltUnset
<1>5. ASSUME NEW t \in Typed, PowerFailsInUnset(t.name)
      PROVE  Awake' /\ Spelt'
  BY <1>5, TypedFacts, SpeltPowerFailsInUnset
<1>6. CASE Boot \/ PowerFailsInBoot
  BY <1>6, SpeltStart
<1>7. CASE PowerOff
  BY <1>7 DEF PowerOff, Off, Awake, Spelt, Accounted
<1>8. CASE UNCHANGED vars
  BY <1>8 DEF vars, Awake, Spelt, Accounted
<1>9. QED
  BY <1>1, <1>2, <1>3, <1>4, <1>5, <1>6, <1>7, <1>8 DEF Next

(* What one more pair (u, w) makes of memory m, whether tgt_mapenv sets it  *)
(* or envinit adds a default, which leaves the variables in K as they are.  *)
Moves(m, s, u, w, K) ==
  /\ m.env \in Memory /\ s.env \in Memory
  /\ m.top \in Nat /\ s.top \in Nat /\ w \in Nat /\ s.top >= m.top
  /\ MemVars(m.env) \subseteq MemVars(s.env)
  /\ MemVars(s.env) \subseteq MemVars(m.env) \cup {u}
  /\ \A v \in Vars : v # u => getenv(s.env, v) = getenv(m.env, v)
  /\ ~Full(m.env) /\ ~(u = Heaptop /\ w < m.top) => u \in MemVars(s.env)
  /\ u = Heaptop /\ w < m.top => MemVars(s.env) = MemVars(m.env) /\ s.top = m.top
  /\ u # Heaptop => s.top = m.top
  /\ u # Heaptop /\ u \in MemVars(s.env) =>
       getenv(s.env, u) = IF u \in K /\ u \in MemVars(m.env) THEN getenv(m.env, u) ELSE w
  /\ u \notin MemVars(m.env) /\ Full(m.env) => MemVars(s.env) = MemVars(m.env)

(* Memory a, which started with entries of a sector that do not name v,    *)
(* and memory b, which started without: a is fuller, and where it has v it *)
(* has what b has.                                                         *)
Near(a, b, v) ==
  /\ ~Full(a.env) => MemVars(b.env) \subseteq MemVars(a.env)
  /\ Full(a.env) \/ Heaptop \in MemVars(a.env) \/ a.top = b.top
  /\ v \in MemVars(a.env) => getenv(b.env, v) = getenv(a.env, v)

LEMMA NearStep ==
  ASSUME NEW a, NEW b, NEW a2, NEW b2, NEW u \in Vars, NEW w, NEW K,
         Moves(a, a2, u, w, K), Moves(b, b2, u, w, K),
         NEW v \in Vars, v # Heaptop, Near(a, b, v)
  PROVE  Near(a2, b2, v)
<1>1. a.env \in Memory /\ a2.env \in Memory /\ b.env \in Memory /\ b2.env \in Memory
  BY DEF Moves
<1>2. Full(a.env) => Full(a2.env)
  BY <1>1, NoFuller DEF Moves
<1>3. ~Full(a.env) => ~Full(b.env)
  BY <1>1, NoFuller DEF Near
<1>4. ASSUME NEW e \in Memory
      PROVE  v \in MemVars(e) <=> getenv(e, v) # NoVal
  BY VarFacts, MemVarsIs
<1>5. ASSUME ~Full(a2.env)
      PROVE  MemVars(b2.env) \subseteq MemVars(a2.env)
  <2>1. ~Full(a.env) /\ MemVars(b.env) \subseteq MemVars(a2.env)
    BY <1>2, <1>5 DEF Near, Moves
  <2>2. CASE u = Heaptop /\ w < a.top
    <3>1. Heaptop \in MemVars(a.env) \/ a.top = b.top
      BY <2>1 DEF Near
    <3>2. CASE Heaptop \in MemVars(a.env)
      BY <2>1, <2>2, <3>2 DEF Moves
    <3>3. CASE a.top = b.top
      BY <2>1, <2>2, <3>3 DEF Moves
    <3>4. QED
      BY <3>1, <3>2, <3>3
  <2>3. CASE ~(u = Heaptop /\ w < a.top)
    BY <2>1, <2>3 DEF Moves
  <2>4. QED
    BY <2>2, <2>3
<1>6. ASSUME ~Full(a2.env), Heaptop \notin MemVars(a2.env)
      PROVE  a2.top = b2.top
  <2>1. ~Full(a.env) /\ Heaptop \notin MemVars(a.env)
    BY <1>2, <1>6 DEF Moves
  <2>2. a.top = b.top
    BY <2>1 DEF Near
  <2>3. u = Heaptop => w < a.top
    BY <1>6, <2>1 DEF Moves
  <2>4. QED
    BY <2>2, <2>3 DEF Moves
<1>7. ASSUME v \in MemVars(a2.env)
      PROVE  getenv(b2.env, v) = getenv(a2.env, v)
  <2>1. CASE u # v
    <3>1. v \in MemVars(a.env)
      BY <1>7, <2>1 DEF Moves
    <3>2. QED
      BY <2>1, <3>1 DEF Moves, Near
  <2>2. CASE u = v /\ v \in MemVars(a.env)
    <3>1. getenv(b.env, v) = getenv(a.env, v)
      BY <2>2 DEF Near
    <3>2. v \in MemVars(b.env)
      BY <1>1, <1>4, <2>2, <3>1
    <3>3. v \in MemVars(b2.env)
      BY <3>2 DEF Moves
    <3>4. QED
      BY <1>7, <2>2, <3>1, <3>2, <3>3 DEF Moves
  <2>3. CASE u = v /\ v \notin MemVars(a.env)
    <3>1. ~Full(a.env)
      BY <1>7, <2>3 DEF Moves
    <3>2. ~Full(b.env) /\ v \notin MemVars(b.env)
      BY <1>3, <2>3, <3>1 DEF Near
    <3>3. v \in MemVars(b2.env)
      BY <2>3, <3>2 DEF Moves
    <3>4. QED
      BY <1>7, <2>3, <3>2, <3>3 DEF Moves
  <2>4. QED
    BY <2>1, <2>2, <2>3
<1>8. QED
  BY <1>5, <1>6, <1>7 DEF Near

LEMMA StepMoves ==
  ASSUME NEW m, NEW s, NEW p, Steps(m, s, p)
  PROVE  Moves(m, s, Var[p.name], p.value, {})
<1> DEFINE u == Var[p.name]
<1>1. /\ p.name \in Name /\ m.env \in Memory /\ s.env \in Memory
      /\ m.top \in Nat /\ s.top \in Nat /\ p.value \in Nat
      /\ s.top = Rises(m.top, p) /\ s.top >= m.top
  BY DEF Steps
<1>2. /\ MemVars(m.env) \subseteq MemVars(s.env)
      /\ MemVars(s.env) \subseteq MemVars(m.env) \cup {u}
      /\ Takes(m, p) => u \in MemVars(s.env) /\ getenv(s.env, p.name) = p.value
      /\ ~Takes(m, p) => s.env = m.env
      /\ \A n \in Name : Var[n] # u => getenv(s.env, n) = getenv(m.env, n)
  BY DEF Steps
<1>3. getenv(m.env, p.name) # NoVal <=> u \in MemVars(m.env)
  BY <1>1, MemVarsIs
<1>4. getenv(s.env, u) = getenv(s.env, p.name)
  BY <1>1, VarFacts, SameVar
<1>5. \A v \in Vars : v # u => getenv(s.env, v) = getenv(m.env, v)
  BY <1>2, VarFacts
<1>6. Takes(m, p) <=> ~(u = Heaptop /\ p.value < m.top) /\ (u \in MemVars(m.env) \/ ~Full(m.env))
  BY <1>3 DEF Takes, Fits
<1>7. /\ u = Heaptop /\ p.value < m.top => s.top = m.top
      /\ u # Heaptop => s.top = m.top
  BY <1>1 DEF Rises
<1> HIDE DEF u
<1>8. u # Heaptop /\ u \in MemVars(s.env) => getenv(s.env, u) = p.value
  BY <1>2, <1>4, <1>6
<1>9. QED
  BY <1>1, <1>2, <1>5, <1>6, <1>7, <1>8 DEF Moves, u

LEMMA WithDefaultMoves ==
  ASSUME NEW f \in Both, NEW i \in 1 .. Len(Std)
  PROVE  Moves(f, WithDefault(f, Std[i]), Std[i], Default[Std[i]], {Std[i]})
<1> DEFINE u == Std[i]
           w == Default[u]
           c == Change(f.env, f.top, u, w)
           x == WithDefault(f, u)
<1>1. u \in StdVars /\ u \in Name /\ Var[u] = u /\ w \in Value /\ w \in Nat
  BY DefaultFacts, ValueNat
<1>2. f.env \in Memory /\ f.top \in Value /\ f.top \in Nat
  BY BothFacts, ValueNat
<1>3. /\ x \in Both
      /\ getenv(f.env, u) # NoVal => x = f
      /\ getenv(f.env, u) = NoVal => x.env = c.env /\ x.top = c.top
  BY WithDefaultFacts
<1>4. x.env \in Memory /\ x.top \in Nat
  BY <1>3, BothFacts, ValueNat
<1>5. getenv(f.env, u) # NoVal <=> u \in MemVars(f.env)
  BY <1>1, <1>2, MemVarsIs
<1> HIDE DEF x
<1> SUFFICES Moves(f, x, u, w, {u})
  BY DEF x
<1>6. CASE u \in MemVars(f.env)
  BY <1>1, <1>2, <1>3, <1>5, <1>6 DEF Moves
<1>7. CASE u \notin MemVars(f.env)
  <2>1. x.env = c.env /\ x.top = c.top
    BY <1>3, <1>5, <1>7
  <2> HIDE DEF w
  <2>2. /\ ~c.ok <=> Barred(f.top, u, w) \/ (getenv(f.env, u) = NoVal /\ Full(f.env))
        /\ ~c.ok => c.env = f.env
        /\ c.ok => getenv(c.env, u) = w
        /\ \A n \in Name : Var[n] # Var[u] => getenv(c.env, n) = getenv(f.env, n)
        /\ c.ok \in BOOLEAN
    BY <1>1, <1>2, ChangeFacts
  <2>3. c.top = (IF Var[u] = Heaptop /\ w >= f.top THEN w ELSE f.top) /\ c.top >= f.top
    BY <1>1, <1>2, ChangeTop
  <2>4. MemVars(c.env) = MemVars(f.env) \cup (IF c.ok THEN {Var[u]} ELSE {})
    BY <1>1, <1>2, ChangeTop
  <2>5. Barred(f.top, u, w) <=> u = Heaptop /\ w < f.top
    <3>1. Default[u] \in Allowed[u]
      BY <1>1, EnvAssumption
    <3>2. QED
      BY <1>1, <3>1 DEF Barred, Refused, w
  <2> HIDE DEF c
  <2>6. \A v \in Vars : v # u => getenv(x.env, v) = getenv(f.env, v)
    BY <1>1, <2>1, <2>2, VarFacts
  <2>7. c.ok <=> ~(u = Heaptop /\ w < f.top) /\ ~Full(f.env)
    BY <1>5, <1>7, <2>2, <2>5
  <2>8. /\ u = Heaptop /\ w < f.top => x.top = f.top
        /\ u # Heaptop => x.top = f.top
        /\ x.top >= f.top /\ w \in Nat
    BY <1>1, <1>2, <2>1, <2>3, ValueNat
  <2>9. MemVars(x.env) = IF c.ok THEN MemVars(f.env) \cup {u} ELSE MemVars(f.env)
    BY <1>1, <2>1, <2>2, <2>4
  <2>10. c.ok => getenv(x.env, u) = w
    BY <2>1, <2>2
  <2> HIDE DEF u
  <2>11. QED
    BY <1>2, <1>4, <1>7, <2>6, <2>7, <2>8, <2>9, <2>10 DEF Moves
<1>8. QED
  BY <1>6, <1>7

LEMMA PairsTail ==
  ASSUME NEW nv \in Sound, nv.ok
  PROVE  LET r == Pairs(Entries(<<>>))
         IN  /\ Len(r) = Len(Sysvars)
             /\ \A j \in 1 .. Len(Sysvars) : Pairs(nv)[Len(nv.ents) + j] = r[j]
<1>1. /\ nv.ents \in Seq(Pair) /\ Sysvars \in Seq(Pair)
      /\ Len(nv.ents) \in Nat /\ Len(Sysvars) \in Nat
  <2>1. Sysvars \in Seq(Pair)
    BY Zenon, EnvAssumption
  <2>2. QED
    BY <2>1, SoundFacts
<1>2. Pairs(nv) = nv.ents \o Sysvars /\ Pairs(Entries(<<>>)) = <<>> \o Sysvars
  BY DEF Pairs, Entries
<1> DEFINE a == nv.ents
           S == Sysvars
<1> HIDE DEF a, S
<1>3. Len(<<>> \o S) = Len(S) /\ \A j \in 1 .. Len(S) : (<<>> \o S)[j] = S[j]
  <2>1. S \in Seq(Pair)
    BY <1>1 DEF S
  <2>2. QED
    BY <2>1
<1>4. \A j \in 1 .. Len(S) : (a \o S)[Len(a) + j] = S[j]
  <2>1. /\ a \in Seq(Pair) /\ S \in Seq(Pair) /\ Len(a) \in Nat /\ Len(S) \in Nat
    BY <1>1 DEF a, S
  <2>2. \A j \in 1 .. Len(a) + Len(S) : (a \o S)[j] = IF j <= Len(a) THEN a[j] ELSE S[j - Len(a)]
    BY <2>1, ConcatProperties
  <2>3. QED
    BY <2>1, <2>2
<1>5. QED
  BY <1>2, <1>3, <1>4 DEF a, S

(* The entries of a sector that does not name v, then the board's own.     *)
LEMMA EntriesNear ==
  ASSUME NEW nv \in Sound, nv.ok, NEW v \in Vars, v # Heaptop, v \notin Named(nv.ents)
  PROVE  Near(Last(Pairs(nv)), Last(Pairs(Entries(<<>>))), v)
<1> DEFINE q == Pairs(nv)
           r == Pairs(Entries(<<>>))
           M == Mapped(q)
           R == Mapped(r)
           n == Len(nv.ents)
           L == Len(Sysvars)
<1>1. /\ n \in Nat /\ L \in Nat /\ q \in Seq(Pair) /\ Len(q) = n + L
      /\ \A j \in 1 .. n : q[j] = nv.ents[j] /\ Var[q[j].name] # v
  BY SoundFacts, PairsIs DEF Named
<1>2. r \in Seq(Pair) /\ Len(r) = L /\ \A j \in 1 .. L : q[n + j] = r[j]
  BY SoundFacts, PairsFacts, PairsTail
<1> HIDE DEF q, r, n, L
<1>3. /\ M[0] = Blank /\ R[0] = Blank
      /\ \A j \in 1 .. n + L : Steps(M[j - 1], M[j], q[j])
      /\ \A j \in 1 .. L : Steps(R[j - 1], R[j], r[j])
  BY <1>1, <1>2, MapIs
<1> HIDE DEF M, R
<1>4. /\ \A j \in 1 .. n + L : Moves(M[j - 1], M[j], Var[q[j].name], q[j].value, {})
      /\ \A j \in 1 .. L : Moves(R[j - 1], R[j], Var[r[j].name], r[j].value, {})
  BY <1>3, StepMoves
<1>5. Blank.env \in Memory /\ MemVars(Blank.env) = {}
  <2>1. Blank.env \in Memory /\ \A m \in Name : getenv(Blank.env, m) = NoVal
    BY BlankFacts
  <2>2. QED
    BY <2>1, VarFacts, MemVarsIs
<1> DEFINE Alone(j) == /\ M[j].env \in Memory /\ v \notin MemVars(M[j].env)
                       /\ Full(M[j].env) \/ Heaptop \in MemVars(M[j].env) \/ M[j].top = Blank.top
           T == {j \in 0 .. n : Alone(j)}
<1>6. 0 \in T
  <2>1. Alone(0)
    BY <1>3, <1>5
  <2>2. 0 \in 0 .. n
    BY <1>1
  <2>3. QED
    BY <2>1, <2>2
<1>7. ASSUME NEW j \in 1 .. n, j - 1 \in T
      PROVE  j \in T
  <2>1. /\ Moves(M[j - 1], M[j], Var[q[j].name], q[j].value, {})
        /\ Var[q[j].name] # v /\ j \in 0 .. n
    BY <1>1, <1>4
  <2>2. Alone(j - 1)
    BY <1>7
  <2>3. M[j].env \in Memory /\ (Full(M[j - 1].env) => Full(M[j].env))
    BY <2>1, NoFuller DEF Moves
  <2>4. v \notin MemVars(M[j].env)
    BY <2>1, <2>2 DEF Moves
  <2>5. ASSUME ~Full(M[j].env), Heaptop \notin MemVars(M[j].env)
        PROVE  M[j].top = Blank.top
    <3>1. ~Full(M[j - 1].env) /\ Heaptop \notin MemVars(M[j - 1].env)
      BY <2>1, <2>3, <2>5 DEF Moves
    <3>2. M[j - 1].top = Blank.top
      BY <2>2, <3>1
    <3>3. QED
      BY <2>1, <2>5, <3>1, <3>2 DEF Moves
  <2>6. QED
    BY <2>1, <2>3, <2>4, <2>5
<1> HIDE DEF T
<1>8. n \in T
  <2>1. 0 .. n \subseteq T
    BY <1>1, <1>6, <1>7, InductTo
  <2>2. QED
    BY <1>1, <2>1
<1>9. Near(M[n], Blank, v)
  <2>1. Alone(n)
    BY <1>8 DEF T
  <2>2. QED
    BY <1>5, <2>1 DEF Near
<1> DEFINE S == {j \in 0 .. L : Near(M[n + j], R[j], v)}
<1>10. 0 \in S
  BY <1>1, <1>3, <1>9
<1>11. ASSUME NEW j \in 1 .. L, j - 1 \in S
       PROVE  j \in S
  <2>1. n + j \in 1 .. n + L /\ (n + j) - 1 = n + (j - 1) /\ j \in 0 .. L
    BY <1>1
  <2>2. /\ Moves(M[n + (j - 1)], M[n + j], Var[r[j].name], r[j].value, {})
        /\ Moves(R[j - 1], R[j], Var[r[j].name], r[j].value, {})
    BY <1>2, <1>4, <2>1
  <2>3. Var[r[j].name] \in Vars
    <3>1. r[j].name \in Name
      BY <1>3 DEF Steps
    <3>2. QED
      BY <3>1, VarFacts
  <2>4. Near(M[n + (j - 1)], R[j - 1], v)
    BY <1>11
  <2>5. Near(M[n + j], R[j], v)
    BY <2>2, <2>3, <2>4, NearStep
  <2>6. QED
    BY <2>1, <2>5
<1> HIDE DEF S
<1>12. L \in S
  <2>1. 0 .. L \subseteq S
    BY <1>1, <1>10, <1>11, InductTo
  <2>2. QED
    BY <1>1, <2>1
<1>13. Near(M[n + L], R[L], v)
  BY <1>12 DEF S
<1>14. QED
  BY <1>1, <1>2, <1>13 DEF M, R, q, r, Last

(* The defaults, filled in on both sides.                                  *)
LEMMA FillNear ==
  ASSUME NEW f \in Both, NEW g \in Both, NEW v \in Vars, v # Heaptop, Near(f, g, v)
  PROVE  Near(Filled(f)[Len(Std)], Filled(g)[Len(Std)], v)
<1> DEFINE F == Filled(f)
           G == Filled(g)
           L == Len(Std)
           T == {i \in 0 .. L : Near(F[i], G[i], v)}
<1>1. /\ F \in [0 .. L -> Both] /\ F[0] = f
      /\ \A i \in 1 .. L : F[i] = WithDefault(F[i - 1], Std[i])
      /\ G \in [0 .. L -> Both] /\ G[0] = g
      /\ \A i \in 1 .. L : G[i] = WithDefault(G[i - 1], Std[i])
  BY FilledFacts
<1>2. L \in Nat
  BY VarFacts
<1> HIDE DEF F, G
<1>3. 0 \in T
  BY <1>1, <1>2
<1>4. ASSUME NEW i \in 1 .. L, i - 1 \in T
      PROVE  i \in T
  <2>1. i - 1 \in 0 .. L /\ i \in 0 .. L
    BY <1>2
  <2>2. F[i - 1] \in Both /\ G[i - 1] \in Both /\ Near(F[i - 1], G[i - 1], v)
    BY <1>1, <1>4, <2>1
  <2>3. /\ Moves(F[i - 1], F[i], Std[i], Default[Std[i]], {Std[i]})
        /\ Moves(G[i - 1], G[i], Std[i], Default[Std[i]], {Std[i]})
    BY <1>1, <2>2, WithDefaultMoves
  <2>4. Std[i] \in Vars
    BY VarFacts
  <2>5. Near(F[i], G[i], v)
    BY <2>2, <2>3, <2>4, NearStep
  <2>6. QED
    BY <2>1, <2>5
<1> HIDE DEF T
<1>5. L \in T
  <2>1. 0 .. L \subseteq T
    BY <1>2, <1>3, <1>4, InductTo
  <2>2. QED
    BY <1>2, <2>1
<1>6. QED
  BY <1>5 DEF T, F, G

(* A start finds in a variable the sector does not name what a start from  *)
(* an empty sector finds, or, for want of a slot, nothing.                 *)
LEMMA UnnamedAsFresh ==
  ASSUME NEW nv \in Sound, NEW v \in Vars, v # Heaptop, nv.ok => v \notin Named(nv.ents)
  PROVE  getenv(envinit(nv).env, v) \in {getenv(FreshEnv, v), NoVal}
<1> DEFINE none == Entries(<<>>)
           f == tgt_mapenv(nv)
           g == tgt_mapenv(none)
<1>1. none \in Sound
  BY SoundFacts
<1>2. /\ f \in Both /\ f.env = Last(Pairs(nv)).env /\ f.top = Last(Pairs(nv)).top
      /\ g \in Both /\ g.env = Last(Pairs(none)).env /\ g.top = Last(Pairs(none)).top
  BY <1>1, tgt_mapenvFacts
<1> HIDE DEF f, g
<1>3. Near(Last(Pairs(nv)), Last(Pairs(none)), v)
  <2>1. CASE nv.ok
    BY <2>1, EntriesNear
  <2>2. CASE ~nv.ok
    <3>1. Pairs(nv) = Pairs(none)
      BY <2>2 DEF Pairs, Entries
    <3>2. QED
      BY <3>1 DEF Near
  <2>3. QED
    BY <2>1, <2>2
<1> HIDE DEF none
<1>4. Near(f, g, v)
  BY <1>2, <1>3 DEF Near
<1>5. Near(Filled(f)[Len(Std)], Filled(g)[Len(Std)], v)
  BY <1>2, <1>4, FillNear
<1>6. envinit(nv) = Filled(f)[Len(Std)] /\ envinit(none) = Filled(g)[Len(Std)]
  BY DEF envinit, f, g
<1>7. v \in MemVars(envinit(nv).env) => getenv(envinit(none).env, v) = getenv(envinit(nv).env, v)
  BY <1>5, <1>6 DEF Near
<1>8. v \notin MemVars(envinit(nv).env) => getenv(envinit(nv).env, v) = NoVal
  <2>1. envinit(nv).env \in Memory
    BY envinitFacts, BothFacts
  <2>2. QED
    BY <2>1, VarFacts, MemVarsIs
<1>9. QED
  BY <1>7, <1>8 DEF FreshEnv, none

(* A variable that was only ever given its own spelling and was removed is *)
(* not back after a restart (do_setenv's "set to default: remove from      *)
(* non-volatile ram", unsetenv and tgt_unsetenv).                          *)
THEOREM RemovedOnceCorrect == Spec => []RemovedOnce
<1>1. Init => Awake /\ Spelt
  BY SpeltInit
<1>2. IInv /\ (Awake /\ Spelt) /\ [Next]_vars => (Awake /\ Spelt)'
  BY IInvIs, SpeltAlways
<1>3. IInv /\ (Awake /\ Spelt) => RemovedOnce
  <2> SUFFICES ASSUME IInv, Spelt, ~nvram.cut, NEW v \in (removed \ respelled) \ {Heaptop}
               PROVE  getenv(envinit(nvram).env, v) \in {getenv(FreshEnv, v), NoVal}
    BY DEF RemovedOnce, Gone, Restarted
  <2>1. nvram \in Sound /\ v \in Vars
    BY IInvIs DEF Copies, Ghosts
  <2>2. nvram.ok => v \notin Named(nvram.ents)
    BY DEF Spelt, Accounted, Named
  <2>3. QED
    BY <2>1, <2>2, UnnamedAsFresh
<1>4. QED
  BY <1>1, <1>2, <1>3, Invariance, PTL DEF Spec

-----------------------------------------------------------------------------
(* The standard variables find room.  Where every name is its variable's   *)
(* own, the variables of the sector, of the board and of stdenvtab together *)
(* are never more than the slots: a set that stores a variable has found a *)
(* slot for it next to all the others.  A heaptop below the start of the   *)
(* heap takes none, since chg_heaptop refuses it.                          *)
Low(p)    == Var[p.name] = Heaptop /\ p.value < HeapStart
Live(q)   == {Var[q[i].name] : i \in {j \in 1 .. Len(q) : ~Low(q[j])}}
StdTaken  == {s \in StdVars : s = Heaptop => Default[s] >= HeapStart}
OwnVars   == Live(Sysvars) \cup StdTaken
Needed(q) == Live(q) \cup OwnVars
Own(q)    == \A i \in 1 .. Len(q) : q[i].name = Var[q[i].name]

(* The sector names few variables, in their own spelling.                  *)
Few(nv) == Own(nv.ents) /\ Cardinality(Needed(nv.ents)) <= NVAR
Held == /\ up => OwnVars \subseteq MemVars(envvar)
        /\ up /\ ~nvram_invalid => Live(nvram.ents) \subseteq MemVars(envvar)
RoomForAll == respelled = {} => Few(nvram) /\ Held

LEMMA LiveIs ==
  ASSUME NEW q \in Seq(Pair)
  PROVE  Live(q) \subseteq Named(q) /\ Live(q) \subseteq Vars
<1>1. Live(q) \subseteq Named(q)
  BY DEF Live, Named
<1>2. ASSUME NEW j \in 1 .. Len(q)
      PROVE  q[j].name \in Name
  <2>1. q[j] \in Pair
    OBVIOUS
  <2>2. QED
    BY <2>1 DEF Pair
<1>3. QED
  BY <1>1, <1>2, VarFacts DEF Live

LEMMA StdFinite == IsFiniteSet(StdVars)
<1> DEFINE f == [i \in 1 .. Len(Std) |-> Std[i]]
<1>1. Len(Std) \in Int /\ 1 \in Int
  BY VarFacts
<1>2. IsFiniteSet(1 .. Len(Std))
  BY <1>1, FS_Interval
<1>3. f \in Surjection(1 .. Len(Std), StdVars)
  BY DEF StdVars, Surjection
<1> HIDE DEF f
<1>4. QED
  BY <1>2, <1>3, FS_Surjection

LEMMA NeededIs ==
  ASSUME NEW q \in Seq(Pair)
  PROVE  IsFiniteSet(Needed(q)) /\ Needed(q) \subseteq Vars /\ Cardinality(Needed(q)) \in Nat
<1>1. Sysvars \in Seq(Pair)
  BY Zenon, EnvAssumption
<1>2. IsFiniteSet(Live(q)) /\ IsFiniteSet(Live(Sysvars))
  BY <1>1, LiveIs, NamedFinite, FS_Subset
<1>3. IsFiniteSet(StdTaken)
  BY StdFinite, FS_Subset DEF StdTaken
<1>4. IsFiniteSet(Needed(q))
  BY <1>2, <1>3, FS_Union DEF Needed, OwnVars
<1>5. Needed(q) \subseteq Vars
  BY <1>1, LiveIs, VarFacts DEF Needed, OwnVars, StdTaken
<1>6. QED
  BY <1>4, <1>5, FS_CardinalityType

LEMMA NeededHeld ==
  ASSUME NEW e \in Memory, NEW q \in Seq(Pair), Needed(q) \subseteq MemVars(e)
  PROVE  Cardinality(Needed(q)) <= NVAR
<1>1. IsFiniteSet(MemVars(e)) /\ Cardinality(MemVars(e)) \in Nat /\ Cardinality(MemVars(e)) <= NVAR
  BY MemVarsCount
<1>2. Cardinality(Needed(q)) <= Cardinality(MemVars(e)) /\ Cardinality(Needed(q)) \in Nat
  BY <1>1, NeededIs, FS_Subset
<1>3. NVAR \in Nat
  BY Zenon, EnvAssumption
<1>4. QED
  BY <1>1, <1>2, <1>3

LEMMA FewWithin ==
  ASSUME NEW nv \in Sound, NEW old \in Sound, Within(nv, old), Few(old)
  PROVE  Few(nv) /\ Live(nv.ents) \subseteq Live(old.ents)
<1>1. /\ \A i \in 1 .. Len(nv.ents) : \E k \in 1 .. Len(old.ents) : nv.ents[i] = old.ents[k]
      /\ Own(old.ents)
  BY DEF Within, Few
<1>2. Live(nv.ents) \subseteq Live(old.ents)
  BY <1>1 DEF Live
<1>3. Own(nv.ents)
  BY <1>1 DEF Own
<1>4. Needed(nv.ents) \subseteq Needed(old.ents)
  BY <1>2 DEF Needed
<1>5. nv.ents \in Seq(Pair) /\ old.ents \in Seq(Pair)
  BY SoundFacts
<1>6. Cardinality(Needed(nv.ents)) <= Cardinality(Needed(old.ents))
  BY <1>4, <1>5, NeededIs, FS_Subset
<1>7. NVAR \in Nat
  BY Zenon, EnvAssumption
<1>8. QED
  BY <1>2, <1>3, <1>5, <1>6, <1>7, NeededIs DEF Few

LEMMA RoomInit ==
  ASSUME FactoryFits, Init
  PROVE  RoomForAll
<1>1. nvram \in Factory /\ ~up /\ respelled = Spelled(nvram.ents)
  BY DEF Init
<1>2. nvram \in Sound
  BY InitTypes DEF Copies
<1>3. nvram.ents \in Seq(Pair) /\ Sysvars \in Seq(Pair)
  <2>1. Sysvars \in Seq(Pair)
    BY Zenon, EnvAssumption
  <2>2. QED
    BY <1>2, <2>1, SoundFacts
<1> DEFINE S == Named(nvram.ents) \cup Named(Sysvars) \cup StdVars
<1>4. Cardinality(S) <= NVAR
  BY <1>1 DEF FactoryFits
<1>5. Needed(nvram.ents) \subseteq S
  BY <1>3, LiveIs DEF Needed, OwnVars, StdTaken
<1>6. IsFiniteSet(S)
  BY <1>3, NamedFinite, StdFinite, FS_Union
<1> HIDE DEF S
<1>7. Cardinality(Needed(nvram.ents)) <= NVAR
  <2>1. Cardinality(Needed(nvram.ents)) <= Cardinality(S)
    BY <1>5, <1>6, FS_Subset
  <2>2. Cardinality(S) \in Nat /\ NVAR \in Nat
    <3>1. NVAR \in Nat
      BY Zenon, EnvAssumption
    <3>2. QED
      BY <1>6, <3>1, FS_CardinalityType
  <2>3. QED
    BY <1>3, <1>4, <2>1, <2>2, NeededIs
<1>8. respelled = {} => Own(nvram.ents)
  BY <1>1 DEF Spelled, Own
<1>9. QED
  BY <1>1, <1>7, <1>8 DEF RoomForAll, Few, Held

(* y has the entries of a good nv and one more of the name.                *)
Grown(y, nv, inv, name) ==
  \A i \in 1 .. Len(y.ents) :
    \/ y.ents[i].name = name
    \/ ~inv /\ \E k \in 1 .. Len(nv.ents) : y.ents[i] = nv.ents[k]

LEMMA StoresGrown ==
  ASSUME NEW nv \in Sound, NEW inv \in BOOLEAN, NEW name \in Name, NEW value \in Value, NEW x,
         Stores(x, nv, inv, name, value), Derived(x.nv, nv, name)
  PROVE  Grown(x.nv, nv, inv, name) /\ \A y \in x.way : y = nv \/ Grown(y, nv, inv, name)
<1>1. PICK old \in Sound :
        /\ IF inv THEN old = Entries(<<>>) /\ ~x.nv.cut ELSE old = nv \/ CutAt(nv, name, old)
        /\ x.nv.cut \/ x.nv = Entries(Added(old.ents, name, value))
        /\ x.way \subseteq {nv, Erased, old, x.nv}
  BY DEF Stores
<1>2. Grown(Erased, nv, inv, name)
  BY DEF Grown, Erased
<1>3. CASE inv
  <2> DEFINE r == Added(old.ents, name, value)
  <2>1. x.nv = Entries(r) /\ Len(old.ents) = 0
    BY <1>1, <1>3 DEF Entries
  <2>2. \A j \in 1 .. Len(r) : \/ r[j] = [name |-> name, value |-> value]
                               \/ \E i \in 1 .. Len(old.ents) : r[j] = old.ents[i]
    BY SoundFacts, AddedEach
  <2>3. \A j \in 1 .. Len(r) : r[j].name = name
    BY <2>1, <2>2
  <2> HIDE DEF r
  <2>4. Grown(x.nv, nv, inv, name) /\ Grown(old, nv, inv, name)
    <3>1. x.nv.ents = r
      BY <2>1 DEF Entries
    <3>2. QED
      BY <2>1, <2>3, <3>1 DEF Grown
  <2>5. QED
    BY <1>1, <1>2, <2>4
<1>4. CASE ~inv
  <2>1. Grown(x.nv, nv, inv, name)
    BY <1>4 DEF Derived, Grown
  <2>2. old = nv \/ Grown(old, nv, inv, name)
    <3>1. CutAt(nv, name, old) => Within(old, nv)
      BY WithinItself, CutWithin
    <3>2. Within(old, nv) => Grown(old, nv, inv, name)
      BY <1>4 DEF Within, Grown
    <3>3. QED
      BY <1>1, <1>4, <3>1, <3>2
  <2>3. QED
    BY <1>1, <1>2, <2>1, <2>2
<1>5. QED
  BY <1>3, <1>4

(* A sector grown by a variable that has a slot is in memory as a whole.   *)
LEMMA GrownFew ==
  ASSUME NEW e \in Memory, NEW nv \in Sound, NEW inv, NEW name \in Name, name = Var[name],
         Few(nv), OwnVars \subseteq MemVars(e), ~inv => Live(nv.ents) \subseteq MemVars(e),
         name \in MemVars(e), NEW y \in Sound, Grown(y, nv, inv, name)
  PROVE  Few(y) /\ Live(y.ents) \subseteq MemVars(e)
<1>1. Own(y.ents)
  BY DEF Grown, Few, Own
<1>2. ASSUME NEW i \in 1 .. Len(y.ents), ~Low(y.ents[i])
      PROVE  Var[y.ents[i].name] \in MemVars(e)
  <2>1. CASE y.ents[i].name = name
    BY <2>1
  <2>2. CASE y.ents[i].name # name
    <3>1. ~inv /\ \E k \in 1 .. Len(nv.ents) : y.ents[i] = nv.ents[k]
      BY <2>2 DEF Grown
    <3>2. Var[y.ents[i].name] \in Live(nv.ents)
      BY <1>2, <3>1 DEF Live
    <3>3. QED
      BY <3>1, <3>2
  <2>3. QED
    BY <2>1, <2>2
<1>3. Live(y.ents) \subseteq MemVars(e)
  BY <1>2 DEF Live
<1>4. Needed(y.ents) \subseteq MemVars(e)
  BY <1>3 DEF Needed
<1>5. QED
  BY <1>1, <1>3, <1>4, SoundFacts, NeededHeld DEF Few

(* The memory a set leaves.                                                *)
LEMMA ChangeHolds ==
  ASSUME NEW e \in Memory, NEW h \in Value, NEW name \in Name, NEW value \in Value
  PROVE  LET c == Change(e, h, name, value)
         IN  /\ c.env \in Memory /\ MemVars(e) \subseteq MemVars(c.env)
             /\ c.ok => Var[name] \in MemVars(c.env)
<1> DEFINE c == Change(e, h, name, value)
<1>1. c.env \in Memory
  BY ChangeFacts
<1>2. MemVars(c.env) = MemVars(e) \cup (IF c.ok THEN {Var[name]} ELSE {})
  BY ChangeTop
<1> HIDE DEF c
<1>3. MemVars(e) \subseteq MemVars(c.env) /\ (c.ok => Var[name] \in MemVars(c.env))
  BY <1>2
<1>4. QED
  BY <1>1, <1>3 DEF c

(* What a set of a variable in its own spelling leaves, or may leave when  *)
(* the power fails.                                                        *)
LEMMA SetRoom ==
  ASSUME Copies, RoomForAll, respelled = {}, up, NEW name \in Name, name = Var[name],
         NEW value \in Value, NEW temp \in BOOLEAN
  PROVE  LET s == do_setenv(envvar, heaptop, nvram, nvram_invalid, name, value, temp)
         IN  /\ OwnVars \subseteq MemVars(s.env)
             /\ Few(s.nv) /\ (~s.inv => Live(s.nv.ents) \subseteq MemVars(s.env))
             /\ \A y \in s.way : Few(y)
<1> DEFINE c == Change(envvar, heaptop, name, value)
           s == do_setenv(envvar, heaptop, nvram, nvram_invalid, name, value, temp)
<1>1. envvar \in Memory /\ heaptop \in Value /\ nvram \in Sound /\ nvram_invalid \in BOOLEAN
  BY DEF Copies
<1>2. /\ \/ Left(s, nvram, nvram_invalid)
         \/ Removes(s, nvram, nvram_invalid, name)
         \/ c.ok /\ Stores(s, nvram, nvram_invalid, name, value)
  BY <1>1, do_setenvIs
<1>3. s \in Both /\ s.env = c.env /\ Derived(s.nv, nvram, name)
  BY <1>1, do_setenvFacts
<1>4. /\ c.env \in Memory /\ MemVars(envvar) \subseteq MemVars(c.env)
      /\ c.ok => Var[name] \in MemVars(c.env)
  BY <1>1, ChangeHolds
<1> HIDE DEF c, s
<1>5. /\ Few(nvram) /\ OwnVars \subseteq MemVars(c.env)
      /\ ~nvram_invalid => Live(nvram.ents) \subseteq MemVars(c.env)
  BY <1>4 DEF RoomForAll, Held
<1>6. s.nv \in Sound /\ s.way \subseteq Sound
  BY <1>3, BothFacts
<1>7. CASE Left(s, nvram, nvram_invalid)
  BY <1>3, <1>5, <1>7 DEF Left, s
<1>8. CASE Removes(s, nvram, nvram_invalid, name)
  <2>1. ~nvram_invalid /\ CutAt(nvram, name, s.nv) /\ s.way \subseteq {nvram, Erased, s.nv}
    BY <1>8 DEF Removes
  <2>2. Within(s.nv, nvram) /\ Within(Erased, nvram) /\ Erased \in Sound
    <3>1. Within(Erased, nvram)
      BY DEF Within, Erased
    <3>2. Within(s.nv, nvram)
      BY <1>1, <2>1, WithinItself, CutWithin
    <3>3. QED
      BY <3>1, <3>2, SoundFacts
  <2>3. Few(s.nv) /\ Live(s.nv.ents) \subseteq Live(nvram.ents) /\ Few(Erased)
    BY <1>1, <1>5, <1>6, <2>2, FewWithin
  <2>4. QED
    BY <1>3, <1>5, <2>1, <2>3 DEF s
<1>9. CASE c.ok /\ Stores(s, nvram, nvram_invalid, name, value)
  <2>1. /\ Grown(s.nv, nvram, nvram_invalid, name)
        /\ \A y \in s.way : y = nvram \/ Grown(y, nvram, nvram_invalid, name)
    BY <1>1, <1>3, <1>9, StoresGrown
  <2>2. name \in MemVars(c.env)
    BY <1>4, <1>9
  <2>3. \A y \in Sound : Grown(y, nvram, nvram_invalid, name)
                           => Few(y) /\ Live(y.ents) \subseteq MemVars(c.env)
    BY <1>1, <1>4, <1>5, <2>2, GrownFew
  <2>4. QED
    BY <1>3, <1>5, <1>6, <2>1, <2>3 DEF s
<1>10. QED
  BY <1>2, <1>7, <1>8, <1>9

LEMMA UnsetRoom ==
  ASSUME LeavesBoardAlone, Copies, RoomForAll, respelled = {}, up, NEW t \in Typed,
         t.name = Var[t.name]
  PROVE  LET s == unsetenv(envvar, heaptop, nvram, nvram_invalid, t.name)
         IN  /\ OwnVars \subseteq MemVars(s.env)
             /\ Few(s.nv) /\ (~s.inv => Live(s.nv.ents) \subseteq MemVars(s.env))
             /\ \A y \in s.way : Few(y)
<1> DEFINE u == t.name
           s == unsetenv(envvar, heaptop, nvram, nvram_invalid, u)
<1>1. envvar \in Memory /\ heaptop \in Value /\ nvram \in Sound /\ nvram_invalid \in BOOLEAN
  BY DEF Copies
<1>2. u \in Name /\ u = Var[u] /\ u \notin Named(Sysvars)
  BY TypedFacts DEF LeavesBoardAlone
<1> HIDE DEF u
<1>3. /\ \/ Left(s, nvram, nvram_invalid)
         \/ \E n \in Name : Var[n] = Var[u] /\ Removes(s, nvram, nvram_invalid, n)
      /\ MemVars(envvar) \ ({Var[u]} \ StdVars) \subseteq MemVars(s.env)
      /\ (\E i \in Slots : envvar[i].name = u) /\ u = Var[u] /\ u # Heaptop
           => nvram_invalid \/ NoEntry(s.nv, u)
      /\ (\A i \in Slots : envvar[i].name # u) => Left(s, nvram, nvram_invalid) /\ s.env = envvar
  BY <1>1, <1>2, unsetenvIs
<1>4. s.nv \in Sound
  BY <1>1, <1>2, unsetenvFacts, BothFacts
<1> HIDE DEF s
<1>5. /\ Few(nvram) /\ OwnVars \subseteq MemVars(envvar)
      /\ ~nvram_invalid => Live(nvram.ents) \subseteq MemVars(envvar)
  BY DEF RoomForAll, Held
<1>6. OwnVars \subseteq MemVars(s.env)
  <2>1. Sysvars \in Seq(Pair)
    BY Zenon, EnvAssumption
  <2>2. u \notin Live(Sysvars)
    BY <1>2, <2>1, LiveIs
  <2>3. u \in OwnVars => u \in StdVars
    BY <2>2 DEF OwnVars, StdTaken
  <2>4. QED
    BY <1>2, <1>3, <1>5, <2>3
<1>7. /\ Few(s.nv) /\ Live(s.nv.ents) \subseteq Live(nvram.ents)
      /\ \A y \in s.way : Few(y)
      /\ ~s.inv => ~nvram_invalid
  <2>1. CASE Left(s, nvram, nvram_invalid)
    BY <1>5, <2>1 DEF Left
  <2>2. ASSUME NEW n \in Name, Removes(s, nvram, nvram_invalid, n)
        PROVE  /\ Few(s.nv) /\ Live(s.nv.ents) \subseteq Live(nvram.ents)
               /\ \A y \in s.way : Few(y)
               /\ ~nvram_invalid
    <3>1. ~nvram_invalid /\ CutAt(nvram, n, s.nv) /\ s.way \subseteq {nvram, Erased, s.nv}
      BY <2>2 DEF Removes
    <3>2. Within(Erased, nvram) /\ Erased \in Sound
      <4>1. Within(Erased, nvram)
        BY DEF Within, Erased
      <4>2. QED
        BY <4>1, SoundFacts
    <3>3. Within(s.nv, nvram)
      BY <1>1, <3>1, WithinItself, CutWithin
    <3>4. Few(s.nv) /\ Live(s.nv.ents) \subseteq Live(nvram.ents) /\ Few(Erased)
      BY <1>1, <1>4, <1>5, <3>2, <3>3, FewWithin
    <3>5. QED
      BY <1>5, <3>1, <3>4
  <2>3. QED
    BY <1>3, <2>1, <2>2
<1>8. ASSUME ~s.inv
      PROVE  Live(s.nv.ents) \subseteq MemVars(s.env)
  <2>1. Live(s.nv.ents) \subseteq MemVars(envvar) /\ ~nvram_invalid
    BY <1>5, <1>7, <1>8
  <2>2. CASE \A i \in Slots : envvar[i].name # u
    BY <1>3, <2>1, <2>2
  <2>3. CASE u \in StdVars
    BY <1>2, <1>3, <2>1, <2>3
  <2>4. CASE (\E i \in Slots : envvar[i].name = u) /\ u \notin StdVars
    <3>1. NoEntry(s.nv, u)
      BY <1>2, <1>3, <2>1, <2>4, HeaptopFacts
    <3>2. Own(s.nv.ents)
      BY <1>7 DEF Few
    <3>3. u \notin Live(s.nv.ents)
      BY <3>1, <3>2 DEF NoEntry, Own, Live
    <3>4. QED
      BY <1>2, <1>3, <2>1, <3>3
  <2>5. QED
    BY <2>2, <2>3, <2>4
<1>9. QED
  BY <1>6, <1>7, <1>8 DEF s, u

(* What a start has in memory so far: nothing but N, and the top of the    *)
(* heap has only moved if heaptop has a slot.                              *)
Roomy(m, N) ==
  /\ m.top \in Nat /\ m.top >= HeapStart
  /\ MemVars(m.env) \subseteq N
  /\ m.top = HeapStart \/ Heaptop \in MemVars(m.env)

LEMMA MovesRoom ==
  ASSUME NEW m, NEW s, NEW u, NEW w, NEW K, Moves(m, s, u, w, K),
         NEW N, IsFiniteSet(N), Cardinality(N) <= NVAR, Roomy(m, N),
         u \in N \/ (u = Heaptop /\ w < HeapStart)
  PROVE  /\ Roomy(s, N)
         /\ u \in MemVars(s.env) \/ (u = Heaptop /\ w < HeapStart)
<1>1. /\ m.env \in Memory /\ s.env \in Memory
      /\ m.top \in Nat /\ s.top \in Nat /\ w \in Nat /\ s.top >= m.top /\ HeapStart \in Nat
  BY HeaptopFacts DEF Moves
<1>2. s.top >= HeapStart /\ m.top >= HeapStart
  BY <1>1 DEF Roomy
<1>3. CASE u = Heaptop /\ w < m.top
  <2>1. MemVars(s.env) = MemVars(m.env) /\ s.top = m.top
    BY <1>3 DEF Moves
  <2>2. Roomy(s, N)
    BY <1>1, <1>2, <2>1 DEF Roomy
  <2>3. w >= HeapStart => u \in MemVars(s.env)
    BY <1>1, <1>3, <2>1 DEF Roomy
  <2>4. QED
    BY <1>1, <1>3, <2>2, <2>3
<1>4. CASE ~(u = Heaptop /\ w < m.top)
  <2>1. u \in N
    BY <1>1, <1>2, <1>4
  <2>2. u \in MemVars(s.env)
    <3>1. u \notin MemVars(m.env) => ~Full(m.env)
      BY <1>1, <2>1, RoomLeft DEF Roomy
    <3>2. QED
      BY <1>4, <3>1 DEF Moves
  <2>3. MemVars(s.env) \subseteq N
    BY <2>1 DEF Moves, Roomy
  <2>4. s.top = HeapStart \/ Heaptop \in MemVars(s.env)
    BY <2>2 DEF Moves, Roomy
  <2>5. Roomy(s, N)
    BY <1>1, <1>2, <2>3, <2>4 DEF Roomy
  <2>6. QED
    BY <2>2, <2>5
<1>5. QED
  BY <1>3, <1>4

LEMMA LiveConcat ==
  ASSUME NEW a \in Seq(Pair), NEW b \in Seq(Pair)
  PROVE  Live(a \o b) = Live(a) \cup Live(b)
<1> DEFINE q == a \o b
<1>1. /\ Len(a) \in Nat /\ Len(b) \in Nat /\ Len(q) = Len(a) + Len(b)
      /\ \A j \in 1 .. Len(a) + Len(b) : q[j] = IF j <= Len(a) THEN a[j] ELSE b[j - Len(a)]
  BY ConcatProperties
<1> HIDE DEF q
<1>2. \A j \in 1 .. Len(a) : j \in 1 .. Len(q) /\ q[j] = a[j]
  BY <1>1
<1>3. \A j \in 1 .. Len(b) : Len(a) + j \in 1 .. Len(q) /\ q[Len(a) + j] = b[j]
  <2> TAKE j \in 1 .. Len(b)
  <2>1. Len(a) + j \in 1 .. Len(a) + Len(b) /\ ~(Len(a) + j <= Len(a)) /\ (Len(a) + j) - Len(a) = j
    BY <1>1
  <2>2. QED
    BY <1>1, <2>1
<1>4. \A j \in 1 .. Len(q) : \/ \E i \in 1 .. Len(a) : q[j] = a[i]
                             \/ \E i \in 1 .. Len(b) : q[j] = b[i]
  <2> TAKE j \in 1 .. Len(q)
  <2>1. CASE j <= Len(a)
    BY <1>1, <2>1
  <2>2. CASE ~(j <= Len(a))
    <3>1. j - Len(a) \in 1 .. Len(b) /\ q[j] = b[j - Len(a)]
      BY <1>1, <2>2
    <3>2. QED
      BY <3>1
  <2>3. QED
    BY <2>1, <2>2
<1>5. Live(q) \subseteq Live(a) \cup Live(b)
  BY <1>4 DEF Live
<1>6. Live(a) \subseteq Live(q)
  BY <1>2 DEF Live
<1>7. Live(b) \subseteq Live(q)
  <2>1. ASSUME NEW i \in 1 .. Len(b), ~Low(b[i])
        PROVE  Var[b[i].name] \in Live(q)
    <3>1. Len(a) + i \in 1 .. Len(q) /\ q[Len(a) + i] = b[i]
      BY <1>3
    <3>2. QED
      BY <2>1, <3>1 DEF Live
  <2>2. QED
    BY <2>1 DEF Live
<1>8. QED
  BY <1>5, <1>6, <1>7 DEF q

(* Whatever is live of the pairs a start reads is in memory after them.    *)
LEMMA MappedRoom ==
  ASSUME NEW q \in Seq(Pair), NEW N, IsFiniteSet(N), Cardinality(N) <= NVAR, Live(q) \subseteq N
  PROVE  Roomy(Last(q), N) /\ Live(q) \subseteq MemVars(Last(q).env)
<1> DEFINE M == Mapped(q)
           L == Len(q)
           Safe(j) == /\ Roomy(M[j], N)
                      /\ \A i \in 1 .. j : Low(q[i]) \/ Var[q[i].name] \in MemVars(M[j].env)
           T == {j \in 0 .. L : Safe(j)}
<1>1. L \in Nat /\ M[0] = Blank /\ \A j \in 1 .. L : Steps(M[j - 1], M[j], q[j])
  BY MapIs
<1>2. Last(q) = M[L]
  BY DEF Last
<1> HIDE DEF M, L
<1>3. 0 \in T
  <2>1. Blank.env \in Memory /\ \A m \in Name : getenv(Blank.env, m) = NoVal
    BY BlankFacts
  <2>2. MemVars(Blank.env) = {}
    BY <2>1, VarFacts, MemVarsIs
  <2>3. Roomy(Blank, N)
    BY <2>2, BlankFacts, HeaptopFacts DEF Roomy
  <2>4. Safe(0)
    BY <1>1, <2>3
  <2>5. QED
    BY <1>1, <2>4
<1>4. ASSUME NEW j \in 1 .. L, j - 1 \in T
      PROVE  j \in T
  <2> DEFINE p == q[j]
             u == Var[p.name]
  <2>1. Safe(j - 1) /\ Roomy(M[j - 1], N)
    BY <1>4
  <2>2. Moves(M[j - 1], M[j], u, p.value, {})
    BY <1>1, StepMoves
  <2>3. u \in N \/ (u = Heaptop /\ p.value < HeapStart)
    BY DEF Live, Low, L
  <2>4. Roomy(M[j], N) /\ (u \in MemVars(M[j].env) \/ (u = Heaptop /\ p.value < HeapStart))
    BY <2>1, <2>2, <2>3, MovesRoom
  <2>5. ASSUME NEW i \in 1 .. j
        PROVE  Low(q[i]) \/ Var[q[i].name] \in MemVars(M[j].env)
    <3>1. CASE i = j
      BY <2>4, <3>1 DEF Low
    <3>2. CASE i # j
      <4>1. i \in 1 .. j - 1
        BY <1>1, <3>2
      <4>2. Low(q[i]) \/ Var[q[i].name] \in MemVars(M[j - 1].env)
        BY <2>1, <4>1
      <4>3. QED
        BY <2>2, <4>2 DEF Moves
    <3>3. QED
      BY <3>1, <3>2
  <2>6. j \in 0 .. L
    BY <1>1
  <2>7. QED
    BY <2>4, <2>5, <2>6
<1> HIDE DEF T
<1>5. L \in T
  <2>1. 0 .. L \subseteq T
    BY <1>1, <1>3, <1>4, InductTo
  <2>2. QED
    BY <1>1, <2>1
<1>6. Roomy(M[L], N) /\ \A i \in 1 .. L : Low(q[i]) \/ Var[q[i].name] \in MemVars(M[L].env)
  BY <1>5 DEF T
<1>7. QED
  BY <1>2, <1>6 DEF Live, L

(* And every standard variable that takes its default.                     *)
LEMMA FillRoom ==
  ASSUME NEW s \in Both, NEW N, IsFiniteSet(N), Cardinality(N) <= NVAR, StdTaken \subseteq N,
         Roomy(s, N)
  PROVE  LET f == Filled(s)[Len(Std)]
         IN  MemVars(s.env) \subseteq MemVars(f.env) /\ StdTaken \subseteq MemVars(f.env)
<1> DEFINE F == Filled(s)
           L == Len(Std)
           Safe(j) == /\ Roomy(F[j], N) /\ MemVars(s.env) \subseteq MemVars(F[j].env)
                      /\ \A i \in 1 .. j : Std[i] \in StdTaken => Std[i] \in MemVars(F[j].env)
           T == {j \in 0 .. L : Safe(j)}
<1>1. /\ L \in Nat /\ F \in [0 .. L -> Both] /\ F[0] = s
      /\ \A i \in 1 .. L : F[i] = WithDefault(F[i - 1], Std[i])
  BY VarFacts, FilledFacts
<1> HIDE DEF F
<1>2. \A j \in 1 .. L : Moves(F[j - 1], F[j], Std[j], Default[Std[j]], {Std[j]})
  <2> TAKE j \in 1 .. L
  <2>1. j - 1 \in 0 .. L
    BY <1>1
  <2>2. F[j - 1] \in Both /\ F[j] = WithDefault(F[j - 1], Std[j])
    BY <1>1, <2>1
  <2>3. QED
    BY <2>2, WithDefaultMoves
<1>3. 0 \in T
  <2>1. Safe(0)
    BY <1>1
  <2>2. QED
    BY <1>1, <2>1
<1>4. ASSUME NEW j \in 1 .. L, j - 1 \in T
      PROVE  j \in T
  <2> DEFINE u == Std[j]
             w == Default[u]
  <2>1. Safe(j - 1) /\ Roomy(F[j - 1], N)
    BY <1>4
  <2>2. Moves(F[j - 1], F[j], u, w, {u}) /\ u \in StdVars /\ w \in Nat
    BY <1>2, DefaultFacts, ValueNat
  <2>3. u \in StdTaken \/ (u = Heaptop /\ w < HeapStart)
    BY <2>2, HeaptopFacts DEF StdTaken
  <2>4. u \in N \/ (u = Heaptop /\ w < HeapStart)
    BY <2>3
  <2>5. Roomy(F[j], N) /\ (u \in MemVars(F[j].env) \/ (u = Heaptop /\ w < HeapStart))
    BY <2>1, <2>2, <2>4, MovesRoom
  <2>6. u \in StdTaken => u \in MemVars(F[j].env)
    BY <2>2, <2>5, HeaptopFacts DEF StdTaken
  <2>7. MemVars(F[j - 1].env) \subseteq MemVars(F[j].env)
    BY <2>2 DEF Moves
  <2>8. ASSUME NEW i \in 1 .. j, Std[i] \in StdTaken
        PROVE  Std[i] \in MemVars(F[j].env)
    <3>1. CASE i = j
      BY <2>6, <2>8, <3>1
    <3>2. CASE i # j
      <4>1. i \in 1 .. j - 1
        BY <1>1, <3>2
      <4>2. QED
        BY <2>1, <2>7, <2>8, <4>1
    <3>3. QED
      BY <3>1, <3>2
  <2>9. j \in 0 .. L
    BY <1>1
  <2>10. QED
    BY <2>1, <2>5, <2>7, <2>8, <2>9
<1> HIDE DEF T
<1>5. L \in T
  <2>1. 0 .. L \subseteq T
    BY <1>1, <1>3, <1>4, InductTo
  <2>2. QED
    BY <1>1, <2>1
<1>6. /\ MemVars(s.env) \subseteq MemVars(F[L].env)
      /\ \A i \in 1 .. L : Std[i] \in StdTaken => Std[i] \in MemVars(F[L].env)
  BY <1>5 DEF T
<1>7. StdTaken \subseteq MemVars(F[L].env)
  BY <1>6 DEF StdTaken, StdVars
<1>8. QED
  BY <1>6, <1>7 DEF F

LEMMA StartRoom ==
  ASSUME NEW nv \in Sound, Few(nv)
  PROVE  LET s == envinit(nv)
         IN  /\ OwnVars \subseteq MemVars(s.env)
             /\ nv.ok => Live(nv.ents) \subseteq MemVars(s.env)
<1> DEFINE q == Pairs(nv)
           N == Needed(nv.ents)
           f == tgt_mapenv(nv)
<1>1. nv.ents \in Seq(Pair) /\ Sysvars \in Seq(Pair) /\ <<>> \in Seq(Pair) /\ q \in Seq(Pair)
  <2>1. Sysvars \in Seq(Pair)
    BY Zenon, EnvAssumption
  <2>2. QED
    BY <2>1, SoundFacts, PairsFacts
<1>2. IsFiniteSet(N) /\ Cardinality(N) <= NVAR
  BY <1>1, NeededIs DEF Few
<1>3. Live(q) \subseteq N /\ Live(Sysvars) \subseteq Live(q) /\ (nv.ok => Live(nv.ents) \subseteq Live(q))
  <2>1. CASE nv.ok
    <3>1. Live(q) = Live(nv.ents) \cup Live(Sysvars)
      BY <1>1, <2>1, LiveConcat DEF Pairs
    <3>2. QED
      BY <3>1 DEF Needed, OwnVars
  <2>2. CASE ~nv.ok
    <3>1. Live(q) = Live(<<>>) \cup Live(Sysvars)
      BY <1>1, <2>2, LiveConcat DEF Pairs
    <3>2. Live(<<>>) = {}
      BY DEF Live
    <3>3. QED
      BY <2>2, <3>1, <3>2 DEF Needed, OwnVars
  <2>3. QED
    BY <2>1, <2>2
<1>4. f \in Both /\ f.env = Last(q).env /\ f.top = Last(q).top
  BY tgt_mapenvFacts
<1>5. envinit(nv) = Filled(f)[Len(Std)]
  BY DEF envinit
<1> HIDE DEF q, f
<1>6. Roomy(f, N) /\ Live(q) \subseteq MemVars(f.env)
  <2>1. Roomy(Last(q), N) /\ Live(q) \subseteq MemVars(Last(q).env)
    BY <1>1, <1>2, <1>3, MappedRoom
  <2>2. QED
    BY <1>4, <2>1 DEF Roomy
<1>7. StdTaken \subseteq N
  BY DEF Needed, OwnVars
<1> HIDE DEF N
<1>8. MemVars(f.env) \subseteq MemVars(envinit(nv).env) /\ StdTaken \subseteq MemVars(envinit(nv).env)
  BY <1>2, <1>4, <1>5, <1>6, <1>7, FillRoom
<1>9. QED
  BY <1>3, <1>6, <1>8 DEF OwnVars

LEMMA OwnSpelling ==
  ASSUME NEW name \in Name, Respelled(name), respelled' = {}
  PROVE  respelled = {} /\ name = Var[name]
BY DEF Respelled

LEMMA RoomSet ==
  ASSUME Copies, RoomForAll, NEW t \in Typed, cmd_set(t.name, t.value, t.temp)
  PROVE  RoomForAll'
<1> DEFINE s == do_setenv(envvar, heaptop, nvram, nvram_invalid, t.name, t.value, t.temp)
<1>1. /\ up /\ Respelled(t.name)
      /\ IF s.nv.cut /\ ~nvram.cut THEN Off /\ nvram' = s.nv ELSE Apply(s) /\ UNCHANGED up
  BY DEF cmd_set, Owed
<1> SUFFICES ASSUME respelled' = {}
             PROVE  Few(nvram)' /\ Held'
  BY DEF RoomForAll
<1>2. t.name \in Name /\ t.value \in Value /\ t.temp \in BOOLEAN
  BY TypedFacts
<1>3. respelled = {} /\ t.name = Var[t.name]
  BY <1>1, <1>2, OwnSpelling
<1>4. /\ OwnVars \subseteq MemVars(s.env)
      /\ Few(s.nv) /\ (~s.inv => Live(s.nv.ents) \subseteq MemVars(s.env))
  BY <1>1, <1>2, <1>3, SetRoom
<1> HIDE DEF s
<1>5. nvram' = s.nv
  BY <1>1 DEF Apply
<1>6. Few(nvram)'
  BY <1>4, <1>5 DEF Few
<1>7. CASE s.nv.cut /\ ~nvram.cut
  BY <1>1, <1>6, <1>7 DEF Off, Held
<1>8. CASE ~(s.nv.cut /\ ~nvram.cut)
  <2>1. envvar' = s.env /\ nvram_invalid' = s.inv
    BY <1>1, <1>8 DEF Apply
  <2>2. QED
    BY <1>4, <1>5, <1>6, <2>1 DEF Held
<1>9. QED
  BY <1>7, <1>8

LEMMA RoomUnset ==
  ASSUME LeavesBoardAlone, Copies, RoomForAll, NEW t \in Typed, cmd_unset(t.name)
  PROVE  RoomForAll'
<1> DEFINE s == unsetenv(envvar, heaptop, nvram, nvram_invalid, t.name)
<1>1. /\ up /\ Respelled(t.name)
      /\ envvar' = s.env /\ nvram' = s.nv /\ nvram_invalid' = s.inv
  BY DEF cmd_unset, Apply
<1> SUFFICES ASSUME respelled' = {}
             PROVE  Few(nvram)' /\ Held'
  BY DEF RoomForAll
<1>2. respelled = {} /\ t.name = Var[t.name]
  BY <1>1, TypedFacts, OwnSpelling
<1>3. /\ OwnVars \subseteq MemVars(s.env)
      /\ Few(s.nv) /\ (~s.inv => Live(s.nv.ents) \subseteq MemVars(s.env))
  BY <1>1, <1>2, UnsetRoom
<1> HIDE DEF s
<1>4. QED
  BY <1>1, <1>3 DEF Few, Held

LEMMA RoomPowerFails ==
  ASSUME Copies, NEW s, NEW v, PowerFails(s, v), \A y \in s.way : Few(y)
  PROVE  Few(nvram)' /\ Held'
<1>1. nvram' \in s.way /\ ~up'
  BY DEF PowerFails, Off
<1>2. QED
  BY <1>1 DEF Few, Held

LEMMA RoomPowerFailsInSet ==
  ASSUME Copies, RoomForAll, NEW t \in Typed, PowerFailsInSet(t.name, t.value, t.temp)
  PROVE  RoomForAll'
<1> DEFINE s == do_setenv(envvar, heaptop, nvram, nvram_invalid, t.name, t.value, t.temp)
<1>1. up /\ Respelled(t.name) /\ PowerFails(s, Var[t.name])
  BY DEF PowerFailsInSet
<1> SUFFICES ASSUME respelled' = {}
             PROVE  Few(nvram)' /\ Held'
  BY DEF RoomForAll
<1>2. t.name \in Name /\ t.value \in Value /\ t.temp \in BOOLEAN
  BY TypedFacts
<1>3. respelled = {} /\ t.name = Var[t.name]
  BY <1>1, <1>2, OwnSpelling
<1>4. \A y \in s.way : Few(y)
  BY <1>1, <1>2, <1>3, SetRoom
<1> HIDE DEF s
<1>5. QED
  BY <1>1, <1>4, RoomPowerFails

LEMMA RoomPowerFailsInUnset ==
  ASSUME LeavesBoardAlone, Copies, RoomForAll, NEW t \in Typed, PowerFailsInUnset(t.name)
  PROVE  RoomForAll'
<1> DEFINE s == unsetenv(envvar, heaptop, nvram, nvram_invalid, t.name)
<1>1. up /\ Respelled(t.name) /\ PowerFails(s, Var[t.name])
  BY DEF PowerFailsInUnset
<1> SUFFICES ASSUME respelled' = {}
             PROVE  Few(nvram)' /\ Held'
  BY DEF RoomForAll
<1>2. respelled = {} /\ t.name = Var[t.name]
  BY <1>1, TypedFacts, OwnSpelling
<1>3. \A y \in s.way : Few(y)
  BY <1>1, <1>2, UnsetRoom
<1> HIDE DEF s
<1>4. QED
  BY <1>1, <1>3, RoomPowerFails

LEMMA RoomStart ==
  ASSUME Copies, RoomForAll, Boot \/ PowerFailsInBoot
  PROVE  RoomForAll'
<1> DEFINE s == envinit(nvram)
<1>1. respelled' = respelled
  BY DEF Boot, PowerFailsInBoot
<1> SUFFICES ASSUME respelled = {}
             PROVE  Few(nvram)' /\ Held'
  BY <1>1 DEF RoomForAll
<1>2. nvram \in Sound /\ Few(nvram)
  BY DEF Copies, RoomForAll
<1>3. /\ Within(s.nv, nvram)
      /\ \A y \in s.way : y = Erased \/ y = nvram \/ (~s.inv /\ Within(y, nvram))
      /\ s.inv <=> ~nvram.ok \/ nvram.cut
  BY <1>2, StartSector
<1>4. OwnVars \subseteq MemVars(s.env) /\ (nvram.ok => Live(nvram.ents) \subseteq MemVars(s.env))
  BY <1>2, StartRoom
<1>5. s.nv \in Sound /\ s.way \subseteq Sound
  BY <1>2, envinitFacts, BothFacts
<1>6. CASE Boot
  <2>1. envvar' = s.env /\ nvram' = s.nv /\ nvram_invalid' = s.inv
    BY <1>6 DEF Boot, Apply
  <2> HIDE DEF s
  <2>2. Few(s.nv) /\ Live(s.nv.ents) \subseteq Live(nvram.ents)
    BY <1>2, <1>3, <1>5, FewWithin
  <2>3. ~s.inv => Live(s.nv.ents) \subseteq MemVars(s.env)
    BY <1>3, <1>4, <2>2
  <2>4. QED
    BY <1>4, <2>1, <2>2, <2>3 DEF Few, Held
<1>7. CASE PowerFailsInBoot
  <2>1. PowerFails(s, Heaptop)
    BY <1>7 DEF PowerFailsInBoot
  <2> HIDE DEF s
  <2>2. Within(Erased, nvram) /\ Within(nvram, nvram)
    BY DEF Within, Erased
  <2>3. \A y \in s.way : Few(y)
    BY <1>2, <1>3, <1>5, <2>2, FewWithin
  <2>4. QED
    BY <2>1, <2>3, RoomPowerFails
<1>8. QED
  BY <1>6, <1>7

LEMMA RoomStep ==
  ASSUME LeavesBoardAlone, Copies, RoomForAll, [Next]_vars
  PROVE  RoomForAll'
<1>1. ASSUME NEW t \in Typed, cmd_set(t.name, t.value, t.temp)
      PROVE  RoomForAll'
  BY <1>1, RoomSet
<1>2. ASSUME NEW t \in Typed, cmd_eset(t.name, t.value, t.temp)
      PROVE  RoomForAll'
  BY <1>2, RoomSet DEF cmd_eset
<1>3. ASSUME NEW t \in Typed, PowerFailsInSet(t.name, t.value, t.temp)
      PROVE  RoomForAll'
  BY <1>3, RoomPowerFailsInSet
<1>4. ASSUME NEW t \in Typed, cmd_unset(t.name)
      PROVE  RoomForAll'
  BY <1>4, RoomUnset
<1>5. ASSUME NEW t \in Typed, PowerFailsInUnset(t.name)
      PROVE  RoomForAll'
  BY <1>5, RoomPowerFailsInUnset
<1>6. CASE Boot \/ PowerFailsInBoot
  BY <1>6, RoomStart
<1>7. CASE PowerOff
  BY <1>7 DEF PowerOff, Off, RoomForAll, Few, Held
<1>8. CASE UNCHANGED vars
  BY <1>8 DEF vars, RoomForAll, Few, Held
<1>9. QED
  BY <1>1, <1>2, <1>3, <1>4, <1>5, <1>6, <1>7, <1>8 DEF Next

(* While the monitor runs each standard variable has a value, so that the  *)
(* getenv of pmon_stop needs no test, if the slots were enough for what    *)
(* the board was first started with, nobody respells a variable, and the   *)
(* user leaves the board's own alone (envinit, do_setenv, unsetenv).       *)
THEOREM StdAlwaysSetCorrect == LeavesBoardAlone /\ FactoryFits => (Spec => []StdAlwaysSet)
<1> SUFFICES ASSUME LeavesBoardAlone, FactoryFits
             PROVE  Spec => []StdAlwaysSet
  OBVIOUS
<1>1. Init => RoomForAll
  BY RoomInit
<1>2. IInv /\ RoomForAll /\ [Next]_vars => RoomForAll'
  BY IInvIs, RoomStep
<1>3. IInv /\ RoomForAll => StdAlwaysSet
  <2> SUFFICES ASSUME IInv, RoomForAll, up, respelled = {}, NEW s \in StdVars,
                      ~(s = Heaptop /\ Default[Heaptop] < HeapStart)
               PROVE  getenv(envvar, s) # NoVal
    BY DEF StdAlwaysSet
  <2>1. envvar \in Memory
    BY IInvIs DEF Copies
  <2>2. s \in StdTaken
    <3>1. Default[s] \in Nat /\ HeapStart \in Nat
      <4>1. s \in Name /\ Var[s] = s
        BY VarFacts
      <4>2. QED
        BY <4>1, DefaultFacts, ValueNat, HeaptopFacts
    <3>2. QED
      BY <3>1 DEF StdTaken
  <2>3. s \in MemVars(envvar)
    BY <2>2 DEF RoomForAll, Held, OwnVars
  <2>4. QED
    BY <2>1, <2>3, VarFacts, MemVarsIs
<1>4. QED
  BY <1>1, <1>2, <1>3, Invariance, PTL DEF Spec
=============================================================================
