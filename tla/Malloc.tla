------------------------------- MODULE Malloc -------------------------------
(***************************************************************************)
(* The heap of the monitor: malloc, free and realloc of lib/libc on top of *)
(* sbrk of pmon/common.                                                    *)
(*                                                                         *)
(* Addresses count HEADERs.  `base' is the one at address 0, below the     *)
(* heap; the heap grows down from Top.  A header is the pair ptr, size at  *)
(* its address; a unit that is no header keeps what was last written into  *)
(* it as one.  The two loops that walk the free list, the one of malloc    *)
(* (pc = "search") and the one of free (pc = "place"), take one step per   *)
(* node, with the locals p and q of the code.                              *)
(***************************************************************************)
EXTENDS Integers

CONSTANTS
    Top,        \* the first address above the heap: where sbrk starts
    NALLOC,     \* units that morecore asks for at a time
    HDR,        \* bytes in a unit, sizeof (HEADER)
    W,          \* values of a size_t: its arithmetic is modulo W
    Requests    \* numbers of bytes that callers ask for

ASSUME MallocAssumption ==
    /\ Top \in Nat \ {0}
    /\ NALLOC \in Nat \ {0}
    /\ HDR \in Nat \ {0}
    /\ W \in Nat /\ W > HDR
    /\ Requests \subseteq 0 .. W - 1

VARIABLES
    ptr, size,  \* HEADER.s.ptr and HEADER.s.size of every unit
    allocp,     \* where the next search starts, Null before the first malloc
    allocp1,    \* sbrk: the lowest address of the heap
    pc,         \* what the caller is in: "idle", "search", "place", "hung"
    p, q,       \* the locals of the loop in progress
    nunits,     \* the local of malloc
    bytes,      \* the argument of malloc
    more,       \* the free in progress was called by morecore
    old,        \* the block that the realloc in progress will free, or Null
    avail,      \* ghost: the free blocks
    asked       \* ghost: the blocks handed out, each with the bytes asked for

vars == <<ptr, size, allocp, allocp1, pc, p, q, nunits, bytes, more, old,
          avail, asked>>

base == 0
Null == -1
Addr == 0 .. Top - 1
used == DOMAIN asked

Units(b) == b .. b + size[b] - 1

(* Blocks in nobody's hands but free's. *)
Moving == IF pc = "place" THEN {p} ELSE {}

(* Units that belong to no caller. *)
FreeSpace == UNION {Units(b) : b \in avail}

-----------------------------------------------------------------------------
(* Units for a request, header included, as malloc computes them. *)
Nunits(nbytes) == ((nbytes + HDR - 1) % W) \div HDR + 1

(* Mutant: rounded down to whole batches. *)
Rnu_down(nu) == NALLOC * (nu \div NALLOC)

(* Units that morecore asks sbrk for. *)
Rnu(nu) == NALLOC * ((nu + NALLOC - 1) \div NALLOC)

(* Bound: sbrk has no limit of its own, so the model makes no request that *)
(* would take the heap down to the monitor.                                *)
Room(nu) == allocp1 - Rnu(nu) > base

Init ==
    /\ ptr = [a \in Addr |-> Null]
    /\ size = [a \in Addr |-> 0]
    /\ allocp = Null
    /\ allocp1 = Top
    /\ pc = "idle"
    /\ p = Null /\ q = Null
    /\ nunits = 0 /\ bytes = 0
    /\ more = FALSE
    /\ old = Null
    /\ avail = {}
    /\ asked = [b \in {} |-> 0]

-----------------------------------------------------------------------------
(* malloc up to its loop. *)
StartMalloc(n, o) ==
    /\ pc = "idle"
    /\ Room(Nunits(n))
    /\ bytes' = n
    /\ nunits' = Nunits(n)
    /\ old' = o
    /\ pc' = "search"
    /\ IF allocp = Null
          THEN /\ ptr' = [ptr EXCEPT ![base] = base]
               /\ size' = [size EXCEPT ![base] = 0]
               /\ allocp' = base
          ELSE UNCHANGED <<ptr, size, allocp>>
    /\ q' = allocp'
    /\ p' = ptr'[allocp']
    /\ UNCHANGED <<allocp1, more, avail, asked>>

malloc(n) == StartMalloc(n, Null)

(* realloc gets the new block first, and frees the old one afterwards. *)
realloc(b, n) == b \in used /\ StartMalloc(n, b)

(* A procedure returns, and its locals are gone. *)
Return ==
    /\ pc' = "idle"
    /\ p' = Null
    /\ q' = Null

(* The last of malloc: block b is the caller's.  A realloc goes on to free *)
(* the old block, whose header must still say that it is in use.           *)
Grant(b) ==
    /\ allocp' = q
    /\ IF old = Null
          THEN /\ asked' = [x \in used \cup {b} |->
                                IF x = b THEN bytes ELSE asked[x]]
               /\ Return
          ELSE /\ asked' = [x \in (used \cup {b}) \ {old} |->
                                IF x = b THEN bytes ELSE asked[x]]
               /\ p' = old
               /\ q' = allocp'
               /\ pc' = IF ptr'[old] = old THEN "place" ELSE "hung"
    /\ nunits' = 0
    /\ bytes' = 0
    /\ old' = Null
    /\ UNCHANGED <<allocp1, more>>

(* A block of the right size is taken out of the list. *)
TakeAll ==
    /\ pc = "search"
    /\ size[p] = nunits
    /\ ptr' = [ptr EXCEPT ![q] = ptr[p], ![p] = p]
    /\ avail' = avail \ {p}
    /\ Grant(p)
    /\ UNCHANGED size

(* Mutant: what is left of the block keeps its old size. *)
TakeTail_uncut ==
    /\ pc = "search"
    /\ size[p] > nunits
    /\ LET b == p + size[p] - nunits
       IN  /\ size' = [size EXCEPT ![b] = nunits]
           /\ ptr' = [ptr EXCEPT ![b] = b]
           /\ Grant(b)
    /\ UNCHANGED avail

(* A larger one gives its upper end. *)
TakeTail ==
    /\ pc = "search"
    /\ size[p] > nunits
    /\ LET b == p + size[p] - nunits
       IN  /\ size' = [size EXCEPT ![p] = @ - nunits, ![b] = nunits]
           /\ ptr' = [ptr EXCEPT ![b] = b]
           /\ Grant(b)
    /\ UNCHANGED avail

(* A smaller one is passed over. *)
SearchNext ==
    /\ pc = "search"
    /\ size[p] < nunits
    /\ p # allocp
    /\ q' = p
    /\ p' = ptr[p]
    /\ UNCHANGED <<ptr, size, allocp, allocp1, pc, nunits, bytes, more, old,
                   avail, asked>>

(* Mutant: the end of the list is taken for once around. *)
MoreCore_atbase ==
    /\ pc = "search"
    /\ size[p] < nunits
    /\ p = base
    /\ allocp1' = allocp1 - Rnu(nunits)
    /\ size' = [size EXCEPT ![allocp1'] = Rnu(nunits)]
    /\ ptr' = [ptr EXCEPT ![allocp1'] = allocp1']
    /\ p' = allocp1'
    /\ q' = allocp
    /\ more' = TRUE
    /\ pc' = "place"
    /\ UNCHANGED <<allocp, nunits, bytes, old, avail, asked>>

(* Once around: morecore gets units from sbrk, makes a block in use of     *)
(* them and calls free.                                                    *)
MoreCore ==
    /\ pc = "search"
    /\ size[p] < nunits
    /\ p = allocp
    /\ allocp1' = allocp1 - Rnu(nunits)
    /\ size' = [size EXCEPT ![allocp1'] = Rnu(nunits)]
    /\ ptr' = [ptr EXCEPT ![allocp1'] = allocp1']
    /\ p' = allocp1'
    /\ q' = allocp
    /\ more' = TRUE
    /\ pc' = "place"
    /\ UNCHANGED <<allocp, nunits, bytes, old, avail, asked>>

-----------------------------------------------------------------------------
(* Mutant: without the check of the header. *)
free_unchecked(b) ==
    /\ pc = "idle"
    /\ b \in used \cup FreeSpace
    /\ p' = b
    /\ q' = allocp
    /\ pc' = "place"
    /\ asked' = [x \in used \ {b} |-> asked[x]]
    /\ UNCHANGED <<ptr, size, allocp, allocp1, nunits, bytes, more, old, avail>>

(* free up to its loop, of a block in use or of a pointer into space that  *)
(* was freed already.  A header that does not point to itself stops the    *)
(* monitor.                                                                *)
free(b) ==
    /\ pc = "idle"
    /\ b \in used \cup FreeSpace
    /\ p' = b
    /\ q' = allocp
    /\ pc' = IF ptr[b] = b THEN "place" ELSE "hung"
    /\ asked' = [x \in used \ {b} |-> asked[x]]
    /\ UNCHANGED <<ptr, size, allocp, allocp1, nunits, bytes, more, old, avail>>

(* Mutant: the end of the list, where it turns around, is not looked for. *)
Behind_between == p > q /\ p < ptr[q]

(* Does p belong behind q? *)
Behind ==
    \/ p > q /\ p < ptr[q]
    \/ q >= ptr[q] /\ (p > q \/ p < ptr[q])

PlaceNext ==
    /\ pc = "place"
    /\ ~Behind
    /\ q' = ptr[q]
    /\ UNCHANGED <<ptr, size, allocp, allocp1, pc, p, nunits, bytes, more, old,
                   avail, asked>>

(* Mutant: the lower neighbour is not joined. *)
Link_apart ==
    /\ pc = "place"
    /\ Behind
    /\ LET nxt == ptr[q]
           up == p + size[p] = nxt
       IN  /\ size' = IF up THEN [size EXCEPT ![p] = @ + size[nxt]] ELSE size
           /\ ptr' = [ptr EXCEPT ![p] = IF up THEN ptr[nxt] ELSE nxt, ![q] = p]
           /\ avail' = (avail \cup {p}) \ (IF up THEN {nxt} ELSE {})
    /\ allocp' = q
    /\ more' = FALSE
    /\ IF more
          THEN /\ pc' = "search"
               /\ q' = allocp'
               /\ p' = ptr'[allocp']
          ELSE Return
    /\ UNCHANGED <<allocp1, nunits, bytes, old, asked>>

(* The block is linked in, joined with its neighbours where they touch.    *)
(* free returns, to the loop of malloc when morecore called it.            *)
Link ==
    /\ pc = "place"
    /\ Behind
    /\ LET nxt == ptr[q]
           up == p + size[p] = nxt
           sz == IF up THEN [size EXCEPT ![p] = @ + size[nxt]] ELSE size
           lk == [ptr EXCEPT ![p] = IF up THEN ptr[nxt] ELSE nxt]
           down == q + sz[q] = p
       IN  /\ size' = IF down THEN [sz EXCEPT ![q] = @ + sz[p]] ELSE sz
           /\ ptr' = [lk EXCEPT ![q] = IF down THEN lk[p] ELSE p]
           /\ avail' = (avail \cup (IF down THEN {} ELSE {p}))
                            \ (IF up THEN {nxt} ELSE {})
    /\ allocp' = q
    /\ more' = FALSE
    /\ IF more
          THEN /\ pc' = "search"
               /\ q' = allocp'
               /\ p' = ptr'[allocp']
          ELSE Return
    /\ UNCHANGED <<allocp1, nunits, bytes, old, asked>>

(* while(1); *)
Hung == pc = "hung" /\ UNCHANGED vars

-----------------------------------------------------------------------------
Internal == TakeAll \/ TakeTail \/ SearchNext \/ MoreCore \/ PlaceNext \/ Link

Next ==
    \/ \E n \in Requests : malloc(n)
    \/ \E n \in Requests, b \in used : realloc(b, n)
    \/ \E b \in Addr : free(b)
    \/ Internal
    \/ Hung

(* A procedure that was called goes on; nobody has to call one. *)
Spec == Init /\ [][Next]_vars /\ WF_vars(Internal)

-----------------------------------------------------------------------------
Blocks == avail \cup used \cup Moving
Ring == avail \cup {base}

TypeOK ==
    /\ ptr \in [Addr -> Addr \cup {Null}]
    /\ size \in [Addr -> Nat]
    /\ allocp \in Addr \cup {Null}
    /\ allocp1 \in 1 .. Top
    /\ pc \in {"idle", "search", "place", "hung"}
    /\ p \in Addr \cup {Null} /\ q \in Addr \cup {Null}
    /\ nunits \in Nat /\ bytes \in 0 .. W - 1
    /\ more \in BOOLEAN
    /\ old \in Addr \cup {Null}
    /\ avail \subseteq allocp1 .. Top - 1
    /\ used \subseteq allocp1 .. Top - 1
    /\ asked \in [used -> Requests]

(* The blocks handed out, the free ones and the one that free is putting   *)
(* back never share a unit, whatever splits and joins made them (malloc's  *)
(* "allocate tail end", free's two joins).  Freeing a pointer into free    *)
(* space never gets as far as the list: free's check stops it.  And a      *)
(* block handed out holds the bytes asked for below its end, except where  *)
(* their number wraps when malloc rounds it up: its user stays inside it.  *)
NoOverlap ==
    /\ \A a, b \in Blocks : a # b => a + size[a] <= b \/ b + size[b] <= a
    /\ \A b \in used : \/ size[b] * HDR >= asked[b] + HDR
                       \/ asked[b] > W - HDR

(* Every unit that sbrk has given is in some block: no split or join loses *)
(* memory.                                                                 *)
NothingLost ==
    \A u \in allocp1 .. Top - 1 :
        \E b \in Blocks : b <= u /\ u < b + size[b]

(* The free list is one ring through base and every free block in the      *)
(* order of the addresses, and malloc starts on it: the loop of free       *)
(* relies on it to find the neighbours.                                    *)
Ordered ==
    allocp # Null =>
        /\ allocp \in Ring
        /\ \A a \in Ring :
            \/ /\ ptr[a] \in avail /\ ptr[a] > a
               /\ \A r \in avail : ~(a < r /\ r < ptr[a])
            \/ /\ ptr[a] = base
               /\ \A r \in avail : r <= a

(* No two free blocks touch: free has joined them. *)
Coalesced == \A a, b \in avail : a + size[a] # b

(* The free list after any sequence of malloc, free and realloc: one ring  *)
(* in the order of the addresses, with nothing left to join in it.         *)
FreeListRight == Ordered /\ Coalesced

(* morecore is only called when no free block would do: the search starts  *)
(* behind allocp and has seen the whole ring when it is back there.        *)
MoreOnlyWhenNeeded ==
    [][allocp1' # allocp1 => \A b \in avail : size[b] < nunits]_vars

(* malloc, free and realloc come back, unless free stops on an error. *)
Terminates == pc \in {"search", "place"} ~> pc \in {"idle", "hung"}

=============================================================================
