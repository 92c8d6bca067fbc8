-------------------------------- MODULE Env --------------------------------
(***************************************************************************)
(* The environment: the variables the shell works with (pmon/common/env.c, *)
(* the commands set, eset and unset of pmon/cmds/cmd_env.c) and their      *)
(* permanent copy in a flash sector (pmon/dev/fl_nvram.c).                 *)
(*                                                                         *)
(* The two halves disagree on what a name is: env.c compares names without *)
(* regard to case, fl_nvram.c compares them exactly.  Every change of the  *)
(* permanent copy erases the sector and programs it again, and one set may *)
(* do that three times, so the power can fail with the sector erased or    *)
(* with the old value removed and the new one not yet written.             *)
(*                                                                         *)
(* A name is a spelling; Var gives the variable it spells.  Values that    *)
(* striequ calls equal are one value; they are numbers because chg_heaptop *)
(* orders the values of heaptop.                                           *)
(***************************************************************************)
EXTENDS Naturals, Sequences, FiniteSets

CONSTANTS
  Name,      \* spellings of variable names
  Var,       \* Var[n]: the spelling of stdenvtab, or a fixed one, of n's variable
  Std,       \* the standard variables, in the order of stdenvtab
  Default,   \* Default[s]: initial value of standard variable s
  Allowed,   \* Allowed[s]: the values standard variable s may be given
  Heaptop,   \* the standard variable with chgfunc chg_heaptop
  Expert,    \* the name that is never stored (EXPERT of pmon_target.h)
  HeapStart, \* top of the heap when the monitor starts (init_heaptop)
  Sysvars,   \* the pairs tgt_mapenv sets itself (memsize, cpuclock, ...)
  Factory,   \* contents the sector may have when the board is first started
  Value,     \* values of variables
  Typed,     \* what a user types after set: [name, value, temp]
  Long,      \* those too long for an entry of the sector (255 characters)
  NVAR,      \* slots of envvar
  Room       \* entries the sector has room for (NVRAM_SIZE)

Vars    == {Var[n] : n \in Name}
StdVars == {Std[i] : i \in 1 .. Len(Std)}
Slots   == 1 .. NVAR
NoVal   == 1000
Lost    == 1001
Pair    == [name : Name, value : Value]
Free    == [name |-> "", value |-> NoVal]

(* A sector: the checksum is right, the last entry is cut off by the end,  *)
(* the entries.                                                            *)
Sector  == [ok : BOOLEAN, cut : BOOLEAN, ents : Seq(Pair)]
Entries(q) == [ok |-> TRUE, cut |-> FALSE, ents |-> q]
Erased  == [ok |-> FALSE, cut |-> FALSE, ents |-> <<>>]
Distinct(ents) == \A i, j \in 1 .. Len(ents) : ents[i].name = ents[j].name => i = j

ASSUME EnvAssumption ==
  /\ "" \notin Name /\ Value \subseteq Nat /\ NoVal \notin Value /\ Lost \notin Value
  /\ Var \in [Name -> Name] /\ \A n \in Name : Var[Var[n]] = Var[n]
  /\ Std \in Seq(Vars) /\ \A i, j \in 1 .. Len(Std) : Std[i] = Std[j] => i = j
  /\ Default \in [StdVars -> Value] /\ Allowed \in [StdVars -> SUBSET Value]
  /\ \A s \in StdVars : Default[s] \in Allowed[s]
  /\ Typed \subseteq [name : Name, value : Value, temp : BOOLEAN]
  /\ Expert \in Name /\ Long \subseteq Value
  /\ Heaptop \in StdVars /\ HeapStart \in Value
  /\ Sysvars \in Seq(Pair) /\ Factory \subseteq Sector
  /\ \A nv \in Factory : Len(nv.ents) <= Room /\ Distinct(nv.ents)
  /\ NVAR \in Nat \ {0} /\ Room \in Nat \ {0}

VARIABLES
  envvar,         \* [Slots -> Pair or Free]
  heaptop,        \* top of the heap, as chg_heaptop moves it
  nvram,          \* the sector
  nvram_invalid,  \* tgt_mapenv found the sector unusable
  up,             \* the monitor runs
  stored,         \* value last saved for each variable, NoVal if none is owed,
                  \* Lost since the sector was lost with all it held
  removed,        \* variables whose permanent value was removed, not set since
  respelled       \* variables ever set or unset by another spelling than Var

vars == <<envvar, heaptop, nvram, nvram_invalid, up, stored, removed, respelled>>

Nothing    == [v \in Vars |-> NoVal]
Everything == [v \in Vars |-> Lost]
Named(ents) == {Var[ents[i].name] : i \in 1 .. Len(ents)}
Spelled(ents) == {Var[ents[i].name] : i \in {j \in 1 .. Len(ents) : ents[j].name # Var[ents[j].name]}}

TypeOK ==
  /\ envvar \in [Slots -> Pair \cup {Free}]
  /\ heaptop \in Value
  /\ nvram \in Sector /\ Len(nvram.ents) <= Room
  /\ nvram_invalid \in BOOLEAN /\ up \in BOOLEAN
  /\ stored \in [Vars -> Value \cup {NoVal, Lost}]
  /\ removed \subseteq Vars /\ respelled \subseteq Vars

Init ==
  /\ envvar = [i \in Slots |-> Free]
  /\ heaptop = HeapStart
  /\ nvram \in Factory
  /\ nvram_invalid = FALSE
  /\ up = FALSE
  /\ stored = Nothing
  /\ removed = {}
  /\ respelled = Spelled(nvram.ents)

-----------------------------------------------------------------------------
(* The copy in memory.                                                     *)

Matches(e, name) == {i \in Slots : e[i].name # "" /\ Var[e[i].name] = Var[name]}
First(S) == CHOOSE i \in S : \A j \in S : i <= j

getenv(e, name) == IF Matches(e, name) = {} THEN NoVal ELSE e[First(Matches(e, name))].value

(* The standard variable refuses the value: chg_heaptop only moves the top *)
(* up; the list of allowed values counts once envinit is done.             *)
Refused(h, name, value, envinited) ==
  /\ Var[name] \in StdVars
  /\ \/ Var[name] = Heaptop /\ value < h
     \/ value \notin Allowed[Var[name]] /\ envinited

(* _setenv on memory e and heap top h: both, and whether it succeeded.     *)
_setenv(e, h, name, value, envinited) ==
  LET match == Matches(e, name)
      free  == {i \in Slots : e[i].name = ""}
      h1    == IF Var[name] = Heaptop /\ value >= h THEN value ELSE h
  IN  IF Refused(h, name, value, envinited) THEN [env |-> e, top |-> h1, ok |-> FALSE]
      ELSE IF match # {}
        THEN [env |-> [e EXCEPT ![First(match)].value = value], top |-> h1, ok |-> TRUE]
      ELSE IF free # {}
        THEN [env |-> [e EXCEPT ![First(free)] = [name |-> name, value |-> value]],
              top |-> h1, ok |-> TRUE]
      ELSE [env |-> e, top |-> h1, ok |-> FALSE]

-----------------------------------------------------------------------------
(* The copy in flash.  An operation yields the sector it leaves, what it   *)
(* returns and every content the sector has on the way.                    *)

Same(nv, inv, r) == [nv |-> nv, inv |-> inv, ret |-> r, way |-> {nv}]

tgt_unsetenv(nv, inv, name) ==
  LET hit  == {i \in 1 .. Len(nv.ents) : nv.ents[i].name = name}
      i    == First(hit)
      rest == Entries(SubSeq(nv.ents, 1, i - 1) \o SubSeq(nv.ents, i + 1, Len(nv.ents)))
  IN  IF inv \/ hit = {} THEN Same(nv, inv, 0)
      ELSE [nv |-> rest, inv |-> inv, ret |-> 1, way |-> {nv, Erased, rest}]

(* Mutant: every new entry goes to the front.                              *)
Added_front(ents, name, value) == <<[name |-> name, value |-> value]>> \o ents

(* heaptop goes to the front, since it changes how memory is allocated.    *)
Added(ents, name, value) ==
  LET p == [name |-> name, value |-> value]
  IN  IF name = Heaptop THEN <<p>> \o ents ELSE Append(ents, p)

(* Mutant: an old entry of the same name is left in the sector.            *)
tgt_setenv_twice(nv, inv, name, value) ==
  LET nv0  == IF inv THEN Entries(<<>>) ELSE nv
      ents == Added(nv0.ents, name, value)
      new  == IF Len(ents) <= Room THEN Entries(ents)
              ELSE [ok |-> TRUE, cut |-> TRUE, ents |-> SubSeq(ents, 1, Room)]
  IN  IF name = Expert THEN Same(nv, inv, 1)
      ELSE IF value \in Long THEN Same(nv, inv, 0)
      ELSE [nv |-> new, inv |-> FALSE, ret |-> 1, way |-> {nv, Erased, nv0, new}]

(* Mutant: an entry too many is programmed past the end of the sector.     *)
tgt_setenv_past(nv, inv, name, value) ==
  LET nv0  == IF inv THEN Entries(<<>>) ELSE nv
      uns  == tgt_unsetenv(nv0, FALSE, name)
      new  == Entries(Added(uns.nv.ents, name, value))
  IN  IF name = Expert THEN Same(nv, inv, 1)
      ELSE IF value \in Long THEN Same(nv, inv, 0)
      ELSE [nv |-> new, inv |-> FALSE, ret |-> 1,
            way |-> {nv, Erased, nv0, new} \cup uns.way]

(* The test for room compares the size of the whole buffer with one entry  *)
(* and never fails: an entry too many is cut off at the end of the sector. *)
tgt_setenv(nv, inv, name, value) ==
  LET nv0  == IF inv THEN Entries(<<>>) ELSE nv
      uns  == tgt_unsetenv(nv0, FALSE, name)
      ents == Added(uns.nv.ents, name, value)
      new  == IF Len(ents) <= Room THEN Entries(ents)
              ELSE [ok |-> TRUE, cut |-> TRUE, ents |-> SubSeq(ents, 1, Room)]
  IN  IF name = Expert THEN Same(nv, inv, 1)
      ELSE IF value \in Long THEN Same(nv, inv, 0)
      ELSE [nv |-> new, inv |-> FALSE, ret |-> 1,
            way |-> {nv, Erased, nv0, new} \cup uns.way]

-----------------------------------------------------------------------------
(* Both copies: the state an operation leaves, with ret and way as above.  *)

State(e, h, f) == [env |-> e, top |-> h, nv |-> f.nv, inv |-> f.inv,
                   ret |-> f.ret, way |-> f.way]

IsDefault(name, value) == Var[name] \in StdVars /\ value = Default[Var[name]]

(* Mutant: a value equal to the default leaves the stored one alone.       *)
do_setenv_keep(e, h, nv, inv, name, value, temp) ==
  LET s == _setenv(e, h, name, value, TRUE)
  IN  State(s.env, s.top,
            CASE ~s.ok -> Same(nv, inv, 0)
              [] s.ok /\ ~IsDefault(name, value) /\ ~temp -> tgt_setenv(nv, inv, name, value)
              [] OTHER -> Same(nv, inv, 1))

(* Mutant: a value equal to the default is stored like any other.          *)
do_setenv_store(e, h, nv, inv, name, value, temp) ==
  LET s == _setenv(e, h, name, value, TRUE)
  IN  State(s.env, s.top,
            CASE ~s.ok -> Same(nv, inv, 0)
              [] s.ok /\ ~temp -> tgt_setenv(nv, inv, name, value)
              [] OTHER -> Same(nv, inv, 1))

do_setenv(e, h, nv, inv, name, value, temp) ==
  LET s == _setenv(e, h, name, value, TRUE)
  IN  State(s.env, s.top,
            CASE ~s.ok -> Same(nv, inv, 0)
              [] s.ok /\ IsDefault(name, value) -> tgt_unsetenv(nv, inv, name)
              [] s.ok /\ ~IsDefault(name, value) /\ ~temp -> tgt_setenv(nv, inv, name, value)
              [] OTHER -> Same(nv, inv, 1))

(* Mutant: standard variables are deleted like any other.                  *)
unsetenv_plain(e, h, nv, inv, name) ==
  LET hit == {i \in Slots : e[i].name = name}
  IN  IF hit = {} THEN State(e, h, Same(nv, inv, 0))
      ELSE State([e EXCEPT ![First(hit)] = Free], h, tgt_unsetenv(nv, inv, name))

(* unsetenv of a name without wildcards: strpat matches it exactly.        *)
unsetenv(e, h, nv, inv, name) ==
  LET hit == {i \in Slots : e[i].name = name}
  IN  IF hit = {} THEN State(e, h, Same(nv, inv, 0))
      ELSE IF Var[name] \in StdVars
        THEN do_setenv(e, h, nv, inv, Var[name], Default[Var[name]], FALSE)
      ELSE State([e EXCEPT ![First(hit)] = Free], h, tgt_unsetenv(nv, inv, name))

(* What _setenv makes, pair after pair, of a memory that is blank.         *)
Blank == [env |-> [i \in Slots |-> Free], top |-> HeapStart, ok |-> TRUE]
Mapped(pairs) ==
  LET mapped[i \in 0 .. Len(pairs)] ==
        IF i = 0 THEN Blank
        ELSE _setenv(mapped[i - 1].env, mapped[i - 1].top,
                     pairs[i].name, pairs[i].value, FALSE)
  IN  mapped

(* A standard variable that is not set gets its default through setenv.    *)
WithDefault(f, name) ==
  LET g == do_setenv(f.env, f.top, f.nv, f.inv, name, Default[Var[name]], FALSE)
  IN  IF getenv(f.env, name) # NoVal THEN f ELSE [g EXCEPT !.way = @ \cup f.way]

Filled(start) ==
  LET filled[i \in 0 .. Len(Std)] ==
        IF i = 0 THEN start ELSE WithDefault(filled[i - 1], Std[i])
  IN  filled

(* tgt_mapenv reads the sector in order, if its checksum is right, and     *)
(* adds its own variables.                                                 *)
Pairs(nv) == (IF nv.ok THEN nv.ents ELSE <<>>) \o Sysvars
tgt_mapenv(nv) ==
  LET m == Mapped(Pairs(nv))[Len(Pairs(nv))]
  IN  State(m.env, m.top, Same(nv, ~nv.ok \/ nv.cut, 1))

(* Then come the defaults.                                                 *)
envinit(nv) == Filled(tgt_mapenv(nv))[Len(Std)]

-----------------------------------------------------------------------------
(* The commands.                                                           *)

Apply(s) ==
  /\ envvar' = s.env /\ heaptop' = s.top
  /\ nvram' = s.nv /\ nvram_invalid' = s.inv

(* Memory is lost; at the next start it is as the loader leaves it.        *)
Off ==
  /\ envvar' = [i \in Slots |-> Free] /\ heaptop' = HeapStart
  /\ nvram_invalid' = FALSE
  /\ up' = FALSE

Respelled(name) == respelled' = IF name = Var[name] THEN respelled
                                ELSE respelled \cup {Var[name]}

(* A set that reported success owes its value to the next start; setting   *)
(* the default, like unset, owes the absence of a stored value.  With a    *)
(* sector that tgt_mapenv found unusable and this set starts anew, and     *)
(* with one that runs over, goes what was saved of every other variable.   *)
Owed(s, v, name, value, temp) ==
  LET saves == ~IsDefault(name, value) /\ ~temp /\ name # Expert
      wiped == nvram_invalid /\ ~s.inv
  IN  /\ stored' = [IF wiped \/ s.nv.cut THEN Everything ELSE stored EXCEPT ![v] =
                      IF s.ret = 1 /\ saves /\ ~s.nv.cut THEN value
                      ELSE IF s.nv = nvram THEN @ ELSE NoVal]
      /\ removed' = IF s.ret = 1 /\ IsDefault(name, value) THEN removed \cup {v}
                    ELSE IF s.nv = nvram THEN removed ELSE removed \ {v}
      /\ Respelled(name)

(* set [-t] name value.  An entry that does not fit has run over the end   *)
(* of the buffer on the stack: the monitor does not survive it.            *)
cmd_set(name, value, temp) ==
  LET s == do_setenv(envvar, heaptop, nvram, nvram_invalid, name, value, temp)
  IN  /\ up
      /\ IF s.nv.cut /\ ~nvram.cut THEN Off /\ nvram' = s.nv
         ELSE Apply(s) /\ UNCHANGED up
      /\ Owed(s, Var[name], name, value, temp)

(* eset [-t] name, with value typed in: only a variable that is set, and   *)
(* only if the value is a new one.                                         *)
cmd_eset(name, value, temp) ==
  /\ getenv(envvar, name) \notin {NoVal, value}
  /\ cmd_set(name, value, temp)

(* unset name, of a variable that is set; nothing is reported of what      *)
(* unsetenv did, and in another spelling than the slot's it does nothing.   *)
cmd_unset(name) ==
  LET s == unsetenv(envvar, heaptop, nvram, nvram_invalid, name)
      v == Var[name]
  IN  /\ up
      /\ getenv(envvar, name) # NoVal
      /\ Apply(s)
      /\ stored' = IF s.nv = nvram THEN stored ELSE [stored EXCEPT ![v] = NoVal]
      /\ removed' = removed \cup {w \in {v} : \E i \in Slots : envvar[i].name = name}
      /\ Respelled(name)
      /\ UNCHANGED up

-----------------------------------------------------------------------------
(* Starts and power failures.                                              *)

Boot ==
  LET s == envinit(nvram)
  IN  /\ ~up
      /\ Apply(s)
      /\ up' = TRUE
      /\ UNCHANGED <<stored, removed, respelled>>

(* The power fails while an operation that would leave s is at work: the   *)
(* sector has one of the contents on its way.  Nothing is owed any more    *)
(* for the variable v it was about.  If the sector was caught erased, or   *)
(* was unusable and to be started anew, all that was ever saved is lost:   *)
(* fl_nvram.c has no second copy of it.                                    *)
PowerFails(s, v) ==
  /\ nvram' \in s.way
  /\ LET whole == nvram' = Erased \/ nvram_invalid
     IN  /\ stored' = [IF whole THEN Everything ELSE stored EXCEPT ![v] = NoVal]
         /\ removed' = IF whole THEN {} ELSE removed \ {v}
  /\ Off

PowerFailsInSet(name, value, temp) ==
  /\ up
  /\ PowerFails(do_setenv(envvar, heaptop, nvram, nvram_invalid, name, value, temp), Var[name])
  /\ ~nvram'.cut
  /\ Respelled(name)

PowerFailsInUnset(name) ==
  /\ up
  /\ PowerFails(unsetenv(envvar, heaptop, nvram, nvram_invalid, name), Var[name])
  /\ Respelled(name)

PowerFailsInBoot ==
  /\ ~up
  /\ PowerFails(envinit(nvram), Heaptop)
  /\ UNCHANGED respelled

(* The board is switched off or reset at the prompt.                       *)
PowerOff ==
  /\ up
  /\ Off
  /\ UNCHANGED <<nvram, stored, removed, respelled>>

Next ==
  \/ \E t \in Typed :
       \/ cmd_set(t.name, t.value, t.temp)
       \/ cmd_eset(t.name, t.value, t.temp)
       \/ PowerFailsInSet(t.name, t.value, t.temp)
       \/ cmd_unset(t.name)
       \/ PowerFailsInUnset(t.name)
  \/ Boot
  \/ PowerFailsInBoot
  \/ PowerOff

Spec == Init /\ [][Next]_vars

-----------------------------------------------------------------------------
(* Properties.                                                             *)

(* What the next start would make of the sector.                           *)
Restarted == envinit(nvram)

(* A set that succeeded survives a restart, unless the whole sector is     *)
(* lost: the value saved last is the value the next start finds, whatever  *)
(* was set or unset for other variables in between, wherever else the      *)
(* power failed in it, and in whatever spelling (do_setenv and tgt_setenv  *)
(* against tgt_mapenv and _setenv).  What a power failure costs is then    *)
(* all or one: every variable, whichever was being set or unset, with the  *)
(* sector erased and not yet programmed (fl_nvram.c:189-193, 319-322); at  *)
(* any other moment that one variable and no other.  Every variable is     *)
(* lost, too, by a set that runs over the end of the sector.  The sector   *)
(* may hold more variables than envvar has slots once an unset has left an *)
(* entry behind in another spelling; the last ones are then lost.          *)
SetSurvives ==
  LET e == Restarted.env
  IN  Cardinality(Named(nvram.ents)) <= NVAR =>
        \A v \in Vars : stored[v] \notin {NoVal, Lost} => getenv(e, v) = stored[v]

(* env.c: "set to default: remove from non-volatile ram" and "normal user  *)
(* variable: delete it".  A variable that was removed is not back after a  *)
(* restart (heaptop aside: chg_heaptop never moves it back).               *)
FreshEnv == envinit(Entries(<<>>)).env
Gone(S) == LET e == Restarted.env
           IN  \A v \in S \ {Heaptop} : getenv(e, v) \in {getenv(FreshEnv, v), NoVal}
RemovedStaysRemoved == Gone(removed)

(* The same for variables that were only ever given one spelling.  A       *)
(* sector that ran over is never written to remove an entry (tgt_unsetenv  *)
(* returns when nvram_invalid is set), only wiped by the next one stored.  *)
RemovedOnce == ~nvram.cut => Gone(removed \ respelled)

(* One slot per variable, so that getenv, set and unset mean the same one, *)
(* and one entry per spelling, so that tgt_unsetenv, which removes one     *)
(* entry, removes the spelling (_setenv, tgt_setenv).                      *)
NoDuplicates ==
  /\ \A i, j \in Slots : envvar[i].name # "" /\ envvar[j].name # ""
                         /\ Var[envvar[i].name] = Var[envvar[j].name] => i = j
  /\ Distinct(nvram.ents)

(* Starting twice is starting once: the second start finds the same        *)
(* environment and writes nothing (envinit).                               *)
StartStable ==
  LET once  == Restarted
      again == envinit(once.nv)
  IN  again.env = once.env /\ again.nv = once.nv

(* pmon_stop and others use getenv of a standard variable without a test:  *)
(* while the monitor runs each has a value, however full envvar is.  This  *)
(* takes one spelling per variable: an entry left behind under another     *)
(* spelling can take a standard variable's slot at the next start; and it  *)
(* takes a user who leaves the board's own variables (Sysvars) alone.      *)
(* heaptop has none if the heap starts above its default.                  *)
StdAlwaysSet ==
  up /\ respelled = {} =>
    \A s \in StdVars : \/ getenv(envvar, s) # NoVal
                       \/ s = Heaptop /\ Default[Heaptop] < HeapStart

(* The user sets and unsets no variable that tgt_mapenv sets itself.       *)
LeavesBoardAlone == \A t \in Typed : Var[t.name] \notin Named(Sysvars)

(* The slots are enough for what the board is first started with.          *)
FactoryFits ==
  \A nv \in Factory : Cardinality(Named(nv.ents) \cup Named(Sysvars) \cup StdVars) <= NVAR
=============================================================================
