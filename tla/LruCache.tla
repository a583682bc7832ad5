------------------------------ MODULE LruCache ------------------------------
(***************************************************************************)
(* cache_t, the cache model of the performance simulator.  A row keeps one *)
(* number, the state of a generated finite state machine, in place of an   *)
(* LRU order: state s has Ways entries, Fsm[s + 1] .. Fsm[s + Ways], that  *)
(* name the ways from the most to the least recently used, and for each    *)
(* the state to move to when that way is used.                             *)
(***************************************************************************)
EXTENDS Naturals, Sequences, FiniteSets, SequencesExt

CONSTANTS Ways,      \* associativity
          Rows,      \* number of rows
          Lines,     \* line numbers, addresses shifted right by lg_line
          Fsm,       \* lru_fsm_t array without its entry 0, the header
          MaxRefs    \* bound: lookups in a behaviour

States(f) == {s \in 0 .. Len(f) - Ways : s % Ways = 0}

\* The ways in the order state s of machine f looks them up.
Order(f, s) == [i \in 1 .. Ways |-> f[s + i].way]

\* Order o after its i-th way is used: that way first, the others as before.
Used(o, i) == [j \in 1 .. Ways |-> IF j = 1 THEN o[i]
                                   ELSE IF j <= i THEN o[j-1] ELSE o[j]]

\* Every state lists every way once; using one moves it to the front.
IsLru(f) ==
  /\ 0 \in States(f)
  /\ \A s \in States(f) :
       /\ {f[s + i].way : i \in 1 .. Ways} = 0 .. Ways - 1
       /\ \A i \in 1 .. Ways :
            LET t == f[s + i].next_state
            IN  t \in States(f) /\ Order(f, t) = Used(Order(f, s), i)

ASSUME CacheAssumption ==
  /\ Ways \in Nat \ {0} /\ Rows \in Nat \ {0} /\ MaxRefs \in Nat
  /\ Lines \subseteq Nat \ {0}     \* nothing is mapped at the lowest addresses

ASSUME FsmAssumption == IsLru(Fsm)

VARIABLES fsm,        \* the machine the constructor chose for Ways
          tags,       \* tag_t* tags[ways][rows]
          states,     \* LRU state of each row
          evicted,    \* what the evicted pointer's target holds
          refs, misses, updates, evictions

vars == <<fsm, tags, states, evicted, refs, misses, updates, evictions>>

AllRows == 0 .. Rows - 1
AllWays == 0 .. Ways - 1
RowOf(addr) == addr % Rows       \* addr & row_mask, Rows a power of two

\* After the constructor's flush(): every tag holds line 0, clean.
Init ==
  /\ fsm \in {Fsm}
  /\ tags = [k \in AllWays |-> [r \in AllRows |-> [dirty |-> FALSE, addr |-> 0]]]
  /\ states = [r \in AllRows |-> 0]
  /\ evicted = 0
  /\ refs = 0 /\ misses = 0 /\ updates = 0 /\ evictions = 0

\* The way at place i of row r's search order.
Way(r, i) == fsm[states[r] + i].way

\* Mutant of Matches: the search starts one entry late.
MatchesLate(addr, r) == {i \in 2 .. Ways : tags[Way(r, i)][r].addr = addr}

\* The places in the search order at which row r holds addr.
Matches(addr, r) == {i \in 1 .. Ways : tags[Way(r, i)][r].addr = addr}

\* cache_hit: move the LRU state, and mark a written line.
Finish(addr, i, tag, write) ==
  LET r == RowOf(addr)
  IN  /\ states' = [states EXCEPT ![r] = fsm[@ + i].next_state]
      /\ tags' = [tags EXCEPT ![Way(r, i)][r] =
                    [addr |-> tag.addr, dirty |-> tag.dirty \/ write]]
      /\ updates' = updates + (IF write THEN 1 ELSE 0)
      /\ refs < MaxRefs /\ refs' = refs + 1
      /\ UNCHANGED fsm

\* The search stops at the first match.
LookupHit(addr, write) ==
  LET r == RowOf(addr) IN
    \E i \in Matches(addr, r) :
      /\ \A j \in Matches(addr, r) : i <= j
      /\ Finish(addr, i, tags[Way(r, i)][r], write)
      /\ UNCHANGED <<evicted, misses, evictions>>

\* Mutants of LookupMiss: a replaced line stays dirty; the most recently used
\* way is replaced.
LookupMissStaysDirty(addr, write) ==
  LET r      == RowOf(addr)
      victim == tags[Way(r, Ways)][r]
  IN  /\ Matches(addr, r) = {}
      /\ misses' = misses + 1
      /\ evicted' = IF victim.dirty THEN addr ELSE 0
      /\ evictions' = evictions + (IF victim.dirty THEN 1 ELSE 0)
      /\ Finish(addr, Ways, [addr |-> addr, dirty |-> victim.dirty], write)

LookupMissNewest(addr, write) ==
  LET r      == RowOf(addr)
      victim == tags[Way(r, 1)][r]
  IN  /\ Matches(addr, r) = {}
      /\ misses' = misses + 1
      /\ evicted' = IF victim.dirty THEN addr ELSE 0
      /\ evictions' = evictions + (IF victim.dirty THEN 1 ELSE 0)
      /\ Finish(addr, 1, [addr |-> addr, dirty |-> FALSE], write)

\* The search has run to the last entry, the least recently used way.  Its
\* address is overwritten before it is reported in *evicted.
LookupMiss(addr, write) ==
  LET r      == RowOf(addr)
      victim == tags[Way(r, Ways)][r]
  IN  /\ Matches(addr, r) = {}
      /\ misses' = misses + 1
      /\ evicted' = IF victim.dirty THEN addr ELSE 0
      /\ evictions' = evictions + (IF victim.dirty THEN 1 ELSE 0)
      /\ Finish(addr, Ways, [addr |-> addr, dirty |-> FALSE], write)

Lookup(addr, write) == LookupHit(addr, write) \/ LookupMiss(addr, write)

Next == \E addr \in Lines, write \in BOOLEAN : Lookup(addr, write)
Spec == Init /\ [][Next]_vars
-----------------------------------------------------------------------------
Tags == [dirty : BOOLEAN, addr : Lines \cup {0}]

TypeOK ==
  /\ tags \in [AllWays -> [AllRows -> Tags]]
  /\ states \in [AllRows -> States(fsm)]
  /\ evicted \in Lines \cup {0}
  /\ refs \in Nat /\ misses \in Nat /\ updates \in Nat /\ evictions \in Nat

(***************************************************************************)
(* A line is in at most one way, and only in its own row: the search, and  *)
(* the choice of the last entry on a miss, never leave a second copy.      *)
(***************************************************************************)
OneCopy ==
  \A r \in AllRows, j, k \in AllWays :
    LET a == tags[j][r].addr
    IN  a # 0 => /\ RowOf(a) = r
                 /\ tags[k][r].addr = a => j = k

(***************************************************************************)
(* Every write is in a line still dirty or was written back with one: no   *)
(* more lines are written back or waiting for it than were written, and    *)
(* only misses write lines back.                                           *)
(***************************************************************************)
DirtyTags == {d \in AllWays \X AllRows : tags[d[1]][d[2]].dirty}
WritesAccounted ==
  /\ evictions + Cardinality(DirtyTags) <= updates
  /\ evictions <= misses /\ misses <= refs

(***************************************************************************)
(* The generated state machine is LRU: the rows hold what LruStack holds,  *)
(* in its order, and hits, misses and write-backs happen when it says.     *)
(***************************************************************************)
Line(r, i)  == tags[Way(r, i)][r].addr
Filled(r)   == {i \in 1 .. Ways : Line(r, i) # 0}
RowLines(r) == [i \in 1 .. Cardinality(Filled(r)) |-> Line(r, i)]
Stack == [r \in AllRows |-> RowLines(r)]
DirtyLines == {tags[d[1]][d[2]].addr : d \in DirtyTags}

Lru == INSTANCE LruStack WITH stack <- Stack, dirty <- DirtyLines
LruSpec == Lru!Spec
=============================================================================
