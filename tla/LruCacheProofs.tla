--------------------------- MODULE LruCacheProofs ---------------------------
(***************************************************************************)
(* For any associativity, any number of rows and any table that is an LRU  *)
(* machine: a line is never in two ways, write-backs are accounted for,    *)
(* and the cache implements LruStack, whose rows are stacks of lines.      *)
(***************************************************************************)
EXTENDS LruCache, FiniteSetTheorems, SequenceTheorems, TLAPS

\* The step that ends every lookup leaves the cache's shape intact.
LEMMA RowType == \A a \in Nat : RowOf(a) \in AllRows
  BY CacheAssumption, SMT DEF RowOf, AllRows

\* What the table gives for a state it may be in.
LEMMA FsmEntry ==
  \A s \in States(Fsm), i \in 1 .. Ways :
    /\ Fsm[s + i].way \in AllWays
    /\ Fsm[s + i].next_state \in States(Fsm)
  BY FsmAssumption DEF IsLru, AllWays

\* The search order visits every way.
LEMMA FsmCovers ==
  \A s \in States(Fsm), k \in AllWays : \E i \in 1 .. Ways : Fsm[s + i].way = k
<1> SUFFICES ASSUME NEW s \in States(Fsm), NEW k \in AllWays
             PROVE  \E i \in 1 .. Ways : Fsm[s + i].way = k
  OBVIOUS
<1>1. k \in {Fsm[s + i].way : i \in 1 .. Ways}
  BY FsmAssumption DEF IsLru, AllWays
<1>2. QED
  BY <1>1

\* The cache's types, and the machine that the constructor chose stays in place.
Typed == TypeOK /\ fsm = Fsm

(***************************************************************************)
(* A lookup only rewrites one tag of its row: on a hit with the address it *)
(* held, on a miss with one that no way of the row holds.                  *)
(***************************************************************************)
LEMMA LookupShape ==
  ASSUME Typed, NEW addr \in Lines, NEW write \in BOOLEAN, Lookup(addr, write)
  PROVE  /\ Typed'
         /\ \E k \in AllWays, d \in BOOLEAN :
              /\ tags' = [tags EXCEPT ![k][RowOf(addr)] =
                            [addr |-> addr, dirty |-> d]]
              /\ \/ tags[k][RowOf(addr)].addr = addr
                 \/ \A j \in AllWays : tags[j][RowOf(addr)].addr # addr
<1> DEFINE r == RowOf(addr)
<1>1. r \in AllRows /\ addr \in Nat \ {0}
  BY RowType, CacheAssumption
<1>2. /\ fsm = Fsm /\ states[r] \in States(Fsm)
      /\ \A i \in 1 .. Ways : Way(r, i) \in AllWays
  BY <1>1, FsmEntry DEF Typed, TypeOK, Way
<1>3. ASSUME NEW i \in 1 .. Ways, NEW t \in Tags, Finish(addr, i, t, write)
      PROVE  /\ fsm' = Fsm /\ states' \in [AllRows -> States(Fsm)]
             /\ tags' \in [AllWays -> [AllRows -> Tags]]
             /\ refs' \in Nat /\ updates' \in Nat
             /\ tags' = [tags EXCEPT ![Way(r, i)][r] =
                           [addr |-> t.addr, dirty |-> t.dirty \/ write]]
  <2>1. Fsm[states[r] + i].next_state \in States(Fsm)
    BY <1>2, FsmEntry
  <2>2. [addr |-> t.addr, dirty |-> t.dirty \/ write] \in Tags
    BY DEF Tags
  <2>3. QED
    BY <1>1, <1>2, <1>3, <2>1, <2>2 DEF Finish, Typed, TypeOK
<1>4. CASE LookupHit(addr, write)
  <2>1. PICK i \in Matches(addr, r) :
          /\ Finish(addr, i, tags[Way(r, i)][r], write)
          /\ UNCHANGED <<evicted, misses, evictions>>
    BY <1>4 DEF LookupHit
  <2>2. i \in 1 .. Ways /\ tags[Way(r, i)][r].addr = addr
    BY DEF Matches
  <2>3. tags[Way(r, i)][r] \in Tags
    BY <1>1, <1>2, <2>2 DEF Typed, TypeOK
  <2>4. QED
    BY <1>2, <1>3, <2>1, <2>2, <2>3 DEF Typed, TypeOK, Tags
<1>5. CASE LookupMiss(addr, write)
  <2>1. Ways \in 1 .. Ways
    BY CacheAssumption
  <2> DEFINE t == [addr |-> addr, dirty |-> FALSE]
  <2>2. t \in Tags /\ t.addr = addr
    BY DEF Tags
  <2>3. /\ Finish(addr, Ways, t, write) /\ misses' = misses + 1
        /\ evicted' = IF tags[Way(r, Ways)][r].dirty THEN addr ELSE 0
        /\ evictions' = evictions + (IF tags[Way(r, Ways)][r].dirty THEN 1 ELSE 0)
    BY <1>5 DEF LookupMiss
  <2>4. misses' \in Nat /\ evictions' \in Nat /\ evicted' \in Lines \cup {0}
    BY <2>3 DEF Typed, TypeOK
  <2>5. \A j \in AllWays : tags[j][r].addr # addr
    BY <1>2, <1>5, FsmCovers DEF LookupMiss, Matches, Way
  <2>6. /\ fsm' = Fsm /\ states' \in [AllRows -> States(Fsm)]
        /\ tags' \in [AllWays -> [AllRows -> Tags]]
        /\ refs' \in Nat /\ updates' \in Nat
        /\ tags' = [tags EXCEPT ![Way(r, Ways)][r] =
                      [addr |-> addr, dirty |-> FALSE \/ write]]
    BY <1>3, <2>1, <2>2, <2>3
  <2>7. QED
    BY <1>2, <2>1, <2>4, <2>5, <2>6 DEF Typed, TypeOK
<1>6. QED
  BY <1>4, <1>5 DEF Lookup

\* Types hold throughout, with the machine the constructor chose.
LEMMA AlwaysTyped == Spec => []Typed
<1>1. Init => Typed
  <2>1. 0 \in States(Fsm)
    BY FsmAssumption DEF IsLru
  <2>2. QED
    BY <2>1 DEF Init, Typed, TypeOK, Tags
<1>2. Typed /\ [Next]_vars => Typed'
  BY LookupShape DEF Next, vars, Typed, TypeOK
<1>3. QED
  BY <1>1, <1>2, PTL DEF Spec

(***************************************************************************)
(* No line is ever in two ways of its row, nor in another row, whatever is *)
(* looked up or written.                                                   *)
(***************************************************************************)
THEOREM OneCopySafe == Spec => []OneCopy
<1>1. Init => OneCopy
  BY DEF Init, OneCopy
<1>2. Typed /\ OneCopy /\ [Next]_vars => OneCopy'
  <2> SUFFICES ASSUME Typed, OneCopy, [Next]_vars PROVE OneCopy'
    OBVIOUS
  <2>1. ASSUME NEW addr \in Lines, NEW write \in BOOLEAN, Lookup(addr, write)
        PROVE  OneCopy'
    <3>1. PICK k \in AllWays, d \in BOOLEAN :
            /\ tags' = [tags EXCEPT ![k][RowOf(addr)] =
                          [addr |-> addr, dirty |-> d]]
            /\ \/ tags[k][RowOf(addr)].addr = addr
               \/ \A j \in AllWays : tags[j][RowOf(addr)].addr # addr
      BY <2>1, LookupShape
    <3>2. RowOf(addr) \in AllRows
      BY RowType, CacheAssumption
    <3>3. \A j \in AllWays, r \in AllRows :
            tags'[j][r].addr = IF j = k /\ r = RowOf(addr) THEN addr
                               ELSE tags[j][r].addr
      BY <3>1, <3>2 DEF Typed, TypeOK
    <3>4. QED
      BY <3>1, <3>2, <3>3 DEF OneCopy
  <2>2. CASE UNCHANGED vars
    BY <2>2 DEF vars, OneCopy
  <2>3. QED
    BY <2>1, <2>2 DEF Next
<1>3. QED
  BY <1>1, <1>2, AlwaysTyped, PTL DEF Spec

\* A row's state is always one of the machine's, whatever is looked up.
THEOREM CacheTypes == Spec => []TypeOK
<1>1. Typed => TypeOK
  BY DEF Typed
<1>2. QED
  BY AlwaysTyped, <1>1, PTL

(***************************************************************************)
(* How the number of dirty tags changes when one tag is rewritten.         *)
(***************************************************************************)
LEMMA DirtyChange ==
  ASSUME Typed, NEW k \in AllWays, NEW r \in AllRows, NEW a, NEW d \in BOOLEAN,
         tags' = [tags EXCEPT ![k][r] = [addr |-> a, dirty |-> d]]
  PROVE  LET n == Cardinality(DirtyTags)
             m == Cardinality(DirtyTags')
         IN  /\ n \in Nat /\ m \in Nat
             /\ tags[k][r].dirty => n > 0
             /\ m = n - (IF tags[k][r].dirty THEN 1 ELSE 0) + (IF d THEN 1 ELSE 0)
<1> DEFINE x == <<k, r>>
           D == DirtyTags
           R == D \ {x}
<1>1. IsFiniteSet(D)
  <2>1. IsFiniteSet(AllWays) /\ IsFiniteSet(AllRows)
    <3>1. Ways - 1 \in Int /\ Rows - 1 \in Int /\ 0 \in Int
      BY CacheAssumption
    <3>2. QED
      BY <3>1, FS_Interval, Zenon DEF AllWays, AllRows
  <2>2. IsFiniteSet(AllWays \X AllRows)
    BY <2>1, FS_Product
  <2>3. QED
    BY <2>2, FS_Subset DEF DirtyTags
<1>2. /\ \A j \in AllWays, q \in AllRows :
           tags'[j][q].dirty = IF j = k /\ q = r THEN d ELSE tags[j][q].dirty
      /\ \A j \in AllWays, q \in AllRows : <<j, q>> = x <=> j = k /\ q = r
  BY DEF Typed, TypeOK
<1>3. DirtyTags' = IF d THEN R \cup {x} ELSE R
  <2>1. CASE d
    <3>1. DirtyTags' = {y \in AllWays \X AllRows : tags'[y[1]][y[2]].dirty}
      BY DEF DirtyTags
    <3>2. \A y \in AllWays \X AllRows :
            tags'[y[1]][y[2]].dirty <=> y = x \/ tags[y[1]][y[2]].dirty
      <4> SUFFICES ASSUME NEW j \in AllWays, NEW q \in AllRows
                   PROVE  tags'[j][q].dirty <=> <<j, q>> = x \/ tags[j][q].dirty
        OBVIOUS
      <4>1. CASE <<j, q>> = x
        BY <1>2, <2>1, <4>1
      <4>2. CASE <<j, q>> # x
        BY <1>2, <4>2
      <4>3. QED
        BY <4>1, <4>2
    <3>3. x \in AllWays \X AllRows
      OBVIOUS
    <3>4. DirtyTags' = R \cup {x}
      BY <3>1, <3>2, <3>3 DEF DirtyTags
    <3>5. QED
      BY <2>1, <3>4
  <2>2. CASE ~d
    <3>1. DirtyTags' = {y \in AllWays \X AllRows : tags'[y[1]][y[2]].dirty}
      BY DEF DirtyTags
    <3>2. \A y \in AllWays \X AllRows :
            tags'[y[1]][y[2]].dirty <=> y # x /\ tags[y[1]][y[2]].dirty
      BY <1>2, <2>2
    <3>3. DirtyTags' = R
      BY <3>1, <3>2 DEF DirtyTags
    <3>4. QED
      BY <2>2, <3>3
  <2>3. QED
    BY <2>1, <2>2
<1>4. x \in D <=> tags[k][r].dirty
  BY DEF DirtyTags
<1>5. /\ IsFiniteSet(R) /\ x \notin R
      /\ Cardinality(R) = Cardinality(D) - (IF x \in D THEN 1 ELSE 0)
  <2>1. CASE x \in D
    BY <1>1, <2>1, FS_RemoveElement, FS_CardinalityType
  <2>2. CASE x \notin D
    <3>1. R = D
      BY <2>2
    <3>2. IsFiniteSet(R) /\ x \notin R /\ Cardinality(R) = Cardinality(D)
      BY <1>1, <2>2, <3>1, Zenon
    <3>3. Cardinality(D) \in Nat
      BY <1>1, FS_CardinalityType
    <3>4. QED
      BY <2>2, <3>2, <3>3
  <2>3. QED
    BY <2>1, <2>2
<1>6. /\ Cardinality(D) \in Nat /\ Cardinality(R) \in Nat
      /\ Cardinality(R \cup {x}) = Cardinality(R) + 1
  BY <1>1, <1>5, FS_CardinalityType, FS_AddElement
<1>7. QED
  BY <1>3, <1>4, <1>5, <1>6

\* What a lookup does to the dirty tags and to the counters.
LEMMA LookupCounts ==
  ASSUME Typed, NEW addr \in Lines, NEW write \in BOOLEAN, Lookup(addr, write)
  PROVE  \E k \in AllWays, d \in BOOLEAN :
           LET old == tags[k][RowOf(addr)].dirty IN
           /\ tags' = [tags EXCEPT ![k][RowOf(addr)] = [addr |-> addr, dirty |-> d]]
           /\ updates' = updates + (IF write THEN 1 ELSE 0) /\ refs' = refs + 1
           /\ \/ d = (old \/ write) /\ UNCHANGED <<misses, evictions>>
              \/ /\ d = write /\ misses' = misses + 1
                 /\ evictions' = evictions + (IF old THEN 1 ELSE 0)
<1> DEFINE r == RowOf(addr)
<1>1. /\ r \in AllRows /\ fsm = Fsm /\ states[r] \in States(Fsm)
      /\ \A i \in 1 .. Ways : Way(r, i) \in AllWays
  BY RowType, CacheAssumption, FsmEntry DEF Typed, TypeOK, Way
<1>2. CASE LookupHit(addr, write)
  <2>1. PICK i \in Matches(addr, r) :
          /\ Finish(addr, i, tags[Way(r, i)][r], write)
          /\ UNCHANGED <<evicted, misses, evictions>>
    BY <1>2 DEF LookupHit
  <2>2. i \in 1 .. Ways /\ tags[Way(r, i)][r].addr = addr
    BY DEF Matches
  <2>3. tags[Way(r, i)][r].dirty \in BOOLEAN
    BY <1>1, <2>2 DEF Typed, TypeOK, Tags
  <2>4. PICK k \in AllWays : k = Way(r, i)
    BY <1>1, <2>2
  <2>5. PICK d \in BOOLEAN : d = (tags[k][r].dirty \/ write)
    BY <2>3, <2>4
  <2>6. /\ tags' = [tags EXCEPT ![k][r] = [addr |-> addr, dirty |-> d]]
        /\ updates' = updates + (IF write THEN 1 ELSE 0) /\ refs' = refs + 1
        /\ UNCHANGED <<misses, evictions>>
    BY <2>1, <2>2, <2>4, <2>5, Zenon DEF Finish
  <2>7. QED
    BY <2>5, <2>6
<1>3. CASE LookupMiss(addr, write)
  <2>1. PICK k \in AllWays : k = Way(r, Ways)
    BY <1>1, CacheAssumption
  <2>2. /\ tags' = [tags EXCEPT ![k][r] = [addr |-> addr, dirty |-> FALSE \/ write]]
        /\ updates' = updates + (IF write THEN 1 ELSE 0) /\ refs' = refs + 1
        /\ misses' = misses + 1
        /\ evictions' = evictions + (IF tags[k][r].dirty THEN 1 ELSE 0)
    BY <1>3, <2>1 DEF LookupMiss, Finish
  <2>3. tags' = [tags EXCEPT ![k][r] = [addr |-> addr, dirty |-> write]]
    BY <2>2
  <2>4. QED
    BY <2>2, <2>3
<1>4. QED
  BY <1>2, <1>3 DEF Lookup

(***************************************************************************)
(* No more lines are written back, or dirty, than were written, and only   *)
(* misses write lines back, whatever the geometry of the cache.            *)
(***************************************************************************)
THEOREM WritesSafe == Spec => []WritesAccounted
<1>1. Init => WritesAccounted
  <2> SUFFICES ASSUME Init PROVE WritesAccounted
    OBVIOUS
  <2>1. DirtyTags = {}
    BY DEF Init, DirtyTags
  <2>2. QED
    BY <2>1, FS_EmptySet DEF Init, WritesAccounted
<1>2. Typed /\ WritesAccounted /\ [Next]_vars => WritesAccounted'
  <2> SUFFICES ASSUME Typed, WritesAccounted, [Next]_vars PROVE WritesAccounted'
    OBVIOUS
  <2>1. ASSUME NEW addr \in Lines, NEW write \in BOOLEAN, Lookup(addr, write)
        PROVE  WritesAccounted'
    <3>1. PICK k \in AllWays, d \in BOOLEAN :
            LET old == tags[k][RowOf(addr)].dirty IN
            /\ tags' = [tags EXCEPT ![k][RowOf(addr)] = [addr |-> addr, dirty |-> d]]
            /\ updates' = updates + (IF write THEN 1 ELSE 0) /\ refs' = refs + 1
            /\ \/ d = (old \/ write) /\ UNCHANGED <<misses, evictions>>
               \/ /\ d = write /\ misses' = misses + 1
                  /\ evictions' = evictions + (IF old THEN 1 ELSE 0)
      BY <2>1, LookupCounts
    <3>2. RowOf(addr) \in AllRows
      BY RowType, CacheAssumption
    <3>3. PICK n \in Nat, m \in Nat :
            /\ n = Cardinality(DirtyTags) /\ m = Cardinality(DirtyTags')
            /\ tags[k][RowOf(addr)].dirty => n > 0
            /\ m = n - (IF tags[k][RowOf(addr)].dirty THEN 1 ELSE 0) + (IF d THEN 1 ELSE 0)
      BY <3>1, <3>2, DirtyChange
    <3>4. /\ refs \in Nat /\ misses \in Nat /\ updates \in Nat /\ evictions \in Nat
          /\ evictions + n <= updates /\ evictions <= misses /\ misses <= refs
      BY <3>3 DEF Typed, TypeOK, WritesAccounted
    <3>5. evictions' + m <= updates' /\ evictions' <= misses' /\ misses' <= refs'
      BY <3>1, <3>3, <3>4
    <3>6. QED
      BY <3>3, <3>5 DEF WritesAccounted
  <2>2. CASE UNCHANGED vars
    BY <2>2 DEF vars, WritesAccounted, DirtyTags
  <2>3. QED
    BY <2>1, <2>2 DEF Next
<1>3. QED
  BY <1>1, <1>2, AlwaysTyped, PTL DEF Spec
-----------------------------------------------------------------------------
(***************************************************************************)
(* The refinement of LruStack.  A row's lines, in its search order, are a  *)
(* stack: the ways that hold a line come first.                            *)
(***************************************************************************)
Shifted(r, i, l, j) == IF j = 1 THEN l ELSE IF j <= i THEN Line(r, j - 1) ELSE Line(r, j)

FilledFirst == \A r \in AllRows : \E n \in 0 .. Ways : Filled(r) = 1 .. n

\* Nothing dirty is in a way that holds no line.
DirtyHeld == \A k \in AllWays, r \in AllRows : tags[k][r].dirty => tags[k][r].addr # 0

StackInv == Typed /\ OneCopy /\ FilledFirst /\ DirtyHeld

\* As many places as ways, all of which are named: none is named twice.
LEMMA FsmApart ==
  \A s \in States(Fsm) : \A i, j \in 1 .. Ways : Fsm[s + i].way = Fsm[s + j].way => i = j
<1> SUFFICES ASSUME NEW s \in States(Fsm)
             PROVE  \A i, j \in 1 .. Ways : Fsm[s + i].way = Fsm[s + j].way => i = j
  OBVIOUS
<1> DEFINE f == [i \in 1 .. Ways |-> Fsm[s + i].way]
<1>1. f \in [1 .. Ways -> AllWays]
  BY FsmEntry
<1>2. f \in Surjection(1 .. Ways, AllWays)
  BY <1>1, FsmCovers DEF Surjection
<1>3. /\ IsFiniteSet(1 .. Ways) /\ Cardinality(1 .. Ways) = Ways
      /\ Cardinality(AllWays) = Ways
  <2>1. Ways \in Int /\ Ways - 1 \in Int /\ 0 \in Int /\ 1 \in Int /\ Ways >= 1
    BY CacheAssumption
  <2>2. /\ IsFiniteSet(1 .. Ways) /\ Cardinality(1 .. Ways) = IF 1 > Ways THEN 0 ELSE Ways - 1 + 1
        /\ Cardinality(0 .. Ways - 1) = IF 0 > Ways - 1 THEN 0 ELSE Ways - 1 - 0 + 1
    BY <2>1, FS_Interval
  <2>3. QED
    BY <2>1, <2>2 DEF AllWays
<1> HIDE DEF f
<1>4. f \in Injection(1 .. Ways, AllWays)
  BY <1>2, <1>3, FS_Surjection
<1>5. \A i, j \in 1 .. Ways : f[i] = f[j] => i = j
  BY <1>4 DEF Injection, IsInjective
<1>6. QED
  BY <1>5 DEF f

\* The state that follows a use looks the ways up in the order of Used.
LEMMA FsmMoves ==
  \A s \in States(Fsm) : \A i, j \in 1 .. Ways :
    Fsm[Fsm[s + i].next_state + j].way =
      IF j = 1 THEN Fsm[s + i].way
      ELSE IF j <= i THEN Fsm[s + (j - 1)].way ELSE Fsm[s + j].way
<1> SUFFICES ASSUME NEW s \in States(Fsm), NEW i \in 1 .. Ways, NEW j \in 1 .. Ways
             PROVE  Fsm[Fsm[s + i].next_state + j].way =
                      IF j = 1 THEN Fsm[s + i].way
                      ELSE IF j <= i THEN Fsm[s + (j - 1)].way ELSE Fsm[s + j].way
  OBVIOUS
<1> DEFINE t == Fsm[s + i].next_state
<1>1. Order(Fsm, t) = Used(Order(Fsm, s), i)
  BY FsmAssumption DEF IsLru
<1>2. Order(Fsm, t)[j] = Fsm[t + j].way
  BY DEF Order
<1>3. \A m \in 1 .. Ways : Order(Fsm, s)[m] = Fsm[s + m].way
  BY DEF Order
<1>4. Used(Order(Fsm, s), i)[j] =
        IF j = 1 THEN Order(Fsm, s)[i]
        ELSE IF j <= i THEN Order(Fsm, s)[j - 1] ELSE Order(Fsm, s)[j]
  BY DEF Used
<1>5. j # 1 => j - 1 \in 1 .. Ways
  BY CacheAssumption
<1>6. QED
  BY <1>1, <1>2, <1>3, <1>4, <1>5

(***************************************************************************)
(* A lookup moves the line at one place of its row's order to the front:   *)
(* its own on a hit, the last on a miss, which it replaces.                *)
(***************************************************************************)
Moved(addr, write, i, d) ==
  LET r == RowOf(addr)
  IN  /\ tags' = [tags EXCEPT ![Way(r, i)][r] = [addr |-> addr, dirty |-> d]]
      /\ states' = [states EXCEPT ![r] = Fsm[@ + i].next_state] /\ fsm' = Fsm
      /\ updates' = updates + (IF write THEN 1 ELSE 0)
      /\ \/ /\ Line(r, i) = addr /\ d = (tags[Way(r, i)][r].dirty \/ write)
            /\ UNCHANGED <<misses, evictions>>
         \/ /\ i = Ways /\ (\A j \in 1 .. Ways : Line(r, j) # addr) /\ d = write
            /\ misses' = misses + 1
            /\ evictions' = evictions + (IF tags[Way(r, i)][r].dirty THEN 1 ELSE 0)

LEMMA LookupMoves ==
  ASSUME Typed, NEW addr \in Lines, NEW write \in BOOLEAN, Lookup(addr, write)
  PROVE  \E i \in 1 .. Ways, d \in BOOLEAN : Moved(addr, write, i, d)
<1> DEFINE r == RowOf(addr)
<1>1. /\ r \in AllRows /\ fsm = Fsm /\ states[r] \in States(Fsm)
      /\ \A i \in 1 .. Ways : Way(r, i) \in AllWays
  BY RowType, CacheAssumption, FsmEntry DEF Typed, TypeOK, Way
<1>2. CASE LookupHit(addr, write)
  <2>1. PICK i \in Matches(addr, r) :
          /\ Finish(addr, i, tags[Way(r, i)][r], write)
          /\ UNCHANGED <<evicted, misses, evictions>>
    BY <1>2 DEF LookupHit
  <2>2. i \in 1 .. Ways /\ tags[Way(r, i)][r].addr = addr
    BY DEF Matches
  <2>3. tags[Way(r, i)][r].dirty \in BOOLEAN
    BY <1>1, <2>2 DEF Typed, TypeOK, Tags
  <2>4. PICK d \in BOOLEAN : d = (tags[Way(r, i)][r].dirty \/ write)
    BY <2>3
  <2>5. /\ tags' = [tags EXCEPT ![Way(r, i)][r] = [addr |-> addr, dirty |-> d]]
        /\ updates' = updates + (IF write THEN 1 ELSE 0)
        /\ UNCHANGED <<misses, evictions>>
    BY <2>1, <2>2, <2>4, Zenon DEF Finish
  <2>6. states' = [states EXCEPT ![r] = Fsm[@ + i].next_state] /\ fsm' = Fsm
    BY <1>1, <2>1 DEF Finish
  <2>7. Moved(addr, write, i, d)
    BY <2>2, <2>4, <2>5, <2>6 DEF Moved, Line
  <2>8. QED
    BY <2>2, <2>7
<1>3. CASE LookupMiss(addr, write)
  <2>1. /\ tags' = [tags EXCEPT ![Way(r, Ways)][r] = [addr |-> addr, dirty |-> FALSE \/ write]]
        /\ updates' = updates + (IF write THEN 1 ELSE 0) /\ misses' = misses + 1
        /\ evictions' = evictions + (IF tags[Way(r, Ways)][r].dirty THEN 1 ELSE 0)
        /\ Matches(addr, r) = {}
    BY <1>3 DEF LookupMiss, Finish
  <2>2. states' = [states EXCEPT ![r] = Fsm[@ + Ways].next_state] /\ fsm' = Fsm
    BY <1>1, <1>3 DEF LookupMiss, Finish
  <2>3. tags' = [tags EXCEPT ![Way(r, Ways)][r] = [addr |-> addr, dirty |-> write]]
    BY <2>1
  <2>4. \A j \in 1 .. Ways : Line(r, j) # addr
    BY <2>1 DEF Matches, Line
  <2>5. Ways \in 1 .. Ways
    BY CacheAssumption
  <2>6. Moved(addr, write, Ways, write)
    BY <2>1, <2>2, <2>3, <2>4 DEF Moved
  <2>7. QED
    BY <2>5, <2>6
<1>4. QED
  BY <1>2, <1>3 DEF Lookup

\* What that does to the lines in their order.
LEMMA LinesShift ==
  ASSUME Typed, NEW addr \in Lines, NEW write, NEW i \in 1 .. Ways, NEW d,
         Moved(addr, write, i, d)
  PROVE  /\ \A j \in 1 .. Ways : Line(RowOf(addr), j)' = Shifted(RowOf(addr), i, addr, j)
         /\ \A q \in AllRows, j \in 1 .. Ways : q # RowOf(addr) => Line(q, j)' = Line(q, j)
<1> DEFINE r == RowOf(addr)
           s == states[r]
           k == Way(r, i)
<1>1. r \in AllRows /\ s \in States(Fsm) /\ fsm = Fsm /\ fsm' = Fsm
  BY RowType, CacheAssumption DEF Typed, TypeOK, Moved
<1>2. \A q \in AllRows, j \in 1 .. Ways : Way(q, j) \in AllWays
  BY FsmEntry DEF Typed, TypeOK, Way
<1>3. \A m \in AllWays, q \in AllRows :
        tags'[m][q].addr = IF m = k /\ q = r THEN addr ELSE tags[m][q].addr
  BY <1>1, <1>2 DEF Moved, Typed, TypeOK
<1>4. \A j \in 1 .. Ways :
        Way(r, j)' = IF j = 1 THEN k ELSE IF j <= i THEN Way(r, j - 1) ELSE Way(r, j)
  <2>1. states'[r] = Fsm[s + i].next_state
    BY <1>1 DEF Moved, Typed, TypeOK
  <2>2. \A j \in 1 .. Ways : Way(r, j)' = Fsm[Fsm[s + i].next_state + j].way
    BY <1>1, <2>1 DEF Way
  <2>3. \A j \in 1 .. Ways : Way(r, j) = Fsm[s + j].way
    BY <1>1 DEF Way
  <2>4. \A j \in 1 .. Ways : j # 1 => j - 1 \in 1 .. Ways
    BY CacheAssumption
  <2>5. QED
    BY <1>1, <2>2, <2>3, <2>4, FsmMoves
<1>5. \A m, n \in 1 .. Ways : Way(r, m) = Way(r, n) => m = n
  BY <1>1, FsmApart DEF Way
<1>6. ASSUME NEW j \in 1 .. Ways PROVE Line(r, j)' = Shifted(r, i, addr, j)
  <2>1. CASE j = 1
    <3>1. Way(r, j)' = k
      BY <1>4, <2>1
    <3>2. tags'[k][r].addr = addr
      BY <1>1, <1>2, <1>3
    <3>3. QED
      BY <2>1, <3>1, <3>2 DEF Line, Shifted
  <2>2. CASE j # 1 /\ j <= i
    <3>1. j - 1 \in 1 .. Ways /\ j - 1 # i /\ Way(r, j)' = Way(r, j - 1)
      BY <1>4, <2>2, CacheAssumption
    <3>2. tags'[Way(r, j - 1)][r].addr = tags[Way(r, j - 1)][r].addr
      BY <1>1, <1>2, <1>3, <1>5, <3>1
    <3>3. QED
      BY <2>2, <3>1, <3>2 DEF Line, Shifted
  <2>3. CASE j # 1 /\ ~ (j <= i)
    <3>1. j # i /\ Way(r, j)' = Way(r, j)
      BY <1>4, <2>3
    <3>2. tags'[Way(r, j)][r].addr = tags[Way(r, j)][r].addr
      BY <1>1, <1>2, <1>3, <1>5, <3>1
    <3>3. QED
      BY <2>3, <3>1, <3>2 DEF Line, Shifted
  <2>4. QED
    BY <2>1, <2>2, <2>3
<1>7. ASSUME NEW q \in AllRows, NEW j \in 1 .. Ways, q # r PROVE Line(q, j)' = Line(q, j)
  <2>1. states'[q] = states[q]
    BY <1>7 DEF Moved, Typed, TypeOK
  <2>2. Way(q, j)' = Way(q, j)
    BY <1>1, <2>1 DEF Way
  <2>3. QED
    BY <1>2, <1>3, <1>7, <2>2 DEF Line
<1>8. QED
  BY <1>6, <1>7
-----------------------------------------------------------------------------
\* Three ways to put a line in front of a stack, element by element.
Fronted(s, i, l, j) == IF j = 1 THEN l ELSE IF j <= i THEN s[j - 1] ELSE s[j]

LEMMA MoveToFront ==
  ASSUME NEW S, NEW s \in Seq(S), NEW t \in Seq(S), NEW l \in S, NEW i \in 1 .. Len(s),
         Len(t) = Len(s),
         \A j \in 1 .. Len(s) : t[j] = Fronted(s, i, l, j)
  PROVE  t = <<l>> \o RemoveAt(s, i)
<1> DEFINE a == SubSeq(s, 1, i - 1)
           b == SubSeq(s, i + 1, Len(s))
           u == <<l>> \o (a \o b)
<1>1. a \in Seq(S) /\ Len(a) = i - 1 /\ \A j \in 1 .. i - 1 : a[j] = s[j]
  OBVIOUS
<1>2. b \in Seq(S) /\ Len(b) = Len(s) - i /\ \A j \in 1 .. Len(s) - i : b[j] = s[j + i]
  OBVIOUS
<1> HIDE DEF a, b
<1>3. /\ a \o b \in Seq(S) /\ Len(a \o b) = Len(s) - 1
      /\ \A j \in 1 .. Len(s) - 1 : (a \o b)[j] = IF j <= i - 1 THEN s[j] ELSE s[j + 1]
  <2>1. a \o b \in Seq(S) /\ Len(a \o b) = Len(s) - 1
    BY <1>1, <1>2
  <2>2. ASSUME NEW j \in 1 .. Len(s) - 1
        PROVE  (a \o b)[j] = IF j <= i - 1 THEN s[j] ELSE s[j + 1]
    <3>1. CASE j <= i - 1
      BY <1>1, <1>2, <3>1
    <3>2. CASE ~ (j <= i - 1)
      <4>1. (a \o b)[j] = b[j - (i - 1)]
        BY <1>1, <1>2, <3>2
      <4>2. j - (i - 1) \in 1 .. Len(s) - i /\ j - (i - 1) + i = j + 1
        BY <3>2
      <4>3. b[j - (i - 1)] = s[j + 1]
        BY <1>2, <4>2
      <4>4. QED
        BY <3>2, <4>1, <4>3
    <3>3. QED
      BY <3>1, <3>2
  <2>3. QED
    BY <2>1, <2>2
<1> DEFINE c == a \o b
<1>4. c \in Seq(S) /\ Len(c) = Len(s) - 1
  BY <1>3
<1>5. \A j \in 1 .. Len(s) - 1 : c[j] = IF j <= i - 1 THEN s[j] ELSE s[j + 1]
  BY <1>3
<1>6. u = <<l>> \o c
  OBVIOUS
<1> HIDE DEF c, u
<1>7. u \in Seq(S) /\ Len(u) = Len(s)
  BY <1>4, <1>6
<1>8. u[1] = l /\ \A j \in 2 .. Len(s) : u[j] = c[j - 1]
  BY <1>4, <1>6
<1>9. \A j \in 1 .. Len(t) : t[j] = u[j]
  <2> SUFFICES ASSUME NEW j \in 1 .. Len(s) PROVE t[j] = u[j]
    OBVIOUS
  <2>1. CASE j = 1
    BY <1>8, <2>1 DEF Fronted
  <2>2. CASE j # 1
    <3>1. j \in 2 .. Len(s) /\ j - 1 \in 1 .. Len(s) - 1 /\ j - 1 + 1 = j
      BY <2>2
    <3>2. u[j] = IF j - 1 <= i - 1 THEN s[j - 1] ELSE s[j]
      BY <1>5, <1>8, <3>1
    <3>3. j - 1 <= i - 1 <=> j <= i
      OBVIOUS
    <3>4. QED
      BY <2>2, <3>2, <3>3 DEF Fronted
  <2>3. QED
    BY <2>1, <2>2
<1>10. t = u
  BY <1>7, <1>9, SeqEqual
<1>11. QED
  BY <1>10 DEF u, a, b, RemoveAt

LEMMA PushFront ==
  ASSUME NEW S, NEW s \in Seq(S), NEW t \in Seq(S), NEW l \in S, Len(t) = Len(s) + 1,
         \A j \in 1 .. Len(t) : t[j] = IF j = 1 THEN l ELSE s[j - 1]
  PROVE  t = <<l>> \o s
<1>1. <<l>> \o s \in Seq(S) /\ Len(<<l>> \o s) = Len(t)
  OBVIOUS
<1>2. \A j \in 1 .. Len(t) : t[j] = (<<l>> \o s)[j]
  OBVIOUS
<1>3. QED
  BY <1>1, <1>2, SeqEqual

LEMMA PushOut ==
  ASSUME NEW S, NEW s \in Seq(S), NEW t \in Seq(S), NEW l \in S, s # <<>>, Len(t) = Len(s),
         \A j \in 1 .. Len(t) : t[j] = IF j = 1 THEN l ELSE s[j - 1]
  PROVE  t = <<l>> \o Front(s)
<1> DEFINE f == Front(s)
<1>1. f \in Seq(S) /\ Len(f) = Len(s) - 1 /\ \A j \in 1 .. Len(s) - 1 : f[j] = s[j]
  BY DEF Front
<1> HIDE DEF f
<1>2. Len(t) = Len(f) + 1
  BY <1>1
<1>3. \A j \in 1 .. Len(t) : t[j] = IF j = 1 THEN l ELSE f[j - 1]
  BY <1>1
<1>4. t = <<l>> \o f
  BY <1>1, <1>2, <1>3, PushFront
<1>5. QED
  BY <1>4 DEF f
-----------------------------------------------------------------------------
LEMMA LineType ==
  ASSUME Typed, NEW r \in AllRows, NEW j \in 1 .. Ways
  PROVE  Way(r, j) \in AllWays /\ Line(r, j) \in Lines \cup {0} /\ Line(r, j) \in Nat
<1>1. Way(r, j) \in AllWays
  BY FsmEntry DEF Typed, TypeOK, Way
<1>2. tags[Way(r, j)][r] \in Tags
  BY <1>1 DEF Typed, TypeOK
<1>3. Line(r, j) \in Lines \cup {0}
  BY <1>2 DEF Line, Tags
<1>4. Lines \cup {0} \subseteq Nat
  BY CacheAssumption
<1>5. QED
  BY <1>1, <1>3, <1>4

\* A row that is filled up to n holds a stack of n lines.
LEMMA FilledStack ==
  ASSUME NEW r, NEW n \in 0 .. Ways, Filled(r) = 1 .. n
  PROVE  RowLines(r) = [j \in 1 .. n |-> Line(r, j)]
<1>1. Cardinality(1 .. n) = n
  BY FS_Interval
<1>2. QED
  BY <1>1 DEF RowLines

LEMMA RowSteps ==
  ASSUME StackInv, Typed', NEW addr \in Lines, NEW write, NEW i \in 1 .. Ways, NEW d,
         Moved(addr, write, i, d)
  PROVE  LET r == RowOf(addr)
             s == RowLines(r)
         IN  /\ FilledFirst'
             /\ \A q \in AllRows : q # r => RowLines(q)' = RowLines(q)
             /\ s \in Seq(Nat)
             /\ Line(r, i) = addr =>
                  i \in 1 .. Len(s) /\ s[i] = addr /\ RowLines(r)' = <<addr>> \o RemoveAt(s, i)
             /\ i = Ways /\ (\A j \in 1 .. Ways : Line(r, j) # addr) =>
                  /\ ~Contains(s, addr)
                  /\ Len(s) = Ways => Last(s) = Line(r, i) /\ Line(r, i) # 0
                  /\ Len(s) # Ways => Line(r, i) = 0
                  /\ RowLines(r)' = <<addr>> \o (IF Len(s) = Ways THEN Front(s) ELSE s)
<1> DEFINE r == RowOf(addr)
           s == RowLines(r)
           t == RowLines(r)'
<1>1. r \in AllRows /\ addr \in Nat /\ addr # 0 /\ Typed
  BY RowType, CacheAssumption DEF StackInv
<1>2. /\ \A j \in 1 .. Ways : Line(r, j)' = Shifted(r, i, addr, j)
      /\ \A q \in AllRows, j \in 1 .. Ways : q # r => Line(q, j)' = Line(q, j)
  BY <1>1, LinesShift
<1>3. PICK n \in 0 .. Ways : Filled(r) = 1 .. n
  BY <1>1 DEF StackInv, FilledFirst
<1>4. \A j \in 1 .. Ways : Line(r, j) \in Nat /\ (Line(r, j) # 0 <=> j <= n)
  BY <1>1, <1>3, LineType DEF Filled
<1>5. \A j \in 1 .. Ways : Line(r, j)' \in Nat
  <2>1. \A j \in 1 .. Ways : j # 1 => j - 1 \in 1 .. Ways
    BY CacheAssumption
  <2>2. QED
    BY <1>1, <1>2, <1>4, <2>1 DEF Shifted
<1>6. s = [j \in 1 .. n |-> Line(r, j)]
  BY <1>3, FilledStack
<1>7. s \in Seq(Nat) /\ Len(s) = n /\ \A j \in 1 .. n : s[j] = Line(r, j)
  <2>1. \A j \in 1 .. n : j \in 1 .. Ways
    BY CacheAssumption
  <2>2. QED
    BY <1>4, <1>6, <2>1
<1>8. \A q \in AllRows : q # r => Filled(q)' = Filled(q) /\ RowLines(q)' = RowLines(q)
  <2> SUFFICES ASSUME NEW q \in AllRows, q # r
               PROVE  Filled(q)' = Filled(q) /\ RowLines(q)' = RowLines(q)
    OBVIOUS
  <2>1. Filled(q)' = Filled(q)
    BY <1>2 DEF Filled
  <2>2. PICK m \in 0 .. Ways : Filled(q) = 1 .. m
    BY DEF StackInv, FilledFirst
  <2>3. RowLines(q) = [j \in 1 .. m |-> Line(q, j)]
    BY <2>2, FilledStack
  <2>4. RowLines(q)' = [j \in 1 .. m |-> Line(q, j)']
    BY <2>1, <2>2, FilledStack, FS_Interval DEF RowLines
  <2>5. \A j \in 1 .. m : j \in 1 .. Ways
    BY CacheAssumption
  <2>6. QED
    BY <1>2, <2>1, <2>3, <2>4, <2>5
\* The row in which the line moved is filled up to m, and holds so many lines.
<1>9. ASSUME NEW m \in 0 .. Ways, \A j \in 1 .. Ways : Line(r, j)' # 0 <=> j <= m
      PROVE  /\ Filled(r)' = 1 .. m /\ FilledFirst'
             /\ t \in Seq(Nat) /\ Len(t) = m
             /\ \A j \in 1 .. m : t[j] = Shifted(r, i, addr, j)
  <2>1. Filled(r)' = 1 .. m
    BY <1>9, CacheAssumption DEF Filled
  <2>2. t = [j \in 1 .. m |-> Line(r, j)']
    <3>1. Cardinality(1 .. m) = m
      BY FS_Interval
    <3>2. QED
      BY <2>1, <3>1 DEF RowLines
  <2>3. \A j \in 1 .. m : j \in 1 .. Ways
    BY CacheAssumption
  <2>4. FilledFirst'
    BY <1>8, <2>1 DEF StackInv, FilledFirst
  <2>5. QED
    BY <1>2, <1>5, <2>1, <2>2, <2>3, <2>4
<1> HIDE DEF s, t
<1>10. Ways \in Nat /\ Ways >= 1 /\ n \in Nat /\ n <= Ways /\ i \in Nat /\ 1 <= i /\ i <= Ways
  BY CacheAssumption
<1>11. ASSUME Line(r, i) = addr
       PROVE  /\ FilledFirst' /\ i \in 1 .. Len(s) /\ s[i] = addr
              /\ t = <<addr>> \o RemoveAt(s, i)
  <2>1. i <= n
    BY <1>1, <1>4, <1>11
  <2>2. \A j \in 1 .. Ways : Line(r, j)' # 0 <=> j <= n
    <3> SUFFICES ASSUME NEW j \in 1 .. Ways PROVE Shifted(r, i, addr, j) # 0 <=> j <= n
      BY <1>2
    <3>1. CASE j = 1
      BY <1>1, <1>10, <2>1, <3>1 DEF Shifted
    <3>2. CASE j # 1 /\ j <= i
      <4>1. j - 1 \in 1 .. Ways /\ j - 1 <= n /\ j <= n
        BY <1>10, <2>1, <3>2
      <4>2. QED
        BY <1>4, <3>2, <4>1 DEF Shifted
    <3>3. CASE j # 1 /\ ~ (j <= i)
      BY <1>4, <3>3 DEF Shifted
    <3>4. QED
      BY <3>1, <3>2, <3>3
  <2>3. /\ FilledFirst' /\ t \in Seq(Nat) /\ Len(t) = n
        /\ \A j \in 1 .. n : t[j] = Shifted(r, i, addr, j)
    BY <1>9, <2>2
  <2>4. i \in 1 .. Len(s) /\ s[i] = addr
    BY <1>7, <1>10, <1>11, <2>1
  <2>5. \A j \in 1 .. Len(s) : t[j] = Fronted(s, i, addr, j)
    <3> SUFFICES ASSUME NEW j \in 1 .. n
                 PROVE  t[j] = Fronted(s, i, addr, j)
      BY <1>7
    <3>1. t[j] = Shifted(r, i, addr, j)
      BY <2>3
    <3>2. s[j] = Line(r, j) /\ (j # 1 => s[j - 1] = Line(r, j - 1))
      <4>1. j # 1 => j - 1 \in 1 .. n
        BY <1>10
      <4>2. QED
        BY <1>7, <4>1
    <3>3. QED
      BY <3>1, <3>2 DEF Shifted, Fronted
  <2>6. /\ s \in Seq(Nat) /\ t \in Seq(Nat) /\ addr \in Nat /\ i \in 1 .. Len(s)
        /\ Len(t) = Len(s)
    BY Zenon, <1>1, <1>7, <2>3, <2>4
  <2>7. t = <<addr>> \o RemoveAt(s, i)
    BY Zenon, <2>5, <2>6, MoveToFront
  <2>8. QED
    BY <2>3, <2>4, <2>7
<1>12. ASSUME i = Ways, \A j \in 1 .. Ways : Line(r, j) # addr
       PROVE  /\ FilledFirst' /\ ~Contains(s, addr)
              /\ Len(s) = Ways => Last(s) = Line(r, i) /\ Line(r, i) # 0
              /\ Len(s) # Ways => Line(r, i) = 0
              /\ t = <<addr>> \o (IF Len(s) = Ways THEN Front(s) ELSE s)
  <2>1. ~Contains(s, addr)
    <3>1. \A j \in 1 .. n : j \in 1 .. Ways
      BY <1>10
    <3>2. QED
      BY <1>7, <1>12, <3>1 DEF Contains
  <2>2. \A j \in 1 .. Ways : Shifted(r, i, addr, j) = IF j = 1 THEN addr ELSE Line(r, j - 1)
    BY <1>12 DEF Shifted
  <2>3. \A j \in 1 .. Ways : Line(r, j)' # 0 <=> j = 1 \/ j - 1 <= n
    <3> SUFFICES ASSUME NEW j \in 1 .. Ways
                 PROVE  Line(r, j)' # 0 <=> j = 1 \/ j - 1 <= n
      OBVIOUS
    <3>1. Line(r, j)' = IF j = 1 THEN addr ELSE Line(r, j - 1)
      BY <1>2, <2>2
    <3>2. j # 1 => j - 1 \in 1 .. Ways
      BY <1>10
    <3>3. QED
      BY <1>1, <1>4, <3>1, <3>2
  <2>4. CASE n = Ways
    <3>1. \A j \in 1 .. Ways : Line(r, j)' # 0 <=> j <= n
      BY <1>10, <2>3, <2>4
    <3>2. /\ FilledFirst' /\ t \in Seq(Nat) /\ Len(t) = n
          /\ \A j \in 1 .. n : t[j] = Shifted(r, i, addr, j)
      BY <1>9, <3>1
    <3>3. \A j \in 1 .. Len(t) : t[j] = IF j = 1 THEN addr ELSE s[j - 1]
      <4> SUFFICES ASSUME NEW j \in 1 .. n PROVE t[j] = IF j = 1 THEN addr ELSE s[j - 1]
        BY <3>2
      <4>1. t[j] = IF j = 1 THEN addr ELSE Line(r, j - 1)
        BY <2>2, <2>4, <3>2
      <4>2. j # 1 => j - 1 \in 1 .. n
        BY <1>10
      <4>3. QED
        BY <1>7, <4>1, <4>2
    <3>4. s # <<>>
      BY <1>7, <1>10, <2>4
    <3>5. t = <<addr>> \o Front(s)
      <4>1. s \in Seq(Nat) /\ t \in Seq(Nat) /\ addr \in Nat /\ Len(t) = Len(s)
        BY Zenon, <1>1, <1>7, <3>2
      <4>2. QED
        BY <3>3, <3>4, <4>1, PushOut
    <3>6. Last(s) = Line(r, i) /\ Line(r, i) # 0
      BY <1>4, <1>7, <1>10, <1>12, <2>4 DEF Last
    <3>7. QED
      BY <1>7, <2>1, <2>4, <3>2, <3>5, <3>6
  <2>5. CASE n # Ways
    <3>1. n + 1 \in 0 .. Ways /\ \A j \in 1 .. Ways : Line(r, j)' # 0 <=> j <= n + 1
      BY <1>10, <2>3, <2>5
    <3>2. /\ FilledFirst' /\ t \in Seq(Nat) /\ Len(t) = n + 1
          /\ \A j \in 1 .. n + 1 : t[j] = Shifted(r, i, addr, j)
      BY <1>9, <3>1
    <3>3. \A j \in 1 .. Len(t) : t[j] = IF j = 1 THEN addr ELSE s[j - 1]
      <4> SUFFICES ASSUME NEW j \in 1 .. n + 1 PROVE t[j] = IF j = 1 THEN addr ELSE s[j - 1]
        BY <3>2
      <4>1. j \in 1 .. Ways
        BY <1>10, <3>1
      <4>2. t[j] = IF j = 1 THEN addr ELSE Line(r, j - 1)
        BY <2>2, <3>2, <4>1
      <4>3. j # 1 => j - 1 \in 1 .. n
        BY <1>10
      <4>4. QED
        BY <1>7, <4>2, <4>3
    <3>4. t = <<addr>> \o s
      BY <1>1, <1>7, <3>2, <3>3, PushFront
    <3>5. Line(r, i) = 0
      <4>1. i \in 1 .. Ways /\ ~ (i <= n)
        BY <1>10, <1>12, <2>5
      <4>2. QED
        BY <1>4, <4>1
    <3>6. QED
      BY <1>7, <2>1, <2>5, <3>2, <3>4, <3>5
  <2>6. QED
    BY <2>4, <2>5
<1>13. FilledFirst'
  BY <1>11, <1>12 DEF Moved
<1>14. QED
  BY <1>7, <1>8, <1>11, <1>12, <1>13 DEF s, t
-----------------------------------------------------------------------------
Dirtied(write, l) == IF write THEN {l} ELSE {}

LEMMA InDirty ==
  ASSUME NEW t, NEW x
  PROVE  x \in {t[e[1]][e[2]].addr : e \in {p \in AllWays \X AllRows : t[p[1]][p[2]].dirty}} <=>
           \E m \in AllWays, q \in AllRows : t[m][q].dirty /\ t[m][q].addr = x
<1> DEFINE D == {p \in AllWays \X AllRows : t[p[1]][p[2]].dirty}
<1>1. ASSUME NEW e \in D, x = t[e[1]][e[2]].addr
      PROVE  \E m \in AllWays, q \in AllRows : t[m][q].dirty /\ t[m][q].addr = x
  BY <1>1
<1>2. ASSUME NEW m \in AllWays, NEW q \in AllRows, t[m][q].dirty, t[m][q].addr = x
      PROVE  <<m, q>> \in D /\ x = t[<<m, q>>[1]][<<m, q>>[2]].addr
  BY <1>2
<1> HIDE DEF D
<1>3. x \in {t[e[1]][e[2]].addr : e \in D} <=>
        \E m \in AllWays, q \in AllRows : t[m][q].dirty /\ t[m][q].addr = x
  BY <1>1, <1>2
<1>4. QED
  BY <1>3 DEF D

LEMMA InDirtyLines ==
  \A x : x \in DirtyLines <=>
           \E m \in AllWays, q \in AllRows : tags[m][q].dirty /\ tags[m][q].addr = x
  BY InDirty DEF DirtyLines, DirtyTags

\* What a lookup does to the lines that are dirty: one copy of each, so the
\* line that leaves is dirty if its tag is, and leaves none behind.
LEMMA DirtySteps ==
  ASSUME StackInv, NEW addr \in Lines, NEW write \in BOOLEAN, NEW i \in 1 .. Ways,
         NEW d \in BOOLEAN, Moved(addr, write, i, d)
  PROVE  LET r == RowOf(addr)
             v == Line(r, i)
             b == tags[Way(r, i)][r].dirty
         IN  /\ DirtyHeld'
             /\ b <=> v \in DirtyLines
             /\ v = addr /\ d = (b \/ write) => DirtyLines' = DirtyLines \cup Dirtied(write, addr)
             /\ (\A j \in 1 .. Ways : Line(r, j) # addr) /\ d = write =>
                  DirtyLines' = (DirtyLines \ {v}) \cup Dirtied(write, addr)
<1> DEFINE r == RowOf(addr)
           v == Line(r, i)
           k == Way(r, i)
           b == tags[k][r].dirty
<1>1. r \in AllRows /\ addr # 0 /\ Typed /\ k \in AllWays
  BY RowType, CacheAssumption, LineType DEF StackInv
<1>2. v = tags[k][r].addr /\ b \in BOOLEAN
  BY <1>1 DEF Line, Typed, TypeOK, Tags
<1>3. tags' = [tags EXCEPT ![k][r] = [addr |-> addr, dirty |-> d]]
  BY DEF Moved
<1> HIDE DEF k, r, v
<1>4. \A m \in AllWays, q \in AllRows :
        /\ tags'[m][q].addr = IF m = k /\ q = r THEN addr ELSE tags[m][q].addr
        /\ tags'[m][q].dirty = IF m = k /\ q = r THEN d ELSE tags[m][q].dirty
  BY <1>1, <1>3 DEF Typed, TypeOK
<1>5. \A m \in AllWays, q \in AllRows :
        tags[m][q].dirty /\ tags[m][q].addr = v => m = k /\ q = r
  <2> SUFFICES ASSUME NEW m \in AllWays, NEW q \in AllRows,
                      tags[m][q].dirty, tags[m][q].addr = v
               PROVE  m = k /\ q = r
    OBVIOUS
  <2>1. v # 0
    BY DEF StackInv, DirtyHeld
  <2>2. RowOf(v) = q /\ RowOf(v) = r
    BY <1>1, <1>2, <2>1 DEF StackInv, OneCopy
  <2>3. QED
    BY <1>1, <1>2, <2>1, <2>2 DEF StackInv, OneCopy
<1>6. b <=> v \in DirtyLines
  BY <1>1, <1>2, <1>5, InDirtyLines
<1>7. DirtyHeld'
  BY <1>1, <1>4 DEF StackInv, DirtyHeld
<1>8. \A x : x \in DirtyLines' <=>
               \E m \in AllWays, q \in AllRows : tags'[m][q].dirty /\ tags'[m][q].addr = x
  BY ZenonT(30), InDirty DEF DirtyLines, DirtyTags
<1>9. ASSUME v = addr, d = (b \/ write)
      PROVE  DirtyLines' = DirtyLines \cup Dirtied(write, addr)
  <2>1. \A m \in AllWays, q \in AllRows :
          /\ tags'[m][q].addr = tags[m][q].addr
          /\ tags'[m][q].dirty <=> tags[m][q].dirty \/ (m = k /\ q = r /\ write)
    BY ZenonT(30), <1>1, <1>2, <1>4, <1>9
  <2>2. ASSUME NEW x PROVE x \in DirtyLines' <=> x \in DirtyLines \/ (write /\ x = addr)
    <3>1. x \in DirtyLines' <=>
            \E m \in AllWays, q \in AllRows :
              (tags[m][q].dirty \/ (m = k /\ q = r /\ write)) /\ tags[m][q].addr = x
      BY <1>8, <2>1
    <3>2. tags[k][r].addr = addr
      BY <1>2, <1>9
    <3>3. QED
      BY <1>1, <3>1, <3>2, InDirtyLines
  <2>3. QED
    BY <2>2 DEF Dirtied
<1>10. ASSUME d = write
       PROVE  DirtyLines' = (DirtyLines \ {v}) \cup Dirtied(write, addr)
  <2>1. ASSUME NEW x
        PROVE  x \in DirtyLines' <=> (x \in DirtyLines /\ x # v) \/ (write /\ x = addr)
    <3>1. ASSUME x \in DirtyLines' PROVE (x \in DirtyLines /\ x # v) \/ (write /\ x = addr)
      <4>1. PICK m \in AllWays, q \in AllRows : tags'[m][q].dirty /\ tags'[m][q].addr = x
        BY <1>8, <3>1
      <4>2. CASE m = k /\ q = r
        BY <1>4, <1>10, <4>1, <4>2
      <4>3. CASE ~ (m = k /\ q = r)
        <5>1. tags[m][q].dirty /\ tags[m][q].addr = x
          BY <1>4, <4>1, <4>3
        <5>2. QED
          BY <1>5, <4>3, <5>1, InDirtyLines
      <4>4. QED
        BY <4>2, <4>3
    <3>2. ASSUME x \in DirtyLines, x # v PROVE x \in DirtyLines'
      <4>1. PICK m \in AllWays, q \in AllRows : tags[m][q].dirty /\ tags[m][q].addr = x
        BY <3>2, InDirtyLines
      <4>2. ~ (m = k /\ q = r)
        BY <1>2, <3>2, <4>1
      <4>3. QED
        BY <1>4, <1>8, <4>1, <4>2
    <3>3. ASSUME write, x = addr PROVE x \in DirtyLines'
      BY <1>1, <1>4, <1>8, <1>10, <3>3
    <3>4. QED
      BY <3>1, <3>2, <3>3
  <2>2. QED
    BY <2>1 DEF Dirtied
<1>11. QED
  BY <1>6, <1>7, <1>9, <1>10 DEF r, v, k

LEMMA StackInit == Init => FilledFirst /\ DirtyHeld /\ Lru!Init
<1> SUFFICES ASSUME Init PROVE FilledFirst /\ DirtyHeld /\ Lru!Init
  OBVIOUS
<1>1. \A r \in AllRows, j \in 1 .. Ways : Way(r, j) \in AllWays
  <2>1. 0 \in States(Fsm)
    BY FsmAssumption DEF IsLru
  <2>2. QED
    BY <2>1, FsmEntry DEF Init, Way
<1>2. \A r \in AllRows, j \in 1 .. Ways : Line(r, j) = 0
  BY <1>1 DEF Init, Line
<1>3. \A k \in AllWays, r \in AllRows : ~tags[k][r].dirty
  BY DEF Init
<1>4. \A r \in AllRows : Filled(r) = 1 .. 0
  BY <1>2 DEF Filled
<1>5. 0 \in 0 .. Ways
  BY CacheAssumption
<1>6. \A r \in AllRows : RowLines(r) = <<>>
  <2> SUFFICES ASSUME NEW r \in AllRows PROVE RowLines(r) = <<>>
    OBVIOUS
  <2>1. RowLines(r) = [j \in 1 .. 0 |-> Line(r, j)]
    BY <1>4, <1>5, FilledStack
  <2>2. [j \in 1 .. 0 |-> Line(r, j)] \in Seq(Nat) /\ Len([j \in 1 .. 0 |-> Line(r, j)]) = 0
    OBVIOUS
  <2>3. QED
    BY <2>1, <2>2
<1>7. DirtyLines = {}
  BY <1>3, InDirtyLines
<1>8. Stack = [r \in 0 .. Rows - 1 |-> <<>>]
  BY <1>6 DEF Stack, AllRows
<1>9. misses = 0 /\ updates = 0 /\ evictions = 0
  BY DEF Init
<1>10. FilledFirst /\ DirtyHeld
  BY <1>3, <1>4, <1>5 DEF FilledFirst, DirtyHeld
<1>11. QED
  BY <1>7, <1>8, <1>9, <1>10 DEF Lru!Init

\* Every lookup is a hit or a miss of the stacks.
LEMMA LookupMaps ==
  ASSUME StackInv, Typed', NEW addr \in Lines, NEW write \in BOOLEAN, Lookup(addr, write)
  PROVE  /\ FilledFirst' /\ DirtyHeld'
         /\ Lru!Hit(addr, write) \/ Lru!Miss(addr, write)
<1>1. PICK i \in 1 .. Ways, d \in BOOLEAN : Moved(addr, write, i, d)
  BY LookupMoves DEF StackInv
<1> DEFINE r == RowOf(addr)
           s == RowLines(r)
           v == Line(r, i)
           b == tags[Way(r, i)][r].dirty
<1>2. /\ FilledFirst' /\ \A q \in AllRows : q # r => RowLines(q)' = RowLines(q)
      /\ s \in Seq(Nat)
      /\ v = addr => i \in 1 .. Len(s) /\ s[i] = addr /\ RowLines(r)' = <<addr>> \o RemoveAt(s, i)
      /\ i = Ways /\ (\A j \in 1 .. Ways : Line(r, j) # addr) =>
           /\ ~Contains(s, addr)
           /\ Len(s) = Ways => Last(s) = v /\ v # 0
           /\ Len(s) # Ways => v = 0
           /\ RowLines(r)' = <<addr>> \o (IF Len(s) = Ways THEN Front(s) ELSE s)
  BY <1>1, RowSteps
<1>3. /\ DirtyHeld' /\ (b <=> v \in DirtyLines)
      /\ v = addr /\ d = (b \/ write) => DirtyLines' = DirtyLines \cup Dirtied(write, addr)
      /\ (\A j \in 1 .. Ways : Line(r, j) # addr) /\ d = write =>
           DirtyLines' = (DirtyLines \ {v}) \cup Dirtied(write, addr)
  BY <1>1, DirtySteps
<1>4. /\ updates' = updates + (IF write THEN 1 ELSE 0)
      /\ \/ v = addr /\ d = (b \/ write) /\ misses' = misses /\ evictions' = evictions
         \/ /\ i = Ways /\ (\A j \in 1 .. Ways : Line(r, j) # addr) /\ d = write
            /\ misses' = misses + 1 /\ evictions' = evictions + (IF b THEN 1 ELSE 0)
  BY <1>1 DEF Moved
<1>5. r \in AllRows /\ r = addr % Rows /\ Stack[r] = s
  BY RowType, CacheAssumption DEF RowOf, Stack
<1>6. Stack' = [Stack EXCEPT ![r] = RowLines(r)']
  BY <1>2, <1>5 DEF Stack
<1>7. 0 \notin DirtyLines
  BY InDirtyLines DEF StackInv, DirtyHeld
<1> HIDE DEF r, s, v, b
<1>8. CASE v = addr /\ d = (b \/ write) /\ misses' = misses /\ evictions' = evictions
  <2>1. i \in DOMAIN s /\ s[i] = addr
    BY <1>2, <1>8
  <2>2. Stack' = [Stack EXCEPT ![r] = <<addr>> \o RemoveAt(s, i)]
    BY Zenon, <1>2, <1>6, <1>8
  <2>3. DirtyLines' = DirtyLines \cup Dirtied(write, addr)
    BY <1>3, <1>8
  <2>4. Lru!Hit(addr, write)
    <3>1. Lru!RowOf(addr) = r
      BY <1>5 DEF Lru!RowOf
    <3>2. Lru!Mark(addr, write, DirtyLines)
      BY <1>4, <2>3 DEF Lru!Mark, Dirtied
    <3>3. /\ i \in DOMAIN Stack[Lru!RowOf(addr)] /\ Stack[Lru!RowOf(addr)][i] = addr
          /\ Stack' = [Stack EXCEPT ![Lru!RowOf(addr)] =
                         <<addr>> \o Lru!RemoveAt(Stack[Lru!RowOf(addr)], i)]
      BY Zenon, <1>5, <2>1, <2>2, <3>1 DEF RemoveAt, Lru!RemoveAt
    <3>4. UNCHANGED <<misses, evictions>>
      BY <1>8
    <3>5. QED
      BY Zenon, <3>2, <3>3, <3>4 DEF Lru!Hit
  <2>5. QED
    BY <1>2, <1>3, <2>4
<1>9. CASE /\ i = Ways /\ (\A j \in 1 .. Ways : Line(r, j) # addr) /\ d = write
           /\ misses' = misses + 1 /\ evictions' = evictions + (IF b THEN 1 ELSE 0)
  <2> DEFINE full == Len(s) = Ways
             out == IF full THEN {Last(s)} ELSE {}
  <2>1. /\ ~Contains(s, addr) /\ (full => Last(s) = v) /\ (~full => v = 0)
        /\ RowLines(r)' = <<addr>> \o (IF full THEN Front(s) ELSE s)
    BY <1>2, <1>9
  <2>2. DirtyLines' = (DirtyLines \ {v}) \cup Dirtied(write, addr)
    BY <1>3, <1>9
  <2>3. DirtyLines \ {v} = DirtyLines \ out
    BY <1>7, <2>1
  <2>4. b <=> out \cap DirtyLines # {}
    BY <1>3, <1>7, <2>1
  <2>5. Stack' = [Stack EXCEPT ![r] = <<addr>> \o (IF full THEN Front(s) ELSE s)]
    BY Zenon, <1>6, <2>1
  <2>6. evictions' = evictions + (IF out \cap DirtyLines # {} THEN 1 ELSE 0)
    BY <1>9, <2>4
  <2>7. DirtyLines' = (DirtyLines \ out) \cup Dirtied(write, addr)
    BY <2>2, <2>3
  <2>8. Lru!Miss(addr, write)
    <3>1. Lru!RowOf(addr) = r
      BY <1>5 DEF Lru!RowOf
    <3>2. Lru!Mark(addr, write, DirtyLines \ out)
      BY <1>4, <2>7 DEF Lru!Mark, Dirtied
    <3>3. ~Lru!Contains(Stack[Lru!RowOf(addr)], addr)
      BY Zenon, <1>5, <2>1, <3>1 DEF Contains, Lru!Contains
    <3>4. Stack' = [Stack EXCEPT ![Lru!RowOf(addr)] =
                      <<addr>> \o (IF Len(Stack[Lru!RowOf(addr)]) = Ways
                                  THEN Lru!Front(Stack[Lru!RowOf(addr)])
                                  ELSE Stack[Lru!RowOf(addr)])]
      BY Zenon, <1>5, <2>5, <3>1 DEF Front, Lru!Front
    <3>5. out = (IF Len(Stack[Lru!RowOf(addr)]) = Ways
                 THEN {Lru!Last(Stack[Lru!RowOf(addr)])} ELSE {})
      BY Zenon, <1>5, <3>1 DEF Last, Lru!Last
    <3>6. misses' = misses + 1
      BY <1>9
    <3> HIDE DEF out, full
    <3>7. QED
      BY Zenon, <2>6, <3>2, <3>3, <3>4, <3>5, <3>6 DEF Lru!Miss
  <2>9. QED
    BY <1>2, <1>3, <2>8
<1>10. QED
  BY <1>4, <1>8, <1>9

(***************************************************************************)
(* Refinement: with any table that is an LRU machine, and for any geometry *)
(* of the cache, the rows are stacks of the lines last used, and hits,     *)
(* misses and write-backs happen when LruStack says.                       *)
(***************************************************************************)
THEOREM LruSafe == Spec => LruSpec
<1>1. Init => FilledFirst /\ DirtyHeld /\ Lru!Init
  BY StackInit
<1>2. Typed /\ Typed' /\ OneCopy /\ FilledFirst /\ DirtyHeld /\ [Next]_vars
        => FilledFirst' /\ DirtyHeld' /\ [Lru!Next]_(Lru!lvars)
  <2> SUFFICES ASSUME StackInv, Typed', [Next]_vars
               PROVE  FilledFirst' /\ DirtyHeld' /\ [Lru!Next]_(Lru!lvars)
    BY DEF StackInv
  <2>1. ASSUME NEW addr \in Lines, NEW write \in BOOLEAN, Lookup(addr, write)
        PROVE  FilledFirst' /\ DirtyHeld' /\ Lru!Next
    BY <2>1, LookupMaps DEF Lru!Next
  <2>2. CASE UNCHANGED vars
    <3>1. UNCHANGED <<fsm, tags, states, misses, updates, evictions>>
      BY <2>2 DEF vars
    <3>2. \A r, j : Line(r, j)' = Line(r, j)
      BY <3>1 DEF Line, Way
    <3>3. \A r : Filled(r)' = Filled(r)
      BY <3>2 DEF Filled
    <3>4. Stack' = Stack
      BY <3>2, <3>3 DEF Stack, RowLines
    <3>5. DirtyLines' = DirtyLines
      BY <3>1 DEF DirtyLines, DirtyTags
    <3>6. FilledFirst' /\ DirtyHeld'
      BY <3>1, <3>3 DEF StackInv, FilledFirst, DirtyHeld
    <3>7. QED
      BY <3>1, <3>4, <3>5, <3>6 DEF Lru!lvars
  <2>3. QED
    BY <2>1, <2>2 DEF Next
<1>3. QED
  BY <1>1, <1>2, AlwaysTyped, OneCopySafe, PTL DEF Spec, LruSpec, Lru!Spec
=============================================================================
