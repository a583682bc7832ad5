------------------------ MODULE PerfCountersProofs -------------------------
(***************************************************************************)
(* Proofs about PerfCounters, for any cores, slots and costs: the types,   *)
(* that the cycles charged to an instruction are explained by the other    *)
(* counters, that the counters of a core alone in its slot add up to its   *)
(* clock and its instructions, and that a shared slot never holds more     *)
(* than its cores did.                                                     *)
(***************************************************************************)
EXTENDS PerfCounters, SumTheorems, SequenceTheorems, TLAPS

\* What an increment adds to the unexplained cycles of pc.
Weight(i, pc) ==
  CASE i.pc # pc              -> 0
    [] i.pc = pc /\ i.counter = "cycles"   -> i.by
    [] i.pc = pc /\ i.counter = "executed" -> 0 - i.by
    [] i.pc = pc /\ i.counter = "imiss"    -> 0 - Imiss * i.by
    [] i.pc = pc /\ i.counter = "dmiss"    -> 0 - Dmiss * i.by

\* An instruction makes at most six increments.
Weights == [Increments -> Int]
Nth(q, k, W) == IF k <= Len(q) THEN W[q[k]] ELSE 0
Owed(q, W) == Nth(q, 1, W) + Nth(q, 2, W) + Nth(q, 3, W)
                + Nth(q, 4, W) + Nth(q, 5, W) + Nth(q, 6, W)

Left(pc) == [i \in Increments |-> Weight(i, pc)]

By(k)    == [i \in Increments |-> IF i.counter = k THEN i.by ELSE 0]

Unexplained(s, pc) ==
  s["cycles"][pc] - s["executed"][pc] - Imiss * s["imiss"][pc] - Dmiss * s["dmiss"][pc]

\* c has begun, and no other core counts in its slot.
Sole(c) == at[c] # "unborn" /\ slot[c] # NoSlot /\ Users(slot[c]) = {c}

\* A core that is not running yet has nothing to count.
Bare == \A c \in Cores : at[c] \in {"unborn", "mem"} => todo[c] = <<>> /\ loaded[c] = NoValue

\* An increment begun is the first that is left to do, in a slot that exists.
Loading == \A c \in Cores : loaded[c] # NoValue => todo[c] # <<>> /\ slot[c] # NoSlot

Short == \A c \in Cores : Len(todo[c]) <= 6

\* Nobody counts in a slot that no core has.
Unused == \A s \in Slots : Users(s) = {} => \A k \in Counters, pc \in Text : segment[s][k][pc] = 0

\* A value loaded by the only core of a slot is still there.
Current == \A c \in Cores : Sole(c) /\ loaded[c] # NoValue =>
             loaded[c] = segment[slot[c]][Head(todo[c]).counter][Head(todo[c]).pc]

\* What is counted and what is still to be counted leave whole jumps unexplained.
Jumps(c, pc) == Unexplained(segment[slot[c]], pc) + Owed(todo[c], Left(pc))
Charged == \A c \in Cores : Sole(c) =>
             \A pc \in Text : \E n \in 0 .. retired[c] : Jumps(c, pc) = Jump * n

\* A core in construction has a parent.
Parented == \A c \in Cores : at[c] = "mem" => at[parent[c]] # "unborn"

PerfInv == TypeOK /\ Parented /\ Bare /\ Loading /\ Short /\ Unused /\ Current /\ Charged
-----------------------------------------------------------------------------
LEMMA SlotOfType == \A n \in Nat : SlotOf(n) \in Slots \cup {NoSlot}
  BY PerfAssumption DEF SlotOf, Slots, NoSlot

LEMMA TypesInit == Init => TypeOK
<1> SUFFICES ASSUME Init PROVE TypeOK
  OBVIOUS
<1>1. slot \in [Cores -> Slots \cup {NoSlot}]
  <2> PICK n \in Unset : slot = [c \in Cores |-> IF c = Main THEN SlotOf(n) ELSE NoSlot]
    BY DEF Init
  <2>1. SlotOf(n) \in Slots \cup {NoSlot}
    BY PerfAssumption, SlotOfType
  <2>2. QED
    BY <2>1
<1>2. todo \in [Cores -> Seq(Increments)]
  BY DEF Init
<1>3. segment \in [Slots -> [Counters -> [Text -> Nat]]]
  BY DEF Init
<1>4. QED
  BY <1>1, <1>2, <1>3, PerfAssumption DEF Init, TypeOK, NoValue

LEMMA IncTypes ==
  ASSUME NEW k \in Counters, NEW pc \in Text, NEW n \in Nat
  PROVE  Inc(k, pc, n) \in Seq(Increments) /\ Len(Inc(k, pc, n)) = 1
  BY DEF Inc, Increments

LEMMA FetchTypes ==
  ASSUME NEW pc \in Text, NEW hit \in BOOLEAN
  PROVE  Fetch(pc, hit).incs \in Seq(Increments) /\ Fetch(pc, hit).time \in Nat
<1>1. /\ Inc("executed", pc, 1) \in Seq(Increments) /\ Inc("cycles", pc, 1) \in Seq(Increments)
      /\ Inc("imiss", pc, 1) \in Seq(Increments) /\ Inc("cycles", pc, Imiss) \in Seq(Increments)
  BY IncTypes, PerfAssumption DEF Counters
<1>2. QED
  BY <1>1, PerfAssumption DEF Fetch, Charge

LEMMA RestTypes ==
  ASSUME NEW pc \in Text, NEW hit \in BOOLEAN
  PROVE  /\ Access(pc, hit).incs \in Seq(Increments) /\ Access(pc, hit).time \in Nat
         /\ Jumped(pc).incs \in Seq(Increments) /\ Jumped(pc).time \in Nat
         /\ Nothing.incs \in Seq(Increments) /\ Nothing.time \in Nat
<1>1. /\ Inc("dmiss", pc, 1) \in Seq(Increments) /\ Inc("cycles", pc, Dmiss) \in Seq(Increments)
      /\ Inc("cycles", pc, Jump) \in Seq(Increments)
  BY IncTypes, PerfAssumption DEF Counters
<1>2. QED
  BY <1>1, PerfAssumption DEF Access, Jumped, Nothing, Charge

LEMMA TypesNext == TypeOK /\ Loading /\ [Next]_vars => TypeOK'
<1> SUFFICES ASSUME TypeOK, Loading, [Next]_vars PROVE TypeOK'
  OBVIOUS
<1>1. CASE UNCHANGED vars
  BY <1>1 DEF vars, TypeOK
<1>2. ASSUME NEW c \in Cores, Instruction(c) PROVE TypeOK'
  <2> PICK pc \in Text, ihit \in BOOLEAN :
        \E rest \in {Nothing} \cup {Access(pc, dhit) : dhit \in BOOLEAN}
                           \cup {Jumped(npc) : npc \in Text} :
          /\ todo' = [todo EXCEPT ![c] = Fetch(pc, ihit).incs \o rest.incs]
          /\ local_time' = [local_time EXCEPT ![c] = @ + Fetch(pc, ihit).time + rest.time]
    BY <1>2 DEF Instruction
  <2> PICK rest \in {Nothing} \cup {Access(pc, dhit) : dhit \in BOOLEAN}
                           \cup {Jumped(npc) : npc \in Text} :
          /\ todo' = [todo EXCEPT ![c] = Fetch(pc, ihit).incs \o rest.incs]
          /\ local_time' = [local_time EXCEPT ![c] = @ + Fetch(pc, ihit).time + rest.time]
    OBVIOUS
  <2>1. rest.incs \in Seq(Increments) /\ rest.time \in Nat
    BY RestTypes
  <2>2. Fetch(pc, ihit).incs \in Seq(Increments) /\ Fetch(pc, ihit).time \in Nat
    BY FetchTypes
  <2>3. Fetch(pc, ihit).incs \o rest.incs \in Seq(Increments)
    BY <2>1, <2>2
  <2>4. todo' \in [Cores -> Seq(Increments)]
    BY <2>3 DEF TypeOK
  <2>5. local_time' \in [Cores -> Nat]
    <3>1. local_time[c] + Fetch(pc, ihit).time + rest.time \in Nat
      BY <2>1, <2>2 DEF TypeOK
    <3>2. QED
      BY <3>1 DEF TypeOK
  <2>6. retired' \in [Cores -> Nat]
    BY <1>2 DEF TypeOK, Instruction
  <2>7. QED
    BY <1>2, <2>4, <2>5, <2>6 DEF TypeOK, Instruction, built
<1>3. ASSUME NEW c \in Cores, Load(c) PROVE TypeOK'
  <2>1. Head(todo[c]) \in Increments /\ slot[c] \in Slots
    BY <1>3 DEF Load, TypeOK
  <2>2. segment[slot[c]][Head(todo[c]).counter][Head(todo[c]).pc] \in Nat
    BY <2>1 DEF TypeOK, Increments
  <2>3. loaded' \in [Cores -> Nat \cup {NoValue}]
    BY <1>3, <2>2 DEF Load, TypeOK
  <2>4. QED
    BY <1>3, <2>3 DEF Load, TypeOK, built
<1>4. ASSUME NEW c \in Cores, Store(c) PROVE TypeOK'
  <2>1. todo[c] # <<>> /\ slot[c] \in Slots
    BY <1>4 DEF Store, Loading, TypeOK
  <2>2. Head(todo[c]) \in Increments /\ Tail(todo[c]) \in Seq(Increments)
    BY <2>1 DEF TypeOK
  <2>3. loaded[c] + Head(todo[c]).by \in Nat
    BY <1>4, <2>2 DEF Store, TypeOK, Increments, NoValue
  <2>4. segment' \in [Slots -> [Counters -> [Text -> Nat]]]
    BY SMTT(30), <1>4, <2>1, <2>2, <2>3 DEF Store, TypeOK, Increments
  <2>5. QED
    BY <1>4, <2>2, <2>4 DEF Store, TypeOK, built
<1>5. ASSUME NEW c \in Cores, Crash(c) PROVE TypeOK'
  BY <1>5 DEF Crash, TypeOK, built
<1>6. ASSUME NEW c \in Cores, BuildHart(c) PROVE TypeOK'
  <2>1. at' \in [Cores -> {"unborn", "mem", "run", "clone"}]
    BY <1>6 DEF BuildHart, TypeOK
  <2>2. number' \in [Cores -> Nat] /\ num_threads' \in Nat
    BY <1>6 DEF BuildHart, TypeOK
  <2>3. local_time[parent[c]] \in Nat
    BY DEF TypeOK
  <2>4. local_time' \in [Cores -> Nat] /\ started' \in [Cores -> Nat]
    BY <1>6, <2>3 DEF BuildHart, TypeOK
  <2>5. QED
    BY <1>6, <2>1, <2>2, <2>4 DEF BuildHart, TypeOK
<1>7. ASSUME NEW c \in Cores, NEW p \in Cores, BuildMem(c, p) PROVE TypeOK'
  <2>1. PICK n \in Unset : slot' = [slot EXCEPT ![c] = SlotOf(n)]
    BY <1>7 DEF BuildMem
  <2>2. SlotOf(n) \in Slots \cup {NoSlot}
    BY PerfAssumption, SlotOfType
  <2>3. slot' \in [Cores -> Slots \cup {NoSlot}]
    BY <2>1, <2>2 DEF TypeOK
  <2>4. at' \in [Cores -> {"unborn", "mem", "run", "clone"}] /\ parent' \in [Cores -> Cores]
    BY <1>7 DEF BuildMem, TypeOK
  <2>5. QED
    BY <1>7, <2>3, <2>4 DEF BuildMem, TypeOK
<1>8. QED
  BY <1>1, <1>2, <1>3, <1>4, <1>5, <1>6, <1>7 DEF Next, Step, Over
-----------------------------------------------------------------------------
LEMMA WeightInt ==
  ASSUME NEW i \in Increments, NEW pc \in Text
  PROVE  Weight(i, pc) \in Int
<1>1. i.by \in Nat /\ i.counter \in Counters
  BY DEF Increments
<1>2. Imiss * i.by \in Int /\ Dmiss * i.by \in Int
  BY <1>1, PerfAssumption
<1>3. QED
  BY <1>1, <1>2 DEF Weight, Counters

LEMMA NthInt ==
  ASSUME NEW q \in Seq(Increments), NEW k \in Nat \ {0}, NEW W \in Weights
  PROVE  Nth(q, k, W) \in Int
<1>1. k <= Len(q) => q[k] \in Increments
  OBVIOUS
<1>2. QED
  BY <1>1 DEF Nth, Weights

LEMMA UnexplainedInt ==
  ASSUME TypeOK, NEW s \in Slots, NEW p \in Text
  PROVE  Unexplained(segment[s], p) \in Int
<1>1. /\ segment[s]["cycles"][p] \in Nat /\ segment[s]["executed"][p] \in Nat
      /\ segment[s]["imiss"][p] \in Nat /\ segment[s]["dmiss"][p] \in Nat
  BY DEF TypeOK, Counters
<1>2. Imiss * segment[s]["imiss"][p] \in Int /\ Dmiss * segment[s]["dmiss"][p] \in Int
  BY <1>1, PerfAssumption
<1>3. QED
  BY <1>1, <1>2 DEF Unexplained

LEMMA OwedEmpty == \A W : Owed(<<>>, W) = 0
  BY DEF Owed, Nth

LEMMA OwedSum ==
  ASSUME NEW q, NEW t, NEW W, NEW w,
         \A k \in 1 .. 6 : Nth(q, k, W) \in Int,
         Nth(t, 1, W) = Nth(q, 2, W), Nth(t, 2, W) = Nth(q, 3, W),
         Nth(t, 3, W) = Nth(q, 4, W), Nth(t, 4, W) = Nth(q, 5, W),
         Nth(t, 5, W) = Nth(q, 6, W), Nth(t, 6, W) = 0, Nth(q, 1, W) = w
  PROVE  Owed(q, W) \in Int /\ Owed(t, W) \in Int /\ Owed(q, W) = w + Owed(t, W)
  BY DEF Owed

\* To make the first increment leaves the others.
LEMMA OwedShift ==
  ASSUME NEW q \in Seq(Increments), NEW t \in Seq(Increments), NEW W \in Weights,
         Len(q) \in 1 .. 6, Len(t) = Len(q) - 1, \A i \in 1 .. Len(t) : t[i] = q[i + 1]
  PROVE  /\ Owed(q, W) \in Int /\ Owed(t, W) \in Int
         /\ Owed(q, W) = W[q[1]] + Owed(t, W)
<1>1. \A k \in 1 .. 6 : Nth(q, k, W) \in Int
  <2> TAKE k \in 1 .. 6
  <2>1. k \in Nat \ {0}
    OBVIOUS
  <2>2. QED
    BY <2>1, NthInt
<1>2. \A k \in 1 .. 5 : Nth(t, k, W) = Nth(q, k + 1, W)
  BY DEF Nth
<1>3. /\ Nth(t, 1, W) = Nth(q, 2, W) /\ Nth(t, 2, W) = Nth(q, 3, W)
      /\ Nth(t, 3, W) = Nth(q, 4, W) /\ Nth(t, 4, W) = Nth(q, 5, W)
      /\ Nth(t, 5, W) = Nth(q, 6, W)
  <2>1. /\ Nth(t, 1, W) = Nth(q, 1 + 1, W) /\ Nth(t, 2, W) = Nth(q, 2 + 1, W)
        /\ Nth(t, 3, W) = Nth(q, 3 + 1, W) /\ Nth(t, 4, W) = Nth(q, 4 + 1, W)
        /\ Nth(t, 5, W) = Nth(q, 5 + 1, W)
    BY <1>2
  <2>2. QED
    BY <2>1
<1>4. Nth(t, 6, W) = 0 /\ Nth(q, 1, W) = W[q[1]]
  BY DEF Nth
<1>5. QED
  BY <1>1, <1>3, <1>4, OwedSum

LEMMA OwedTail ==
  ASSUME NEW q \in Seq(Increments), q # <<>>, Len(q) <= 6, NEW W \in Weights
  PROVE  /\ Owed(q, W) \in Int /\ Owed(Tail(q), W) \in Int
         /\ Owed(q, W) = W[Head(q)] + Owed(Tail(q), W)
<1> DEFINE t == Tail(q)
<1>1. Len(q) \in Nat /\ Len(q) # 0
  OBVIOUS
<1>2. Len(q) \in 1 .. 6
  <2>1. \A n \in Nat : n # 0 /\ n <= 6 => n \in 1 .. 6
    OBVIOUS
  <2>2. QED
    BY Zenon, <1>1, <2>1
<1>3. t \in Seq(Increments) /\ Len(t) = Len(q) - 1
  OBVIOUS
<1>4. \A i \in 1 .. Len(t) : t[i] = q[i + 1]
  OBVIOUS
<1>5. Head(q) = q[1]
  OBVIOUS
<1> HIDE DEF t
<1>6. /\ Owed(q, W) \in Int /\ Owed(t, W) \in Int
      /\ Owed(q, W) = W[q[1]] + Owed(t, W)
  BY <1>2, <1>3, <1>4, OwedShift
<1>7. QED
  BY <1>5, <1>6 DEF t

LEMMA OwedInt ==
  ASSUME NEW q \in Seq(Increments), NEW W \in Weights
  PROVE  Owed(q, W) \in Int
<1>1. \A k \in 1 .. 6 : Nth(q, k, W) \in Int
  <2> TAKE k \in 1 .. 6
  <2>1. k \in Nat \ {0}
    OBVIOUS
  <2>2. QED
    BY <2>1, NthInt
<1>2. QED
  BY <1>1 DEF Owed

LEMMA TwoOwed ==
  ASSUME NEW a \in Increments, NEW b \in Increments, NEW W \in Weights
  PROVE  /\ <<a, b>> \in Seq(Increments) /\ Len(<<a, b>>) = 2
         /\ Owed(<<a, b>>, W) = W[a] + W[b]
<1>1. W[a] \in Int /\ W[b] \in Int
  BY DEF Weights
<1>2. /\ Nth(<<a, b>>, 1, W) = W[a] /\ Nth(<<a, b>>, 2, W) = W[b]
      /\ Nth(<<a, b>>, 3, W) = 0 /\ Nth(<<a, b>>, 4, W) = 0
      /\ Nth(<<a, b>>, 5, W) = 0 /\ Nth(<<a, b>>, 6, W) = 0
  BY DEF Nth
<1>3. QED
  BY <1>1, <1>2 DEF Owed

LEMMA OneOwed ==
  ASSUME NEW a \in Increments, NEW W \in Weights
  PROVE  /\ <<a>> \in Seq(Increments) /\ Len(<<a>>) = 1
         /\ Owed(<<a>>, W) = W[a]
<1>1. W[a] \in Int
  BY DEF Weights
<1>2. /\ Nth(<<a>>, 1, W) = W[a] /\ Nth(<<a>>, 2, W) = 0
      /\ Nth(<<a>>, 3, W) = 0 /\ Nth(<<a>>, 4, W) = 0
      /\ Nth(<<a>>, 5, W) = 0 /\ Nth(<<a>>, 6, W) = 0
  BY DEF Nth
<1>3. QED
  BY <1>1, <1>2 DEF Owed

\* The increments of a lookup follow those of the fetch.
LEMMA OwedCat ==
  ASSUME NEW p \in Seq(Increments), NEW q \in Seq(Increments), NEW W \in Weights,
         Len(p) \in {2, 4}, Len(q) <= 2
  PROVE  Len(p \o q) <= 6 /\ Owed(p \o q, W) = Owed(p, W) + Owed(q, W)
<1> DEFINE r == p \o q
<1>1. r \in Seq(Increments) /\ Len(r) = Len(p) + Len(q)
  OBVIOUS
<1>2. \A k \in 1 .. 6 : /\ Nth(p, k, W) \in Int /\ Nth(q, k, W) \in Int
                       /\ Nth(r, k, W) \in Int
  <2> HIDE DEF r
  <2> TAKE k \in 1 .. 6
  <2>1. k \in Nat \ {0}
    OBVIOUS
  <2>2. QED
    BY <1>1, <2>1, NthInt
<1>3. \A k \in 1 .. Len(p) : Nth(r, k, W) = Nth(p, k, W)
  BY <1>1 DEF Nth
<1>4. \A k \in 1 .. 6 : k > Len(p) => Nth(p, k, W) = 0
  BY DEF Nth
<1>5. \A k \in 1 .. 6 : k > 2 => Nth(q, k, W) = 0
  BY DEF Nth
<1>6. \A k \in 1 .. 6 : k > Len(p) => Nth(r, k, W) = Nth(q, k - Len(p), W)
  <2> SUFFICES ASSUME NEW k \in 1 .. 6, k > Len(p) PROVE Nth(r, k, W) = Nth(q, k - Len(p), W)
    OBVIOUS
  <2>1. k <= Len(r) <=> k - Len(p) <= Len(q)
    BY <1>1
  <2>2. k <= Len(r) => r[k] = q[k - Len(p)]
    BY <1>1
  <2>3. QED
    BY <2>1, <2>2 DEF Nth
<1> HIDE DEF r
<1>7. CASE Len(p) = 2
  <2>1. /\ Nth(r, 1, W) = Nth(p, 1, W) /\ Nth(r, 2, W) = Nth(p, 2, W)
        /\ Nth(r, 3, W) = Nth(q, 3 - 2, W) /\ Nth(r, 4, W) = Nth(q, 4 - 2, W)
        /\ Nth(r, 5, W) = Nth(q, 5 - 2, W) /\ Nth(r, 6, W) = Nth(q, 6 - 2, W)
    BY <1>7, <1>3, <1>6
  <2>2. /\ Nth(r, 3, W) = Nth(q, 1, W) /\ Nth(r, 4, W) = Nth(q, 2, W)
        /\ Nth(r, 5, W) = Nth(q, 3, W) /\ Nth(r, 6, W) = Nth(q, 4, W)
    BY <2>1
  <2>3. QED
    BY <1>1, <1>2, <1>4, <1>5, <1>7, <2>1, <2>2 DEF Owed, r
<1>8. CASE Len(p) = 4
  <2>1. /\ Nth(r, 1, W) = Nth(p, 1, W) /\ Nth(r, 2, W) = Nth(p, 2, W)
        /\ Nth(r, 3, W) = Nth(p, 3, W) /\ Nth(r, 4, W) = Nth(p, 4, W)
        /\ Nth(r, 5, W) = Nth(q, 5 - 4, W) /\ Nth(r, 6, W) = Nth(q, 6 - 4, W)
    BY <1>8, <1>3, <1>6
  <2>2. Nth(r, 5, W) = Nth(q, 1, W) /\ Nth(r, 6, W) = Nth(q, 2, W)
    BY <2>1
  <2>3. QED
    BY SMTT(30), <1>1, <1>2, <1>4, <1>5, <1>8, <2>1, <2>2 DEF Owed, r
<1>9. QED
  BY <1>7, <1>8
-----------------------------------------------------------------------------
LEMMA CatOnes ==
  ASSUME NEW a \in Increments, NEW b \in Increments
  PROVE  <<a>> \o <<b>> = <<a, b>>
<1>1. <<a>> \o <<b>> \in Seq(Increments) /\ <<a, b>> \in Seq(Increments)
  OBVIOUS
<1>2. Len(<<a>> \o <<b>>) = 2 /\ Len(<<a, b>>) = 2
  OBVIOUS
<1>3. \A i \in 1 .. 2 : (<<a>> \o <<b>>)[i] = <<a, b>>[i]
  OBVIOUS
<1>4. QED
  BY <1>1, <1>2, <1>3, SeqEqual

\* The increments of a fetch, by any weights.
Plus(k, pc, n) == [counter |-> k, pc |-> pc, by |-> n]

LEMMA PlusType ==
  ASSUME NEW k \in Counters, NEW pc \in Text, NEW n \in Nat
  PROVE  Plus(k, pc, n) \in Increments /\ Inc(k, pc, n) = <<Plus(k, pc, n)>>
  BY DEF Plus, Inc, Increments

LEMMA FetchOwes ==
  ASSUME NEW pc \in Text, NEW hit \in BOOLEAN, NEW W \in Weights
  PROVE  /\ Len(Fetch(pc, hit).incs) \in {2, 4}
         /\ Owed(Fetch(pc, hit).incs, W) =
              W[Plus("executed", pc, 1)] + W[Plus("cycles", pc, 1)]
                + IF hit THEN 0 ELSE W[Plus("imiss", pc, 1)] + W[Plus("cycles", pc, Imiss)]
<1> DEFINE run == Plus("executed", pc, 1)
           one == Plus("cycles", pc, 1)
           miss == Plus("imiss", pc, 1)
           wait == Plus("cycles", pc, Imiss)
<1>1. /\ run \in Increments /\ one \in Increments /\ miss \in Increments /\ wait \in Increments
      /\ Inc("executed", pc, 1) = <<run>> /\ Inc("cycles", pc, 1) = <<one>>
      /\ Inc("imiss", pc, 1) = <<miss>> /\ Inc("cycles", pc, Imiss) = <<wait>>
  BY PlusType, PerfAssumption DEF Counters
<1>2. W[run] \in Int /\ W[one] \in Int /\ W[miss] \in Int /\ W[wait] \in Int
  BY <1>1 DEF Weights
<1>3. hit => Fetch(pc, hit).incs = Inc("executed", pc, 1) \o Inc("cycles", pc, 1)
  BY DEF Fetch, Charge
<1>4. ~hit => Fetch(pc, hit).incs = Inc("imiss", pc, 1) \o Inc("cycles", pc, Imiss)
                                      \o (Inc("executed", pc, 1) \o Inc("cycles", pc, 1))
  BY DEF Fetch, Charge
<1> HIDE DEF run, one, miss, wait
<1>5. <<run>> \o <<one>> = <<run, one>> /\ <<miss>> \o <<wait>> = <<miss, wait>>
  BY <1>1, CatOnes
<1>6. /\ <<miss, wait>> \in Seq(Increments) /\ Len(<<miss, wait>>) = 2
      /\ <<run, one>> \in Seq(Increments) /\ Len(<<run, one>>) = 2
      /\ Owed(<<miss, wait>>, W) = W[miss] + W[wait] /\ Owed(<<run, one>>, W) = W[run] + W[one]
  BY <1>1, TwoOwed
<1>7. CASE hit
  <2>1. Fetch(pc, hit).incs = <<run, one>>
    BY <1>1, <1>3, <1>5, <1>7
  <2>2. Len(Fetch(pc, hit).incs) = 2 /\ Owed(Fetch(pc, hit).incs, W) = W[run] + W[one] + 0
    BY <1>2, <1>6, <2>1
  <2>3. QED
    BY Zenon, <1>7, <2>2 DEF run, one
<1>8. CASE ~hit
  <2>1. Fetch(pc, hit).incs = <<miss, wait>> \o <<run, one>>
    BY <1>1, <1>4, <1>5, <1>8
  <2>2. Len(<<miss, wait>> \o <<run, one>>) = 4
    BY <1>1
  <2>3. Owed(<<miss, wait>> \o <<run, one>>, W) = Owed(<<miss, wait>>, W) + Owed(<<run, one>>, W)
    <3>1. Len(<<miss, wait>>) \in {2, 4} /\ Len(<<run, one>>) <= 2
      BY <1>6
    <3>2. QED
      BY <1>6, <3>1, OwedCat
  <2>4. Owed(Fetch(pc, hit).incs, W) = W[run] + W[one] + (W[miss] + W[wait])
    BY <1>2, <1>6, <2>1, <2>3
  <2>5. QED
    BY <1>8, <2>1, <2>2, <2>4 DEF run, one, miss, wait
<1>9. QED
  BY <1>7, <1>8

\* The increments of a lookup or of a jump, by any weights.
LEMMA RestOwes ==
  ASSUME NEW pc \in Text, NEW W \in Weights,
         NEW rest \in {Nothing} \cup {Access(pc, dhit) : dhit \in BOOLEAN}
                             \cup {Jumped(npc) : npc \in Text}
  PROVE  /\ Len(rest.incs) <= 2
         /\ \/ Owed(rest.incs, W) = 0 /\ rest.time = 0
            \/ /\ Owed(rest.incs, W) = W[Plus("dmiss", pc, 1)] + W[Plus("cycles", pc, Dmiss)]
               /\ rest.time = Dmiss
            \/ \E npc \in Text : /\ Owed(rest.incs, W) = W[Plus("cycles", npc, Jump)]
                                 /\ rest.time = Jump
<1>1. ASSUME rest = Nothing PROVE Len(rest.incs) <= 2 /\ Owed(rest.incs, W) = 0 /\ rest.time = 0
  <2>1. rest.incs = <<>> /\ rest.time = 0
    BY <1>1 DEF Nothing, Charge
  <2>2. QED
    BY <2>1, OwedEmpty
<1>2. ASSUME NEW dhit \in BOOLEAN, rest = Access(pc, dhit), ~dhit
      PROVE  /\ Len(rest.incs) <= 2 /\ rest.time = Dmiss
             /\ Owed(rest.incs, W) = W[Plus("dmiss", pc, 1)] + W[Plus("cycles", pc, Dmiss)]
  <2> DEFINE miss == Plus("dmiss", pc, 1)
             wait == Plus("cycles", pc, Dmiss)
  <2>1. /\ miss \in Increments /\ Inc("dmiss", pc, 1) = <<miss>>
        /\ wait \in Increments /\ Inc("cycles", pc, Dmiss) = <<wait>>
    BY PlusType, PerfAssumption DEF Counters
  <2>2. rest.incs = Inc("dmiss", pc, 1) \o Inc("cycles", pc, Dmiss) /\ rest.time = Dmiss
    BY <1>2 DEF Access, Charge
  <2> HIDE DEF miss, wait
  <2>3. rest.incs = <<miss, wait>>
    BY <2>1, <2>2, CatOnes
  <2>4. Len(<<miss, wait>>) = 2 /\ Owed(<<miss, wait>>, W) = W[miss] + W[wait]
    BY <2>1, TwoOwed
  <2>5. /\ Len(rest.incs) <= 2 /\ rest.time = Dmiss
        /\ Owed(rest.incs, W) = W[miss] + W[wait]
    <3>1. Len(rest.incs) = 2 /\ Owed(rest.incs, W) = W[miss] + W[wait]
      BY Zenon, <2>3, <2>4
    <3>2. QED
      BY <2>2, <3>1
  <2>6. QED
    BY Zenon, <2>5 DEF miss, wait
<1>3. ASSUME NEW npc \in Text, rest = Jumped(npc)
      PROVE  /\ Len(rest.incs) <= 2 /\ rest.time = Jump
             /\ Owed(rest.incs, W) = W[Plus("cycles", npc, Jump)]
  <2> DEFINE flush == Plus("cycles", npc, Jump)
  <2>1. flush \in Increments /\ Inc("cycles", npc, Jump) = <<flush>>
    BY PlusType, PerfAssumption DEF Counters
  <2>2. rest.incs = Inc("cycles", npc, Jump) /\ rest.time = Jump
    BY <1>3 DEF Jumped, Charge
  <2> HIDE DEF flush
  <2>3. Len(<<flush>>) = 1 /\ Owed(<<flush>>, W) = W[flush]
    BY <2>1, OneOwed
  <2>4. Len(rest.incs) <= 2 /\ rest.time = Jump /\ Owed(rest.incs, W) = W[flush]
    <3>1. Len(rest.incs) = 1 /\ Owed(rest.incs, W) = W[flush]
      BY Zenon, <2>1, <2>2, <2>3
    <3>2. Len(rest.incs) <= 2
      BY <3>1
    <3>3. QED
      BY Zenon, <2>2, <3>1, <3>2
  <2>5. QED
    BY Zenon, <2>4 DEF flush
<1>4. ASSUME NEW dhit \in BOOLEAN, rest = Access(pc, dhit), dhit PROVE rest = Nothing
  BY <1>4 DEF Access
<1>5. QED
  BY <1>1, <1>2, <1>3, <1>4

LEMMA LeftType == \A p \in Text : Left(p) \in Weights
  BY WeightInt DEF Left, Weights

\* A fetch explains what it charges.
LEMMA FetchExplained ==
  ASSUME NEW pc \in Text, NEW hit \in BOOLEAN, NEW p \in Text
  PROVE  Owed(Fetch(pc, hit).incs, Left(p)) = 0
<1>1. /\ Plus("executed", pc, 1) \in Increments /\ Plus("cycles", pc, 1) \in Increments
      /\ Plus("imiss", pc, 1) \in Increments /\ Plus("cycles", pc, Imiss) \in Increments
  BY PlusType, PerfAssumption DEF Counters
<1>2. /\ Left(p)[Plus("executed", pc, 1)] + Left(p)[Plus("cycles", pc, 1)] = 0
      /\ Left(p)[Plus("imiss", pc, 1)] + Left(p)[Plus("cycles", pc, Imiss)] = 0
  BY <1>1, PerfAssumption DEF Left, Weight, Plus
<1>3. QED
  BY <1>2, FetchOwes, LeftType

\* A miss explains what it charges, and a jump leaves one Jump at its target.
LEMMA RestExplained ==
  ASSUME NEW pc \in Text, NEW p \in Text,
         NEW rest \in {Nothing} \cup {Access(pc, dhit) : dhit \in BOOLEAN}
                             \cup {Jumped(npc) : npc \in Text}
  PROVE  Owed(rest.incs, Left(p)) \in {0, Jump}
<1>1. Left(p)[Plus("dmiss", pc, 1)] + Left(p)[Plus("cycles", pc, Dmiss)] = 0
  <2>1. Plus("dmiss", pc, 1) \in Increments /\ Plus("cycles", pc, Dmiss) \in Increments
    BY PlusType, PerfAssumption DEF Counters
  <2>2. QED
    BY <2>1, PerfAssumption DEF Left, Weight, Plus
<1>2. \A npc \in Text : Left(p)[Plus("cycles", npc, Jump)] \in {0, Jump}
  <2> TAKE npc \in Text
  <2>1. Plus("cycles", npc, Jump) \in Increments
    BY PlusType, PerfAssumption DEF Counters
  <2>2. QED
    BY <2>1, PerfAssumption DEF Left, Weight, Plus
<1>3. QED
  BY <1>1, <1>2, RestOwes, LeftType

LEMMA ByType == \A k : By(k) \in Weights
  BY DEF By, Weights, Increments

\* What a fetch, or the rest of an instruction, will add to the two totals.
LEMMA FetchDue ==
  ASSUME NEW pc \in Text, NEW hit \in BOOLEAN
  PROVE  /\ Owed(Fetch(pc, hit).incs, By("cycles")) = Fetch(pc, hit).time
         /\ Owed(Fetch(pc, hit).incs, By("executed")) = 1
<1>1. /\ Plus("executed", pc, 1) \in Increments /\ Plus("cycles", pc, 1) \in Increments
      /\ Plus("imiss", pc, 1) \in Increments /\ Plus("cycles", pc, Imiss) \in Increments
  BY PlusType, PerfAssumption DEF Counters
<1>2. /\ By("cycles")[Plus("executed", pc, 1)] = 0 /\ By("cycles")[Plus("cycles", pc, 1)] = 1
      /\ By("cycles")[Plus("imiss", pc, 1)] = 0 /\ By("cycles")[Plus("cycles", pc, Imiss)] = Imiss
      /\ By("executed")[Plus("executed", pc, 1)] = 1 /\ By("executed")[Plus("cycles", pc, 1)] = 0
      /\ By("executed")[Plus("imiss", pc, 1)] = 0 /\ By("executed")[Plus("cycles", pc, Imiss)] = 0
  BY <1>1 DEF By, Plus
<1>3. Fetch(pc, hit).time = IF hit THEN 1 ELSE Imiss + 1
  BY DEF Fetch, Charge
<1>4. QED
  BY <1>2, <1>3, FetchOwes, ByType, PerfAssumption

LEMMA RestDue ==
  ASSUME NEW pc \in Text,
         NEW rest \in {Nothing} \cup {Access(pc, dhit) : dhit \in BOOLEAN}
                             \cup {Jumped(npc) : npc \in Text}
  PROVE  Owed(rest.incs, By("cycles")) = rest.time /\ Owed(rest.incs, By("executed")) = 0
<1>1. /\ Plus("dmiss", pc, 1) \in Increments /\ Plus("cycles", pc, Dmiss) \in Increments
      /\ \A npc \in Text : Plus("cycles", npc, Jump) \in Increments
  BY PlusType, PerfAssumption DEF Counters
<1>2. /\ By("cycles")[Plus("dmiss", pc, 1)] = 0 /\ By("cycles")[Plus("cycles", pc, Dmiss)] = Dmiss
      /\ By("executed")[Plus("dmiss", pc, 1)] = 0 /\ By("executed")[Plus("cycles", pc, Dmiss)] = 0
      /\ \A npc \in Text : /\ By("cycles")[Plus("cycles", npc, Jump)] = Jump
                          /\ By("executed")[Plus("cycles", npc, Jump)] = 0
  BY <1>1 DEF By, Plus
<1>3. Owed(rest.incs, By("cycles")) = rest.time
  BY <1>2, RestOwes, ByType, PerfAssumption
<1>4. Owed(rest.incs, By("executed")) = 0
  BY <1>2, RestOwes, ByType
<1>5. QED
  BY <1>3, <1>4

\* What is still to be added is never negative.
LEMMA DueNat ==
  ASSUME NEW q \in Seq(Increments), NEW k
  PROVE  Owed(q, By(k)) \in Nat
<1>1. ASSUME NEW n \in Nat \ {0} PROVE Nth(q, n, By(k)) \in Nat
  <2>1. n <= Len(q) => q[n] \in Increments
    OBVIOUS
  <2>2. \A i \in Increments : By(k)[i] \in Nat
    BY DEF By, Increments
  <2>3. QED
    BY <2>1, <2>2 DEF Nth
<1>2. /\ Nth(q, 1, By(k)) \in Nat /\ Nth(q, 2, By(k)) \in Nat /\ Nth(q, 3, By(k)) \in Nat
      /\ Nth(q, 4, By(k)) \in Nat /\ Nth(q, 5, By(k)) \in Nat /\ Nth(q, 6, By(k)) \in Nat
  BY <1>1
<1>3. \A u, v, w, x, y, z \in Nat : u + v + w + x + y + z \in Nat
  OBVIOUS
<1>4. QED
  BY Zenon, <1>2, <1>3 DEF Owed
-----------------------------------------------------------------------------
LEMMA PerfInvInit == Init => PerfInv
<1> SUFFICES ASSUME Init PROVE PerfInv
  OBVIOUS
<1>1. TypeOK
  BY TypesInit
<1>2. Parented /\ Bare /\ Loading /\ Short /\ Current
  BY DEF Init, Parented, Bare, Loading, Short, Current
<1>3. \A s \in Slots, k \in Counters, p \in Text : segment[s][k][p] = 0
  BY DEF Init
<1>4. Unused
  BY <1>3 DEF Unused
<1>5. Charged
  <2> SUFFICES ASSUME NEW c \in Cores, Sole(c), NEW p \in Text
               PROVE  \E n \in 0 .. retired[c] : Jumps(c, p) = Jump * n
    BY DEF Charged
  <2>1. slot[c] \in Slots
    BY <1>1 DEF Sole, TypeOK
  <2>2. Unexplained(segment[slot[c]], p) = 0
    BY <1>3, <2>1, PerfAssumption DEF Unexplained, Counters
  <2>3. Owed(todo[c], Left(p)) = 0
    BY OwedEmpty DEF Init
  <2>4. 0 \in 0 .. retired[c] /\ Jump * 0 = 0
    BY <1>1, PerfAssumption DEF TypeOK
  <2>5. QED
    BY <2>2, <2>3, <2>4 DEF Jumps
<1>6. QED
  BY <1>1, <1>2, <1>4, <1>5 DEF PerfInv

\* While nobody is built, who is alone in a slot stays so.
LEMMA SoleFrame ==
  ASSUME TypeOK, slot' = slot,
         \A c \in Cores : at'[c] = "unborn" <=> at[c] = "unborn"
  PROVE  /\ \A s \in Slots : Users(s)' = Users(s)
         /\ \A c \in Cores : Sole(c)' <=> Sole(c)
<1>1. \A s : Users(s)' = Users(s)
  BY DEF Users
<1>2. QED
  BY <1>1 DEF Sole

\* Nothing that is charged moves.
LEMMA ChargedFrame ==
  ASSUME TypeOK, Charged, slot' = slot, segment' = segment, todo' = todo, retired' = retired,
         \A c \in Cores : at'[c] = "unborn" <=> at[c] = "unborn"
  PROVE  Charged'
<1>1. \A c \in Cores : Sole(c)' <=> Sole(c)
  BY SoleFrame
<1>2. \A c \in Cores, p \in Text : Jumps(c, p)' = Jumps(c, p)
  BY DEF Jumps
<1>3. QED
  BY <1>1, <1>2 DEF Charged

\* c counts in its slot while it has something to count.
LEMMA BusyCounts ==
  ASSUME PerfInv, NEW c \in Cores, todo[c] # <<>>, slot[c] # NoSlot
  PROVE  /\ at[c] \in {"run", "clone"} /\ slot[c] \in Slots /\ c \in Users(slot[c])
         /\ \A d \in Cores : Sole(d) /\ slot[d] = slot[c] => d = c
<1>1. at[c] \in {"run", "clone"} /\ slot[c] \in Slots
  BY DEF PerfInv, Bare, TypeOK
<1>2. c \in Users(slot[c])
  BY <1>1 DEF Users
<1>3. QED
  BY <1>1, <1>2 DEF Sole

LEMMA InstructionShape ==
  ASSUME TypeOK, NEW c \in Cores, Instruction(c)
  PROVE  \E q \in Seq(Increments), t \in Nat :
           /\ todo' = [todo EXCEPT ![c] = q]
           /\ local_time' = [local_time EXCEPT ![c] = @ + t]
           /\ Len(q) <= 6 /\ \A p \in Text : Owed(q, Left(p)) \in {0, Jump}
           /\ Owed(q, By("cycles")) = t /\ Owed(q, By("executed")) = 1
<1> PICK pc \in Text, ihit \in BOOLEAN :
      \E rest \in {Nothing} \cup {Access(pc, dhit) : dhit \in BOOLEAN}
                         \cup {Jumped(npc) : npc \in Text} :
        /\ todo' = [todo EXCEPT ![c] = Fetch(pc, ihit).incs \o rest.incs]
        /\ local_time' = [local_time EXCEPT ![c] = @ + Fetch(pc, ihit).time + rest.time]
  BY DEF Instruction
<1> PICK rest \in {Nothing} \cup {Access(pc, dhit) : dhit \in BOOLEAN}
                         \cup {Jumped(npc) : npc \in Text} :
        /\ todo' = [todo EXCEPT ![c] = Fetch(pc, ihit).incs \o rest.incs]
        /\ local_time' = [local_time EXCEPT ![c] = @ + Fetch(pc, ihit).time + rest.time]
  OBVIOUS
<1> DEFINE f == Fetch(pc, ihit).incs
           r == rest.incs
           tf == Fetch(pc, ihit).time
           tr == rest.time
<1>1. f \in Seq(Increments) /\ r \in Seq(Increments) /\ tf \in Nat /\ tr \in Nat
  BY FetchTypes, RestTypes
<1>2. Len(f) \in {2, 4} /\ Len(r) <= 2
  BY FetchOwes, RestOwes, ByType
<1>3. \A p \in Text : Owed(f, Left(p)) = 0 /\ Owed(r, Left(p)) \in {0, Jump}
  BY FetchExplained, RestExplained
<1>4. /\ Owed(f, By("cycles")) = tf /\ Owed(f, By("executed")) = 1
      /\ Owed(r, By("cycles")) = tr /\ Owed(r, By("executed")) = 0
  BY FetchDue, RestDue
<1>5. todo' = [todo EXCEPT ![c] = f \o r]
  OBVIOUS
<1>6. local_time' = [local_time EXCEPT ![c] = @ + tf + tr]
  OBVIOUS
<1> HIDE DEF f, r, tf, tr
<1>7. f \o r \in Seq(Increments) /\ tf + tr \in Nat
  BY <1>1
<1>8. Len(f \o r) <= 6 /\ \A W \in Weights : Owed(f \o r, W) = Owed(f, W) + Owed(r, W)
  <2>1. \A W \in Weights : Len(f \o r) <= 6 /\ Owed(f \o r, W) = Owed(f, W) + Owed(r, W)
    BY <1>1, <1>2, OwedCat
  <2>2. QED
    BY <2>1, ByType
<1>9. \A p \in Text : Owed(f \o r, Left(p)) \in {0, Jump}
  BY <1>3, <1>8, LeftType, PerfAssumption
<1>10. Owed(f \o r, By("cycles")) = tf + tr /\ Owed(f \o r, By("executed")) = 1
  BY <1>4, <1>8, ByType
<1>11. local_time' = [local_time EXCEPT ![c] = @ + (tf + tr)]
  <2>1. local_time[c] + tf + tr = local_time[c] + (tf + tr)
    BY <1>1 DEF TypeOK
  <2>2. QED
    BY <1>6, <2>1
<1>12. QED
  BY <1>5, <1>7, <1>8, <1>9, <1>10, <1>11
-----------------------------------------------------------------------------
\* What is left of the invariant once the types are dealt with.
Rest == Parented /\ Bare /\ Loading /\ Short /\ Unused /\ Current /\ Charged

LEMMA InstructionKeeps ==
  ASSUME PerfInv, NEW c \in Cores, Instruction(c) PROVE Rest'
<1> USE DEF PerfInv
<1>1. PICK q \in Seq(Increments), t \in Nat :
        /\ todo' = [todo EXCEPT ![c] = q]
        /\ local_time' = [local_time EXCEPT ![c] = @ + t]
        /\ Len(q) <= 6 /\ \A p \in Text : Owed(q, Left(p)) \in {0, Jump}
        /\ Owed(q, By("cycles")) = t /\ Owed(q, By("executed")) = 1
  BY InstructionShape
<1>2. /\ at' = at /\ slot' = slot /\ parent' = parent /\ segment' = segment /\ loaded' = loaded
      /\ retired' = [retired EXCEPT ![c] = @ + 1]
      /\ at[c] = "run" /\ todo[c] = <<>>
  BY DEF Instruction, built, Idle
<1>3. /\ \A s \in Slots : Users(s)' = Users(s)
      /\ \A d \in Cores : Sole(d)' <=> Sole(d)
  BY <1>2, SoleFrame
<1>4. Parented' /\ Bare' /\ Loading'
  BY <1>1, <1>2 DEF Parented, Bare, Loading, TypeOK
<1>5. Short'
  BY <1>1 DEF Short, TypeOK
<1>6. Unused'
  BY <1>2, <1>3 DEF Unused
<1>7. Current'
  BY <1>1, <1>2, <1>3 DEF Current, Loading, TypeOK
<1>8. Charged'
  <2> SUFFICES ASSUME NEW d \in Cores, Sole(d)', NEW p \in Text
               PROVE  \E n \in 0 .. retired'[d] : Jumps(d, p)' = Jump * n
    BY DEF Charged
  <2>1. PICK n \in 0 .. retired[d] : Jumps(d, p) = Jump * n
    BY <1>3 DEF Charged
  <2>2. CASE d # c
    <3>1. Jumps(d, p)' = Jumps(d, p) /\ retired'[d] = retired[d]
      BY <1>1, <1>2, <2>2 DEF Jumps, TypeOK
    <3>2. QED
      BY <2>1, <3>1
  <2>3. CASE d = c
    <3> DEFINE u == Unexplained(segment[slot[c]], p)
    <3>1. Jumps(c, p) = u + 0
      BY <1>2, OwedEmpty DEF Jumps
    <3>2. Jumps(c, p)' = u + Owed(q, Left(p))
      BY <1>1, <1>2 DEF Jumps, TypeOK
    <3>3. u \in Int
      <4>1. slot[c] \in Slots
        BY <1>2, <1>3, <2>3 DEF Sole, TypeOK
      <4>2. QED
        BY <4>1, UnexplainedInt
    <3>4. n \in Int /\ n <= retired[c] /\ 0 <= n /\ retired[c] \in Nat /\ retired'[c] = retired[c] + 1
      BY <1>2, <2>3 DEF TypeOK
    <3> HIDE DEF u
    <3>5. u = Jump * n
      BY <2>1, <2>3, <3>1, <3>3
    <3>6. Jump * (n + 1) = Jump * n + Jump
      BY <3>4, PerfAssumption
    <3>7. n \in 0 .. retired'[c] /\ n + 1 \in 0 .. retired'[c]
      BY <3>4
    <3>8. Jumps(c, p)' = Jump * n \/ Jumps(c, p)' = Jump * (n + 1)
      BY <1>1, <3>2, <3>3, <3>5, <3>6
    <3>9. QED
      BY <2>3, <3>7, <3>8
  <2>4. QED
    BY <2>2, <2>3
<1>9. QED
  BY <1>4, <1>5, <1>6, <1>7, <1>8 DEF Rest

LEMMA LoadKeeps ==
  ASSUME PerfInv, NEW c \in Cores, Load(c) PROVE Rest'
<1> USE DEF PerfInv
<1>1. /\ at' = at /\ slot' = slot /\ parent' = parent /\ segment' = segment /\ todo' = todo
      /\ retired' = retired /\ todo[c] # <<>> /\ slot[c] # NoSlot
      /\ loaded' = [loaded EXCEPT ![c] =
                      segment[slot[c]][Head(todo[c]).counter][Head(todo[c]).pc]]
  BY DEF Load, built
<1>2. /\ \A s \in Slots : Users(s)' = Users(s)
      /\ \A d \in Cores : Sole(d)' <=> Sole(d)
  BY <1>1, SoleFrame
<1>3. Parented' /\ Bare' /\ Loading' /\ Short'
  BY <1>1 DEF Parented, Bare, Loading, Short, TypeOK
<1>4. Unused'
  BY <1>1, <1>2 DEF Unused
<1>5. Current'
  BY <1>1, <1>2 DEF Current, TypeOK
<1>6. Charged'
  BY <1>1, ChargedFrame
<1>7. QED
  BY <1>3, <1>4, <1>5, <1>6 DEF Rest

LEMMA CrashKeeps ==
  ASSUME PerfInv, NEW c \in Cores, Crash(c) PROVE Rest'
<1> USE DEF PerfInv
<1>1. /\ at' = at /\ slot' = slot /\ parent' = parent /\ segment' = segment /\ todo' = todo
      /\ retired' = retired /\ loaded' = loaded
  BY DEF Crash, built
<1>2. /\ \A s \in Slots : Users(s)' = Users(s)
      /\ \A d \in Cores : Sole(d)' <=> Sole(d)
  BY <1>1, SoleFrame
<1>3. Charged'
  BY <1>1, ChargedFrame
<1>4. QED
  BY <1>1, <1>2, <1>3 DEF Rest, Parented, Bare, Loading, Short, Unused, Current

LEMMA HartKeeps ==
  ASSUME PerfInv, NEW c \in Cores, BuildHart(c) PROVE Rest'
<1> USE DEF PerfInv
<1>1. /\ slot' = slot /\ parent' = parent /\ segment' = segment /\ todo' = todo
      /\ retired' = retired /\ loaded' = loaded /\ at[c] = "mem"
      /\ at' = [at EXCEPT ![c] = "run", ![parent[c]] = "run"]
  BY DEF BuildHart
<1>2. \A d \in Cores : at'[d] = "unborn" <=> at[d] = "unborn"
  BY <1>1 DEF Parented, TypeOK
<1>3. /\ \A s \in Slots : Users(s)' = Users(s)
      /\ \A d \in Cores : Sole(d)' <=> Sole(d)
  BY <1>1, <1>2, SoleFrame
<1>4. \A d \in Cores : at'[d] = "mem" => at[d] = "mem"
  BY <1>1 DEF TypeOK
<1>5. Parented' /\ Bare'
  BY <1>1, <1>2, <1>4 DEF Parented, Bare, TypeOK
<1>6. Charged'
  BY <1>1, <1>2, ChargedFrame
<1>7. QED
  BY <1>1, <1>3, <1>5, <1>6 DEF Rest, Loading, Short, Unused, Current

\* A store moves its increment from what is left to do to what is counted.
LEMMA StoreMoves ==
  ASSUME PerfInv, NEW c \in Cores, Store(c), Sole(c), NEW p \in Text
  PROVE  Jumps(c, p)' = Jumps(c, p)
<1> USE DEF PerfInv
<1> DEFINE i == Head(todo[c])
           s == segment[slot[c]]
           t == segment'[slot[c]]
<1>1. /\ slot' = slot /\ loaded[c] # NoValue /\ todo' = [todo EXCEPT ![c] = Tail(@)]
      /\ segment' = [segment EXCEPT ![slot[c]][i.counter][i.pc] = loaded[c] + i.by]
  BY DEF Store, built
<1>2. todo[c] # <<>> /\ slot[c] \in Slots /\ Len(todo[c]) <= 6 /\ todo[c] \in Seq(Increments)
  BY <1>1 DEF Loading, Short, TypeOK
<1>3. i \in Increments
  BY <1>2
<1>4. loaded[c] = s[i.counter][i.pc]
  BY <1>1 DEF Current
<1>5. \A k \in Counters : s[k][p] \in Nat
  BY <1>2 DEF TypeOK
<1>6. i.counter \in Counters /\ i.pc \in Text /\ i.by \in Nat
  BY <1>3 DEF Increments
<1>7. \A k \in Counters : t[k][p] = IF k = i.counter /\ p = i.pc THEN s[k][p] + i.by ELSE s[k][p]
  BY SMTT(30), <1>1, <1>2, <1>4, <1>6 DEF TypeOK
<1>8. Unexplained(t, p) = Unexplained(s, p) + Weight(i, p)
  <2> HIDE DEF i, s, t
  <2>1. CASE p # i.pc
    <3>1. \A k \in Counters : t[k][p] = s[k][p]
      BY <1>7, <2>1
    <3>2. Weight(i, p) = 0
      BY <2>1 DEF Weight
    <3>3. Unexplained(t, p) = Unexplained(s, p)
      BY <3>1 DEF Unexplained, Counters
    <3>4. Unexplained(s, p) \in Int
      BY <1>2, UnexplainedInt DEF s
    <3>5. QED
      BY <3>2, <3>3, <3>4
  <2>2. CASE p = i.pc
    <3>1. \A a, b \in Nat : /\ Imiss * (a + b) = Imiss * a + Imiss * b /\ Imiss * a \in Int
                          /\ Dmiss * (a + b) = Dmiss * a + Dmiss * b /\ Dmiss * a \in Int
      BY PerfAssumption
    <3> DEFINE cy == s["cycles"][p]
               ex == s["executed"][p]
               im == s["imiss"][p]
               dm == s["dmiss"][p]
    <3>2. cy \in Nat /\ ex \in Nat /\ im \in Nat /\ dm \in Nat
      BY <1>5 DEF Counters
    <3>3. /\ Imiss * im \in Int /\ Dmiss * dm \in Int /\ Imiss * i.by \in Int /\ Dmiss * i.by \in Int
          /\ Imiss * (im + i.by) = Imiss * im + Imiss * i.by
          /\ Dmiss * (dm + i.by) = Dmiss * dm + Dmiss * i.by
      BY <1>6, <3>1, <3>2
    <3>4. CASE i.counter = "cycles"
      BY <1>6, <1>7, <2>2, <3>2, <3>3, <3>4 DEF Unexplained, Weight, Counters
    <3>5. CASE i.counter = "executed"
      BY <1>6, <1>7, <2>2, <3>2, <3>3, <3>5 DEF Unexplained, Weight, Counters
    <3>6. CASE i.counter = "imiss"
      BY <1>6, <1>7, <2>2, <3>2, <3>3, <3>6 DEF Unexplained, Weight, Counters
    <3>7. CASE i.counter = "dmiss"
      BY <1>6, <1>7, <2>2, <3>2, <3>3, <3>7 DEF Unexplained, Weight, Counters
    <3>8. QED
      BY <1>6, <3>4, <3>5, <3>6, <3>7 DEF Counters
  <2>3. QED
    BY <2>1, <2>2
<1>9. /\ Owed(todo[c], Left(p)) \in Int /\ Owed(Tail(todo[c]), Left(p)) \in Int
      /\ Owed(todo[c], Left(p)) = Left(p)[i] + Owed(Tail(todo[c]), Left(p))
      /\ Left(p)[i] = Weight(i, p)
  BY <1>2, <1>3, OwedTail, LeftType DEF Left
<1>10. Unexplained(s, p) \in Int /\ Weight(i, p) \in Int
  BY <1>2, <1>3, UnexplainedInt, WeightInt
<1>11. todo'[c] = Tail(todo[c]) /\ slot'[c] = slot[c]
  BY <1>1 DEF TypeOK
<1>12. QED
  <2>1. Jumps(c, p)' = Unexplained(t, p) + Owed(Tail(todo[c]), Left(p))
    BY <1>11 DEF Jumps
  <2>2. Jumps(c, p) = Unexplained(s, p) + Owed(todo[c], Left(p))
    BY DEF Jumps
  <2> HIDE DEF i, s, t
  <2>3. QED
    BY <1>8, <1>9, <1>10, <2>1, <2>2

LEMMA StoreKeeps ==
  ASSUME PerfInv, NEW c \in Cores, Store(c) PROVE Rest'
<1> USE DEF PerfInv
<1>1. /\ at' = at /\ slot' = slot /\ parent' = parent /\ retired' = retired
      /\ loaded[c] # NoValue /\ loaded' = [loaded EXCEPT ![c] = NoValue]
      /\ todo' = [todo EXCEPT ![c] = Tail(@)]
  BY DEF Store, built
<1>2. todo[c] # <<>> /\ slot[c] # NoSlot
  BY <1>1 DEF Loading
<1>3. /\ at[c] \in {"run", "clone"} /\ slot[c] \in Slots /\ c \in Users(slot[c])
      /\ \A d \in Cores : Sole(d) /\ slot[d] = slot[c] => d = c
  BY <1>2, BusyCounts
<1>4. /\ \A s \in Slots : Users(s)' = Users(s)
      /\ \A d \in Cores : Sole(d)' <=> Sole(d)
  BY <1>1, SoleFrame
<1>5. \A s \in Slots : s # slot[c] => segment'[s] = segment[s]
  BY <1>3 DEF Store, TypeOK
<1>6. Parented' /\ Bare' /\ Loading'
  BY <1>1, <1>3 DEF Parented, Bare, Loading, TypeOK
<1>7. Short'
  <2>1. Len(Tail(todo[c])) <= 6
    <3>1. todo[c] \in Seq(Increments) /\ Len(todo[c]) <= 6
      BY DEF Short, TypeOK
    <3>2. Len(Tail(todo[c])) = Len(todo[c]) - 1 /\ Len(todo[c]) \in Nat
      BY <1>2, <3>1
    <3>3. QED
      BY <3>1, <3>2
  <2>2. QED
    BY <1>1, <2>1 DEF Short, TypeOK
<1>8. Unused'
  BY <1>3, <1>4, <1>5 DEF Unused
<1>9. \A d \in Cores : Sole(d) /\ d # c => slot[d] \in Slots /\ slot[d] # slot[c]
  BY <1>3 DEF Sole, TypeOK
<1>10. Current'
  BY <1>1, <1>4, <1>5, <1>9 DEF Current, TypeOK
<1>11. Charged'
  <2> SUFFICES ASSUME NEW d \in Cores, Sole(d), NEW p \in Text
               PROVE  Jumps(d, p)' = Jumps(d, p)
    BY <1>1, <1>4 DEF Charged
  <2>1. CASE d = c
    BY <2>1, StoreMoves
  <2>2. CASE d # c
    BY <1>1, <1>5, <1>9, <2>2 DEF Jumps, TypeOK
  <2>3. QED
    BY <2>1, <2>2
<1>12. QED
  BY <1>6, <1>7, <1>8, <1>10, <1>11 DEF Rest

LEMMA MemKeeps ==
  ASSUME PerfInv, TypeOK', NEW c \in Cores, NEW p \in Cores, BuildMem(c, p) PROVE Rest'
<1> USE DEF PerfInv
<1>1. /\ segment' = segment /\ todo' = todo /\ retired' = retired /\ loaded' = loaded
      /\ at[c] = "unborn" /\ at[p] = "run"
      /\ at' = [at EXCEPT ![c] = "mem", ![p] = "clone"]
      /\ parent' = [parent EXCEPT ![c] = p]
  BY DEF BuildMem, Idle
<1>2. \A d \in Cores : d # c => slot'[d] = slot[d]
  BY DEF BuildMem, TypeOK
<1>3. /\ todo[c] = <<>> /\ loaded[c] = NoValue /\ at'[c] = "mem"
      /\ \A d \in Cores : d # c => (at'[d] = "unborn" <=> at[d] = "unborn")
  BY <1>1 DEF Bare, TypeOK
<1>4. \A s \in Slots : Users(s) \subseteq Users(s)' /\ c \notin Users(s)
  BY <1>1, <1>2, <1>3 DEF Users
<1>5. \A d \in Cores : d # c /\ Sole(d)' => Sole(d)
  <2> SUFFICES ASSUME NEW d \in Cores, d # c, Sole(d)' PROVE Sole(d)
    OBVIOUS
  <2>1. slot'[d] = slot[d] /\ slot[d] \in Slots /\ at[d] # "unborn" /\ Users(slot[d])' = {d}
    BY <1>2, <1>3 DEF Sole, TypeOK
  <2>2. d \in Users(slot[d]) /\ Users(slot[d]) \subseteq {d}
    BY <1>4, <2>1 DEF Users
  <2>3. QED
    BY <2>1, <2>2 DEF Sole, NoSlot, Slots
<1>6. Parented'
  <2> SUFFICES ASSUME NEW d \in Cores, at'[d] = "mem" PROVE at'[parent'[d]] # "unborn"
    BY DEF Parented
  <2>1. CASE d = c
    BY <1>1, <2>1 DEF TypeOK
  <2>2. CASE d # c
    <3>1. at[d] = "mem" /\ parent'[d] = parent[d] /\ parent[d] \in Cores
      BY <1>1, <2>2 DEF TypeOK
    <3>2. at[parent[d]] # "unborn"
      BY <3>1 DEF Parented
    <3>3. QED
      BY <1>1, <1>3, <3>1, <3>2
  <2>3. QED
    BY <2>1, <2>2
<1>7. Bare'
  BY ZenonT(30), <1>1, <1>3 DEF Bare, TypeOK
<1>8. Loading' /\ Short'
  BY <1>1, <1>2, <1>3 DEF Loading, Short
<1>9. Unused'
  <2>1. \A s \in Slots : Users(s)' = {} => Users(s) = {}
    BY <1>4
  <2>2. QED
    BY <1>1, <2>1 DEF Unused
<1>10. Current'
  BY <1>1, <1>2, <1>3, <1>5 DEF Current
<1>11. Charged'
  <2> SUFFICES ASSUME NEW d \in Cores, Sole(d)', NEW x \in Text
               PROVE  \E n \in 0 .. retired'[d] : Jumps(d, x)' = Jump * n
    BY DEF Charged
  <2>1. CASE d # c
    <3>1. Jumps(d, x)' = Jumps(d, x)
      BY <1>1, <1>2, <2>1 DEF Jumps
    <3>2. QED
      BY <1>1, <1>5, <2>1, <3>1 DEF Charged
  <2>2. CASE d = c
    <3>1. PICK s \in Slots : s = slot'[c]
      BY <2>2 DEF Sole, TypeOK
    <3>2. Users(s)' = {c}
      BY <2>2, <3>1 DEF Sole
    <3>3. \A k \in Counters : segment[s][k][x] = 0
      BY <1>4, <3>2 DEF Unused
    <3>4. Unexplained(segment[s], x) = 0
      BY <3>3, PerfAssumption DEF Unexplained, Counters
    <3>5. Jumps(c, x)' = 0
      BY <1>1, <1>3, <3>1, <3>4, OwedEmpty DEF Jumps
    <3>6. 0 \in 0 .. retired'[c] /\ Jump * 0 = 0
      BY PerfAssumption DEF TypeOK
    <3>7. QED
      BY <2>2, <3>5, <3>6
  <2>3. QED
    BY <2>1, <2>2
<1>12. QED
  BY <1>6, <1>7, <1>8, <1>9, <1>10, <1>11 DEF Rest
-----------------------------------------------------------------------------
LEMMA PerfInvNext == PerfInv /\ [Next]_vars => PerfInv'
<1> SUFFICES ASSUME PerfInv, [Next]_vars PROVE PerfInv'
  OBVIOUS
<1>1. TypeOK'
  BY TypesNext DEF PerfInv
<1>2. Rest'
  <2>1. CASE UNCHANGED vars
    <3>1. Rest
      BY DEF PerfInv, Rest
    <3>2. QED
      BY SMTT(30), <2>1, <3>1 DEF vars, Rest, Parented, Bare, Loading, Short, Unused, Current, Charged, Sole,
           Users, Jumps
  <2>2. ASSUME NEW c \in Cores, Step(c) PROVE Rest'
    BY <1>1, <2>2, InstructionKeeps, LoadKeeps, StoreKeeps, CrashKeeps, HartKeeps, MemKeeps DEF Step
  <2>3. QED
    BY <2>1, <2>2 DEF Next, Over
<1>3. QED
  BY <1>1, <1>2 DEF PerfInv, Rest

THEOREM PerfTypes == Spec => []TypeOK
<1>1. PerfInv => TypeOK
  BY DEF PerfInv
<1>2. QED
  BY <1>1, PerfInvInit, PerfInvNext, PTL DEF Spec

THEOREM ExplainedSafe == Spec => []CyclesExplained
<1>1. PerfInv => CyclesExplained
  <2> SUFFICES ASSUME PerfInv, NEW c \in Cores, Settled(c), NEW pc \in Text
               PROVE  LET s    == segment[slot[c]]
                          left == s["cycles"][pc] - s["executed"][pc]
                                    - Imiss * s["imiss"][pc] - Dmiss * s["dmiss"][pc]
                      IN  left \in {Jump * n : n \in 0 .. retired[c]}
    BY DEF CyclesExplained
  <2>1. Sole(c) /\ todo[c] = <<>> /\ slot[c] \in Slots
    BY DEF Settled, Alone, Sole, PerfInv, TypeOK
  <2>2. PICK n \in 0 .. retired[c] : Jumps(c, pc) = Jump * n
    BY <2>1 DEF PerfInv, Charged
  <2>3. Jumps(c, pc) = Unexplained(segment[slot[c]], pc) + 0
    BY <2>1, OwedEmpty DEF Jumps
  <2>4. Unexplained(segment[slot[c]], pc) \in Int
    BY <2>1, UnexplainedInt DEF PerfInv
  <2>5. Unexplained(segment[slot[c]], pc) = Jump * n
    BY <2>2, <2>3, <2>4
  <2>6. QED
    BY <2>5 DEF Unexplained
<1>2. QED
  BY <1>1, PerfInvInit, PerfInvNext, PTL DEF Spec
-----------------------------------------------------------------------------
(***************************************************************************)
(* What the cores of a slot have stored, for a counter that goes with the  *)
(* clock or with the instructions: their work less what they still owe.    *)
(* The ledger of a slot credits it to addresses; the slot holds at most    *)
(* that, for a store may undo another core's, and just that while one core *)
(* counts there.                                                           *)
(***************************************************************************)
Clocks == {"executed", "cycles"}
Work(k, c) == IF k = "executed" THEN retired[c] ELSE Elapsed(c)
Stored(k) == [c \in Cores |-> Work(k, c) - Owed(todo[c], By(k))]
Quiet(s) == \A c, d \in Users(s) : c = d

Ledger(s, k, L) ==
  /\ L \in [Text -> Nat]
  /\ \A pc \in Text : segment[s][k][pc] <= L[pc]
  /\ \A c \in Users(s) : loaded[c] # NoValue /\ Head(todo[c]).counter = k
                           => loaded[c] <= L[Head(todo[c]).pc]
  /\ SumFunctionOnSet(L, Text) = SumFunctionOnSet(Stored(k), Users(s))
  /\ Quiet(s) => segment[s][k] = L

Accounted == \A s \in Slots, k \in Clocks : \E L : Ledger(s, k, L)

\* A core that does not run yet has spent no time of its own.
Fresh == \A c \in Cores : at[c] \in {"unborn", "mem"} => Elapsed(c) = 0 /\ retired[c] = 0

LEMMA StoredInt ==
  ASSUME TypeOK, NEW k
  PROVE  /\ Stored(k) \in [Cores -> Int]
         /\ \A c \in Cores : Stored(k)[c] <= Work(k, c) /\ Work(k, c) \in Int
<1> SUFFICES ASSUME NEW c \in Cores
             PROVE  Stored(k)[c] \in Int /\ Stored(k)[c] <= Work(k, c) /\ Work(k, c) \in Int
  BY DEF Stored
<1>1. Owed(todo[c], By(k)) \in Nat
  BY DueNat DEF TypeOK
<1>2. Work(k, c) \in Int
  BY DEF TypeOK, Work, Elapsed
<1>3. QED
  BY <1>1, <1>2 DEF Stored

LEMMA UsersFinite == \A s : IsFiniteSet(Users(s)) /\ Users(s) \subseteq Cores
<1>1. \A s : Users(s) \subseteq Cores
  BY DEF Users
<1>2. QED
  BY <1>1, PerfAssumption, FS_Subset

\* The ledgers stand while no core stores.
LEMMA LedgersStand ==
  ASSUME TypeOK, TypeOK', Loading', Accounted, segment' = segment,
         \A s \in Slots : Users(s) \subseteq Users(s)',
         \A s \in Slots, k \in Clocks :
           SumFunctionOnSet(Stored(k), Users(s))' = SumFunctionOnSet(Stored(k), Users(s)),
         \A s \in Slots : \A c \in Users(s)' : loaded'[c] # NoValue =>
           \/ c \in Users(s) /\ loaded[c] = loaded'[c] /\ Head(todo'[c]) = Head(todo[c])
           \/ loaded'[c] = segment[s][Head(todo'[c]).counter][Head(todo'[c]).pc]
  PROVE  Accounted'
<1> SUFFICES ASSUME NEW s \in Slots, NEW k \in Clocks PROVE \E L : Ledger(s, k, L)'
  BY DEF Accounted
<1>1. PICK L : Ledger(s, k, L)
  BY DEF Accounted
<1>2. L \in [Text -> Nat] /\ \A pc \in Text : segment'[s][k][pc] <= L[pc]
  BY <1>1 DEF Ledger
<1>3. ASSUME NEW c \in Users(s)', loaded'[c] # NoValue, Head(todo'[c]).counter = k
      PROVE  loaded'[c] <= L[Head(todo'[c]).pc]
  <2>1. CASE c \in Users(s) /\ loaded[c] = loaded'[c] /\ Head(todo'[c]) = Head(todo[c])
    <3>1. loaded[c] # NoValue /\ Head(todo[c]).counter = k
      BY <1>3, <2>1
    <3>2. loaded[c] <= L[Head(todo[c]).pc]
      BY <1>1, <2>1, <3>1 DEF Ledger
    <3>3. QED
      BY <2>1, <3>2
  <2>2. CASE loaded'[c] = segment[s][Head(todo'[c]).counter][Head(todo'[c]).pc]
    <3>1. c \in Cores
      BY DEF Users
    <3>2. todo'[c] \in Seq(Increments) /\ todo'[c] # <<>>
      BY <1>3, <3>1 DEF TypeOK, Loading
    <3>3. Head(todo'[c]) \in Increments
      BY <3>2
    <3>4. Head(todo'[c]).pc \in Text
      BY <3>3 DEF Increments
    <3>5. QED
      BY <1>2, <1>3, <2>2, <3>4
  <2>3. QED
    BY <1>3, <2>1, <2>2
<1>4. SumFunctionOnSet(L, Text) = SumFunctionOnSet(Stored(k), Users(s))'
  BY <1>1 DEF Ledger
<1>5. Quiet(s)' => segment'[s][k] = L
  BY <1>1 DEF Ledger, Quiet
<1>6. QED
  BY <1>2, <1>3, <1>4, <1>5 DEF Ledger

\* Nor does a sum change when none of its terms does.
LEMMA StoredSame ==
  ASSUME TypeOK, NEW k,
         \A c \in Cores : Stored(k)'[c] = Stored(k)[c],
         NEW s, Users(s)' = Users(s)
  PROVE  SumFunctionOnSet(Stored(k), Users(s))' = SumFunctionOnSet(Stored(k), Users(s))
<1> DEFINE f == Stored(k)
           h == Stored(k)'
<1>1. \A c \in Users(s) : h[c] = f[c]
  BY UsersFinite
<1> HIDE DEF f, h
<1>2. SumFunctionOnSet(h, Users(s)) = SumFunctionOnSet(f, Users(s))
  BY <1>1, UsersFinite, SumSame
<1>3. QED
  BY <1>2 DEF f, h

LEMMA InstructionLedger ==
  ASSUME PerfInv, TypeOK', Loading', Accounted, NEW c \in Cores, Instruction(c) PROVE Accounted'
<1>1. PICK q \in Seq(Increments), t \in Nat :
        /\ todo' = [todo EXCEPT ![c] = q]
        /\ local_time' = [local_time EXCEPT ![c] = @ + t]
        /\ Owed(q, By("cycles")) = t /\ Owed(q, By("executed")) = 1
  BY InstructionShape DEF PerfInv
<1>2. /\ at' = at /\ slot' = slot /\ segment' = segment /\ loaded' = loaded /\ started' = started
      /\ retired' = [retired EXCEPT ![c] = @ + 1] /\ todo[c] = <<>>
  BY DEF Instruction, built, Idle
<1>3. \A s : Users(s)' = Users(s)
  BY <1>2 DEF Users
<1>4. ASSUME NEW k \in Clocks, NEW d \in Cores PROVE Stored(k)'[d] = Stored(k)[d]
  <2>1. CASE d # c
    <3>1. /\ todo'[d] = todo[d] /\ local_time'[d] = local_time[d] /\ retired'[d] = retired[d]
      BY <1>1, <1>2, <2>1 DEF PerfInv, TypeOK
    <3>2. QED
      BY <1>2, <3>1 DEF Stored, Work, Elapsed
  <2>2. CASE d = c
    <3>1. Stored(k)[c] = Work(k, c) - 0
      BY <1>2, OwedEmpty DEF Stored
    <3>2. todo'[c] = q /\ local_time'[c] = local_time[c] + t /\ retired'[c] = retired[c] + 1
      BY <1>1, <1>2 DEF PerfInv, TypeOK
    <3>3. Stored(k)'[c] = Work(k, c)' - Owed(q, By(k))
      BY <3>2 DEF Stored
    <3>4. local_time[c] \in Nat /\ started[c] \in Nat /\ retired[c] \in Nat
      BY DEF PerfInv, TypeOK
    <3>5. Work(k, c)' = Work(k, c) + Owed(q, By(k)) /\ Work(k, c) \in Int /\ Owed(q, By(k)) \in Int
      BY <1>1, <1>2, <3>2, <3>4 DEF Work, Elapsed, Clocks
    <3>6. QED
      BY <2>2, <3>1, <3>3, <3>5
  <2>3. QED
    BY <2>1, <2>2
<1>5. \A s \in Slots, k \in Clocks :
        SumFunctionOnSet(Stored(k), Users(s))' = SumFunctionOnSet(Stored(k), Users(s))
  BY <1>3, <1>4, StoredSame DEF PerfInv
<1>6. \A d \in Cores : loaded'[d] # NoValue => d # c
  BY <1>2 DEF PerfInv, Loading
<1>7. \A s \in Slots : \A d \in Users(s)' : loaded'[d] # NoValue =>
        d \in Users(s) /\ loaded[d] = loaded'[d] /\ Head(todo'[d]) = Head(todo[d])
  <2> SUFFICES ASSUME NEW s \in Slots, NEW d \in Users(s)', loaded'[d] # NoValue
               PROVE  d \in Users(s) /\ loaded[d] = loaded'[d] /\ Head(todo'[d]) = Head(todo[d])
    OBVIOUS
  <2>1. d \in Cores /\ d \in Users(s)
    BY <1>3, UsersFinite
  <2>2. todo'[d] = todo[d]
    BY <1>1, <1>6, <2>1 DEF PerfInv, TypeOK
  <2>3. QED
    BY <1>2, <2>1, <2>2
<1>8. QED
  BY <1>2, <1>3, <1>5, <1>7, LedgersStand DEF PerfInv

LEMMA LoadLedger ==
  ASSUME PerfInv, TypeOK', Loading', Accounted, NEW c \in Cores, Load(c) PROVE Accounted'
<1>1. /\ at' = at /\ slot' = slot /\ segment' = segment /\ todo' = todo
      /\ retired' = retired /\ local_time' = local_time /\ started' = started
      /\ loaded' = [loaded EXCEPT ![c] =
                      segment[slot[c]][Head(todo[c]).counter][Head(todo[c]).pc]]
  BY DEF Load, built
<1>2. \A s : Users(s)' = Users(s)
  BY <1>1 DEF Users
<1>3. \A k \in Clocks, d \in Cores : Stored(k)'[d] = Stored(k)[d]
  BY <1>1 DEF Stored, Work, Elapsed
<1>4. \A s \in Slots, k \in Clocks :
        SumFunctionOnSet(Stored(k), Users(s))' = SumFunctionOnSet(Stored(k), Users(s))
  BY <1>2, <1>3, StoredSame DEF PerfInv
<1>5. \A s \in Slots : \A d \in Users(s)' : loaded'[d] # NoValue =>
        \/ d \in Users(s) /\ loaded[d] = loaded'[d] /\ Head(todo'[d]) = Head(todo[d])
        \/ loaded'[d] = segment[s][Head(todo'[d]).counter][Head(todo'[d]).pc]
  <2> SUFFICES ASSUME NEW s \in Slots, NEW d \in Users(s)'
               PROVE  \/ d \in Users(s) /\ loaded[d] = loaded'[d]
                                        /\ Head(todo'[d]) = Head(todo[d])
                      \/ loaded'[d] = segment[s][Head(todo'[d]).counter][Head(todo'[d]).pc]
    OBVIOUS
  <2>1. d \in Users(s) /\ d \in Cores /\ slot[d] = s
    BY <1>2 DEF Users
  <2>2. CASE d # c
    BY <1>1, <2>1, <2>2 DEF PerfInv, TypeOK
  <2>3. CASE d = c
    BY <1>1, <2>1, <2>3 DEF PerfInv, TypeOK
  <2>4. QED
    BY <2>2, <2>3
<1>6. QED
  BY <1>1, <1>2, <1>4, <1>5, LedgersStand DEF PerfInv

LEMMA LedgersUntouched ==
  ASSUME Accounted, at' = at, slot' = slot, segment' = segment, todo' = todo, loaded' = loaded,
         retired' = retired, local_time' = local_time, started' = started
  PROVE  Accounted'
<1>1. \A s : Users(s)' = Users(s)
  BY DEF Users
<1>2. \A k : Stored(k)' = Stored(k)
  BY DEF Stored, Work, Elapsed
<1>3. \A s : Quiet(s)' <=> Quiet(s)
  BY <1>1 DEF Quiet
<1>4. ASSUME NEW s \in Slots, NEW k \in Clocks, NEW L, Ledger(s, k, L) PROVE Ledger(s, k, L)'
  <2>1. SumFunctionOnSet(Stored(k), Users(s))' = SumFunctionOnSet(Stored(k), Users(s))
    BY <1>1, <1>2
  <2>2. QED
    BY <1>1, <1>3, <1>4, <2>1 DEF Ledger
<1>5. QED
  BY <1>4 DEF Accounted

LEMMA CrashLedger ==
  ASSUME PerfInv, TypeOK', Loading', Accounted, NEW c \in Cores, Crash(c) PROVE Accounted'
<1>1. /\ at' = at /\ slot' = slot /\ segment' = segment /\ todo' = todo
      /\ retired' = retired /\ local_time' = local_time /\ started' = started /\ loaded' = loaded
  BY DEF Crash, built
<1>2. QED
  BY <1>1, LedgersUntouched

\* A core's clock and its start are set to the same time, and nothing is owed.
LEMMA HartLedger ==
  ASSUME PerfInv, TypeOK', Loading', Accounted, Fresh, NEW c \in Cores, BuildHart(c)
  PROVE  Accounted'
<1>1. /\ slot' = slot /\ segment' = segment /\ todo' = todo /\ at[c] = "mem"
      /\ retired' = retired /\ loaded' = loaded
      /\ local_time' = [local_time EXCEPT ![c] = local_time[parent[c]]]
      /\ started' = [started EXCEPT ![c] = local_time[parent[c]]]
      /\ at' = [at EXCEPT ![c] = "run", ![parent[c]] = "run"]
  BY DEF BuildHart
<1>2. \A d \in Cores : at'[d] = "unborn" <=> at[d] = "unborn"
  BY <1>1 DEF PerfInv, Parented, TypeOK
<1>3. \A s : Users(s)' = Users(s)
  BY <1>1, <1>2 DEF Users
<1>4. \A d \in Cores : Elapsed(d)' = Elapsed(d)
  <2> TAKE d \in Cores
  <2>1. CASE d # c
    BY <1>1, <2>1 DEF Elapsed, PerfInv, TypeOK
  <2>2. CASE d = c
    <3>1. Elapsed(c) = 0
      BY <1>1 DEF Fresh
    <3>2. local_time'[c] = local_time[parent[c]] /\ started'[c] = local_time[parent[c]]
      BY <1>1 DEF PerfInv, TypeOK
    <3>3. local_time[parent[c]] \in Nat
      BY DEF PerfInv, TypeOK
    <3>4. QED
      BY <2>2, <3>1, <3>2, <3>3 DEF Elapsed
  <2>3. QED
    BY <2>1, <2>2
<1>5. \A k \in Clocks, d \in Cores : Stored(k)'[d] = Stored(k)[d]
  BY <1>1, <1>4 DEF Stored, Work
<1>6. \A s \in Slots, k \in Clocks :
        SumFunctionOnSet(Stored(k), Users(s))' = SumFunctionOnSet(Stored(k), Users(s))
  BY <1>3, <1>5, StoredSame DEF PerfInv
<1>7. QED
  BY <1>1, <1>3, <1>6, LedgersStand DEF PerfInv

\* The core that joins a slot has stored nothing.
LEMMA MemLedger ==
  ASSUME PerfInv, TypeOK', Loading', Accounted, Fresh, NEW c \in Cores, NEW p \in Cores,
         BuildMem(c, p)
  PROVE  Accounted'
<1>1. /\ segment' = segment /\ todo' = todo /\ retired' = retired /\ loaded' = loaded
      /\ local_time' = local_time /\ started' = started
      /\ at[c] = "unborn" /\ at[p] = "run" /\ at' = [at EXCEPT ![c] = "mem", ![p] = "clone"]
  BY DEF BuildMem, Idle
<1>2. \A d \in Cores : d # c => slot'[d] = slot[d]
  BY DEF BuildMem, PerfInv, TypeOK
<1>3. /\ todo[c] = <<>> /\ loaded[c] = NoValue /\ at'[c] = "mem"
      /\ \A d \in Cores : d # c => (at'[d] = "unborn" <=> at[d] = "unborn")
  BY <1>1 DEF PerfInv, Bare, TypeOK
<1>4. \A s : /\ c \notin Users(s)
             /\ Users(s)' = Users(s) \/ Users(s)' = Users(s) \cup {c}
  BY <1>1, <1>2, <1>3 DEF Users
<1>5. \A k : Stored(k)' = Stored(k)
  BY <1>1 DEF Stored, Work, Elapsed
<1>6. \A k \in Clocks : Stored(k)[c] = 0
  <2>1. Elapsed(c) = 0 /\ retired[c] = 0
    BY <1>1 DEF Fresh
  <2>2. QED
    BY <1>3, <2>1, OwedEmpty DEF Stored, Work
<1>7. ASSUME NEW s \in Slots, NEW k \in Clocks
      PROVE  SumFunctionOnSet(Stored(k), Users(s))' = SumFunctionOnSet(Stored(k), Users(s))
  <2> DEFINE f == Stored(k)
             U == Users(s)
  <2>1. IsFiniteSet(U) /\ \A d \in U \cup {c} : f[d] \in Int
    BY UsersFinite, StoredInt DEF PerfInv
  <2>2. c \notin U
    BY <1>4
  <2>3. f[c] = 0
    BY <1>6
  <2>4. SumFunctionOnSet(Stored(k), Users(s))' = SumFunctionOnSet(f, Users(s)')
    BY <1>5
  <2>5. Users(s)' = U \/ Users(s)' = U \cup {c}
    BY <1>4
  <2> HIDE DEF f, U
  <2>6. SumFunctionOnSet(f, U \cup {c}) = f[c] + SumFunctionOnSet(f, U)
    BY <2>1, <2>2, SumAdd
  <2>7. SumFunctionOnSet(f, U) \in Int
    BY <2>1, SumRemove
  <2>8. SumFunctionOnSet(f, U \cup {c}) = SumFunctionOnSet(f, U)
    BY <2>3, <2>6, <2>7
  <2>9. SumFunctionOnSet(f, Users(s)') = SumFunctionOnSet(f, U)
    BY <2>5, <2>8
  <2>10. QED
    BY <2>4, <2>9 DEF f, U
<1>8. \A s \in Slots : \A d \in Users(s)' : loaded'[d] # NoValue =>
        d \in Users(s) /\ loaded[d] = loaded'[d] /\ Head(todo'[d]) = Head(todo[d])
  BY <1>1, <1>3, <1>4
<1>9. QED
  BY <1>1, <1>4, <1>7, <1>8, LedgersStand DEF PerfInv

\* A store credits its increment to the ledger of its counter.
LEMMA StoreCredits ==
  ASSUME PerfInv, NEW c \in Cores, Store(c)
  PROVE  /\ \A k : \A d \in Cores : d # c => Stored(k)'[d] = Stored(k)[d]
         /\ \A k : Stored(k)'[c] = Stored(k)[c] + By(k)[Head(todo[c])]
<1>1. /\ retired' = retired /\ local_time' = local_time /\ started' = started
      /\ loaded[c] # NoValue /\ todo' = [todo EXCEPT ![c] = Tail(@)]
  BY DEF Store, built
<1>2. todo[c] # <<>> /\ Len(todo[c]) <= 6 /\ todo[c] \in Seq(Increments)
  BY <1>1 DEF PerfInv, Loading, Short, TypeOK
<1>3. \A k : \A d \in Cores : d # c => Stored(k)'[d] = Stored(k)[d]
  <2>1. \A d \in Cores : d # c => todo'[d] = todo[d]
    BY <1>1 DEF PerfInv, TypeOK
  <2>2. QED
    BY <1>1, <2>1 DEF Stored, Work, Elapsed
<1>4. ASSUME NEW k PROVE Stored(k)'[c] = Stored(k)[c] + By(k)[Head(todo[c])]
  <2>1. /\ Owed(todo[c], By(k)) \in Int /\ Owed(Tail(todo[c]), By(k)) \in Int
        /\ Owed(todo[c], By(k)) = By(k)[Head(todo[c])] + Owed(Tail(todo[c]), By(k))
    BY <1>2, ByType, OwedTail
  <2>2. Work(k, c)' = Work(k, c) /\ Work(k, c) \in Int
    BY <1>1, StoredInt DEF Work, Elapsed, PerfInv
  <2>3. Stored(k)[c] = Work(k, c) - Owed(todo[c], By(k))
    BY DEF Stored
  <2>4. todo'[c] = Tail(todo[c])
    BY <1>1 DEF PerfInv, TypeOK
  <2>5. Stored(k)'[c] = Work(k, c) - Owed(Tail(todo[c]), By(k))
    BY <2>2, <2>4 DEF Stored
  <2>6. By(k)[Head(todo[c])] \in Int
    <3>1. Head(todo[c]) \in Increments
      BY <1>2
    <3>2. QED
      BY <3>1, ByType DEF Weights
  <2>7. QED
    BY <2>1, <2>2, <2>3, <2>5, <2>6
<1>5. QED
  BY <1>3, <1>4

LEMMA StoreLedger ==
  ASSUME PerfInv, Accounted, NEW c \in Cores, Store(c) PROVE Accounted'
<1> DEFINE i == Head(todo[c])
<1>1. /\ at' = at /\ slot' = slot /\ loaded[c] # NoValue
      /\ loaded' = [loaded EXCEPT ![c] = NoValue] /\ todo' = [todo EXCEPT ![c] = Tail(@)]
      /\ segment' = [segment EXCEPT ![slot[c]][i.counter][i.pc] = loaded[c] + i.by]
  BY DEF Store, built
<1>2. todo[c] # <<>> /\ slot[c] \in Slots /\ todo[c] \in Seq(Increments)
  BY <1>1 DEF PerfInv, Loading, TypeOK
<1>3. i \in Increments
  BY <1>2
<1>4. i.counter \in Counters /\ i.pc \in Text /\ i.by \in Nat /\ loaded[c] \in Nat
  BY <1>1, <1>3 DEF Increments, PerfInv, TypeOK
<1>5. \A s : Users(s)' = Users(s)
  BY <1>1 DEF Users
<1>6. c \in Users(slot[c])
  BY <1>1, <1>2, BusyCounts DEF PerfInv, Loading
<1>7. \A d \in Cores : d # c => loaded'[d] = loaded[d] /\ todo'[d] = todo[d]
  BY <1>1 DEF PerfInv, TypeOK
<1>8. loaded'[c] = NoValue
  BY <1>1 DEF PerfInv, TypeOK
<1>9. \A k : \A d \in Cores : d # c => Stored(k)'[d] = Stored(k)[d]
  BY StoreCredits
<1>10. \A k : Stored(k)'[c] = Stored(k)[c] + By(k)[i]
  BY StoreCredits
<1> SUFFICES ASSUME NEW s \in Slots, NEW k \in Clocks PROVE \E L : Ledger(s, k, L)'
  BY DEF Accounted
<1>11. PICK L : Ledger(s, k, L)
  BY DEF Accounted
<1>12. L \in [Text -> Nat] /\ segment[s][k] \in [Text -> Nat]
  BY <1>11 DEF Ledger, PerfInv, TypeOK, Clocks, Counters
<1>13. \A d \in Users(s) : d # c /\ loaded'[d] # NoValue /\ Head(todo'[d]).counter = k
         => Head(todo'[d]).pc \in Text /\ loaded'[d] \in Int /\ loaded'[d] <= L[Head(todo'[d]).pc]
  <2> SUFFICES ASSUME NEW d \in Users(s), d # c, loaded'[d] # NoValue,
                      Head(todo'[d]).counter = k
               PROVE  /\ Head(todo'[d]).pc \in Text /\ loaded'[d] \in Int
                      /\ loaded'[d] <= L[Head(todo'[d]).pc]
    OBVIOUS
  <2>1. d \in Cores
    BY UsersFinite
  <2>2. loaded'[d] = loaded[d] /\ todo'[d] = todo[d]
    BY <1>7, <2>1
  <2>3. loaded[d] <= L[Head(todo[d]).pc]
    BY <1>11, <2>2 DEF Ledger
  <2>4. todo[d] # <<>> /\ todo[d] \in Seq(Increments)
    BY <2>1, <2>2 DEF PerfInv, Loading, TypeOK
  <2>5. Head(todo[d]) \in Increments
    BY <2>4
  <2>6. loaded[d] \in Int
    BY <2>1 DEF PerfInv, TypeOK, NoValue
  <2>7. QED
    BY <2>2, <2>3, <2>5, <2>6 DEF Increments
<1> HIDE DEF i
<1>14. CASE s = slot[c] /\ k = i.counter
  <2>0. PICK M : M = [L EXCEPT ![i.pc] = @ + i.by]
    OBVIOUS
  <2>1. M \in [Text -> Nat] /\ \A pc \in Text : M[pc] = IF pc = i.pc THEN L[pc] + i.by ELSE L[pc]
    BY <1>4, <1>12, <2>0
  <2>2. \A pc \in Text : segment'[s][k][pc] =
                           IF pc = i.pc THEN loaded[c] + i.by ELSE segment[s][k][pc]
    BY <1>1, <1>2, <1>4, <1>14 DEF PerfInv, TypeOK
  <2>3. segment'[s][k] \in [Text -> Nat]
    <3>1. segment'[s][k] = [segment[s][k] EXCEPT ![i.pc] = loaded[c] + i.by]
      BY ZenonT(30), <1>1, <1>2, <1>4, <1>14 DEF PerfInv, TypeOK
    <3>2. loaded[c] + i.by \in Nat
      BY <1>4
    <3>3. QED
      BY <1>12, <3>1, <3>2
  <2>4. loaded[c] <= L[i.pc]
    BY <1>1, <1>6, <1>11, <1>14 DEF Ledger, i
  <2>5. \A pc \in Text : segment[s][k][pc] <= L[pc]
    BY <1>11 DEF Ledger
  <2>6. \A pc \in Text : segment'[s][k][pc] <= M[pc]
    <3> SUFFICES ASSUME NEW pc \in Text PROVE segment'[s][k][pc] <= M[pc]
      OBVIOUS
    <3>1. L[pc] \in Nat /\ segment[s][k][pc] \in Nat
      BY <1>12
    <3>2. QED
      BY <1>4, <2>1, <2>2, <2>4, <2>5, <3>1
  <2>7. \A d \in Users(s)' : loaded'[d] # NoValue /\ Head(todo'[d]).counter = k
          => loaded'[d] <= M[Head(todo'[d]).pc]
    <3> SUFFICES ASSUME NEW d \in Users(s), loaded'[d] # NoValue, Head(todo'[d]).counter = k
                 PROVE  loaded'[d] <= M[Head(todo'[d]).pc]
      BY <1>5
    <3>1. d # c
      BY <1>8
    <3> DEFINE x == Head(todo'[d]).pc
    <3>2. x \in Text /\ loaded'[d] \in Int /\ loaded'[d] <= L[x]
      BY <1>13, <3>1
    <3> HIDE DEF x
    <3>3. L[x] \in Nat /\ M[x] \in Nat /\ L[x] <= M[x]
      BY <1>4, <1>12, <2>1, <3>2
    <3>4. loaded'[d] <= M[x]
      BY <3>2, <3>3
    <3>5. QED
      BY <3>4 DEF x
  <2>8. SumFunctionOnSet(M, Text) = SumFunctionOnSet(L, Text) + i.by
    <3>1. i.by \in Int /\ M[i.pc] = L[i.pc] + i.by /\ \A x \in Text \ {i.pc} : M[x] = L[x]
      BY <1>4, <2>1
    <3>2. \A x \in Text : L[x] \in Int
      BY <1>12
    <3>3. QED
      BY <1>4, <3>1, <3>2, SumBump, PerfAssumption
  <2>9. SumFunctionOnSet(Stored(k), Users(s))' = SumFunctionOnSet(Stored(k), Users(s)) + i.by
    <3> DEFINE f == Stored(k)
               h == Stored(k)'
               U == Users(s)
    <3>1. IsFiniteSet(U) /\ c \in U /\ \A d \in U : f[d] \in Int
      BY <1>6, <1>14, UsersFinite, StoredInt DEF PerfInv
    <3>2. h[c] = f[c] + i.by
      <4>1. By(k)[i] = i.by
        BY <1>3, <1>14 DEF By
      <4>2. QED
        BY <1>10, <4>1
    <3>3. \A d \in U \ {c} : h[d] = f[d]
      BY <1>9, UsersFinite
    <3>4. SumFunctionOnSet(Stored(k), Users(s))' = SumFunctionOnSet(h, U)
      BY <1>5
    <3> HIDE DEF f, h, U
    <3>5. SumFunctionOnSet(h, U) = SumFunctionOnSet(f, U) + i.by
      <4>1. i.by \in Int
        BY <1>4
      <4>2. QED
        BY <3>1, <3>2, <3>3, <4>1, SumBump
    <3>6. QED
      BY <3>4, <3>5 DEF f, U
  <2>10. SumFunctionOnSet(M, Text) = SumFunctionOnSet(Stored(k), Users(s))'
    BY <1>11, <2>8, <2>9 DEF Ledger
  <2>11. ASSUME Quiet(s)' PROVE segment'[s][k] = M
    <3>1. Quiet(s)
      BY <1>5, <2>11 DEF Quiet
    <3>2. Users(slot[c]) = {c}
      BY <1>6, <1>14, <3>1 DEF Quiet
    <3>3. Sole(c)
      BY <1>2, <1>6, <3>2 DEF Sole, Users, NoSlot, Slots
    <3>4. loaded[c] = segment[s][k][i.pc]
      BY <1>1, <1>14, <3>3 DEF PerfInv, Current, i
    <3>5. segment[s][k] = L
      BY <1>11, <3>1 DEF Ledger
    <3>6. \A pc \in Text : segment'[s][k][pc] = M[pc]
      BY <2>1, <2>2, <3>4, <3>5
    <3>7. QED
      BY <2>1, <2>3, <3>6
  <2>12. Ledger(s, k, M)'
    <3>1. Quiet(s)' => segment'[s][k] = M
      BY <2>11
    <3>2. M \in [Text -> Nat]
      BY <2>1
    <3>3. QED
      BY <2>6, <2>7, <2>10, <3>1, <3>2 DEF Ledger
  <2>13. QED
    BY <2>12
<1>15. CASE ~ (s = slot[c] /\ k = i.counter)
  <2>1. segment'[s][k] = segment[s][k]
    BY <1>1, <1>2, <1>4, <1>15 DEF PerfInv, TypeOK, Clocks, Counters
  <2>2. \A d \in Users(s) : Stored(k)'[d] = Stored(k)[d]
    <3> SUFFICES ASSUME NEW d \in Users(s) PROVE Stored(k)'[d] = Stored(k)[d]
      OBVIOUS
    <3>1. d \in Cores /\ slot[d] = s
      BY DEF Users
    <3>2. CASE d # c
      BY <1>9, <3>1, <3>2
    <3>3. CASE d = c
      <4>1. By(k)[i] = 0
        BY <1>3, <1>15, <3>1, <3>3 DEF By
      <4>2. Stored(k)[c] \in Int
        BY StoredInt DEF PerfInv
      <4>3. QED
        BY <1>10, <3>3, <4>1, <4>2
    <3>4. QED
      BY <3>2, <3>3
  <2>3. SumFunctionOnSet(Stored(k), Users(s))' = SumFunctionOnSet(Stored(k), Users(s))
    <3> DEFINE f == Stored(k)
               h == Stored(k)'
    <3>1. \A d \in Users(s) : h[d] = f[d]
      BY <2>2
    <3>2. SumFunctionOnSet(Stored(k), Users(s))' = SumFunctionOnSet(h, Users(s))
      BY <1>5
    <3> HIDE DEF f, h
    <3>3. SumFunctionOnSet(h, Users(s)) = SumFunctionOnSet(f, Users(s))
      BY <3>1, UsersFinite, SumSame
    <3>4. QED
      BY <3>2, <3>3 DEF f
  <2>4. \A d \in Users(s)' : loaded'[d] # NoValue /\ Head(todo'[d]).counter = k
          => loaded'[d] <= L[Head(todo'[d]).pc]
    BY <1>5, <1>8, <1>13
  <2>5. Quiet(s)' => segment'[s][k] = L
    BY <1>5, <1>11, <2>1 DEF Quiet, Ledger
  <2>6. Ledger(s, k, L)'
    BY <1>11, <2>1, <2>3, <2>4, <2>5 DEF Ledger
  <2>7. QED
    BY <2>6
<1>16. QED
  BY <1>14, <1>15

LEMMA FreshNext ==
  ASSUME PerfInv, Fresh, NEW c \in Cores, Step(c) PROVE Fresh'
<1> SUFFICES ASSUME NEW d \in Cores, at'[d] \in {"unborn", "mem"}
             PROVE  Elapsed(d)' = 0 /\ retired'[d] = 0
  BY DEF Fresh
<1>1. CASE Instruction(c)
  <2>1. at' = at /\ at[c] = "run" /\ started' = started
    BY <1>1 DEF Instruction, built, Idle
  <2>2. PICK t \in Nat : local_time' = [local_time EXCEPT ![c] = @ + t]
    BY <1>1, InstructionShape DEF PerfInv
  <2>3. d # c
    BY <2>1
  <2>4. local_time'[d] = local_time[d] /\ retired'[d] = retired[d]
    BY <1>1, <2>2, <2>3 DEF Instruction, PerfInv, TypeOK
  <2>5. QED
    BY <2>1, <2>4 DEF Fresh, Elapsed
<1>2. CASE Load(c) \/ Store(c) \/ Crash(c)
  <2>1. at' = at /\ started' = started /\ local_time' = local_time /\ retired' = retired
    BY <1>2 DEF Load, Store, Crash, built
  <2>2. QED
    BY <2>1 DEF Fresh, Elapsed
<1>3. CASE BuildHart(c)
  <2>1. at' = [at EXCEPT ![c] = "run", ![parent[c]] = "run"] /\ retired' = retired
    BY <1>3 DEF BuildHart
  <2>2. d # c /\ at[d] \in {"unborn", "mem"}
    BY <2>1 DEF PerfInv, TypeOK
  <2>3. local_time'[d] = local_time[d] /\ started'[d] = started[d]
    BY <1>3, <2>2 DEF BuildHart, PerfInv, TypeOK
  <2>4. QED
    BY <2>1, <2>2, <2>3 DEF Fresh, Elapsed
<1>4. ASSUME NEW p \in Cores, BuildMem(c, p) PROVE Elapsed(d)' = 0 /\ retired'[d] = 0
  <2>1. /\ at' = [at EXCEPT ![c] = "mem", ![p] = "clone"] /\ at[c] = "unborn"
        /\ retired' = retired /\ started' = started /\ local_time' = local_time
    BY <1>4 DEF BuildMem
  <2>2. at[d] \in {"unborn", "mem"}
    BY <2>1 DEF PerfInv, TypeOK
  <2>3. QED
    BY <2>1, <2>2 DEF Fresh, Elapsed
<1>5. QED
  BY <1>1, <1>2, <1>3, <1>4 DEF Step

LedgerInv == PerfInv /\ Fresh /\ Accounted

LEMMA LedgerInvInit == Init => LedgerInv
<1> SUFFICES ASSUME Init PROVE LedgerInv
  OBVIOUS
<1>1. PerfInv
  BY PerfInvInit
<1>2. /\ \A c \in Cores : local_time[c] = 0 /\ started[c] = 0 /\ retired[c] = 0
                          /\ todo[c] = <<>> /\ loaded[c] = NoValue
      /\ segment = [s \in Slots |-> [k \in Counters |-> [pc \in Text |-> 0]]]
  BY DEF Init
<1>3. \A c \in Cores : Elapsed(c) = 0
  BY <1>2 DEF Elapsed
<1>4. Fresh
  BY <1>2, <1>3 DEF Fresh
<1>5. Accounted
  <2> SUFFICES ASSUME NEW s \in Slots, NEW k \in Clocks PROVE \E L : Ledger(s, k, L)
    BY DEF Accounted
  <2> DEFINE L == [pc \in Text |-> 0]
             f == Stored(k)
             U == Users(s)
  <2>1. L \in [Text -> Nat] /\ segment[s][k] = L
    BY <1>2 DEF Clocks, Counters
  <2>2. \A c \in U : f[c] = 0 /\ loaded[c] = NoValue
    <3>1. U \subseteq Cores
      BY UsersFinite
    <3>2. QED
      BY <1>2, <1>3, <3>1, OwedEmpty DEF Stored, Work
  <2>3. \A pc \in Text : L[pc] = 0
    OBVIOUS
  <2>4. IsFiniteSet(U)
    BY UsersFinite
  <2>5. \A pc \in Text : segment[s][k][pc] <= L[pc]
    BY <2>1, <2>3
  <2> HIDE DEF L, f, U
  <2>6. SumFunctionOnSet(L, Text) = 0
    BY <2>3, SumZero, PerfAssumption
  <2>7. SumFunctionOnSet(f, U) = 0
    BY <2>2, <2>4, SumZero
  <2>8. Ledger(s, k, L)
    BY <2>1, <2>2, <2>5, <2>6, <2>7 DEF Ledger, f, U
  <2>9. QED
    BY <2>8
<1>6. QED
  BY <1>1, <1>4, <1>5 DEF LedgerInv

LEMMA LedgerInvNext == LedgerInv /\ [Next]_vars => LedgerInv'
<1> SUFFICES ASSUME LedgerInv, [Next]_vars PROVE LedgerInv'
  OBVIOUS
<1>1. PerfInv /\ Fresh /\ Accounted
  BY DEF LedgerInv
<1>2. PerfInv'
  BY <1>1, PerfInvNext
<1>3. TypeOK' /\ Loading'
  BY <1>2 DEF PerfInv
<1>4. CASE UNCHANGED vars
  <2>1. Accounted'
    BY <1>1, <1>4, LedgersUntouched DEF vars
  <2>2. QED
    BY <1>1, <1>2, <1>4, <2>1 DEF vars, LedgerInv, Fresh, Elapsed
<1>5. ASSUME NEW c \in Cores, Step(c) PROVE Fresh' /\ Accounted'
  <2>1. Fresh'
    BY <1>1, <1>5, FreshNext
  <2>2. Accounted'
    BY <1>1, <1>3, <1>5, InstructionLedger, LoadLedger, StoreLedger, CrashLedger, HartLedger,
       MemLedger DEF Step
  <2>3. QED
    BY <2>1, <2>2
<1>6. QED
  BY <1>2, <1>4, <1>5 DEF Next, Over, LedgerInv

(***************************************************************************)
(* The counters of a core alone in its slot add up to its clock and to its *)
(* instructions.                                                           *)
(***************************************************************************)
THEOREM TimeSafe == Spec => []CyclesAreTime
<1>1. LedgerInv => CyclesAreTime
  <2> SUFFICES ASSUME LedgerInv, NEW c \in Cores, Settled(c)
               PROVE  /\ Sum(slot[c], "cycles") = Elapsed(c)
                      /\ Sum(slot[c], "executed") = retired[c]
    BY DEF CyclesAreTime
  <2>1. todo[c] = <<>> /\ slot[c] \in Slots /\ Users(slot[c]) = {c} /\ TypeOK
    BY DEF Settled, Alone, LedgerInv, PerfInv, TypeOK
  <2>2. ASSUME NEW k \in Clocks PROVE Sum(slot[c], k) = Work(k, c)
    <3> DEFINE f == Stored(k)
    <3>1. PICK L : Ledger(slot[c], k, L)
      BY <2>1 DEF LedgerInv, Accounted
    <3>2. segment[slot[c]][k] = L /\ DOMAIN L = Text
      BY <2>1, <3>1 DEF Ledger, Quiet
    <3>3. Sum(slot[c], k) = SumFunctionOnSet(L, Text)
      BY <3>2 DEF Sum, SumFunction, SumFunctionOnSet, FoldFunction
    <3>4. SumFunctionOnSet(L, Text) = SumFunctionOnSet(f, {c})
      BY <2>1, <3>1 DEF Ledger
    <3>5. f[c] \in Int /\ f[c] = Work(k, c) - 0 /\ Work(k, c) \in Int
      BY <2>1, StoredInt, OwedEmpty DEF Stored
    <3> HIDE DEF f
    <3>6. SumFunctionOnSet(f, {c}) = f[c] + SumFunctionOnSet(f, {})
      <4>1. SumFunctionOnSet(f, {} \cup {c}) = f[c] + SumFunctionOnSet(f, {})
        BY <3>5, SumAdd, FS_EmptySet
      <4>2. {} \cup {c} = {c}
        OBVIOUS
      <4>3. QED
        BY <4>1, <4>2
    <3>7. SumFunctionOnSet(f, {c}) = Work(k, c)
      BY <3>5, <3>6, SumEmpty
    <3>8. QED
      BY <3>3, <3>4, <3>7
  <2>3. QED
    BY <2>2 DEF Clocks, Work
<1>2. QED
  BY <1>1, LedgerInvInit, LedgerInvNext, PTL DEF Spec

(***************************************************************************)
(* However many cores share a slot, and however their loads and stores     *)
(* interleave, it never holds more than they did.                          *)
(***************************************************************************)
THEOREM OvercountSafe == Spec => []NeverOvercounts
<1>1. LedgerInv => NeverOvercounts
  <2> SUFFICES ASSUME LedgerInv, NEW s \in Slots
               PROVE  /\ Sum(s, "executed") <= SumOver(Users(s), retired)
                      /\ Sum(s, "cycles") <= SumOver(Users(s), [c \in Cores |-> Elapsed(c)])
    BY DEF NeverOvercounts
  <2>1. TypeOK /\ IsFiniteSet(Users(s)) /\ Users(s) \subseteq Cores
    BY UsersFinite DEF LedgerInv, PerfInv
  <2>2. ASSUME NEW k \in Clocks, NEW w, \A c \in Cores : w[c] = Work(k, c)
        PROVE  Sum(s, k) <= SumOver(Users(s), w)
    <3> DEFINE f == Stored(k)
               g == segment[s][k]
    <3>1. PICK L : Ledger(s, k, L)
      BY DEF LedgerInv, Accounted
    <3>2. g \in [Text -> Nat]
      BY <2>1 DEF TypeOK, Clocks, Counters
    <3>3. L \in [Text -> Nat] /\ \A pc \in Text : g[pc] <= L[pc]
      BY <3>1 DEF Ledger
    <3>4. Sum(s, k) = SumFunctionOnSet(g, Text)
      <4>1. DOMAIN g = Text
        BY <3>2
      <4>2. QED
        BY <4>1 DEF Sum, SumFunction, SumFunctionOnSet, FoldFunction
    <3>5. SumOver(Users(s), w) = SumFunctionOnSet(w, Users(s))
      BY DEF SumOver, SumFunctionOnSet
    <3>6. \A c \in Users(s) : f[c] \in Int /\ w[c] \in Int /\ f[c] <= w[c]
      BY <2>1, <2>2, StoredInt
    <3>7. SumFunctionOnSet(L, Text) = SumFunctionOnSet(f, Users(s))
      BY <3>1 DEF Ledger
    <3> HIDE DEF f, g
    <3>8. \A pc \in Text : g[pc] \in Int /\ L[pc] \in Int /\ g[pc] <= L[pc]
      BY <3>2, <3>3
    <3>9. SumFunctionOnSet(g, Text) <= SumFunctionOnSet(L, Text)
      BY <3>8, SumMono, PerfAssumption
    <3>10. SumFunctionOnSet(f, Users(s)) <= SumFunctionOnSet(w, Users(s))
      BY <2>1, <3>6, SumMono
    <3>11. /\ SumFunctionOnSet(g, Text) \in Int /\ SumFunctionOnSet(L, Text) \in Int
           /\ SumFunctionOnSet(f, Users(s)) \in Int /\ SumFunctionOnSet(w, Users(s)) \in Int
      BY <2>1, <3>6, <3>8, SumRemove, PerfAssumption
    <3>12. QED
      BY <3>4, <3>5, <3>7, <3>9, <3>10, <3>11
  <2>3. Sum(s, "executed") <= SumOver(Users(s), retired)
    BY <2>2 DEF Clocks, Work
  <2>4. Sum(s, "cycles") <= SumOver(Users(s), [c \in Cores |-> Elapsed(c)])
    BY <2>2 DEF Clocks, Work
  <2>5. QED
    BY <2>3, <2>4
<1>2. QED
  BY <1>1, LedgerInvInit, LedgerInvNext, PTL DEF Spec
=============================================================================
