---------------------------- MODULE PerfCounters ----------------------------
(***************************************************************************)
(* caveat's timing model and the counters it keeps in shared memory.  Each *)
(* core advances its own clock, and charges every cycle to an instruction: *)
(* it adds to counters of its slot of the segment, with plain loads and    *)
(* stores.  A core takes its slot from number() when its mem_t is built,   *)
(* and core_t's bases are built in the order mem_t, hart_t: number() is    *)
(* read before hart_t's constructor has set it.                            *)
(*                                                                         *)
(* Whether a lookup hits is a free choice here (LruCache decides it).      *)
(***************************************************************************)
EXTENDS Integers, Sequences, FiniteSets, Functions

CONSTANTS Cores, Main,
          Text,        \* addresses of the guest's instructions
          MaxCores,    \* conf_cores, the slots allocated
          Unset,       \* what _number may hold before it is set
          Imiss, Dmiss, Jump,   \* conf_Imiss, conf_Dmiss, conf_Jump: cycles
          MaxInsns     \* bound: instructions the cores execute

ASSUME PerfAssumption ==
  /\ Main \in Cores /\ IsFiniteSet(Cores) /\ IsFiniteSet(Text)
  /\ MaxCores \in Nat \ {0} /\ Unset \subseteq Nat /\ Unset # {}
  /\ Imiss \in Nat /\ Dmiss \in Nat /\ Jump \in Nat /\ MaxInsns \in Nat

Slots    == 0 .. MaxCores - 1
NoSlot   == -1      \* perf_t(n) with n too large leaves its pointers null
Counters == {"executed", "cycles", "imiss", "dmiss"}

VARIABLES at,           \* where each core's thread is
          parent,       \* core_t's constructor's argument
          slot,         \* perf_t's pointers, as a slot
          number,       \* hart_t::_number
          num_threads,
          segment,      \* the counters in shared memory
          todo,         \* increments the current instruction has still to make
          loaded,       \* the old value, between an increment's load and store
          local_time,   \* mem_t::local_time
          crashed,      \* a store went through a null pointer
          started,      \* history: local_time when the core was built
          retired       \* history: instructions executed

vars == <<at, parent, slot, number, num_threads, segment, todo, loaded, local_time,
          crashed, started, retired>>
built == <<parent, slot, number, num_threads, started>>

NoValue == -1

\* Mutant of SlotOf: the slot is not checked against the number allocated.
SlotUnchecked(n) == n

\* mem_t(number()), and so perf_t(number()).
SlotOf(n) == IF n < MaxCores THEN n ELSE NoSlot

\* main() has built its core, the first: hart_t numbers it 0.
Init ==
  /\ at = [c \in Cores |-> IF c = Main THEN "run" ELSE "unborn"]
  /\ parent = [c \in Cores |-> Main]
  /\ \E n \in Unset : slot = [c \in Cores |-> IF c = Main THEN SlotOf(n) ELSE NoSlot]
  /\ number = [c \in Cores |-> 0]
  /\ num_threads = 1
  /\ segment = [s \in Slots |-> [k \in Counters |-> [pc \in Text |-> 0]]]
  /\ todo = [c \in Cores |-> <<>>]
  /\ loaded = [c \in Cores |-> NoValue]
  /\ local_time = [c \in Cores |-> 0]
  /\ crashed = FALSE
  /\ started = [c \in Cores |-> 0]
  /\ retired = [c \in Cores |-> 0]

Idle(c) == at[c] = "run" /\ todo[c] = <<>>

(***************************************************************************)
(* core_t(core_t* p), for a clone by p, which waits: mem_t's part, then    *)
(* hart_t's and core_t's body.                                             *)
(***************************************************************************)
BuildMem(c, p) ==
  /\ at[c] = "unborn" /\ Idle(p)
  /\ at' = [at EXCEPT ![c] = "mem", ![p] = "clone"]
  /\ parent' = [parent EXCEPT ![c] = p]
  /\ \E n \in Unset : slot' = [slot EXCEPT ![c] = SlotOf(n)]
  /\ UNCHANGED <<number, num_threads, segment, todo, loaded, local_time, crashed,
                 started, retired>>

BuildHart(c) ==
  /\ at[c] = "mem"
  /\ at' = [at EXCEPT ![c] = "run", ![parent[c]] = "run"]
  /\ number' = [number EXCEPT ![c] = num_threads]
  /\ num_threads' = num_threads + 1
  /\ local_time' = [local_time EXCEPT ![c] = local_time[parent[c]]]
  /\ started' = [started EXCEPT ![c] = local_time[parent[c]]]
  /\ UNCHANGED <<parent, slot, segment, todo, loaded, crashed, retired>>

(***************************************************************************)
(* The timing model's part of one instruction: the increments it makes, in *)
(* order, and what it adds to the core's clock.                            *)
(***************************************************************************)
Inc(k, pc, n) == <<[counter |-> k, pc |-> pc, by |-> n]>>
Charge(incs, time) == [incs |-> incs, time |-> time]
Nothing == Charge(<<>>, 0)

\* Mutant of Fetch: the instruction is counted twice.
FetchCountsTwice(pc, hit) ==
  Charge(Inc("executed", pc, 2) \o Inc("cycles", pc, 1), IF hit THEN 1 ELSE Imiss + 1)

\* insn_model.
Fetch(pc, hit) ==
  LET once == Inc("executed", pc, 1) \o Inc("cycles", pc, 1)
  IN  IF hit THEN Charge(once, 1)
      ELSE Charge(Inc("imiss", pc, 1) \o Inc("cycles", pc, Imiss) \o once, Imiss + 1)

\* Mutant of Access: the wrong miss counter.
AccessAsImiss(pc, hit) ==
  IF hit THEN Nothing
  ELSE Charge(Inc("imiss", pc, 1) \o Inc("cycles", pc, Dmiss), Dmiss)

\* load_model, store_model and amo_model: they differ only in the lookup.
Access(pc, hit) ==
  IF hit THEN Nothing
  ELSE Charge(Inc("dmiss", pc, 1) \o Inc("cycles", pc, Dmiss), Dmiss)

\* Mutant of Jumped: the flush takes time that no instruction is charged.
JumpedUncharged(npc) == Charge(<<>>, Jump)

\* jump_model charges the flush to the target.
Jumped(npc) == Charge(Inc("cycles", npc, Jump), Jump)

Instruction(c) ==
  /\ Idle(c) /\ SumFunction(retired) < MaxInsns
  /\ \E pc \in Text, ihit \in BOOLEAN :
       \E rest \in {Nothing} \cup {Access(pc, dhit) : dhit \in BOOLEAN}
                          \cup {Jumped(npc) : npc \in Text} :
         LET fetch == Fetch(pc, ihit) IN
           /\ todo' = [todo EXCEPT ![c] = fetch.incs \o rest.incs]
           /\ local_time' = [local_time EXCEPT ![c] = @ + fetch.time + rest.time]
  /\ retired' = [retired EXCEPT ![c] = @ + 1]
  /\ UNCHANGED <<at, built, segment, loaded, crashed>>

\* `+=` on a volatile long: a load, and a store.
Load(c) ==
  /\ todo[c] # <<>> /\ loaded[c] = NoValue /\ slot[c] # NoSlot
  /\ LET i == Head(todo[c]) IN
       loaded' = [loaded EXCEPT ![c] = segment[slot[c]][i.counter][i.pc]]
  /\ UNCHANGED <<at, built, segment, todo, local_time, crashed, retired>>

Store(c) ==
  /\ loaded[c] # NoValue
  /\ LET i == Head(todo[c]) IN
       segment' = [segment EXCEPT ![slot[c]][i.counter][i.pc] = loaded[c] + i.by]
  /\ loaded' = [loaded EXCEPT ![c] = NoValue]
  /\ todo' = [todo EXCEPT ![c] = Tail(@)]
  /\ UNCHANGED <<at, built, local_time, crashed, retired>>

Crash(c) ==
  /\ todo[c] # <<>> /\ slot[c] = NoSlot
  /\ crashed' = TRUE
  /\ UNCHANGED <<at, built, segment, todo, loaded, local_time, retired>>

Step(c) == \/ Instruction(c) \/ Load(c) \/ Store(c) \/ Crash(c)
           \/ BuildHart(c) \/ \E p \in Cores : BuildMem(c, p)

\* The process is gone, or the bound is reached.
Over == /\ crashed \/ (SumFunction(retired) = MaxInsns /\ \A c \in Cores : Idle(c))
        /\ UNCHANGED vars

Next == \/ ~crashed /\ \E c \in Cores : Step(c)
        \/ Over
Spec == Init /\ [][Next]_vars
-----------------------------------------------------------------------------
Increments == [counter : Counters, pc : Text, by : Nat]

TypeOK ==
  /\ at \in [Cores -> {"unborn", "mem", "run", "clone"}]
  /\ parent \in [Cores -> Cores]
  /\ slot \in [Cores -> Slots \cup {NoSlot}]
  /\ number \in [Cores -> Nat] /\ num_threads \in Nat
  /\ segment \in [Slots -> [Counters -> [Text -> Nat]]]
  /\ todo \in [Cores -> Seq(Increments)]
  /\ loaded \in [Cores -> Nat \cup {NoValue}]
  /\ local_time \in [Cores -> Nat] /\ started \in [Cores -> Nat]
  /\ crashed \in BOOLEAN /\ retired \in [Cores -> Nat]

Users(s)  == {c \in Cores : at[c] # "unborn" /\ slot[c] = s}
Alone(c)  == at[c] \in {"run", "clone"} /\ slot[c] # NoSlot /\ Users(slot[c]) = {c}
Settled(c) == Alone(c) /\ todo[c] = <<>>
Sum(s, k) == SumFunction(segment[s][k])
Elapsed(c) == local_time[c] - started[c]

(***************************************************************************)
(* Between instructions, for a core alone in its slot: the counters        *)
(* account for every cycle of its clock and every instruction it ran.      *)
(***************************************************************************)
CyclesAreTime ==
  \A c \in Cores : Settled(c) =>
    /\ Sum(slot[c], "cycles") = Elapsed(c)
    /\ Sum(slot[c], "executed") = retired[c]

(***************************************************************************)
(* ... and what an instruction cost is explained by what is counted for    *)
(* it: one cycle each time it ran, its misses, and jumps that landed on it. *)
(***************************************************************************)
CyclesExplained ==
  \A c \in Cores : Settled(c) =>
    \A pc \in Text :
      LET s    == segment[slot[c]]
          left == s["cycles"][pc] - s["executed"][pc]
                    - Imiss * s["imiss"][pc] - Dmiss * s["dmiss"][pc]
      IN  left \in {Jump * n : n \in 0 .. retired[c]}

(***************************************************************************)
(* Whatever cores share a slot, and however their increments interleave,   *)
(* it never holds more than they did.  (It may hold less.)                 *)
(***************************************************************************)
SumOver(S, f) == FoldFunctionOnSet(+, 0, f, S)
NeverOvercounts ==
  \A s \in Slots :
    /\ Sum(s, "executed") <= SumOver(Users(s), retired)
    /\ Sum(s, "cycles") <= SumOver(Users(s), [c \in Cores |-> Elapsed(c)])

(***************************************************************************)
(* "initialize as core n" (perf.h:25): a core's counters are those of the  *)
(* slot that bears its number.                                             *)
(***************************************************************************)
SlotIsNumber == \A c \in Cores : at[c] \in {"run", "clone"} => slot[c] = number[c]
=============================================================================
