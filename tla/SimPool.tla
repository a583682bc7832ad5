------------------------------ MODULE SimPool ------------------------------
(***************************************************************************)
(* The simulator's own malloc: a bump pointer over a static pool, advanced *)
(* by compare-and-swap and never moved back.  free() does nothing, and     *)
(* calloc() is malloc(), so it counts on every block being untouched pool. *)
(*                                                                         *)
(* pooltop is an ordinary variable shared by all host threads.  malloc     *)
(* names it twice before the swap; built as the Makefiles build it, with   *)
(* -Ofast, it loads it once.                                               *)
(***************************************************************************)
EXTENDS Integers, FiniteSets

CONSTANTS Threads,
          PoolSize,   \* bytes in simpool
          Sizes       \* sizes callers ask for

ASSUME PoolAssumption == PoolSize \in Nat /\ Sizes \subseteq Nat

VARIABLES where,    \* where each thread is in malloc
          size,     \* malloc's argument
          rv,       \* the pool top it means to return
          after,    \* the unaligned end it computed from that top
          pooltop,  \* offset of the first unused byte of simpool
          blocks    \* history: every block malloc has returned

poolvars == <<where, size, rv, after, pooltop, blocks>>

Align == 16
RoundDown(a) == a - (a % Align)

PoolInit ==
  /\ where = [t \in Threads |-> "idle"]
  /\ size = [t \in Threads |-> 0]
  /\ rv = [t \in Threads |-> 0]
  /\ after = [t \in Threads |-> 0]
  /\ pooltop = 0
  /\ blocks = {}

\* malloc returns and its locals go.
Return(t) ==
  /\ where' = [where EXCEPT ![t] = "idle"]
  /\ size' = [size EXCEPT ![t] = 0]
  /\ rv' = [rv EXCEPT ![t] = 0]
  /\ after' = [after EXCEPT ![t] = 0]

Call(t) ==
  /\ where[t] = "idle"
  /\ where' = [where EXCEPT ![t] = "load"]
  /\ \E n \in Sizes : size' = [size EXCEPT ![t] = n]
  /\ UNCHANGED <<rv, after, pooltop, blocks>>

\* Mutant of End: no room for the alignment.
EndTight(t) == pooltop + size[t]

\* after = pooltop + size + 16, room for the alignment.
End(t) == pooltop + size[t] + Align

\* Mutant of LoadTop: the end of the pool is not checked.
LoadTopUnchecked(t) ==
  /\ where[t] = "load"
  /\ pooltop <= PoolSize
  /\ where' = [where EXCEPT ![t] = "swap"]
  /\ after' = [after EXCEPT ![t] = End(t)]
  /\ rv' = [rv EXCEPT ![t] = pooltop]
  /\ UNCHANGED <<size, pooltop, blocks>>

LoadTop(t) ==
  /\ where[t] = "load"
  /\ End(t) <= PoolSize
  /\ where' = [where EXCEPT ![t] = "swap"]
  /\ after' = [after EXCEPT ![t] = End(t)]
  /\ rv' = [rv EXCEPT ![t] = pooltop]
  /\ UNCHANGED <<size, pooltop, blocks>>

PoolExhausted(t) ==
  /\ where[t] = "load"
  /\ End(t) > PoolSize
  /\ Return(t)
  /\ UNCHANGED <<pooltop, blocks>>

\* Mutant of SwapTop: a plain store.
SwapTopStore(t) ==
  /\ where[t] = "swap"
  /\ Return(t)
  /\ pooltop' = RoundDown(after[t])
  /\ blocks' = blocks \cup {[base |-> rv[t], size |-> size[t]]}

SwapTop(t) ==
  /\ where[t] = "swap"
  /\ pooltop = rv[t]
  /\ Return(t)
  /\ pooltop' = RoundDown(after[t])
  /\ blocks' = blocks \cup {[base |-> rv[t], size |-> size[t]]}

\* Mutant of SwapTopLost: the retry keeps the old top.
SwapTopLostStale(t) ==
  /\ where[t] = "swap"
  /\ pooltop # rv[t]
  /\ UNCHANGED poolvars

SwapTopLost(t) ==
  /\ where[t] = "swap"
  /\ pooltop # rv[t]
  /\ where' = [where EXCEPT ![t] = "load"]
  /\ UNCHANGED <<size, rv, after, pooltop, blocks>>

Malloc(t) == LoadTop(t) \/ PoolExhausted(t) \/ SwapTop(t) \/ SwapTopLost(t)

PoolNext == \E t \in Threads : Call(t) \/ Malloc(t)
PoolSpec == PoolInit /\ [][PoolNext]_poolvars

\* A thread inside malloc is never blocked.
FairPoolSpec == PoolSpec /\ \A t \in Threads : WF_poolvars(Malloc(t))
-----------------------------------------------------------------------------
Blocks == [base : Nat, size : Sizes]

PoolTypeOK ==
  /\ where \in [Threads -> {"idle", "load", "swap"}]
  /\ size \in [Threads -> Sizes \cup {0}]
  /\ rv \in [Threads -> Nat]
  /\ after \in [Threads -> Nat]
  /\ pooltop \in Nat
  /\ blocks \in SUBSET Blocks

(***************************************************************************)
(* No byte of the pool is handed to two callers, however their calls       *)
(* interleave.                                                             *)
(***************************************************************************)
NoOverlap ==
  \A b, c \in blocks : b = c \/ b.base + b.size <= c.base \/ c.base + c.size <= b.base

(***************************************************************************)
(* pooltop is "current allocation address" (main.cc:114): everything at or *)
(* above it is unused, so the memory calloc returns has never been         *)
(* written.  Strict, so that no block is handed out a second time.         *)
(***************************************************************************)
Frontier == \A b \in blocks : b.base + b.size < pooltop

\* Every block lies in the pool and "always align to 16 bytes" (main.cc:126).
InPool == \A b \in blocks : b.base % Align = 0 /\ b.base + b.size <= PoolSize

(***************************************************************************)
(* A call returns: a lost swap means another call took pool, and the pool  *)
(* is finite, so the retry loop cannot go on forever.                      *)
(***************************************************************************)
MallocReturns == \A t \in Threads : where[t] = "load" ~> where[t] = "idle"
=============================================================================
