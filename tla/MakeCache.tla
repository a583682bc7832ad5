----------------------------- MODULE MakeCache -----------------------------
(***************************************************************************)
(* make_cache, the generator of the LRU state machines: it explores every  *)
(* order of N ways reachable from one of them by hits, numbers the orders  *)
(* as their names sort, and writes N entries for each.                     *)
(***************************************************************************)
EXTENDS Naturals, Sequences, SequencesExt, FiniteSets

\* The order after the way at place `hit` is used.
CacheHit(state, hit) == <<state[hit]>> \o RemoveAt(state, hit)

\* factorial(): every order some sequence of hits leads to from the initial
\* one.  Any order is N hits away, so N rounds find them all.
Initial(N) == [i \in 1 .. N |-> N - i]
Table(N) ==
  LET found[n \in 0 .. N] ==
        IF n = 0 THEN {Initial(N)}
        ELSE found[n-1] \cup {CacheHit(s, i) : s \in found[n-1], i \in 1 .. N}
  IN  found[N]

\* Keys are the way numbers joined by '-', one digit each: sorted as strings
\* they are sorted as sequences.
Before(a, b) == \E i \in 1 .. Len(a) :
                  a[i] < b[i] /\ \A j \in 1 .. i - 1 : a[j] = b[j]
Number(table, key) == Cardinality({k \in table : Before(k, key)})

\* The array the header file defines, without its entry 0 (the header).
CacheFsm(N) ==
  LET table == Table(N)
      size  == N * Cardinality(table)
      key   == [e \in 1 .. size |->
                  CHOOSE k \in table : Number(table, k) = (e - 1) \div N]
      place == [e \in 1 .. size |-> ((e - 1) % N) + 1]
  IN  [e \in 1 .. size |->
         [way |-> key[e][place[e]],
          next_state |-> Number(table, CacheHit(key[e], place[e])) * N]]
=============================================================================
