------------------------------ MODULE LruStack ------------------------------
(***************************************************************************)
(* What a set-associative write-back cache with LRU replacement promises:  *)
(* each row holds the Ways lines used most recently, in order of use, and  *)
(* a line that was written is written back when it leaves, once.           *)
(***************************************************************************)
EXTENDS Naturals, Sequences, SequencesExt

CONSTANTS Ways, Rows, Lines

VARIABLES stack,      \* for each row, its lines, the most recent first
          dirty,      \* lines written since they came in
          misses, updates, evictions

lvars == <<stack, dirty, misses, updates, evictions>>

RowOf(l) == l % Rows

Init ==
  /\ stack = [r \in 0 .. Rows - 1 |-> <<>>]
  /\ dirty = {}
  /\ misses = 0 /\ updates = 0 /\ evictions = 0

\* A write marks the line; `kept` is what stays dirty of the others.
Mark(l, write, kept) ==
  /\ dirty' = kept \cup (IF write THEN {l} ELSE {})
  /\ updates' = updates + (IF write THEN 1 ELSE 0)

Hit(l, write) ==
  LET s == stack[RowOf(l)] IN
    \E i \in DOMAIN s :
      /\ s[i] = l
      /\ stack' = [stack EXCEPT ![RowOf(l)] = <<l>> \o RemoveAt(s, i)]
      /\ Mark(l, write, dirty)
      /\ UNCHANGED <<misses, evictions>>

Miss(l, write) ==
  LET s    == stack[RowOf(l)]
      full == Len(s) = Ways
      out  == IF full THEN {Last(s)} ELSE {}
  IN  /\ ~Contains(s, l)
      /\ stack' = [stack EXCEPT ![RowOf(l)] =
                     <<l>> \o (IF full THEN Front(s) ELSE s)]
      /\ Mark(l, write, dirty \ out)
      /\ misses' = misses + 1
      /\ evictions' = evictions + (IF out \cap dirty # {} THEN 1 ELSE 0)

Next == \E l \in Lines, write \in BOOLEAN : Hit(l, write) \/ Miss(l, write)
Spec == Init /\ [][Next]_lvars
=============================================================================
