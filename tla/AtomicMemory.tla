---------------------------- MODULE AtomicMemory ----------------------------
(***************************************************************************)
(* What guest threads are promised about shared memory: a read-modify-     *)
(* write takes the value it replaces and leaves the new one in one step.   *)
(* Once a debugger has written into such a sequence, nothing is promised.  *)
(***************************************************************************)
EXTENDS Integers

CONSTANTS Harts, Addrs, Longs, Widths,
          Trunc(_, _),     \* the part of a long an access of some width reads
          Merge(_, _, _)   \* a long after a write of that width

VARIABLES mem,       \* guest memory
          last,      \* what each hart's last read-modify-write saw, and where
          debugged   \* has a debugger written into an atomic sequence?

mvars == <<mem, last, debugged>>

Init ==
  /\ mem \in [Addrs -> Longs]
  /\ last = [h \in Harts |-> <<>>]
  /\ debugged = FALSE

Write(a) == \E w \in Widths, v \in Longs :
              mem' = [mem EXCEPT ![a] = Merge(w, mem[a], v)]

ReadModifyWrite(h) ==
  \E a \in Addrs :
    /\ \E w \in Widths : last' = [last EXCEPT ![h] = <<a, Trunc(w, mem[a])>>]
    /\ Write(a)
    /\ UNCHANGED debugged

Store == UNCHANGED <<last, debugged>> /\ \E a \in Addrs : Write(a)

Torn(h) ==
  /\ debugged
  /\ \A k \in Harts \ {h} : last'[k] = last[k]
  /\ \E a \in Addrs : Write(a)
  /\ UNCHANGED debugged

Debug == debugged' = TRUE /\ UNCHANGED <<mem, last>>

Next == Store \/ Debug \/ \E h \in Harts : ReadModifyWrite(h) \/ Torn(h)
Spec == Init /\ [][Next]_mvars
=============================================================================
