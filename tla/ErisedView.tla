----------------------------- MODULE ErisedView -----------------------------
(***************************************************************************)
(* erised: two histograms and a listing over the guest's text, redrawn in  *)
(* a loop from the counters of the segment, and the mouse that moves them. *)
(* An iteration of interactive() is one action: it computes and paints,    *)
(* takes an event, and clamps the windows.  Addresses are in bytes.        *)
(***************************************************************************)
EXTENDS PerfSegment

CONSTANTS Dec,     \* code.predecoded by parcel: size of the instruction, 0 = Op_ZERO
          Bins     \* rows of a window below its title: LINES - 1

Base  == Mine.base
Limit == Mine.base + 2 * Mine.parcels

ASSUME ViewAssumption ==
  /\ Dec \in [0 .. Mine.parcels - 1 -> {0, 2, 4}]
  /\ Bins \in Nat \ {0, 1} /\ Base > 0 /\ Mine.parcels > 0

\* What loadelf leaves: an instruction, at the first of its parcels, and right
\* after it the next one, up to the end of the text.
ASSUME DecodedAssumption ==
  /\ Dec[0] # 0
  /\ \A x \in DOMAIN Dec :
       IF Dec[x] = 0 THEN Dec[x - 1] = 4
       ELSE LET y == x + Dec[x] \div 2 IN
            /\ y # Mine.parcels => y < Mine.parcels /\ Dec[y] # 0
            /\ Dec[x] = 4 => Dec[x + 1] = 0

VARIABLES local,   \* the local histogram's base, bound and range
          asm      \* the listing's base and bound

wvars == <<local, asm>>
vars  == <<svars, ovars, wvars>>

Smaller(x, y) == IF x < y THEN x ELSE y
Larger(x, y)  == IF x < y THEN y ELSE x

\* code.at(a), which faults outside the text; its step from there, for which
\* Op_ZERO counts as compressed.
Valid(a) == a \in Base .. Limit - 1
At(a)    == Dec[(a - Base) \div 2]
Step(a)  == IF At(a) = 4 THEN 4 ELSE 2

\* C's division: it rounds towards zero.
Div(a, b) == IF a >= 0 THEN a \div b ELSE -((-a) \div b)

Window(base, bound) ==
  [base |-> base, bound |-> bound, range |-> Div(bound - base, Bins)]
Global == Window(Base, Limit)

(***************************************************************************)
(* histo_compute: the addresses whose counts each bin sums.  A bin starts  *)
(* where the one before it stopped.                                        *)
(***************************************************************************)
\* The addresses from p on, an instruction at a time, up to end.
Walk(p, end) ==
  LET walk[a \in Nat] ==
        IF a >= end THEN {} ELSE {a} \cup (IF Valid(a) THEN walk[a + Step(a)] ELSE {})
  IN  walk[p]

Stop(p, end) ==
  LET S == {a \in Walk(p, end) : Valid(a)} IN
  IF S = {} THEN p
  ELSE LET a == CHOOSE a \in S : \A b \in S : b <= a IN a + Step(a)

\* Mutant of BinEnd: a bin may run past the window.
BinEndUnclipped(w, p) == p + w.range

BinEnd(w, p) == Smaller(p + w.range, w.bound)
BinStart(w) ==
  LET start[i \in Nat] ==
        IF i = 0 THEN w.base ELSE LET p == start[i - 1] IN Stop(p, BinEnd(w, p))
  IN  start
BinSums(w, i) == LET p == BinStart(w)[i] IN Walk(p, BinEnd(w, p))
Summed(w) == UNION {BinSums(w, i) : i \in 0 .. Bins - 1}

\* assembly_paint: the rows it lists, and the address it stops at.
Row(base) ==
  LET row[y \in Nat] ==
        IF y = 0 THEN base
        ELSE LET p == row[y - 1] IN IF p < Limit THEN p + Step(p) ELSE p
  IN  row
Listed(base)   == IF base = 0 THEN {}
                  ELSE {a \in {Row(base)[y] : y \in 0 .. Bins - 1} : a < Limit}
PaintEnd(base) == IF base = 0 THEN 0 ELSE Row(base)[Bins]

ViewInit ==
  /\ local = Window(Base, Limit)       \* resize_histos
  /\ asm = [base |-> 0, bound |-> 0]

Init == SegmentInit /\ ViewInit
-----------------------------------------------------------------------------
(***************************************************************************)
(* interactive().  Frame is what every iteration does before its event: it *)
(* reads the counters of each address that the histograms sum and the      *)
(* listing shows, which must be in the text and in the segment.            *)
(***************************************************************************)
GlobalSummed == Summed(Global)
Shown == GlobalSummed \cup Summed(local) \cup Listed(asm.base)
Frame == vat = "attached" /\ \A a \in Shown : Valid(a) /\ Readable(a)
Painted == [asm EXCEPT !.bound = PaintEnd(asm.base)]

\* Mutant of Clamp: the local window's upper end is left where it is.
ClampLow(l, a) ==
  /\ local' = Window(Larger(l.base, Base), l.bound)
  /\ asm' = [base |-> Larger(a.base, Base), bound |-> Smaller(a.bound, Limit)]
  /\ UNCHANGED <<svars, ovars>>

Clamp(l, a) ==
  /\ local' = Window(Larger(l.base, Base), Smaller(l.bound, Limit))
  /\ asm' = [base |-> Larger(a.base, Base), bound |-> Smaller(a.bound, Limit)]
  /\ UNCHANGED <<svars, ovars>>

NoEvent == Clamp(local, Painted)

\* The process ends, and its windows with it.
Leave(where) ==
  /\ vat' = where
  /\ local' = Window(Base, Limit) /\ asm' = [base |-> 0, bound |-> 0]
  /\ UNCHANGED <<svars, h_size, cur, clean>>

Quit == Leave("quit")

FrameFaults ==
  /\ vat = "attached"
  /\ \E a \in Shown : ~Valid(a) \/ ~Readable(a)
  /\ Leave(IF \A a \in Shown : Valid(a) THEN "lost" ELSE "crashed")

\* Mutant of Back: every instruction is a compressed one.
BackTwo(a) == 2

\* How far the instruction before address a is.
Back(a) == IF At(a - 2) # 0 THEN 2 ELSE 4

WheelUp ==
  /\ Valid(asm.base - 2) /\ Valid(Painted.bound - 2)
  /\ Clamp(local, [base  |-> Larger(asm.base - Back(asm.base), Base),
                   bound |-> Painted.bound - Back(Painted.bound)])

WheelDown ==
  /\ Valid(Painted.bound) /\ Valid(asm.base)
  /\ Clamp(local, [base  |-> asm.base + Step(asm.base),
                   bound |-> Smaller(Painted.bound + Step(Painted.bound), Limit)])

WheelUpCrashes ==
  ~(Valid(asm.base - 2) /\ Valid(Painted.bound - 2)) /\ Leave("crashed")
WheelDownCrashes ==
  ~(Valid(Painted.bound) /\ Valid(asm.base)) /\ Leave("crashed")

\* Button 1 in row y of a histogram; row 0 is its title.
ClickGlobal(y) ==
  LET b == Global.base + (y - 1) * Global.range IN
  Clamp([base |-> b, bound |-> b + Global.range], Painted)

ClickLocal(y) ==
  Clamp(local, [Painted EXCEPT !.base = local.base + (y - 1) * local.range])

\* The wheel in the local histogram: it moves both ends, or zooms with shift.
WheelLocal(lo, hi) ==
  Clamp([base |-> local.base + lo * local.range, bound |-> local.bound + hi * local.range],
        Painted)

Mouse ==
  \/ WheelUp \/ WheelDown \/ WheelUpCrashes \/ WheelDownCrashes
  \/ \E y \in 0 .. Bins : ClickGlobal(y) \/ ClickLocal(y)
  \/ \E lo, hi \in {-1, 1} : WheelLocal(lo, hi)

Ended == vat \in {"no segment", "lost", "crashed", "quit"}
Gone  == Ended /\ UNCHANGED vars

Next ==
  \/ ~Ended /\ (Create \/ Viewer) /\ UNCHANGED wvars
  \/ Frame /\ (NoEvent \/ Quit \/ Mouse)
  \/ FrameFaults \/ Gone

Spec == Init /\ [][Next]_vars
-----------------------------------------------------------------------------
(***************************************************************************)
(* Whatever is clicked and turned, and in whatever order, the local window *)
(* is a window of the text, its ends in order and its bins inside it.      *)
(***************************************************************************)
LocalInCode ==
  /\ Base <= local.base /\ local.base <= local.bound /\ local.bound <= Limit
  /\ 0 <= local.range /\ local.range * Bins <= local.bound - local.base

(***************************************************************************)
(* The bins add up each counter of the window once, and miss none but      *)
(* those of a rest smaller than the number of bins.                        *)
(***************************************************************************)
BinsCover ==
  /\ \A i, j \in 0 .. Bins - 1 : i # j => BinSums(local, i) \cap BinSums(local, j) = {}
  /\ \A a \in Walk(local.base, local.bound) : a < local.bound - Bins => a \in Summed(local)
  /\ Summed(local) \subseteq Walk(local.base, local.bound)

Starts == {a \in Base .. Limit - 1 : (a - Base) % 2 = 0 /\ At(a) # 0}

(***************************************************************************)
(* Turning the wheel moves the listing by one instruction: from one that   *)
(* begins at an instruction to one that begins at its neighbour, although  *)
(* nothing in the text tells where the instruction before one begins.      *)
(***************************************************************************)
OneInsnPerClick ==
  [][/\ WheelUp /\ asm.base \in Starts =>
          \/ asm.base = Base
          \/ asm'.base \in Starts /\ asm'.base + Step(asm'.base) = asm.base
     /\ WheelDown /\ asm.base \in Starts =>
          asm'.base \in Starts \cup {Limit} /\ asm.base + Step(asm.base) = asm'.base]_vars

(***************************************************************************)
(* erised does not run out of the text, except by the wheel over a listing *)
(* that is at an end of it.                                                *)
(***************************************************************************)
CrashOnlyAtEnds ==
  [][vat' = "crashed" /\ vat # "crashed" =>
       asm.base < Base + 2 \/ PaintEnd(asm.base) >= Limit]_vars

(***************************************************************************)
(* erised reads every counter it shows, if it opened the segment after     *)
(* caveat had made it, caveat has not made another since, both were        *)
(* started with one program, and caveat with some core.                    *)
(***************************************************************************)
LostOnlyIfRaced == vat = "lost" => ~clean \/ elf # Mine \/ n = 0
=============================================================================
