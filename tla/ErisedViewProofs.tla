-------------------------- MODULE ErisedViewProofs --------------------------
(***************************************************************************)
(* The segment's layout, the windows that erised moves over the text with  *)
(* the bins and rows it reads from them, the wheel, and when erised loses  *)
(* the segment or runs out of the text: for any text, any number of rows   *)
(* and cores, and any number of restarts of caveat.                        *)
(***************************************************************************)
EXTENDS ErisedView, SumTheorems, TLAPS

-----------------------------------------------------------------------------
(* Arithmetic. *)

LEMMA MulMono ==
  ASSUME NEW a \in Nat, NEW b \in Nat, NEW c \in Nat, a <= b
  PROVE  a * c <= b * c
<1>1. PICK d \in Nat : b = a + d
  BY Z3
<1>2. b * c = a * c + d * c
  BY <1>1, Z3
<1>3. d * c \in Nat /\ a * c \in Nat /\ b * c \in Nat
  BY Z3
<1>4. QED
  BY <1>2, <1>3, Z3

\* C's division of what is not negative, times the divisor, falls short of it.
LEMMA DivShort ==
  ASSUME NEW a \in Nat, NEW b \in Nat \ {0}
  PROVE  Div(a, b) \in Nat /\ Div(a, b) * b <= a
<1>1. Div(a, b) = a \div b
  BY Z3 DEF Div
<1>2. a \div b \in Nat /\ (a \div b) * b <= a
  BY Z3
<1>3. QED
  BY <1>1, <1>2

LEMMA NextBlock ==
  ASSUME NEW p \in Nat, NEW i \in Nat, NEW j \in Nat, i < j
  PROVE  i * p \in Nat /\ j * p \in Nat /\ i * p + p <= j * p
<1>1. (i + 1) * p <= j * p
  BY MulMono
<1>2. (i + 1) * p = i * p + p
  BY Z3
<1>3. i * p \in Nat /\ j * p \in Nat
  BY Z3
<1>4. QED
  BY <1>1, <1>2, <1>3
-----------------------------------------------------------------------------
(***************************************************************************)
(* The segment.  A counter lies in its core's block, in the part of the    *)
(* block for its kind, at its parcel's place.                              *)
(***************************************************************************)
Block(i, p) == Header + i * p * 32

Placed(c, i, p, x) ==
  \/ c = <<Block(i, p) + x * 16, 16>>
  \/ c = <<Block(i, p) + p * 16 + x * 8, 8>>
  \/ c = <<Block(i, p) + p * 16 + p * 8 + x * 8, 8>>

Apart(c, d) == c[1] + c[2] <= d[1] \/ d[1] + d[2] <= c[1]

LEMMA CounterPlaced ==
  ASSUME NEW p \in Nat, NEW k \in Nat, NEW c \in Counters(p, k)
  PROVE  \E i \in 0 .. k - 1, x \in 0 .. p - 1 : Placed(c, i, p, x)
  BY DEF Counters, CountAt, ImissAt, DmissAt, Placed, Block

LEMMA InBlock ==
  ASSUME NEW p \in Nat, NEW i \in Nat, NEW x \in 0 .. p - 1, NEW c, Placed(c, i, p, x)
  PROVE  /\ c[1] \in Nat /\ c[2] \in Nat
         /\ Block(i, p) <= c[1] /\ c[1] + c[2] <= Block(i, p) + 32 * p
<1>1. PICK b \in Nat : b = Block(i, p)
  <2>1. i * p \in Nat
    BY Z3
  <2>2. QED
    BY <2>1 DEF Block, Header
<1>2. QED
  BY <1>1 DEF Placed

LEMMA SameBlock ==
  ASSUME NEW p \in Nat, NEW i \in Nat, NEW x \in 0 .. p - 1, NEW y \in 0 .. p - 1,
         NEW c, NEW d, Placed(c, i, p, x), Placed(d, i, p, y), c # d
  PROVE  Apart(c, d)
<1>1. PICK b \in Nat : b = Block(i, p)
  <2>1. i * p \in Nat
    BY Z3
  <2>2. QED
    BY <2>1 DEF Block, Header
<1>2. CASE x = y
  BY <1>1, <1>2 DEF Placed, Apart
<1>3. CASE x < y
  BY <1>1, <1>3 DEF Placed, Apart
<1>4. CASE y < x
  BY <1>1, <1>4 DEF Placed, Apart
<1>5. QED
  BY <1>2, <1>3, <1>4

LEMMA Layout ==
  ASSUME NEW p \in Nat, NEW k \in Nat, NEW c \in Counters(p, k)
  PROVE  /\ Header <= c[1] /\ c[1] + c[2] <= SegmentSize(p, k)
         /\ \A d \in Counters(p, k) : c # d => Apart(c, d)
<1>1. PICK i \in 0 .. k - 1, x \in 0 .. p - 1 : Placed(c, i, p, x)
  BY CounterPlaced
<1>2. i \in Nat /\ i * p \in Nat /\ k * p \in Nat /\ i * p + p <= k * p
  BY NextBlock
<1>3. SegmentSize(p, k) = Header + k * p * 32
  BY Z3 DEF SegmentSize, Header
<1>4. Block(i, p) \in Nat /\ Header <= Block(i, p)
      /\ Block(i, p) + 32 * p <= SegmentSize(p, k)
  BY <1>2, <1>3 DEF Block, Header
<1>5. Header <= c[1] /\ c[1] + c[2] <= SegmentSize(p, k)
  <2>1. /\ c[1] \in Nat /\ c[2] \in Nat
        /\ Block(i, p) <= c[1] /\ c[1] + c[2] <= Block(i, p) + 32 * p
    BY <1>1, <1>2, InBlock
  <2>2. QED
    BY <2>1, <1>2, <1>3, <1>4 DEF Header
<1>6. ASSUME NEW d \in Counters(p, k), c # d PROVE Apart(c, d)
  <2>1. PICK j \in 0 .. k - 1, y \in 0 .. p - 1 : Placed(d, j, p, y)
    BY CounterPlaced
  <2>2. /\ c[1] \in Nat /\ c[2] \in Nat /\ d[1] \in Nat /\ d[2] \in Nat
        /\ Block(i, p) <= c[1] /\ c[1] + c[2] <= Block(i, p) + 32 * p
        /\ Block(j, p) <= d[1] /\ d[1] + d[2] <= Block(j, p) + 32 * p
    BY <1>1, <2>1, InBlock
  <2>3. CASE i = j
    BY <1>1, <1>6, <2>1, <2>3, SameBlock
  <2>4. CASE i < j
    <3>1. i * p \in Nat /\ j * p \in Nat /\ i * p + p <= j * p
      BY <2>4, NextBlock
    <3>2. QED
      BY <2>2, <3>1 DEF Block, Header, Apart
  <2>5. CASE j < i
    <3>1. i * p \in Nat /\ j * p \in Nat /\ j * p + p <= i * p
      BY <2>5, NextBlock
    <3>2. QED
      BY <2>2, <3>1 DEF Block, Header, Apart
  <2>6. QED
    BY <2>3, <2>4, <2>5
<1>7. QED
  BY <1>5, <1>6

LEMMA SizeType ==
  ASSUME NEW p \in Nat, NEW k \in Nat
  PROVE  SegmentSize(p, k) \in Nat /\ Header <= SegmentSize(p, k)
<1>1. p * k \in Nat
  BY Z3
<1>2. p * k * 16 \in Nat /\ p * k * 8 \in Nat /\ 2 * p * k * 8 = 2 * (p * k * 8)
  BY <1>1, Z3
<1>3. QED
  BY <1>2 DEF SegmentSize, Header

SegType ==
  /\ seg \in [len : Int, size : Nat, base : Nat, parcels : Nat, cores : Nat]
  /\ elf \in Elfs /\ n \in Cores \cup {0}

\* Once it has its length, a segment holds what has been stored into it.
SegFull ==
  /\ todo = {"new"} \/ todo \subseteq Fields
  /\ seg.len = -1 => todo = {}
  /\ seg.len # -1 => n \in Cores
  /\ seg.len # -1 /\ todo # {"new"} =>
       /\ seg.len = SegmentSize(elf.parcels, n)
       /\ \A f \in Fields \ todo : seg[f] = Stored[f]

SegInv == SegType /\ SegFull

\* What erised read of a segment that it opened whole and nobody has
\* truncated since is still what the header says.
OpenedWhole ==
  /\ vat = "start" => ~clean
  /\ clean => todo = {}
  /\ clean /\ vat \in {"opened", "sized", "attached"} => seg.len # -1
  /\ clean /\ vat \in {"sized", "attached"} => h_size = seg.size
  /\ clean /\ vat = "attached" => cur = seg.parcels

ViewerInv == SegInv /\ OpenedWhole /\ LostOnlyIfRaced

LEMMA StoredType ==
  ASSUME SegType
  PROVE  /\ elf.parcels \in Nat /\ elf.base \in Nat /\ n \in Nat
         /\ Stored \in [size : Nat, base : Nat, parcels : Nat, cores : Nat]
<1>1. elf.parcels \in Nat /\ elf.base \in Nat /\ n \in Nat
  BY SegmentAssumption DEF SegType
<1>2. SegmentSize(elf.parcels, n) \in Nat
  BY <1>1, SizeType
<1>3. QED
  BY <1>1, <1>2 DEF Stored

LEMMA SegInit == Init => SegInv
  BY SegmentAssumption DEF Init, SegmentInit, Blank, SegInv, SegType, SegFull

LEMMA SegStep == SegInv /\ Create => SegInv'
<1> SUFFICES ASSUME SegInv, Create PROVE SegInv'
  OBVIOUS
<1> USE SegmentAssumption DEF SegInv, SegType, SegFull
<1>1. CASE ShmOpen
  BY <1>1 DEF ShmOpen, Blank, Fields
<1>2. CASE Ftruncate
  <2>1. SegmentSize(elf.parcels, n) \in Nat
    BY StoredType, SizeType
  <2>2. QED
    BY <1>2, <2>1 DEF Ftruncate, Blank, Fields
<1>3. ASSUME NEW f \in Fields, StoreField(f) PROVE SegInv'
  <2>1. Stored \in [size : Nat, base : Nat, parcels : Nat, cores : Nat]
    BY StoredType
  <2>2. Stored' = Stored
    BY <1>3 DEF StoreField, Stored
  <2>3. SegType'
    BY <1>3, <2>1 DEF StoreField, Fields
  <2>4. seg'.len = seg.len /\ todo # {"new"} /\ todo' \subseteq Fields
    BY <1>3 DEF StoreField, Fields
  <2>5. ASSUME NEW g \in Fields \ todo' PROVE seg'[g] = Stored[g]
    BY <1>3, <2>4 DEF StoreField, Fields
  <2>6. QED
    BY <1>3, <2>2, <2>3, <2>4, <2>5 DEF StoreField
<1>4. QED
  BY <1>1, <1>2, <1>3 DEF Create

(***************************************************************************)
(* A counter that belongs to the text is read from inside a whole segment. *)
(***************************************************************************)
LEMMA WholeReadable ==
  ASSUME ViewerInv, vat = "attached", clean, elf = Mine, n # 0,
         NEW a, Valid(a)
  PROVE  Readable(a)
<1>1. /\ elf.parcels \in Nat /\ elf.base \in Nat /\ n \in Nat
  BY StoredType DEF ViewerInv, SegInv
<1>2. /\ seg.size = SegmentSize(elf.parcels, n) /\ seg.len = SegmentSize(elf.parcels, n)
      /\ seg.base = elf.base /\ seg.parcels = elf.parcels
      /\ h_size = seg.size /\ cur = seg.parcels
  BY DEF ViewerInv, SegInv, SegFull, OpenedWhole, Fields, Stored
<1>3. PICK x \in Nat : x = (a - seg.base) \div 2 /\ x < elf.parcels
  BY <1>1, <1>2, Z3 DEF Valid, Base, Limit
<1>4. elf.parcels <= n * elf.parcels /\ n * elf.parcels \in Nat
  <2>1. 1 * elf.parcels <= n * elf.parcels
    BY <1>1, MulMono
  <2>2. QED
    BY <1>1, <2>1, Z3
<1>5. SegmentSize(elf.parcels, n) = Header + n * elf.parcels * 32
  BY <1>1, Z3 DEF SegmentSize, Header
<1>6. /\ DmissAt(0, elf.parcels, x) = Header + 24 * elf.parcels + x * 8
      /\ CountAt(0, elf.parcels, x) = Header + x * 16
  BY <1>1, <1>3, Z3 DEF DmissAt, CountAt, Header
<1>7. /\ DmissAt(0, elf.parcels, x) + 8 <= SegmentSize(elf.parcels, n)
      /\ CountAt(0, elf.parcels, x) + 16 <= SegmentSize(elf.parcels, n)
  BY <1>1, <1>3, <1>4, <1>5, <1>6 DEF Header
<1>8. seg.base <= a
  BY <1>1, <1>2 DEF Valid, Base, Limit
<1>9. QED
  BY <1>2, <1>3, <1>7, <1>8 DEF Readable

LEMMA ViewerInit == Init => ViewerInv
  BY SegInit DEF ViewerInv, Init, SegmentInit, OpenedWhole, LostOnlyIfRaced

\* A step of the window loop, which leaves the segment alone.
LEMMA LoopStep == ViewerInv /\ (NoEvent \/ Quit \/ Mouse \/ FrameFaults \/ Gone) => ViewerInv'
<1> SUFFICES ASSUME ViewerInv, NoEvent \/ Quit \/ Mouse \/ FrameFaults \/ Gone PROVE ViewerInv'
  OBVIOUS
<1> USE DEF ViewerInv, OpenedWhole, LostOnlyIfRaced
<1>1. ASSUME UNCHANGED <<svars, h_size, cur, clean>> PROVE SegInv'
  BY <1>1 DEF svars, SegInv, SegType, SegFull, Stored
<1>2. ASSUME NEW l, NEW a, Clamp(l, a) PROVE ViewerInv'
  BY <1>1, <1>2 DEF Clamp, svars, ovars
<1>3. ASSUME NEW where \in {"crashed", "quit"}, Leave(where) PROVE ViewerInv'
  BY <1>1, <1>3 DEF Leave, svars
<1>4. ASSUME FrameFaults PROVE ViewerInv'
  <2>1. (vat' = "lost") => ~(clean /\ elf = Mine /\ n # 0)
    BY <1>4, WholeReadable DEF FrameFaults, Leave
  <2>2. vat' \in {"lost", "crashed"} /\ UNCHANGED <<svars, h_size, cur, clean>>
    BY <1>4 DEF FrameFaults, Leave
  <2>3. QED
    BY <1>1, <2>1, <2>2 DEF svars
<1>5. ASSUME Gone PROVE ViewerInv'
  BY <1>1, <1>5 DEF Gone, vars, svars, ovars
<1>6. ASSUME NoEvent \/ Quit \/ Mouse PROVE ViewerInv'
  BY <1>2, <1>3, <1>6 DEF NoEvent, Quit, Mouse, WheelUp, WheelDown, WheelUpCrashes,
     WheelDownCrashes, ClickGlobal, ClickLocal, WheelLocal
<1>7. QED
  BY <1>4, <1>5, <1>6

LEMMA ViewerStep == ViewerInv /\ [Next]_vars => ViewerInv'
<1> SUFFICES ASSUME ViewerInv, [Next]_vars PROVE ViewerInv'
  OBVIOUS
<1> USE DEF ViewerInv
<1>1. ASSUME UNCHANGED svars PROVE SegInv'
  BY <1>1 DEF svars, SegInv, SegType, SegFull, Stored
<1>2. CASE ~Ended /\ Create
  <2>1. SegInv'
    BY <1>2, SegStep
  <2>2. vat' = vat /\ h_size' = h_size /\ cur' = cur /\ vat # "lost"
    BY <1>2 DEF Create, ShmOpen, Ftruncate, StoreField, Ended, ovars
  <2>3. (~clean') \/ todo # {}
    BY <1>2 DEF Create, ShmOpen, Ftruncate, StoreField
  <2>4. clean' => clean
    BY <1>2 DEF Create, ShmOpen, Ftruncate, StoreField, ovars
  <2>5. QED
    BY <2>1, <2>2, <2>3, <2>4 DEF OpenedWhole, LostOnlyIfRaced
<1>3. CASE Open
  <2>1. SegInv' /\ UNCHANGED <<seg, todo, elf, n>>
    BY <1>1, <1>3 DEF Open, svars
  <2>2. QED
    BY <2>1, <1>3 DEF Open, OpenedWhole, LostOnlyIfRaced, SegInv, SegFull
<1>4. CASE ReadSize
  <2>1. SegInv' /\ UNCHANGED <<seg, todo, elf, n, clean>>
    BY <1>1, <1>4 DEF ReadSize, svars
  <2>2. ASSUME clean PROVE seg.len # 0
    <3>1. seg.len = SegmentSize(elf.parcels, n)
      BY <1>4, <2>2 DEF ReadSize, OpenedWhole, SegInv, SegFull
    <3>2. elf.parcels \in Nat /\ n \in Nat
      BY StoredType DEF SegInv
    <3>3. SegmentSize(elf.parcels, n) \in Nat /\ 32 <= SegmentSize(elf.parcels, n)
      BY <3>2, SizeType DEF Header
    <3>4. QED
      BY <3>1, <3>3
  <2>3. QED
    BY <2>1, <2>2, <1>4 DEF ReadSize, OpenedWhole, LostOnlyIfRaced
<1>5. CASE Attach
  <2>1. SegInv' /\ UNCHANGED <<seg, todo, elf, n, clean, h_size>>
    BY <1>1, <1>5 DEF Attach, svars
  <2>2. ASSUME clean, n # 0 PROVE h_size # 0 /\ seg.len # 0 /\ seg.cores # 0
    <3>1. /\ seg.len = SegmentSize(elf.parcels, n) /\ h_size = SegmentSize(elf.parcels, n)
          /\ seg.cores = n
      BY <1>5, <2>2 DEF Attach, OpenedWhole, SegInv, SegFull, Fields, Stored
    <3>2. elf.parcels \in Nat /\ n \in Nat
      BY StoredType DEF SegInv
    <3>3. SegmentSize(elf.parcels, n) \in Nat /\ 32 <= SegmentSize(elf.parcels, n)
      BY <3>2, SizeType DEF Header
    <3>4. QED
      BY <3>1, <3>3, <2>2
  <2>3. QED
    BY <2>1, <2>2, <1>5 DEF Attach, OpenedWhole, LostOnlyIfRaced
<1>6. CASE (Frame /\ (NoEvent \/ Quit \/ Mouse)) \/ FrameFaults \/ Gone
  BY <1>6, LoopStep DEF Next
<1>7. CASE UNCHANGED vars
  BY <1>1, <1>7 DEF vars, svars, ovars, OpenedWhole, LostOnlyIfRaced
<1>8. QED
  BY <1>2, <1>3, <1>4, <1>5, <1>6, <1>7 DEF Next, Viewer

LEMMA BelowBound ==
  ASSUME NEW m \in Nat, NEW r \in 0 .. m, r < m
  PROVE  r + 1 \in 0 .. m
  OBVIOUS

\* A step of the window loop leaves what it has read of the segment alone.
LEMMA LoopKeeps ==
  ASSUME (Frame /\ (NoEvent \/ Quit \/ Mouse)) \/ FrameFaults \/ Gone
  PROVE  UNCHANGED <<svars, h_size, cur, clean>> /\ vat' \in {vat, "quit", "crashed", "lost"}
<1>1. ASSUME NEW l, NEW a, Clamp(l, a)
      PROVE  UNCHANGED <<svars, h_size, cur, clean>> /\ vat' = vat
  BY <1>1 DEF Clamp, ovars
<1>2. QED
  BY <1>1 DEF NoEvent, Quit, Mouse, WheelUp, WheelDown, WheelUpCrashes, WheelDownCrashes,
     ClickGlobal, ClickLocal, WheelLocal, Leave, FrameFaults, Gone, vars, ovars

(***************************************************************************)
(* The types of the segment hold for any programs and numbers of cores:    *)
(* whatever erised reads while caveat is still storing is a size, and a    *)
(* segment's length is never less than nothing.                            *)
(***************************************************************************)
THEOREM SegmentTypes == Spec => []SegmentTypeOK
<1> DEFINE Rest == /\ seg.len \in Nat \cup {-1} /\ runs \in 0 .. MaxRuns
                   /\ vat \in {"start", "no segment", "opened", "sized", "attached", "lost",
                               "crashed", "quit"}
                   /\ h_size \in Nat /\ cur \in Nat \cup {-1} /\ clean \in BOOLEAN
<1>1. Init => Rest
  <2> SUFFICES ASSUME Init PROVE Rest
    OBVIOUS
  <2>1. seg.len = -1 /\ runs = 0 /\ vat = "start" /\ h_size = 0 /\ cur = -1
    BY DEF Init, SegmentInit, Blank
  <2>2. clean \in BOOLEAN
    BY Zenon DEF Init, SegmentInit
  <2>3. QED
    BY <2>1, <2>2, SegmentAssumption
<1>2. SegInv /\ Rest /\ [Next]_vars => Rest'
  <2> SUFFICES ASSUME SegInv, Rest, [Next]_vars PROVE Rest'
    OBVIOUS
  <2> USE SegmentAssumption
  <2>1. CASE ShmOpen
    <3>1. /\ seg'.len = 0 /\ runs < MaxRuns /\ runs' = runs + 1
          /\ UNCHANGED <<vat, h_size, cur>>
      BY <2>1 DEF ShmOpen, Blank
    <3>2. clean' \in BOOLEAN
      BY <2>1, Zenon DEF ShmOpen
    <3>3. seg'.len \in Nat \cup {-1}
      <4>1. 0 \in Nat \cup {-1}
        OBVIOUS
      <4>2. QED
        BY <3>1, <4>1, Zenon
    <3>4. runs' \in 0 .. MaxRuns
      <4>1. runs \in 0 .. MaxRuns /\ MaxRuns \in Nat
        BY Zenon
      <4>2. QED
        BY <3>1, <4>1, BelowBound
    <3>5. QED
      BY <3>1, <3>2, <3>3, <3>4, Zenon
  <2>2. CASE Ftruncate
    <3>1. SegmentSize(elf.parcels, n) \in Nat
      BY StoredType, SizeType DEF SegInv
    <3>2. seg'.len = SegmentSize(elf.parcels, n)
      BY <2>2 DEF Ftruncate, Blank
    <3>3. QED
      BY <2>2, <3>1, <3>2 DEF Ftruncate, ovars
  <2>3. ASSUME NEW f \in Fields, StoreField(f) PROVE Rest'
    <3>1. seg'.len = seg.len
      BY <2>3 DEF StoreField, Fields, SegInv, SegType
    <3>2. QED
      BY <2>3, <3>1 DEF StoreField, ovars
  <2>4. CASE Viewer
    BY <2>4 DEF Viewer, Open, ReadSize, Attach, svars, SegInv, SegType
  <2>5. CASE (Frame /\ (NoEvent \/ Quit \/ Mouse)) \/ FrameFaults \/ Gone
    BY <2>5, LoopKeeps DEF svars
  <2>6. CASE UNCHANGED vars
    BY <2>6 DEF vars, svars, ovars
  <2>7. QED
    BY <2>1, <2>2, <2>3, <2>4, <2>5, <2>6 DEF Next, Create
<1>3. ViewerInv => SegInv
  BY DEF ViewerInv
<1>4. SegInv /\ Rest => SegmentTypeOK
  <2> SUFFICES ASSUME SegInv, Rest PROVE SegmentTypeOK
    OBVIOUS
  <2>1. \A f \in Fields : seg[f] \in Nat
    BY DEF SegInv, SegType, Fields
  <2>2. todo \subseteq Fields \cup {"new"} /\ elf \in Elfs /\ n \in Cores \cup {0}
    BY DEF SegInv, SegType, SegFull
  <2>3. QED
    BY <2>1, <2>2 DEF SegmentTypeOK
<1>5. QED
  BY <1>1, <1>2, <1>3, <1>4, ViewerInit, ViewerStep, PTL DEF Spec

(***************************************************************************)
(* Whatever number of cores and size of text caveat is run with, the       *)
(* counters of the segment it has made lie inside it and apart.            *)
(***************************************************************************)
THEOREM LayoutSafe == Spec => []CountersDisjoint
<1>1. ViewerInv => CountersDisjoint
  <2> SUFFICES ASSUME SegInv, todo = {}, seg.len # -1
               PROVE  /\ <<seg.parcels, seg.cores>> \in WellLaid
                      /\ seg.size = seg.len
                      /\ seg.len = SegmentSize(seg.parcels, seg.cores)
    BY DEF CountersDisjoint, ViewerInv
  <2>1. /\ seg.parcels = elf.parcels /\ seg.cores = n
        /\ seg.size = SegmentSize(elf.parcels, n) /\ seg.len = SegmentSize(elf.parcels, n)
    BY DEF SegInv, SegFull, Fields, Stored
  <2>2. elf.parcels \in Nat /\ n \in Nat /\ n \in Cores /\ elf \in Elfs
    BY StoredType DEF SegInv, SegType, SegFull
  <2>3. \A c \in Counters(elf.parcels, n) :
          /\ Header <= c[1] /\ c[1] + c[2] <= SegmentSize(elf.parcels, n)
          /\ \A d \in Counters(elf.parcels, n) :
               c # d => c[1] + c[2] <= d[1] \/ d[1] + d[2] <= c[1]
    BY <2>2, Layout DEF Apart
  <2>4. <<elf.parcels, n>> \in {e.parcels : e \in Elfs} \X Cores
    BY <2>2
  <2>5. <<elf.parcels, n>> \in WellLaid
    BY <2>3, <2>4 DEF WellLaid
  <2>6. QED
    BY <2>1, <2>5
<1>2. QED
  BY <1>1, ViewerInit, ViewerStep, PTL DEF Spec

(***************************************************************************)
(* erised loses the segment only to a race with caveat's start, to another *)
(* run of caveat, to another program or to a caveat without a core.        *)
(***************************************************************************)
THEOREM LostSafe == Spec => []LostOnlyIfRaced
<1>1. ViewerInv => LostOnlyIfRaced
  BY DEF ViewerInv
<1>2. QED
  BY <1>1, ViewerInit, ViewerStep, PTL DEF Spec
-----------------------------------------------------------------------------
(***************************************************************************)
(* The windows.  A window is as wide as its bins, and a rest.              *)
(***************************************************************************)
LEMMA WindowOrdered ==
  ASSUME NEW a \in Int, NEW b \in Int, Base <= a, a <= b, b <= Limit
  PROVE  LET w == Window(a, b) IN
           /\ w.base = a /\ w.bound = b /\ w.range \in Nat /\ w.range * Bins <= b - a
<1>1. b - a \in Nat /\ Bins \in Nat \ {0}
  BY ViewAssumption
<1>2. QED
  BY <1>1, DivShort DEF Window

LocalInv == local \in [base : Int, bound : Int, range : Nat] /\ LocalInCode

LEMMA ClampInv ==
  ASSUME NEW l, NEW a, Clamp(l, a), l.base \in Int, l.bound \in Int,
         l.base <= Limit, Base <= l.bound, l.base <= l.bound
  PROVE  LocalInv'
<1>1. Base \in Nat /\ Limit \in Nat /\ Base <= Limit
  BY SegmentAssumption DEF Base, Limit
<1>2. PICK x \in Int : x = Larger(l.base, Base) /\ Base <= x
  BY <1>1 DEF Larger
<1>3. PICK y \in Int : y = Smaller(l.bound, Limit) /\ y <= Limit
  BY <1>1 DEF Smaller
<1>4. x <= y
  BY <1>1, <1>2, <1>3 DEF Larger, Smaller
<1>5. local' = Window(x, y)
  BY <1>2, <1>3 DEF Clamp
<1>6. /\ Window(x, y).base = x /\ Window(x, y).bound = y
      /\ Window(x, y).range \in Nat /\ Window(x, y).range * Bins <= y - x
  BY <1>2, <1>3, <1>4, WindowOrdered
<1>7. local' \in [base : Int, bound : Int, range : Nat]
  BY <1>5, <1>6 DEF Window
<1>8. QED
  BY <1>2, <1>3, <1>4, <1>5, <1>6, <1>7 DEF LocalInv, LocalInCode, Base, Limit

LEMMA LocalInit == Init => LocalInv
<1>1. Base \in Nat /\ Limit \in Nat /\ Base <= Limit
  BY SegmentAssumption DEF Base, Limit
<1>2. QED
  BY <1>1, WindowOrdered DEF Init, ViewInit, LocalInv, LocalInCode, Window

\* Row y of the global histogram starts in the text, or one bin before it.
LEMMA RowInText ==
  ASSUME NEW y \in 0 .. Bins, NEW r \in Nat, r * Bins <= Limit - Base
  PROVE  (y - 1) * r \in Int /\ Base + (y - 1) * r + r >= Base
         /\ Base + (y - 1) * r <= Limit
<1>1. Base \in Nat /\ Limit \in Nat /\ Bins \in Nat
  BY SegmentAssumption, ViewAssumption DEF Base, Limit
<1>2. y * r \in Nat /\ Bins * r = r * Bins
  BY <1>1, Z3
<1>3. y * r <= Bins * r
  BY <1>1, MulMono
<1>4. (y - 1) * r = y * r - r
  BY <1>1, Z3
<1>5. QED
  BY <1>1, <1>2, <1>3, <1>4

LEMMA LocalStep == LocalInv /\ [Next]_vars => LocalInv'
<1> SUFFICES ASSUME LocalInv, [Next]_vars PROVE LocalInv'
  OBVIOUS
<1>0. /\ Base \in Nat /\ Limit \in Nat /\ Base <= Limit
      /\ Bins \in Nat /\ 2 <= Bins
  BY SegmentAssumption, ViewAssumption DEF Base, Limit
<1>1. /\ local.base \in Int /\ local.bound \in Int /\ local.range \in Nat
      /\ Base <= local.base /\ local.base <= local.bound /\ local.bound <= Limit
      /\ local.range * Bins <= local.bound - local.base
  BY DEF LocalInv, LocalInCode
<1>2. local.base + 2 * local.range <= local.bound
  <2>1. 2 * local.range <= Bins * local.range
    BY <1>0, <1>1, MulMono
  <2>2. Bins * local.range = local.range * Bins
    BY <1>0, <1>1, Z3
  <2>3. local.range * Bins \in Nat
    BY <1>0, <1>1, Z3
  <2>4. QED
    BY <1>1, <2>1, <2>2, <2>3
<1>3. ASSUME NEW a, Clamp(local, a) PROVE LocalInv'
  BY <1>0, <1>1, <1>3, ClampInv
<1>4. ASSUME NEW where, Leave(where) PROVE LocalInv'
  BY <1>0, <1>4, WindowOrdered DEF Leave, LocalInv, LocalInCode, Window
<1>5. ASSUME NEW y \in 0 .. Bins, ClickGlobal(y) PROVE LocalInv'
  <2>1. /\ Global.base = Base /\ Global.range \in Nat
        /\ Global.range * Bins <= Limit - Base
    BY <1>0, WindowOrdered DEF Global
  <2>2. PICK b \in Int : /\ b = Global.base + (y - 1) * Global.range
                         /\ b <= Limit /\ Base <= b + Global.range
    BY <1>0, <2>1, RowInText
  <2>3. Clamp([base |-> b, bound |-> b + Global.range], Painted)
    BY <1>5, <2>2 DEF ClickGlobal
  <2>4. QED
    BY <2>1, <2>2, <2>3, ClampInv
<1>6. ASSUME NEW lo \in {-1, 1}, NEW hi \in {-1, 1}, WheelLocal(lo, hi) PROVE LocalInv'
  <2>1. ASSUME NEW r \in Nat, NEW s \in {-1, 1}
        PROVE  s * r \in Int /\ (s * r = r \/ s * r = -r)
    <3>1. CASE s = 1
      BY <3>1
    <3>2. CASE s = -1
      BY <3>2
    <3>3. QED
      BY <3>1, <3>2
  <2>2. PICK u \in Int, v \in Int :
          /\ u = lo * local.range /\ v = hi * local.range
          /\ u = local.range \/ u = -local.range
          /\ v = local.range \/ v = -local.range
    BY <1>1, <2>1
  <2>3. PICK b \in Int, c \in Int :
          /\ b = local.base + u /\ c = local.bound + v
          /\ b <= Limit /\ Base <= c /\ b <= c
    <3>1. /\ local.base \in Int /\ local.bound \in Int /\ local.range \in Nat
          /\ Base <= local.base /\ local.bound <= Limit
      BY <1>1
    <3>2. /\ u = local.range \/ u = -local.range
          /\ v = local.range \/ v = -local.range
      BY <2>2
    <3>3. /\ local.base + u <= Limit /\ Base <= local.bound + v
          /\ local.base + u <= local.bound + v
      BY <1>0, <1>2, <3>1, <3>2
    <3>4. QED
      BY <3>1, <3>3
  <2>4. Clamp([base |-> b, bound |-> c], Painted)
    BY <1>6, <2>2, <2>3 DEF WheelLocal
  <2>5. QED
    BY <2>3, <2>4, ClampInv
<1>7. CASE UNCHANGED wvars
  BY <1>7 DEF wvars, LocalInv, LocalInCode
<1>8. CASE Mouse
  BY <1>3, <1>4, <1>5, <1>6, <1>8 DEF Mouse, WheelUp, WheelDown, WheelUpCrashes,
     WheelDownCrashes, ClickLocal
<1>9. QED
  BY <1>3, <1>4, <1>7, <1>8 DEF Next, NoEvent, Quit, FrameFaults, Gone, vars, wvars

(***************************************************************************)
(* Whatever is clicked and turned, in whatever order, and whatever the     *)
(* text and the height of the terminal, the local window stays in it.      *)
(***************************************************************************)
THEOREM LocalSafe == Spec => []LocalInCode
<1>1. LocalInv => LocalInCode
  BY DEF LocalInv
<1>2. QED
  BY <1>1, LocalInit, LocalStep, PTL DEF Spec
-----------------------------------------------------------------------------
(***************************************************************************)
(* The walks over the text.  Each is a recursive function: it is shown to  *)
(* exist, then to have the properties that BinsCover needs of it.          *)
(***************************************************************************)
LEMMA TextEnds == Base \in Nat /\ Limit \in Nat /\ 0 < Base /\ Base <= Limit /\ Bins \in Nat \ {0}
  BY SegmentAssumption, ViewAssumption DEF Base, Limit

LEMMA StepType == \A a : Step(a) \in {2, 4}
  BY DEF Step

WalkFrom(g, a, end) ==
  IF a >= end THEN {} ELSE {a} \cup (IF Valid(a) THEN g[a + Step(a)] ELSE {})
IsWalk(g, end) == g = [a \in Nat |-> WalkFrom(g, a, end)]

\* The walks from the addresses at most m below the end exist, for every m.
LEMMA WalkExists ==
  ASSUME NEW end \in Nat PROVE \E g : IsWalk(g, end)
<1> DEFINE D(m) == {a \in Nat : end <= a + m}
           Q == {m \in Nat : \E g : g = [a \in D(m) |-> WalkFrom(g, a, end)]}
<1>1. 0 \in Q
  <2> DEFINE g == [a \in D(0) |-> {}]
  <2>1. \A a \in D(0) : WalkFrom(g, a, end) = {}
    BY DEF WalkFrom
  <2>2. g = [a \in D(0) |-> WalkFrom(g, a, end)]
    BY <2>1
  <2>3. QED
    BY <2>2
<1>2. ASSUME NEW m \in Nat, m \in Q PROVE m + 1 \in Q
  <2>1. PICK g : g = [a \in D(m) |-> WalkFrom(g, a, end)]
    BY <1>2
  <2> DEFINE h == [a \in D(m + 1) |-> WalkFrom(g, a, end)]
  <2>2. ASSUME NEW a \in D(m + 1) PROVE h[a + Step(a)] = g[a + Step(a)]
    <3> DEFINE b == a + Step(a)
    <3>1. b \in D(m) /\ b \in D(m + 1)
      BY StepType
    <3> HIDE DEF b
    <3>2. g[b] = WalkFrom(g, b, end) /\ h[b] = WalkFrom(g, b, end)
      BY <2>1, <3>1
    <3>3. QED
      BY <3>2 DEF b
  <2>3. h = [a \in D(m + 1) |-> WalkFrom(h, a, end)]
    <3> HIDE DEF D
    <3>1. \A a \in D(m + 1) : WalkFrom(g, a, end) = WalkFrom(h, a, end)
      BY <2>2 DEF WalkFrom
    <3>2. QED
      BY <3>1
  <2> HIDE DEF h
  <2>4. \E k : k = [a \in D(m + 1) |-> WalkFrom(k, a, end)]
    BY <2>3
  <2>5. m + 1 \in Nat
    OBVIOUS
  <2> HIDE DEF D
  <2>6. QED
    BY <2>4, <2>5
<1> HIDE DEF Q
<1>3. \A m \in Nat : m \in Q
  BY <1>1, <1>2, NatSetInduction
<1> USE DEF Q
<1>4. end \in Q
  BY <1>3
<1>5. D(end) = Nat
  OBVIOUS
<1>6. QED
  BY <1>4, <1>5 DEF IsWalk

LEMMA WalkAt ==
  ASSUME NEW end \in Nat, NEW p \in Nat
  PROVE  Walk(p, end) = IF p >= end THEN {}
                        ELSE {p} \cup (IF Valid(p) THEN Walk(p + Step(p), end) ELSE {})
<1> DEFINE walk == CHOOSE g : IsWalk(g, end)
<1>1. IsWalk(walk, end)
  BY WalkExists
<1>2. \A q : Walk(q, end) = walk[q]
  BY DEF Walk, IsWalk, WalkFrom
<1> HIDE DEF walk
<1>3. walk[p] = WalkFrom(walk, p, end)
  BY <1>1 DEF IsWalk
<1>4. QED
  BY <1>2, <1>3 DEF WalkFrom

\* Inside the text a walk goes on to the end, and has a last address.
LEMMA WalkIn ==
  ASSUME NEW end \in Nat, end <= Limit, NEW p \in Nat, Base <= p
  PROVE  /\ Walk(p, end) \subseteq p .. end - 1
         /\ \A a \in Walk(p, end) : Valid(a)
         /\ p < end => \E m \in Walk(p, end) : \A b \in Walk(p, end) : b <= m
<1> DEFINE In(q)  == Walk(q, end) \subseteq q .. end - 1
           Max(q) == \E m \in Walk(q, end) : \A b \in Walk(q, end) : b <= m
           Q == {d \in Nat : \A q \in Nat : Base <= q /\ end <= q + d =>
                               In(q) /\ (q < end => Max(q))}
<1>1. \A q \in Nat : q >= end => Walk(q, end) = {}
  BY WalkAt
<1>2. \A q \in Nat : Base <= q /\ q < end => Walk(q, end) = {q} \cup Walk(q + Step(q), end)
  BY WalkAt, TextEnds DEF Valid
<1>3. 0 \in Q
  BY <1>1
<1>4. ASSUME NEW d \in Nat, d \in Q PROVE d + 1 \in Q
  <2> SUFFICES ASSUME NEW q \in Nat, Base <= q, end <= q + (d + 1)
               PROVE  In(q) /\ (q < end => Max(q))
    OBVIOUS
  <2>1. CASE q >= end
    BY <1>1, <2>1
  <2>2. CASE q < end
    <3> DEFINE next == q + Step(q)
    <3>1. next \in Nat /\ q < next /\ end <= next + d /\ Base <= next
      BY StepType, TextEnds
    <3>2. In(next) /\ (next < end => Max(next))
      BY <1>4, <3>1
    <3>3. Walk(q, end) = {q} \cup Walk(next, end)
      BY <1>2, <2>2
    <3> HIDE DEF next
    <3>4. In(q)
      BY <2>2, <3>1, <3>2, <3>3
    <3>5. CASE next < end
      <4>1. PICK m \in Walk(next, end) : \A b \in Walk(next, end) : b <= m
        BY <3>2, <3>5
      <4>2. m \in Walk(q, end) /\ \A b \in Walk(q, end) : b <= m
        BY <3>1, <3>2, <3>3, <4>1
      <4>3. QED
        BY <3>4, <4>2
    <3>6. CASE next >= end
      <4>1. Walk(q, end) = {q}
        BY <1>1, <3>1, <3>3, <3>6
      <4>2. QED
        BY <3>4, <4>1
    <3>7. QED
      BY <3>1, <3>5, <3>6
  <2>3. QED
    BY <2>1, <2>2
<1> HIDE DEF Q
<1>5. \A d \in Nat : d \in Q
  BY <1>3, <1>4, NatSetInduction
<1>6. In(p) /\ (p < end => Max(p))
  <2>1. end \in Q /\ end <= p + end
    BY <1>5
  <2> HIDE DEF In, Max
  <2>2. QED
    BY <2>1 DEF Q
<1>7. \A a \in Walk(p, end) : Valid(a)
  BY <1>6, TextEnds DEF Valid
<1>8. QED
  BY <1>6, <1>7

\* Where a walk stops: at once, or where the walk from its next address does.
LEMMA StopAt ==
  ASSUME NEW end \in Nat, end <= Limit, NEW p \in Nat, Base <= p
  PROVE  Stop(p, end) = IF p >= end THEN p ELSE Stop(p + Step(p), end)
<1> DEFINE Last(S) == CHOOSE a \in S : \A b \in S : b <= a
<1>1. ASSUME NEW S, NEW m \in S, S \subseteq Nat, \A b \in S : b <= m PROVE Last(S) = m
  <2>1. \E a \in S : \A b \in S : b <= a
    BY <1>1
  <2>2. Last(S) \in S /\ \A b \in S : b <= Last(S)
    BY <2>1
  <2> HIDE DEF Last
  <2>3. Last(S) \in Nat /\ m \in Nat /\ m <= Last(S) /\ Last(S) <= m
    BY <1>1, <2>2
  <2>4. QED
    BY <2>3
<1>2. ASSUME NEW q \in Nat, Base <= q
      PROVE  /\ q >= end => Walk(q, end) = {} /\ Stop(q, end) = q
             /\ q < end => Stop(q, end) = Last(Walk(q, end)) + Step(Last(Walk(q, end)))
  <2>1. {a \in Walk(q, end) : Valid(a)} = Walk(q, end)
    BY <1>2, WalkIn
  <2>2. Walk(q, end) = {} <=> q >= end
    BY <1>2, WalkIn, WalkAt
  <2>3. Stop(q, end) = IF Walk(q, end) = {} THEN q
                       ELSE Last(Walk(q, end)) + Step(Last(Walk(q, end)))
    <3> DEFINE S == {a \in Walk(q, end) : Valid(a)}
    <3>1. Stop(q, end) = IF S = {} THEN q ELSE Last(S) + Step(Last(S))
      BY DEF Stop
    <3> HIDE DEF Last
    <3>2. QED
      BY <2>1, <3>1
  <2>4. QED
    BY <1>2, <2>2, <2>3
<1> HIDE DEF Last
<1>3. CASE p >= end
  BY <1>2, <1>3
<1>4. CASE p < end
  <2> DEFINE next == p + Step(p)
  <2>1. next \in Nat /\ p < next /\ Base <= next
    BY StepType, TextEnds
  <2>2. Walk(p, end) = {p} \cup Walk(next, end)
    BY <1>4, WalkAt, TextEnds DEF Valid
  <2>3. Walk(p, end) \subseteq Nat /\ Walk(next, end) \subseteq next .. end - 1
    <3> HIDE DEF next
    <3>1. QED
      BY <2>1, WalkIn
  <2>4. CASE next >= end
    <3>1. Walk(p, end) = {p}
      BY <1>2, <2>1, <2>2, <2>4
    <3>2. Last(Walk(p, end)) = p
      BY <1>1, <3>1
    <3>3. Stop(p, end) = next /\ Stop(next, end) = next
      BY <1>2, <1>4, <2>1, <2>4, <3>2
    <3>4. QED
      BY <1>4, <3>3
  <2>5. CASE next < end
    <3> HIDE DEF next
    <3>1. PICK m \in Walk(next, end) : \A b \in Walk(next, end) : b <= m
      BY <2>1, <2>5, WalkIn
    <3>2. m \in Walk(p, end) /\ \A b \in Walk(p, end) : b <= m
      BY <2>1, <2>2, <2>3, <3>1
    <3>3. Last(Walk(next, end)) = m /\ Last(Walk(p, end)) = m
      BY <1>1, <2>2, <2>3, <3>1, <3>2
    <3>4. Stop(p, end) = Stop(next, end)
      BY <1>2, <1>4, <2>1, <2>5, <3>3
    <3>5. QED
      BY <1>4, <3>4 DEF next
  <2>6. QED
    BY <2>1, <2>4, <2>5
<1>5. QED
  BY <1>3, <1>4

\* A walk can be broken off anywhere and taken up where it stopped.
LEMMA WalkSplit ==
  ASSUME NEW mid \in Nat, NEW end \in Nat, mid <= end, end <= Limit, NEW p \in Nat, Base <= p
  PROVE  /\ Stop(p, mid) \in Nat /\ p <= Stop(p, mid) /\ mid <= Stop(p, mid)
         /\ Walk(p, end) = Walk(p, mid) \cup Walk(Stop(p, mid), end)
<1> DEFINE Split(q) == /\ Stop(q, mid) \in Nat /\ q <= Stop(q, mid) /\ mid <= Stop(q, mid)
                       /\ Walk(q, end) = Walk(q, mid) \cup Walk(Stop(q, mid), end)
           Q == {d \in Nat : \A q \in Nat : Base <= q /\ mid <= q + d => Split(q)}
<1>0. mid <= Limit
  BY TextEnds
<1>1. ASSUME NEW q \in Nat, Base <= q, mid <= q PROVE Split(q)
  <2>1. Stop(q, mid) = q
    BY <1>0, <1>1, StopAt
  <2>2. Walk(q, mid) = {}
    BY <1>1, WalkAt
  <2>3. QED
    BY <1>1, <2>1, <2>2
<1>2. 0 \in Q
  <2> HIDE DEF Split
  <2>1. QED
    BY <1>1
<1>3. ASSUME NEW d \in Nat, d \in Q PROVE d + 1 \in Q
  <2> SUFFICES ASSUME NEW q \in Nat, Base <= q, mid <= q + (d + 1) PROVE Split(q)
    OBVIOUS
  <2>1. CASE q < mid
    <3> DEFINE next == q + Step(q)
    <3>1. next \in Nat /\ q < next /\ mid <= next + d /\ Base <= next
      BY StepType, TextEnds
    <3>2. Split(next)
      BY <1>3, <3>1
    <3>3. Walk(q, mid) = {q} \cup Walk(next, mid) /\ Walk(q, end) = {q} \cup Walk(next, end)
      BY <1>0, <2>1, WalkAt, TextEnds DEF Valid
    <3>4. Stop(q, mid) = Stop(next, mid)
      BY <1>0, <2>1, StopAt
    <3> HIDE DEF next
    <3>5. QED
      BY <3>1, <3>2, <3>3, <3>4
  <2>2. QED
    BY <1>1, <2>1
<1> HIDE DEF Q
<1>4. \A d \in Nat : d \in Q
  BY <1>2, <1>3, NatSetInduction
<1>5. mid \in Q /\ mid <= p + mid
  BY <1>4
<1> HIDE DEF Split
<1>6. Split(p)
  BY <1>5 DEF Q
<1>7. QED
  BY <1>6 DEF Split

(***************************************************************************)
(* A function on numbers that is given by a start and a step exists.       *)
(***************************************************************************)
Follows(f, m, z, G) == f[0] = z /\ \A i \in 0 .. m - 1 : f[i + 1] = G[f[i]]

Iterates(f, S, z, G) == f \in [Nat -> S] /\ f[0] = z /\ \A i \in Nat : f[i + 1] = G[f[i]]

LEMMA NatRecursion ==
  ASSUME NEW S, NEW z \in S, NEW G \in [S -> S]
  PROVE  \E f : Iterates(f, S, z, G)
<1> DEFINE Q == {m \in Nat : \E f \in [0 .. m -> S] : Follows(f, m, z, G)}
           R == {i \in Nat : \A m, k \in Nat : \A f \in [0 .. m -> S], g \in [0 .. k -> S] :
                   Follows(f, m, z, G) /\ Follows(g, k, z, G) /\ i <= m /\ i <= k
                     => f[i] = g[i]}
<1>1. 0 \in Q
  <2> DEFINE f == [i \in 0 .. 0 |-> z]
  <2>1. f \in [0 .. 0 -> S] /\ Follows(f, 0, z, G)
    BY DEF Follows
  <2> HIDE DEF f
  <2>2. QED
    BY <2>1
<1>2. ASSUME NEW m \in Nat, m \in Q PROVE m + 1 \in Q
  <2>1. PICK f \in [0 .. m -> S] : Follows(f, m, z, G)
    BY <1>2
  <2> DEFINE g == [i \in 0 .. m + 1 |-> IF i = m + 1 THEN G[f[m]] ELSE f[i]]
  <2>2. g \in [0 .. m + 1 -> S]
    OBVIOUS
  <2>3. g[0] = z /\ g[m + 1] = G[g[m]]
    BY <2>1 DEF Follows
  <2>4. ASSUME NEW i \in 0 .. m - 1 PROVE g[i + 1] = G[g[i]]
    BY <2>1 DEF Follows
  <2> HIDE DEF g
  <2>5. Follows(g, m + 1, z, G)
    BY <2>3, <2>4 DEF Follows
  <2>6. QED
    BY <2>2, <2>5
<1>3. 0 \in R
  BY DEF Follows
<1>4. ASSUME NEW i \in Nat, i \in R PROVE i + 1 \in R
  <2> SUFFICES ASSUME NEW m \in Nat, NEW k \in Nat, NEW f \in [0 .. m -> S],
                      NEW g \in [0 .. k -> S], Follows(f, m, z, G), Follows(g, k, z, G),
                      i + 1 <= m, i + 1 <= k
               PROVE  f[i + 1] = g[i + 1]
    OBVIOUS
  <2>1. f[i] = g[i]
    BY <1>4
  <2>2. i \in 0 .. m - 1 /\ i \in 0 .. k - 1
    OBVIOUS
  <2>3. QED
    BY <2>1, <2>2 DEF Follows
<1> HIDE DEF Q, R
<1>5. \A i \in Nat : i \in Q /\ i \in R
  <2>1. \A i \in Nat : i \in Q
    BY <1>1, <1>2, NatSetInduction
  <2>2. \A i \in Nat : i \in R
    BY <1>3, <1>4, NatSetInduction
  <2>3. QED
    BY <2>1, <2>2
<1> DEFINE pick(m) == CHOOSE f \in [0 .. m -> S] : Follows(f, m, z, G)
           h == [m \in Nat |-> pick(m)[m]]
<1>6. \A m \in Nat : pick(m) \in [0 .. m -> S] /\ Follows(pick(m), m, z, G)
  BY <1>5 DEF Q
<1> HIDE DEF pick
<1>7. h \in [Nat -> S]
  BY <1>6
<1>8. h[0] = z
  BY <1>6 DEF Follows
<1>9. ASSUME NEW i \in Nat PROVE h[i + 1] = G[h[i]]
  <2>1. pick(i + 1)[i] = pick(i)[i]
    BY <1>5, <1>6 DEF R
  <2>2. i \in 0 .. (i + 1) - 1 /\ i + 1 \in Nat
    OBVIOUS
  <2>3. pick(i + 1)[i + 1] = G[pick(i + 1)[i]]
    BY <1>6, <2>2 DEF Follows
  <2>4. QED
    BY <2>1, <2>2, <2>3
<1>10. QED
  BY <1>7, <1>8, <1>9 DEF Iterates
-----------------------------------------------------------------------------
(***************************************************************************)
(* The bins.  Each starts where the one before it stopped.                 *)
(***************************************************************************)
TextWindow(w) ==
  /\ w.base \in Nat /\ w.bound \in Nat /\ w.range \in Nat
  /\ Base <= w.base /\ w.base <= w.bound /\ w.bound <= Limit

LEMMA BinEndIn ==
  ASSUME NEW w, TextWindow(w), NEW p \in Nat
  PROVE  /\ BinEnd(w, p) \in Nat /\ BinEnd(w, p) <= w.bound /\ BinEnd(w, p) <= Limit
         /\ BinEnd(w, p) = w.bound \/ BinEnd(w, p) = p + w.range
  BY TextEnds DEF TextWindow, BinEnd, Smaller

LEMMA BinStartAt ==
  ASSUME NEW w, TextWindow(w)
  PROVE  /\ BinStart(w)[0] = w.base
         /\ \A i \in Nat : LET p == BinStart(w)[i] IN
              /\ p \in Nat /\ Base <= p
              /\ BinStart(w)[i + 1] = Stop(p, BinEnd(w, p))
<1> DEFINE S == {p \in Nat : Base <= p}
           G == [p \in S |-> Stop(p, BinEnd(w, p))]
           IsStart(f) == f = [i \in Nat |-> IF i = 0 THEN w.base
                                ELSE LET p == f[i - 1] IN Stop(p, BinEnd(w, p))]
<1>1. G \in [S -> S]
  <2> SUFFICES ASSUME NEW p \in S PROVE Stop(p, BinEnd(w, p)) \in S
    OBVIOUS
  <2>1. PICK mid \in Nat : mid = BinEnd(w, p) /\ mid <= Limit
    BY BinEndIn
  <2>2. Stop(p, mid) \in Nat /\ p <= Stop(p, mid)
    BY <2>1, WalkSplit
  <2>3. QED
    BY <2>1, <2>2, TextEnds
<1>2. w.base \in S
  BY DEF TextWindow
<1>3. PICK f \in [Nat -> S] : f[0] = w.base /\ \A i \in Nat : f[i + 1] = G[f[i]]
  <2> HIDE DEF S, G
  <2>1. \E f : Iterates(f, S, w.base, G)
    BY Zenon, <1>1, <1>2, NatRecursion
  <2>2. QED
    BY <2>1 DEF Iterates
<1>4. \A i \in Nat : f[i] \in S /\ G[f[i]] = Stop(f[i], BinEnd(w, f[i]))
  OBVIOUS
<1> HIDE DEF G, S
<1>5. IsStart(f)
  <2>1. ASSUME NEW i \in Nat
        PROVE  f[i] = IF i = 0 THEN w.base ELSE Stop(f[i - 1], BinEnd(w, f[i - 1]))
    <3>1. CASE i = 0
      BY <1>3, <3>1
    <3>2. CASE i # 0
      <4>1. i - 1 \in Nat /\ (i - 1) + 1 = i
        BY <3>2
      <4>2. f[(i - 1) + 1] = G[f[i - 1]]
        BY <1>3, <4>1
      <4>3. QED
        BY <1>4, <3>2, <4>1, <4>2
    <3>3. QED
      BY <3>1, <3>2
  <2>2. QED
    BY <1>3, <2>1
<1> DEFINE start == CHOOSE g : IsStart(g)
<1>6. IsStart(start)
  <2> HIDE DEF IsStart
  <2>1. QED
    BY <1>5
<1>7. BinStart(w) = start
  BY DEF BinStart
<1> HIDE DEF start
<1>8. /\ start[0] = w.base
      /\ \A i \in Nat : start[i + 1] = Stop(start[i], BinEnd(w, start[i]))
  <2>1. \A i \in Nat : start[i] = IF i = 0 THEN w.base
                                  ELSE Stop(start[i - 1], BinEnd(w, start[i - 1]))
    BY <1>6
  <2>2. \A i \in Nat : i + 1 \in Nat /\ i + 1 # 0 /\ (i + 1) - 1 = i
    OBVIOUS
  <2>3. start[0] = w.base
    BY <2>1
  <2>4. ASSUME NEW i \in Nat PROVE start[i + 1] = Stop(start[i], BinEnd(w, start[i]))
    BY <2>1, <2>2
  <2>5. QED
    BY <2>3, <2>4
<1>9. \A i \in Nat : start[i] \in S
  <2> DEFINE Q == {i \in Nat : start[i] \in S}
  <2>1. 0 \in Q
    BY <1>2, <1>8
  <2>2. ASSUME NEW i \in Nat, i \in Q PROVE i + 1 \in Q
    <3>1. G[start[i]] \in S /\ G[start[i]] = Stop(start[i], BinEnd(w, start[i]))
      BY <1>1, <2>2 DEF G
    <3>2. QED
      BY <1>8, <3>1
  <2> HIDE DEF Q
  <2>3. \A i \in Nat : i \in Q
    BY <2>1, <2>2, NatSetInduction
  <2>4. QED
    BY <2>3 DEF Q
<1>10. QED
  BY <1>7, <1>8, <1>9 DEF S

\* One bin: what it sums lies between its start and the next one's, and is
\* what the walk over the window meets there.
LEMMA OneBin ==
  ASSUME NEW w, TextWindow(w), NEW i \in Nat
  PROVE  LET p == BinStart(w)[i] q == BinStart(w)[i + 1] IN
           /\ p \in Nat /\ q \in Nat /\ Base <= p /\ p <= q
           /\ BinSums(w, i) \subseteq p .. q - 1
           /\ Walk(p, w.bound) = BinSums(w, i) \cup Walk(q, w.bound)
           /\ q >= w.bound \/ q >= p + w.range
<1> DEFINE p == BinStart(w)[i]
           q == BinStart(w)[i + 1]
           mid == BinEnd(w, p)
<1>1. p \in Nat /\ Base <= p /\ q = Stop(p, mid)
  BY BinStartAt
<1>2. BinSums(w, i) = Walk(p, mid)
  BY DEF BinSums
<1> HIDE DEF p, q
<1>3. mid \in Nat /\ mid <= w.bound /\ mid <= Limit /\ (mid = w.bound \/ mid = p + w.range)
  BY <1>1, BinEndIn
<1> HIDE DEF mid
<1>4. w.bound \in Nat /\ w.bound <= Limit
  BY DEF TextWindow
<1>5. /\ q \in Nat /\ p <= q /\ mid <= q
      /\ Walk(p, w.bound) = Walk(p, mid) \cup Walk(q, w.bound)
  BY <1>1, <1>3, <1>4, WalkSplit
<1>6. Walk(p, mid) \subseteq p .. mid - 1
  BY <1>1, <1>3, WalkIn
<1>7. Walk(p, mid) \subseteq p .. q - 1
  BY <1>1, <1>3, <1>5, <1>6
<1>8. q >= w.bound \/ q >= p + w.range
  BY <1>3, <1>5
<1>9. QED
  BY <1>1, <1>2, <1>5, <1>7, <1>8 DEF p, q

\* The first m bins together.
LEMMA FirstBins ==
  ASSUME NEW w, TextWindow(w), NEW m \in Nat
  PROVE  /\ \A j \in 0 .. m : BinStart(w)[j] \in Nat /\ BinStart(w)[j] <= BinStart(w)[m]
         /\ BinStart(w)[m] >= w.bound \/ BinStart(w)[m] >= w.base + m * w.range
         /\ Base <= BinStart(w)[m]
         /\ Walk(w.base, w.bound) = (UNION {BinSums(w, j) : j \in 0 .. m - 1})
                                      \cup Walk(BinStart(w)[m], w.bound)
<1> DEFINE s(i) == BinStart(w)[i]
           Below(i)   == \A j \in 0 .. i : s(j) \in Nat /\ s(j) <= s(i)
           Far(i)     == s(i) >= w.bound \/ s(i) >= w.base + i * w.range
           Covered(i) == Walk(w.base, w.bound) = (UNION {BinSums(w, j) : j \in 0 .. i - 1})
                                                   \cup Walk(s(i), w.bound)
           Q == {i \in Nat : Below(i) /\ Far(i) /\ Covered(i)}
<1>1. w.base \in Nat /\ w.bound \in Nat /\ w.range \in Nat /\ s(0) = w.base
  BY BinStartAt DEF TextWindow
<1>2. \A i \in Nat : /\ s(i) \in Nat /\ s(i + 1) \in Nat /\ Base <= s(i) /\ s(i) <= s(i + 1)
                     /\ Walk(s(i), w.bound) = BinSums(w, i) \cup Walk(s(i + 1), w.bound)
                     /\ s(i + 1) >= w.bound \/ s(i + 1) >= s(i) + w.range
  BY OneBin
<1> HIDE DEF s
<1>3. 0 \in Q
  <2>1. 0 .. 0 - 1 = {} /\ 0 .. 0 = {0} /\ 0 * w.range = 0
    BY <1>1
  <2>2. UNION {BinSums(w, j) : j \in 0 .. 0 - 1} = {}
    BY <2>1
  <2>3. Below(0) /\ Far(0)
    BY <1>1, <2>1
  <2>4. Covered(0)
    BY <1>1, <2>2
  <2>5. QED
    BY <2>3, <2>4
<1>4. ASSUME NEW i \in Nat, i \in Q PROVE i + 1 \in Q
  <2>1. Below(i) /\ Far(i) /\ Covered(i)
    BY <1>4
  <2>2. Below(i + 1)
    BY <1>2, <2>1
  <2>3. Far(i + 1)
    <3>1. PICK x \in Nat, y \in Nat : x = i * w.range /\ y = (i + 1) * w.range /\ y = x + w.range
      BY <1>1
    <3>2. QED
      BY <1>1, <1>2, <2>1, <3>1
  <2>4. Covered(i + 1)
    <3>1. 0 .. (i + 1) - 1 = (0 .. i - 1) \cup {i}
      OBVIOUS
    <3>2. UNION {BinSums(w, j) : j \in 0 .. (i + 1) - 1}
            = (UNION {BinSums(w, j) : j \in 0 .. i - 1}) \cup BinSums(w, i)
      BY <3>1
    <3>3. QED
      BY <1>2, <2>1, <3>2
  <2> HIDE DEF Below, Far, Covered
  <2>5. i + 1 \in Nat
    OBVIOUS
  <2>6. QED
    BY <2>2, <2>3, <2>4, <2>5
<1> HIDE DEF Q
<1>5. \A i \in Nat : i \in Q
  BY <1>3, <1>4, NatSetInduction
<1> HIDE DEF Below, Far, Covered
<1>6. Below(m) /\ Far(m) /\ Covered(m)
  BY <1>5 DEF Q
<1>7. QED
  BY <1>2, <1>6 DEF Below, Far, Covered, s

\* A window whose range is what resize and clamping compute.
Ranged(w) == w.range = Div(w.bound - w.base, Bins)

LEMMA DivNear ==
  ASSUME NEW a \in Nat, NEW b \in Nat \ {0}
  PROVE  Div(a, b) \in Nat /\ a < b * Div(a, b) + b
<1>1. Div(a, b) = a \div b
  BY Z3 DEF Div
<1>2. a \div b \in Nat /\ a < b * (a \div b) + b
  BY Z3
<1>3. QED
  BY <1>1, <1>2

\* What the bins of a window are.
LEMMA WindowCovered ==
  ASSUME NEW w, TextWindow(w), Ranged(w)
  PROVE  /\ \A i, j \in 0 .. Bins - 1 : i # j => BinSums(w, i) \cap BinSums(w, j) = {}
         /\ \A a \in Walk(w.base, w.bound) : a < w.bound - Bins => a \in Summed(w)
         /\ Summed(w) \subseteq Walk(w.base, w.bound)
<1> DEFINE last == BinStart(w)[Bins]
<1>0. Bins \in Nat \ {0}
  BY TextEnds
<1>1. Walk(w.base, w.bound) = Summed(w) \cup Walk(last, w.bound)
  BY <1>0, FirstBins DEF Summed
<1>2. ASSUME NEW a \in Walk(last, w.bound) PROVE ~(a < w.bound - Bins)
  <2>1. last \in Nat /\ Base <= last
    BY <1>0, FirstBins
  <2>2. last >= w.bound \/ last >= w.base + Bins * w.range
    BY <1>0, FirstBins
  <2>3. PICK x \in Nat : x = Bins * w.range /\ w.bound - w.base < x + Bins
    <3>1. w.bound - w.base \in Nat
      BY DEF TextWindow
    <3>2. w.range \in Nat /\ w.bound - w.base < Bins * w.range + Bins
      BY <1>0, <3>1, DivNear DEF Ranged
    <3>3. Bins * w.range \in Nat
      BY <1>0, <3>2
    <3>4. QED
      BY <3>2, <3>3
  <2>4. w.base \in Nat /\ w.bound \in Nat /\ w.bound <= Limit
    BY DEF TextWindow
  <2> HIDE DEF last
  <2>5. a \in last .. w.bound - 1
    BY <2>1, <2>4, WalkIn
  <2>6. QED
    BY <1>0, <2>1, <2>2, <2>3, <2>4, <2>5
<1>3. ASSUME NEW i \in 0 .. Bins - 1, NEW j \in 0 .. Bins - 1, i < j
      PROVE  BinSums(w, i) \cap BinSums(w, j) = {}
  <2>1. i \in Nat /\ j \in Nat /\ i + 1 \in 0 .. j
    BY <1>0, <1>3
  <2>2. BinStart(w)[i + 1] \in Nat /\ BinStart(w)[i + 1] <= BinStart(w)[j]
    BY <2>1, FirstBins
  <2>3. /\ BinStart(w)[i] \in Nat /\ BinStart(w)[j] \in Nat /\ BinStart(w)[j + 1] \in Nat
        /\ BinSums(w, i) \subseteq BinStart(w)[i] .. BinStart(w)[i + 1] - 1
        /\ BinSums(w, j) \subseteq BinStart(w)[j] .. BinStart(w)[j + 1] - 1
    BY <2>1, OneBin
  <2>4. QED
    BY <2>2, <2>3
<1>4. \A i, j \in 0 .. Bins - 1 : i # j => BinSums(w, i) \cap BinSums(w, j) = {}
  BY <1>0, <1>3
<1> HIDE DEF last
<1>5. QED
  BY <1>1, <1>2, <1>4

LEMMA RangedInv == Spec => [](LocalInv /\ Ranged(local))
<1>1. \A a, b : Ranged(Window(a, b))
  BY DEF Ranged, Window
<1>2. Init => Ranged(local)
  BY <1>1 DEF Init, ViewInit
<1>3. Ranged(local) /\ [Next]_vars => Ranged(local)'
  <2> SUFFICES ASSUME Ranged(local), [Next]_vars PROVE Ranged(local)'
    OBVIOUS
  <2>1. ASSUME NEW l, NEW a, Clamp(l, a) PROVE Ranged(local)'
    BY <1>1, <2>1 DEF Clamp, Ranged
  <2>2. ASSUME NEW where, Leave(where) PROVE Ranged(local)'
    BY <1>1, <2>2 DEF Leave, Ranged
  <2>3. CASE UNCHANGED wvars
    BY <2>3 DEF wvars, Ranged
  <2>4. CASE Mouse
    BY <2>1, <2>2, <2>4 DEF Mouse, WheelUp, WheelDown, WheelUpCrashes,
       WheelDownCrashes, ClickGlobal, ClickLocal, WheelLocal
  <2>5. QED
    BY <2>1, <2>2, <2>3, <2>4 DEF Next, NoEvent, Quit, FrameFaults, Gone, vars, wvars
<1>4. QED
  BY <1>2, <1>3, LocalInit, LocalStep, PTL DEF Spec

(***************************************************************************)
(* Whatever the text and the number of rows, and whatever window the mouse *)
(* has left, the bins of the local histogram are disjoint and leave out at *)
(* most what lies in the last Bins - 1 bytes of the window.                *)
(***************************************************************************)
THEOREM BinsSafe == Spec => []BinsCover
<1>1. LocalInv /\ Ranged(local) => BinsCover
  <2> SUFFICES ASSUME LocalInv, Ranged(local) PROVE BinsCover
    OBVIOUS
  <2>1. TextWindow(local)
    BY TextEnds DEF LocalInv, LocalInCode, TextWindow
  <2>2. QED
    BY <2>1, WindowCovered DEF BinsCover
<1>2. QED
  BY <1>1, RangedInv, PTL
-----------------------------------------------------------------------------
(***************************************************************************)
(* The listing, its wheel, and what is read outside the text.              *)
(***************************************************************************)
RowAfter(p) == IF p < Limit THEN p + Step(p) ELSE p

LEMMA RowAt ==
  ASSUME NEW base \in Nat
  PROVE  /\ Row(base)[0] = base
         /\ \A y \in Nat : Row(base)[y] \in Nat /\ Row(base)[y + 1] = RowAfter(Row(base)[y])
<1> DEFINE G == [p \in Nat |-> RowAfter(p)]
           IsRow(f) == f = [y \in Nat |-> IF y = 0 THEN base
                              ELSE LET p == f[y - 1] IN IF p < Limit THEN p + Step(p) ELSE p]
<1>1. \A p \in Nat : RowAfter(p) \in Nat
  BY StepType, TextEnds DEF RowAfter
<1>2. G \in [Nat -> Nat]
  BY <1>1
<1>3. PICK f : Iterates(f, Nat, base, G)
  <2> HIDE DEF G
  <2>1. QED
    BY Zenon, <1>2, NatRecursion
<1>4. /\ f \in [Nat -> Nat] /\ f[0] = base
      /\ \A y \in Nat : f[y + 1] = RowAfter(f[y])
  BY <1>3 DEF Iterates
<1>5. IsRow(f)
  <2>1. ASSUME NEW y \in Nat PROVE f[y] = IF y = 0 THEN base ELSE RowAfter(f[y - 1])
    <3>1. CASE y = 0
      BY <1>4, <3>1
    <3>2. CASE y # 0
      <4>1. y - 1 \in Nat /\ (y - 1) + 1 = y
        BY <3>2
      <4>2. f[(y - 1) + 1] = RowAfter(f[y - 1])
        BY <1>4, <4>1
      <4>3. QED
        BY <3>2, <4>1, <4>2
    <3>3. QED
      BY <3>1, <3>2
  <2>2. QED
    BY <1>4, <2>1 DEF RowAfter
<1> DEFINE row == CHOOSE g : IsRow(g)
<1>6. IsRow(row)
  <2> HIDE DEF IsRow
  <2>1. QED
    BY <1>5
<1>7. Row(base) = row
  BY DEF Row
<1> HIDE DEF row
<1>8. row[0] = base /\ \A y \in Nat : row[y + 1] = RowAfter(row[y])
  <2>1. \A y \in Nat : row[y] = IF y = 0 THEN base ELSE RowAfter(row[y - 1])
    BY <1>6 DEF RowAfter
  <2>2. \A y \in Nat : y + 1 \in Nat /\ y + 1 # 0 /\ (y + 1) - 1 = y
    OBVIOUS
  <2>3. row[0] = base
    BY <2>1
  <2>4. ASSUME NEW y \in Nat PROVE row[y + 1] = RowAfter(row[y])
    BY <2>1, <2>2
  <2>5. QED
    BY <2>3, <2>4
<1>9. \A y \in Nat : row[y] \in Nat
  <2> DEFINE Q == {y \in Nat : row[y] \in Nat}
  <2>1. 0 \in Q
    BY <1>8
  <2>2. ASSUME NEW y \in Nat, y \in Q PROVE y + 1 \in Q
    BY <1>1, <1>8, <2>2
  <2> HIDE DEF Q
  <2>3. \A y \in Nat : y \in Q
    BY <2>1, <2>2, NatSetInduction
  <2>4. QED
    BY <2>3 DEF Q
<1>10. QED
  BY <1>7, <1>8, <1>9

\* The rows of the listing go on from its base.
LEMMA RowsUp ==
  ASSUME NEW base \in Nat, NEW y \in Nat
  PROVE  Row(base)[y] \in Nat /\ base <= Row(base)[y]
<1> DEFINE Q == {m \in Nat : base <= Row(base)[m]}
<1>1. 0 \in Q
  BY RowAt
<1>2. ASSUME NEW m \in Nat, m \in Q PROVE m + 1 \in Q
  <2>1. /\ Row(base)[m] \in Nat /\ base <= Row(base)[m]
        /\ Row(base)[m + 1] = RowAfter(Row(base)[m])
    BY <1>2, RowAt
  <2>2. QED
    BY <2>1, StepType, TextEnds DEF RowAfter
<1> HIDE DEF Q
<1>3. \A m \in Nat : m \in Q
  BY <1>1, <1>2, NatSetInduction
<1>4. QED
  BY <1>3, RowAt DEF Q

LEMMA ListingUp ==
  ASSUME NEW base \in Nat
  PROVE  /\ \A a \in Listed(base) : base # 0 /\ a \in Nat /\ base <= a /\ a < Limit
         /\ PaintEnd(base) \in Nat /\ base <= PaintEnd(base)
  BY RowsUp, TextEnds DEF Listed, PaintEnd

AsmInv == asm \in [base : Nat, bound : Int]

LEMMA AsmInit == Init => AsmInv
  BY DEF Init, ViewInit, AsmInv

LEMMA AsmStep == LocalInv /\ AsmInv /\ [Next]_vars => AsmInv'
<1> SUFFICES ASSUME LocalInv, AsmInv, [Next]_vars PROVE AsmInv'
  OBVIOUS
<1>1. asm.base \in Nat /\ PaintEnd(asm.base) \in Nat
  BY ListingUp DEF AsmInv
<1>2. Painted.base = asm.base /\ Painted.bound = PaintEnd(asm.base)
  BY DEF AsmInv, Painted
<1>3. ASSUME NEW l, NEW a, Clamp(l, a), a.base \in Int, a.bound \in Int PROVE AsmInv'
  <2>1. Larger(a.base, Base) \in Nat /\ Smaller(a.bound, Limit) \in Int
    BY <1>3, TextEnds DEF Larger, Smaller
  <2>2. QED
    BY <1>3, <2>1 DEF Clamp, AsmInv
<1>4. ASSUME NEW where, Leave(where) PROVE AsmInv'
  BY <1>4 DEF Leave, AsmInv
<1>5. ASSUME NEW l, Clamp(l, Painted) PROVE AsmInv'
  BY <1>1, <1>2, <1>3, <1>5
<1>6. CASE WheelUp
  <2>1. \A a : Back(a) \in {2, 4}
    BY DEF Back
  <2>2. /\ Larger(asm.base - Back(asm.base), Base) \in Int
        /\ Painted.bound - Back(Painted.bound) \in Int
    BY <1>1, <1>2, <2>1, TextEnds DEF Larger
  <2>3. QED
    BY <1>3, <1>6, <2>2 DEF WheelUp
<1>7. CASE WheelDown
  <2>1. /\ asm.base + Step(asm.base) \in Int
        /\ Smaller(Painted.bound + Step(Painted.bound), Limit) \in Int
    BY <1>1, <1>2, StepType, TextEnds DEF Smaller
  <2>2. QED
    BY <1>3, <1>7, <2>1 DEF WheelDown
<1>8. ASSUME NEW y \in 0 .. Bins, ClickLocal(y) PROVE AsmInv'
  <2>1. PICK b \in Int : b = local.base + (y - 1) * local.range
    <3>1. local.base \in Int /\ local.range \in Int /\ y - 1 \in Int
      BY TextEnds DEF LocalInv
    <3>2. (y - 1) * local.range \in Int
      BY <3>1
    <3>3. QED
      BY <3>1, <3>2
  <2> DEFINE a == [Painted EXCEPT !.base = b]
  <2>2. Clamp(local, a)
    BY <1>8, <2>1 DEF ClickLocal
  <2>3. a.base = b /\ a.bound = PaintEnd(asm.base)
    BY DEF Painted, AsmInv
  <2> HIDE DEF a
  <2>4. QED
    BY <1>1, <1>3, <2>2, <2>3
<1>9. CASE UNCHANGED wvars
  BY <1>9 DEF wvars, AsmInv
<1>10. CASE Mouse
  BY <1>4, <1>5, <1>6, <1>7, <1>8, <1>10 DEF Mouse, WheelUpCrashes, WheelDownCrashes,
     ClickGlobal, WheelLocal
<1>11. QED
  BY <1>4, <1>5, <1>9, <1>10 DEF Next, NoEvent, Quit, FrameFaults, Gone, vars, wvars

\* The histograms read nothing outside the text.
LEMMA SummedValid ==
  ASSUME NEW w, TextWindow(w), Ranged(w)
  PROVE  \A a \in Summed(w) : Valid(a)
<1>1. w.bound \in Nat /\ w.bound <= Limit /\ w.base \in Nat /\ Base <= w.base
  BY DEF TextWindow
<1>2. \A a \in Walk(w.base, w.bound) : Valid(a)
  BY <1>1, WalkIn
<1>3. QED
  BY <1>2, WindowCovered

(***************************************************************************)
(* Whatever text, window and listing: the histograms never leave the text, *)
(* and the listing does so only when it begins or ends at an end of it.    *)
(***************************************************************************)
THEOREM CrashSafe == Spec => CrashOnlyAtEnds
<1> DEFINE Held == vat' = "crashed" /\ vat # "crashed" =>
                     asm.base < Base + 2 \/ PaintEnd(asm.base) >= Limit
<1>1. ASSUME LocalInv, Ranged(local), AsmInv, [Next]_vars PROVE Held
  <2> SUFFICES ASSUME vat' = "crashed", vat # "crashed",
                      ~(asm.base < Base + 2), ~(PaintEnd(asm.base) >= Limit)
               PROVE  FALSE
    OBVIOUS
  <2>1. /\ asm.base \in Nat /\ PaintEnd(asm.base) \in Nat /\ asm.base <= PaintEnd(asm.base)
        /\ Painted.bound = PaintEnd(asm.base)
        /\ Base + 2 <= asm.base /\ PaintEnd(asm.base) < Limit
    BY <1>1, ListingUp, TextEnds DEF AsmInv, Painted
  <2>2. /\ Valid(asm.base - 2) /\ Valid(Painted.bound - 2)
        /\ Valid(asm.base) /\ Valid(Painted.bound)
    BY <2>1, TextEnds DEF Valid
  <2>3. \A a \in Shown : Valid(a)
    <3>1. TextWindow(local) /\ Ranged(local)
      BY <1>1, TextEnds DEF LocalInv, LocalInCode, TextWindow
    <3>2. TextWindow(Global) /\ Ranged(Global)
      BY WindowOrdered, TextEnds DEF Global, TextWindow, Window, Ranged
    <3>3. \A a \in Listed(asm.base) : Valid(a)
      BY <2>1, ListingUp, TextEnds DEF Valid
    <3>4. QED
      BY <3>1, <3>2, <3>3, SummedValid DEF Shown, GlobalSummed
  <2>4. ~FrameFaults
    BY <2>3 DEF FrameFaults, Leave
  <2>5. ~WheelUpCrashes /\ ~WheelDownCrashes
    BY <2>2 DEF WheelUpCrashes, WheelDownCrashes
  <2>6. ASSUME NEW l, NEW a, Clamp(l, a) PROVE FALSE
    BY <2>6 DEF Clamp, ovars
  <2>7. ~Quit
    BY DEF Quit, Leave
  <2>8. ~(Create \/ Viewer)
    BY DEF Create, ShmOpen, Ftruncate, StoreField, Viewer, Open, ReadSize, Attach, ovars
  <2>9. ~(NoEvent \/ Mouse)
    BY <2>5, <2>6 DEF NoEvent, Mouse, WheelUp, WheelDown, ClickGlobal, ClickLocal, WheelLocal
  <2>10. ~UNCHANGED vars
    BY DEF vars, ovars
  <2>11. QED
    BY <1>1, <2>4, <2>7, <2>8, <2>9, <2>10 DEF Next, Gone
<1>2. Spec => []AsmInv
  BY AsmInit, AsmStep, LocalInit, LocalStep, PTL DEF Spec
<1>3. QED
  BY <1>1, <1>2, RangedInv, PTL DEF Spec, CrashOnlyAtEnds

(***************************************************************************)
(* Where an instruction begins at an even distance from the base, the look *)
(* at the two bytes before it finds the one before, and its size leads to  *)
(* the one after.                                                          *)
(***************************************************************************)
LEMMA Neighbours ==
  ASSUME NEW a \in Starts
  PROVE  /\ a # Base => /\ a - Back(a) \in Starts
                        /\ (a - Back(a)) + Step(a - Back(a)) = a
         /\ a + Step(a) \in Starts \cup {Limit}
<1>1. PICK x \in Nat : a = Base + 2 * x /\ x < Mine.parcels
  <2>1. PICK k \in Nat : k = Mine.parcels /\ Limit = Base + 2 * k
    BY SegmentAssumption DEF Limit, Base
  <2>2. a \in Base .. Limit - 1 /\ (a - Base) % 2 = 0
    BY DEF Starts
  <2>3. (a - Base) \div 2 \in Nat /\ a = Base + 2 * ((a - Base) \div 2)
    BY <2>1, <2>2, TextEnds, Z3
  <2>4. (a - Base) \div 2 < k
    BY <2>1, <2>2, <2>3, TextEnds, Z3
  <2>5. QED
    BY <2>1, <2>3, <2>4
<1>2. \A y \in Nat : At(Base + 2 * y) = Dec[y] /\ ((Base + 2 * y) - Base) % 2 = 0
  BY TextEnds DEF At
<1>3. \A y \in Nat : y < Mine.parcels =>
        /\ y \in 0 .. Mine.parcels - 1 /\ Dec[y] \in {0, 2, 4}
        /\ Base + 2 * y \in Base .. Limit - 1
  BY SegmentAssumption, ViewAssumption, TextEnds DEF Limit, Base
<1>4. \A y \in Nat : y < Mine.parcels /\ Dec[y] # 0 => Base + 2 * y \in Starts
  <2> SUFFICES ASSUME NEW y \in Nat, y < Mine.parcels, Dec[y] # 0
               PROVE  Base + 2 * y \in Starts
    OBVIOUS
  <2>1. At(Base + 2 * y) = Dec[y] /\ ((Base + 2 * y) - Base) % 2 = 0
    BY Zenon, <1>2
  <2>2. Base + 2 * y \in Base .. Limit - 1
    BY Zenon, <1>3
  <2>3. PICK b : b = Base + 2 * y
    OBVIOUS
  <2>4. b \in Base .. Limit - 1 /\ (b - Base) % 2 = 0 /\ At(b) = Dec[y]
    BY Zenon, <2>1, <2>2, <2>3
  <2>5. b \in Starts
    BY <2>4 DEF Starts
  <2>6. QED
    BY <2>3, <2>5
<1>5. Dec[x] # 0 /\ Step(a) = Dec[x]
  BY <1>1, <1>2, <1>3 DEF Starts, Step
<1>6. a + Step(a) \in Starts \cup {Limit}
  <2>1. PICK y \in Nat : y = x + Dec[x] \div 2 /\ a + Step(a) = Base + 2 * y
    BY <1>1, <1>3, <1>5, TextEnds
  <2>2. y = Mine.parcels \/ (y < Mine.parcels /\ Dec[y] # 0)
    BY <1>1, <1>3, <1>5, <2>1, ViewAssumption, DecodedAssumption
  <2>3. QED
    BY <1>4, <2>1, <2>2 DEF Limit, Base
<1>7. ASSUME a # Base
      PROVE  a - Back(a) \in Starts /\ (a - Back(a)) + Step(a - Back(a)) = a
  <2>1. x - 1 \in Nat /\ x - 1 < Mine.parcels /\ a - 2 = Base + 2 * (x - 1)
    BY <1>1, <1>7, TextEnds, SegmentAssumption
  <2>2. At(a - 2) = Dec[x - 1] /\ Dec[x - 1] \in {0, 2, 4}
    BY <1>2, <1>3, <2>1
  <2>3. CASE Dec[x - 1] # 0
    <3>1. Dec[x - 1] = 2
      <4>1. Dec[x - 1] = 4 => Dec[(x - 1) + 1] = 0
        BY <1>3, <2>1, <2>3, ViewAssumption, DecodedAssumption
      <4>2. (x - 1) + 1 = x
        OBVIOUS
      <4>3. QED
        BY <1>5, <2>2, <2>3, <4>1, <4>2
    <3>2. Back(a) = 2 /\ a - 2 \in Starts
      BY <1>4, <2>1, <2>2, <2>3 DEF Back
    <3>3. Step(a - 2) = 2
      BY <2>2, <3>1 DEF Step
    <3>4. QED
      BY <1>1, <3>2, <3>3, TextEnds
  <2>4. CASE Dec[x - 1] = 0
    <3>1. x - 1 # 0 /\ Dec[(x - 1) - 1] = 4
      BY <1>3, <2>1, <2>4, ViewAssumption, DecodedAssumption
    <3>2. x - 2 \in Nat /\ x - 2 < Mine.parcels /\ (x - 1) - 1 = x - 2
          /\ a - 4 = Base + 2 * (x - 2)
      BY <1>1, <2>1, <3>1, TextEnds, SegmentAssumption
    <3>3. Back(a) = 4 /\ a - 4 \in Starts
      BY <1>4, <2>2, <2>4, <3>1, <3>2 DEF Back
    <3>4. Step(a - 4) = 4
      BY <1>2, <3>1, <3>2 DEF Step
    <3>5. QED
      BY <1>1, <3>3, <3>4, TextEnds
  <2>5. QED
    BY <2>3, <2>4
<1>8. QED
  BY <1>6, <1>7

(***************************************************************************)
(* In any decoded text the wheel moves the listing by one instruction.     *)
(***************************************************************************)
THEOREM ClickSafe == Spec => OneInsnPerClick
<1>1. ASSUME NEW l, NEW b \in Int, NEW e, Base <= b, Clamp(l, [base |-> b, bound |-> e])
      PROVE  asm'.base = b
  BY <1>1, TextEnds DEF Clamp, Larger
<1>2. ASSUME asm.base \in Starts
      PROVE  /\ asm.base \in Int /\ Base <= asm.base
             /\ asm.base # Base => /\ asm.base - Back(asm.base) \in Starts
                                   /\ (asm.base - Back(asm.base)) + Step(asm.base - Back(asm.base))
                                        = asm.base
             /\ asm.base + Step(asm.base) \in Starts \cup {Limit}
  BY <1>2, Neighbours, TextEnds DEF Starts
<1>3. ASSUME WheelUp, asm.base \in Starts
      PROVE  \/ asm.base = Base
             \/ asm'.base \in Starts /\ asm'.base + Step(asm'.base) = asm.base
  <2> SUFFICES ASSUME asm.base # Base
               PROVE  asm'.base \in Starts /\ asm'.base + Step(asm'.base) = asm.base
    OBVIOUS
  <2>1. PICK b \in Int : b = asm.base - Back(asm.base) /\ Base <= b
    BY <1>2, <1>3, TextEnds DEF Starts
  <2>2. Larger(asm.base - Back(asm.base), Base) = b
    BY <2>1, TextEnds DEF Larger
  <2>3. asm'.base = b
    BY <1>1, <1>3, <2>1, <2>2 DEF WheelUp
  <2>4. QED
    BY <1>2, <1>3, <2>1, <2>3
<1>4. ASSUME WheelDown, asm.base \in Starts
      PROVE  asm'.base \in Starts \cup {Limit} /\ asm.base + Step(asm.base) = asm'.base
  <2>1. PICK b \in Int : b = asm.base + Step(asm.base) /\ Base <= b
    BY <1>2, <1>4, StepType, TextEnds
  <2>2. asm'.base = b
    BY <1>1, <1>4, <2>1 DEF WheelDown
  <2>3. QED
    BY <1>2, <1>4, <2>1, <2>2
<1>5. QED
  BY <1>3, <1>4, PTL DEF OneInsnPerClick
=============================================================================
