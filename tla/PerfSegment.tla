---------------------------- MODULE PerfSegment ----------------------------
(***************************************************************************)
(* The shared-memory segment of counters: caveat creates it, erised opens  *)
(* it, and nothing orders the one after the other.  A segment outlives the *)
(* caveat that made it, and the next caveat truncates it under whoever has *)
(* it mapped.                                                              *)
(***************************************************************************)
EXTENDS Integers

CONSTANTS Elfs,      \* programs, as [base, parcels] of their text
          Mine,      \* the one erised was started with
          Cores,     \* values of --cores
          MaxRuns    \* bound: how often caveat is started

ASSUME SegmentAssumption ==
  /\ Elfs \subseteq [base : Nat, parcels : Nat] /\ Mine \in Elfs
  /\ Cores \subseteq Nat /\ MaxRuns \in Nat

VARIABLES seg,       \* the segment: its length, -1 if there is none, and header
          todo,      \* header fields perf_t::create has yet to store, or "new"
          elf, n,    \* program and number of cores of the caveat started last
          runs,
          vat,       \* where erised is
          h_size,    \* what it read as the size, and mapped
          cur,       \* parcels by which cur_core's pointers were set, -1 if none
          clean      \* history: opened whole, and not truncated since

svars == <<seg, todo, elf, n, runs>>
ovars == <<vat, h_size, cur, clean>>

Header == 32         \* sizeof(perf_header_t)
Fields == {"size", "base", "parcels", "cores"}

\* Mutant of SegmentSize: the two miss counters share their room.
SegmentSizeOneMiss(p, k) == Header + p * k * 16 + p * k * 8
SegmentSize(p, k) == Header + p * k * 16 + 2 * p * k * 8

\* Where core i's counters of parcel x start: perf_t's three pointers.
CountAt(i, p, x) == Header + i * p * 32 + x * 16
ImissAt(i, p, x) == Header + i * p * 32 + p * 16 + x * 8
DmissAt(i, p, x) == Header + i * p * 32 + p * 16 + p * 8 + x * 8

Blank(len) == [len |-> len, size |-> 0, base |-> 0, parcels |-> 0, cores |-> 0]

SegmentInit ==
  /\ seg = Blank(-1) /\ todo = {} /\ elf = Mine /\ n = 0 /\ runs = 0
  /\ vat = "start" /\ h_size = 0 /\ cur = -1 /\ clean = FALSE

(***************************************************************************)
(* caveat: perf_t::create.  The header's stores are plain ones, which may  *)
(* become visible in any order.                                            *)
(***************************************************************************)
ShmOpen ==
  /\ todo = {} /\ runs < MaxRuns
  /\ elf' \in Elfs /\ n' \in Cores /\ runs' = runs + 1
  /\ seg' = Blank(0)
  /\ todo' = {"new"}
  /\ clean' = FALSE
  /\ UNCHANGED <<vat, h_size, cur>>

Ftruncate ==
  /\ todo = {"new"}
  /\ seg' = Blank(SegmentSize(elf.parcels, n))
  /\ todo' = Fields
  /\ UNCHANGED <<elf, n, runs, ovars>>

Stored == [size |-> SegmentSize(elf.parcels, n), base |-> elf.base,
           parcels |-> elf.parcels, cores |-> n]

StoreField(f) ==
  /\ f \in todo \cap Fields
  /\ seg' = [seg EXCEPT ![f] = Stored[f]]
  /\ todo' = todo \ {f}
  /\ UNCHANGED <<elf, n, runs, ovars>>

Create == ShmOpen \/ Ftruncate \/ \E f \in Fields : StoreField(f)

(***************************************************************************)
(* erised: perf_t::open, and a perf_t for every core.  A page past the end *)
(* of the segment faults, and so does a mapping of no bytes, whose failure *)
(* the comparison with 0 does not see.                                     *)
(***************************************************************************)
Open ==
  /\ vat = "start"
  /\ vat' = IF seg.len = -1 THEN "no segment" ELSE "opened"
  /\ clean' = (todo = {})
  /\ UNCHANGED <<svars, h_size, cur>>

\* Mutant of ReadSize: no second mapping, of the whole segment.
ReadSizeOnce ==
  /\ vat = "opened"
  /\ vat' = IF seg.len = 0 THEN "lost" ELSE "sized"
  /\ h_size' = Header
  /\ UNCHANGED <<svars, cur, clean>>

ReadSize ==
  /\ vat = "opened"
  /\ vat' = IF seg.len = 0 THEN "lost" ELSE "sized"
  /\ h_size' = seg.size
  /\ UNCHANGED <<svars, cur, clean>>

\* cores() is 0 while that field is not stored: there is then no perf[0].
Attach ==
  /\ vat = "sized"
  /\ vat' = IF h_size = 0 \/ seg.len = 0 \/ seg.cores = 0 THEN "lost" ELSE "attached"
  /\ cur' = seg.parcels
  /\ UNCHANGED <<svars, h_size, clean>>

Viewer == Open \/ ReadSize \/ Attach

\* cur_core's counters of the instruction at pc can be read: index()'s check
\* passes, and what it leads to is mapped and exists.
Readable(pc) ==
  LET x == (pc - seg.base) \div 2 IN
  /\ seg.base <= pc /\ x < seg.parcels
  /\ DmissAt(0, cur, x) + 8 <= h_size /\ CountAt(0, cur, x) + 16 <= h_size
  /\ DmissAt(0, cur, x) + 8 <= seg.len /\ CountAt(0, cur, x) + 16 <= seg.len
-----------------------------------------------------------------------------
SegmentTypeOK ==
  /\ seg.len \in Nat \cup {-1} /\ \A f \in Fields : seg[f] \in Nat
  /\ todo \subseteq Fields \cup {"new"} /\ elf \in Elfs /\ n \in Cores \cup {0}
  /\ runs \in 0 .. MaxRuns
  /\ vat \in {"start", "no segment", "opened", "sized", "attached", "lost", "crashed", "quit"}
  /\ h_size \in Nat /\ cur \in Nat \cup {-1} /\ clean \in BOOLEAN

Counters(p, k) ==
  {<<CountAt(i, p, x), 16>> : i \in 0 .. k - 1, x \in 0 .. p - 1}
    \cup {<<ImissAt(i, p, x), 8>> : i \in 0 .. k - 1, x \in 0 .. p - 1}
    \cup {<<DmissAt(i, p, x), 8>> : i \in 0 .. k - 1, x \in 0 .. p - 1}

\* The numbers of parcels and cores for which counters of different cores, or
\* of one core and different kinds or parcels, share no byte.
WellLaid ==
  {s \in {e.parcels : e \in Elfs} \X Cores :
     \A c \in Counters(s[1], s[2]) :
       /\ Header <= c[1] /\ c[1] + c[2] <= SegmentSize(s[1], s[2])
       /\ \A d \in Counters(s[1], s[2]) :
            c # d => c[1] + c[2] <= d[1] \/ d[1] + d[2] <= c[1]}

(***************************************************************************)
(* The counters of a segment whose header is complete lie inside it and    *)
(* apart from each other.                                                  *)
(***************************************************************************)
CountersDisjoint ==
  todo = {} /\ seg.len # -1 =>
    /\ <<seg.parcels, seg.cores>> \in WellLaid
    /\ seg.size = seg.len /\ seg.len = SegmentSize(seg.parcels, seg.cores)
=============================================================================
