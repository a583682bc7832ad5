----------------------------- MODULE CodeSpace -----------------------------
(***************************************************************************)
(* The decoded code space and the harts that execute from it: loading with *)
(* compare-and-swap substitution, atomic instructions on shared memory,    *)
(* and redecoding when gdb writes an instruction.                          *)
(*                                                                         *)
(* Addresses of code count parcels of two bytes from code.base(), and so   *)
(* do branch offsets.  Of the guest's instructions the atomic ones, the    *)
(* branches and a store are modelled; "any" stands for the computation     *)
(* between them.                                                           *)
(***************************************************************************)
EXTENDS Integers

CONSTANTS Harts, Addrs, Longs,
          Regs,        \* register numbers, with 0
          WordMod,     \* 2^32, scaled down
          Inputs,      \* values the guest's computations give
          Programs,    \* text segments by name: functions from parcels to instructions
          Breakable    \* instructions gdb may set a breakpoint at

ASSUME SpaceAssumption ==
  /\ Regs \subseteq Nat /\ 0 \in Regs /\ WordMod \in Nat \ {0}
  /\ Longs \subseteq Int /\ Inputs \subseteq Longs /\ 0 \in Longs

VARIABLES prog,      \* the name of the program loaded
          code,      \* code.predecoded
          mem, reg, pc,
          lhs,       \* what a hart's amo loop has loaded, or NoLoad
          bp,        \* where gdb's breakpoint is, or NoReg
          touched,   \* instructions gdb has written
          up,        \* run, exit (not loadable) or died
          read,      \* history: what the last load-reserved of a hart saw
          last       \* history: what its last read-modify-write saw, and where

vars == <<prog, code, mem, reg, pc, lhs, bp, touched, up, read, last>>

NoReg  == -1
NoLoad == <<>>
Widths == {"w", "d"}

\* Insn_t: every register of a new instruction is NOREG and its offset -1.
Insn(op) == [op |-> op, w |-> "d", rd |-> NoReg, rs1 |-> NoReg, rs2 |-> NoReg,
             rs3 |-> NoReg, imm |-> -1]
reg3insn(op, w, rd, rs1, rs2, rs3) ==
  [Insn(op) EXCEPT !.w = w, !.rd = rd, !.rs1 = rs1, !.rs2 = rs2, !.rs3 = rs3]
Ebreak == Insn("ebreak")
Zero   == Insn("zero")

\* compressed(): a two-byte instruction; Op_ZERO is one too.
Size(i) == IF i.op \in {"c_bnez", "zero"} THEN 1 ELSE 2

\* Accesses of four bytes, where the registers hold eight.
Trunc(w, v) == IF w = "d" THEN v
               ELSE LET u == v % WordMod IN IF 2 * u < WordMod THEN u ELSE u - WordMod

Merge(w, old, v) == IF w = "d" THEN v ELSE old - (old % WordMod) + (v % WordMod)

(***************************************************************************)
(* loadelf: decode from the first parcel on, then substitute_cas.          *)
(***************************************************************************)
\* Where the walk from parcel 0, over one instruction at a time, stops.
Starts(c) ==
  LET n == CHOOSE k \in DOMAIN c : k + 1 \notin DOMAIN c
      walk[p \in 0 .. n + 2] == IF p > n THEN {} ELSE {p} \cup walk[p + Size(c[p])]
  IN  walk[0]

Decoded(image) == [p \in DOMAIN image |-> IF p \in Starts(image) THEN image[p] ELSE Zero]

\* What each program's text decodes to.
Original == [n \in DOMAIN Programs |-> Decoded(Programs[n])]

Third(c, p) == p + 2 + Size(c[p + 2])

IsCas(c, p) ==
  /\ c[p].op = "lr"
  /\ c[p + 2].op \in {"bne", "c_bnez"}
  /\ c[Third(c, p)].op = "sc"
  /\ c[p + 2].rs1 = c[p].rd
  /\ c[Third(c, p)].rs1 = c[p].rs1

\* Mutant of CasInsn: the short form whatever the branch.
CasInsnShort(c, p) ==
  reg3insn("cas10", c[p].w, c[Third(c, p)].rd, c[p].rs1,
           IF c[p + 2].op = "c_bnez" THEN 0 ELSE c[p + 2].rs2, c[Third(c, p)].rs2)

CasInsn(c, p) ==
  reg3insn(IF c[p + 2].op = "bne" THEN "cas12" ELSE "cas10", c[p].w,
           c[Third(c, p)].rd, c[p].rs1,
           IF c[p + 2].op = "c_bnez" THEN 0 ELSE c[p + 2].rs2, c[Third(c, p)].rs2)

Substituted(c) ==
  [p \in DOMAIN c |-> IF c[p].op = "lr" /\ IsCas(c, p) THEN CasInsn(c, p) ELSE c[p]]

\* replaced != possible
Refused(c) == \E p \in DOMAIN c : c[p].op = "lr" /\ ~IsCas(c, p)

\* The sequences substituted in program c, and what of them is left in place.
Heads(c)  == {p \in DOMAIN c : c[p].op = "lr" /\ IsCas(c, p)}
Within(c) == UNION {{p + 2, Third(c, p)} : p \in Heads(c)}
Inside(c) == Heads(c) \cup Within(c)

(***************************************************************************)
(* What compilers give: nothing but its load-reserved leads into a         *)
(* sequence, a failing comparison leads out of it, store-conditionals are  *)
(* in sequences alone, and instructions have the operands their kind does. *)
(***************************************************************************)
Successors(c, p) ==
  CASE p \in Heads(c)                        -> {Third(c, p) + 2, p + 2 + c[p + 2].imm}
    [] c[p].op \in {"bne", "c_bnez", "j"}    -> {p + Size(c[p]), p + c[p].imm}
    [] c[p].op = "zero"                      -> {}
    [] OTHER                                 -> {p + 2}

HasOperands(i) ==
  /\ i.op \notin {"cas12", "cas10", "ebreak"} /\ i.w \in Widths
  /\ i.op \in {"lr", "sc", "store", "amo"} => i.rs1 \in Regs
  /\ i.op \in {"sc", "store", "amo", "bne"} => i.rs2 \in Regs
  /\ i.op = "c_bnez" => i.rs2 = 0
  /\ i.op = "lr" => i.rd \in Regs

WellFormed(c) ==
  /\ DOMAIN c \subseteq Nat /\ Inside(c) \subseteq DOMAIN c /\ 0 \notin Within(c)
  /\ Heads(c) \cap Within(c) = {}
  /\ \A p \in DOMAIN c : HasOperands(c[p])
  /\ \A p \in DOMAIN c \ Within(c) :
       c[p].op # "sc" /\ Successors(c, p) \cap Within(c) = {}

ASSUME ProgramsAssumption ==
  /\ \A n \in DOMAIN Programs : Refused(Original[n]) \/ WellFormed(Original[n])
  /\ \A w \in Widths, u, v \in Longs : Trunc(w, v) \in Longs /\ Merge(w, u, v) \in Longs

Init ==
  /\ prog \in DOMAIN Programs
  /\ code = Substituted(Original[prog])
  /\ up = IF Refused(Original[prog]) THEN "exit" ELSE "run"
  /\ mem \in [Addrs -> Inputs]
  /\ \E a \in Inputs : reg = [h \in Harts |-> [r \in Regs |-> IF r = 2 THEN a ELSE 0]]
  /\ pc = [h \in Harts |-> 0]
  /\ lhs = [h \in Harts |-> NoLoad]
  /\ bp = NoReg /\ touched = {}
  /\ read = [h \in Harts |-> NoLoad] /\ last = [h \in Harts |-> NoLoad]

(***************************************************************************)
(* What single instructions do to a hart's registers and pc and to memory. *)
(***************************************************************************)
State(h) == [reg |-> reg[h], pc |-> pc[h], mem |-> mem]

\* write_reg; x0 is cleared after each instruction, and what lies before the
\* registers is not modelled.
Put(r, d, v) == IF d \in {0, NoReg} THEN r ELSE [r EXCEPT ![d] = v]

Lr(i, s) == [reg |-> Put(s.reg, i.rd, Trunc(i.w, s.mem[s.reg[i.rs1]])),
             mem |-> s.mem, pc |-> s.pc + 2]
Branch(i, s) ==
  LET other == IF i.op = "bne" THEN s.reg[i.rs2] ELSE 0 IN
  [s EXCEPT !.pc = s.pc + (IF i.op = "j" \/ s.reg[i.rs1] # other THEN i.imm ELSE Size(i))]
Stored(i, s) == [s.mem EXCEPT ![s.reg[i.rs1]] = Merge(i.w, s.mem[s.reg[i.rs1]], s.reg[i.rs2])]
\* check_load_reservation is always true.
Sc(i, s) == [reg |-> Put(s.reg, i.rd, 0), mem |-> Stored(i, s), pc |-> s.pc + 2]

\* hart_t::cas<T>: i is the instruction, j what is decoded four bytes on.
OldValue(i, s) == Trunc(i.w, s.mem[s.reg[i.rs1]])
Swaps(i, s)    == OldValue(i, s) = Trunc(i.w, s.reg[i.rs2])

Cas(i, j, s) ==
  IF Swaps(i, s)
  THEN [reg |-> Put(Put(s.reg, j.rs1, OldValue(i, s)), i.rd, 0),
        mem |-> Stored([i EXCEPT !.rs2 = i.rs3], s),
        pc  |-> s.pc + (IF i.op = "cas12" THEN 6 ELSE 5)]
  ELSE [reg |-> Put(s.reg, j.rs1, OldValue(i, s)), mem |-> s.mem, pc |-> s.pc + 2 + j.imm]

(***************************************************************************)
(* hart_t::interpreter: one instruction, or one access of an amo loop.     *)
(***************************************************************************)
Accesses == {"store", "lr", "sc", "cas12", "cas10", "amo"}

\* What is fetched is in the code space, and what it accesses is mapped.
At(h) == code[pc[h]]
Executes(h) == /\ pc[h] \in DOMAIN code /\ At(h).op # "zero"
               /\ At(h).op \in Accesses => reg[h][At(h).rs1] \in Addrs
Fetch(h, ops) == up = "run" /\ lhs[h] = NoLoad /\ Executes(h) /\ At(h).op \in ops
Become(h, s) ==
  /\ reg' = [reg EXCEPT ![h] = s.reg]
  /\ pc'  = [pc EXCEPT ![h] = s.pc]
  /\ mem' = s.mem
  /\ UNCHANGED <<prog, code, bp, touched, up>>

Compute(h) ==
  /\ Fetch(h, {"any"})
  /\ \E v \in Inputs :
       Become(h, [State(h) EXCEPT !.reg = Put(reg[h], At(h).rd, v), !.pc = pc[h] + 2])
  /\ UNCHANGED <<lhs, read, last>>

Jump(h) ==
  /\ Fetch(h, {"bne", "c_bnez", "j"})
  /\ Become(h, Branch(At(h), State(h)))
  /\ UNCHANGED <<lhs, read, last>>

Store(h) ==
  /\ Fetch(h, {"store"})
  /\ Become(h, [State(h) EXCEPT !.mem = Stored(At(h), State(h)), !.pc = pc[h] + 2])
  /\ UNCHANGED <<lhs, read, last>>

CompareAndSwap(h) ==
  /\ Fetch(h, {"cas12", "cas10"})
  /\ Become(h, Cas(At(h), code[pc[h] + 2], State(h)))
  /\ last' = IF Swaps(At(h), State(h))
             THEN [last EXCEPT ![h] = <<reg[h][At(h).rs1], OldValue(At(h), State(h))>>]
             ELSE last
  /\ UNCHANGED <<lhs, read>>

\* A load-reserved that redecode() has put back, and its store-conditional.
LoadReserved(h) ==
  /\ Fetch(h, {"lr"})
  /\ Become(h, Lr(At(h), State(h)))
  /\ read' = [read EXCEPT ![h] = <<OldValue(At(h), State(h))>>]
  /\ UNCHANGED <<lhs, last>>

StoreConditional(h) ==
  /\ Fetch(h, {"sc"})
  /\ Become(h, Sc(At(h), State(h)))
  /\ last' = [last EXCEPT ![h] = <<reg[h][At(h).rs1], read[h][1]>>]
  /\ read' = [read EXCEPT ![h] = NoLoad]
  /\ UNCHANGED lhs

\* amo_uint32 and amo_uint64: load, then swap if the value is still that one,
\* else load again.  The function modelled is that of an amoswap.
AmoLoad(h) ==
  /\ Fetch(h, {"amo"})
  /\ lhs' = [lhs EXCEPT ![h] = <<OldValue(At(h), State(h))>>]
  /\ UNCHANGED <<prog, code, mem, reg, pc, bp, touched, up, read, last>>

\* The instruction in progress is the one fetched, whatever gdb has written since.
Amo(h) == Original[prog][pc[h]]

AmoDone(h) ==
  /\ Become(h, [reg |-> Put(reg[h], Amo(h).rd, lhs[h][1]), pc |-> pc[h] + 2,
                mem |-> Stored(Amo(h), State(h))])
  /\ last' = [last EXCEPT ![h] = <<reg[h][Amo(h).rs1], lhs[h][1]>>]
  /\ lhs' = [lhs EXCEPT ![h] = NoLoad]
  /\ UNCHANGED read

\* Mutant of AmoSwap: the result of the swap is not looked at.
AmoStore(h) == up = "run" /\ lhs[h] # NoLoad /\ AmoDone(h)

AmoSwap(h) ==
  /\ up = "run" /\ lhs[h] # NoLoad
  /\ <<OldValue(Amo(h), State(h))>> = lhs[h]
  /\ AmoDone(h)

AmoLost(h) ==
  /\ up = "run" /\ lhs[h] # NoLoad
  /\ <<OldValue(Amo(h), State(h))>> # lhs[h]
  /\ lhs' = [lhs EXCEPT ![h] = NoLoad]
  /\ UNCHANGED <<prog, code, mem, reg, pc, bp, touched, up, read, last>>

\* The interpreter returns with the pc where it was, and main, which ignores
\* the result, calls it again.
Breakpoint(h) == Fetch(h, {"ebreak"}) /\ UNCHANGED vars

\* I_ZERO, a fetch that misses the code space and an access that faults.
Die(h) ==
  /\ up = "run" /\ lhs[h] = NoLoad /\ ~Executes(h)
  /\ up' = "died"
  /\ UNCHANGED <<prog, code, mem, reg, pc, lhs, bp, touched, read, last>>

(***************************************************************************)
(* gdb writes an ebreak over an instruction, or the instruction back; the  *)
(* stub redecodes it.  Bound: one breakpoint in a behaviour.               *)
(***************************************************************************)
redecode(p, image) == code' = [code EXCEPT ![p] = image]

SetBreakpoint(p) ==
  /\ up = "run" /\ touched = {} /\ p \in DOMAIN code /\ code[p] # Zero
  /\ bp' = p /\ touched' = {p}
  /\ redecode(p, Ebreak)
  /\ UNCHANGED <<prog, mem, reg, pc, lhs, up, read, last>>

ClearBreakpoint ==
  /\ up = "run" /\ bp # NoReg
  /\ redecode(bp, Original[prog][bp])
  /\ bp' = NoReg
  /\ UNCHANGED <<prog, mem, reg, pc, lhs, touched, up, read, last>>

Halted == up # "run" /\ UNCHANGED vars

Interpreter(h) ==
  \/ Compute(h) \/ Jump(h) \/ Store(h) \/ CompareAndSwap(h) \/ Breakpoint(h) \/ Die(h)
  \/ LoadReserved(h) \/ StoreConditional(h) \/ AmoLoad(h) \/ AmoSwap(h) \/ AmoLost(h)

Next ==
  \/ \E h \in Harts : Interpreter(h)
  \/ \E p \in Breakable : SetBreakpoint(p)
  \/ ClearBreakpoint \/ Halted

Spec == Init /\ [][Next]_vars
-----------------------------------------------------------------------------
Sequences == [n \in DOMAIN Programs |-> Inside(Original[n])]
Debugged  == touched \cap Sequences[prog] # {}

TypeOK ==
  /\ prog \in DOMAIN Programs /\ DOMAIN code = DOMAIN Original[prog]
  /\ mem \in [Addrs -> Longs] /\ reg \in [Harts -> [Regs -> Longs]]
  /\ DOMAIN pc = Harts /\ DOMAIN lhs = Harts
  /\ \A h \in Harts : lhs[h] # NoLoad => pc[h] \in DOMAIN code /\ Amo(h).op = "amo"
  /\ bp \in touched \cup {NoReg} /\ touched \subseteq DOMAIN code
  /\ up \in {"run", "exit", "died"}

(***************************************************************************)
(* Every atomic instruction and every substituted sequence is atomic: what *)
(* it read is what it replaced, whatever other harts do between its        *)
(* accesses, unless gdb has written into a sequence.                       *)
(***************************************************************************)
Atomic == INSTANCE AtomicMemory WITH debugged <- Debugged
AtomicSpec == Atomic!Spec

\* Running the loaded sequence at p from s, with nobody in between.
Sequence(p, s) ==
  LET c  == Original[prog]
      s2 == Branch(c[p + 2], Lr(c[p], s))
  IN  IF s2.pc = Third(c, p) THEN Sc(c[s2.pc], s2) ELSE s2

\* A sequence whose loaded register is none of those it still needs and whose
\* widths agree, and an expected value that is a sign-extended word.
Ordinary(p, s) ==
  LET c  == Original[prog]
      sc == c[Third(c, p)]
  IN  /\ c[p].rd \notin {0, c[p].rs1, c[p + 2].rs2, sc.rs2}
      /\ c[p].w = sc.w
      /\ c[p + 2].op = "bne" => Trunc(c[p].w, s.reg[c[p + 2].rs2]) = s.reg[c[p + 2].rs2]

(***************************************************************************)
(* "pattern is good" (instructions.cc:173): a compare-and-swap leaves      *)
(* registers, memory and pc as the instructions it replaced would have.    *)
(***************************************************************************)
SameAsOriginal ==
  [][\A h \in Harts :
       Fetch(h, {"cas12", "cas10"}) /\ pc'[h] # pc[h] /\ ~Debugged /\ Ordinary(pc[h], State(h))
         => State(h)' = Sequence(pc[h], State(h))]_vars
=============================================================================
