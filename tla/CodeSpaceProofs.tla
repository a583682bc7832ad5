--------------------------- MODULE CodeSpaceProofs ---------------------------
(***************************************************************************)
(* Atomic instructions, and the compare-and-swaps that replace sequences,  *)
(* take what they replace in one step: CodeSpace implements AtomicMemory,  *)
(* for any programs, harts and memory, and wherever gdb sets a breakpoint. *)
(***************************************************************************)
EXTENDS CodeSpace, TLAPS

Text == Original[prog]

\* What the decoded copy of the text may hold, and, until gdb writes into a
\* sequence, does hold of the sequences.
CodeInv ==
  /\ DOMAIN code = DOMAIN Text
  /\ \A p \in DOMAIN Text :
       \/ code[p] = Text[p] \/ code[p] = Ebreak
       \/ p \in Heads(Text) /\ code[p] = CasInsn(Text, p)
  /\ WellFormed(Text) /\ ~Debugged =>
       /\ \A p \in Heads(Text)  : code[p] = CasInsn(Text, p)
       /\ \A p \in Within(Text) : code[p] = Text[p]

\* A program that runs was not refused, and no hart is inside a sequence until
\* gdb has written into one.
FlowInv ==
  /\ prog \in DOMAIN Programs /\ bp \in touched \cup {NoReg} /\ touched \subseteq DOMAIN Text
  /\ up = "run" => WellFormed(Text) /\ ~Refused(Text)
  /\ up = "run" /\ ~Debugged => \A h \in Harts : pc[h] \notin Within(Text)

\* The address and the operands of an amo loop stay what they were at its load.
DataInv ==
  /\ mem \in [Addrs -> Longs] /\ reg \in [Harts -> [Regs -> Longs]]
  /\ DOMAIN last = Harts /\ DOMAIN lhs = Harts /\ DOMAIN pc = Harts
  /\ \A h \in Harts : lhs[h] # NoLoad =>
       /\ pc[h] \in DOMAIN Text /\ Amo(h).op = "amo" /\ reg[h][Amo(h).rs1] \in Addrs
       /\ \E v \in Longs : lhs[h] = <<v>>

SpaceInv == CodeInv /\ FlowInv /\ DataInv

-----------------------------------------------------------------------------
(* Instructions. *)

LEMMA InsnOp ==
  /\ \A op : Insn(op).op = op
  /\ \A op, w, rd, rs1, rs2, rs3 :
       LET i == reg3insn(op, w, rd, rs1, rs2, rs3) IN
         i.op = op /\ i.w = w /\ i.rd = rd /\ i.rs1 = rs1 /\ i.rs2 = rs2 /\ i.rs3 = rs3
  BY DEF Insn, reg3insn

LEMMA OtherOperand ==
  ASSUME NEW op, NEW w, NEW rd, NEW rs1, NEW rs2, NEW rs3, NEW x
  PROVE  LET t == [reg3insn(op, w, rd, rs1, rs2, rs3) EXCEPT !.rs2 = x] IN
           t.w = w /\ t.rs1 = rs1 /\ t.rs2 = x
  BY DEF Insn, reg3insn

LEMMA CasOperands ==
  ASSUME WellFormed(Text), NEW p \in Heads(Text)
  PROVE  LET i == CasInsn(Text, p) IN
           /\ i.op \in {"cas12", "cas10"} /\ i.w \in Widths
           /\ i.rs1 \in Regs /\ i.rs2 \in Regs /\ i.rs3 \in Regs
           /\ p + 2 \in Within(Text) /\ Third(Text, p) \in Within(Text)
<1>1. /\ p + 2 \in Within(Text) /\ Third(Text, p) \in Within(Text)
      /\ p \in DOMAIN Text /\ p + 2 \in DOMAIN Text /\ Third(Text, p) \in DOMAIN Text
  BY DEF WellFormed, Heads, Within, Inside
<1>2. /\ HasOperands(Text[p]) /\ HasOperands(Text[p + 2])
      /\ HasOperands(Text[Third(Text, p)])
  BY <1>1 DEF WellFormed
<1>3. /\ Text[p].op = "lr" /\ Text[p + 2].op \in {"bne", "c_bnez"}
      /\ Text[Third(Text, p)].op = "sc"
  BY DEF Heads, IsCas
<1>4. /\ Text[p].w \in Widths /\ Text[p].rs1 \in Regs
      /\ Text[p + 2].op = "bne" => Text[p + 2].rs2 \in Regs
      /\ Text[Third(Text, p)].rs2 \in Regs
  BY <1>2, <1>3 DEF HasOperands
<1>5. QED
  BY <1>1, <1>3, <1>4, InsnOp, SpaceAssumption DEF CasInsn

\* What is fetched, unless it is a compare-and-swap, is the original text.
LEMMA FetchedText ==
  ASSUME SpaceInv, NEW h \in Harts, NEW ops, Fetch(h, ops),
         "cas12" \notin ops, "cas10" \notin ops, "ebreak" \notin ops
  PROVE  /\ pc[h] \in DOMAIN Text /\ At(h) = Text[pc[h]] /\ At(h).op \in ops
         /\ WellFormed(Text) /\ HasOperands(At(h)) /\ up = "run"
<1>1. pc[h] \in DOMAIN Text /\ At(h).op \in ops /\ WellFormed(Text) /\ up = "run"
  BY DEF Fetch, Executes, SpaceInv, CodeInv, FlowInv
<1>2. At(h) # Ebreak
  BY <1>1, InsnOp DEF Ebreak
<1>3. pc[h] \in Heads(Text) => At(h) # CasInsn(Text, pc[h])
  BY <1>1, CasOperands
<1>4. At(h) = Text[pc[h]]
  BY <1>1, <1>2, <1>3 DEF At, SpaceInv, CodeInv
<1>5. QED
  BY <1>1, <1>4 DEF WellFormed

LEMMA FetchedCas ==
  ASSUME SpaceInv, NEW h \in Harts, Fetch(h, {"cas12", "cas10"})
  PROVE  /\ pc[h] \in Heads(Text) /\ At(h) = CasInsn(Text, pc[h])
         /\ WellFormed(Text) /\ up = "run"
<1>1. /\ pc[h] \in DOMAIN Text /\ At(h).op \in {"cas12", "cas10"} /\ WellFormed(Text)
      /\ up = "run"
  BY DEF Fetch, Executes, SpaceInv, CodeInv, FlowInv
<1>2. At(h) # Ebreak
  BY <1>1, InsnOp DEF Ebreak
<1>3. At(h) # Text[pc[h]]
  BY <1>1 DEF WellFormed, HasOperands
<1>4. QED
  BY <1>1, <1>2, <1>3 DEF At, SpaceInv, CodeInv

LEMMA FetchedAccess ==
  ASSUME NEW h \in Harts, NEW ops, Fetch(h, ops), ops \subseteq Accesses
  PROVE  reg[h][At(h).rs1] \in Addrs
  BY DEF Fetch, Executes
-----------------------------------------------------------------------------
(* Registers and memory. *)

LEMMA PutType ==
  ASSUME NEW r \in [Regs -> Longs], NEW d, NEW v \in Longs
  PROVE  Put(r, d, v) \in [Regs -> Longs]
  BY DEF Put

LEMMA OldValueType ==
  ASSUME DataInv, NEW h \in Harts, NEW i, i.w \in Widths, reg[h][i.rs1] \in Addrs
  PROVE  /\ OldValue(i, State(h)) \in Longs
         /\ OldValue(i, State(h)) = Trunc(i.w, mem[reg[h][i.rs1]])
<1>1. mem[reg[h][i.rs1]] \in Longs
  BY DEF DataInv
<1>2. QED
  BY <1>1, ProgramsAssumption DEF OldValue, State

\* A store is a write of AtomicMemory, and keeps memory's type.
LEMMA StoredWrite ==
  ASSUME DataInv, NEW h \in Harts, NEW i, i.w \in Widths,
         reg[h][i.rs1] \in Addrs, i.rs2 \in Regs
  PROVE  /\ Stored(i, State(h)) \in [Addrs -> Longs]
         /\ Stored(i, State(h))
              = [mem EXCEPT ![reg[h][i.rs1]] = Merge(i.w, mem[reg[h][i.rs1]], reg[h][i.rs2])]
         /\ reg[h][i.rs2] \in Longs
<1>1. mem[reg[h][i.rs1]] \in Longs /\ reg[h][i.rs2] \in Longs
  BY DEF DataInv
<1>2. Merge(i.w, mem[reg[h][i.rs1]], reg[h][i.rs2]) \in Longs
  BY <1>1, ProgramsAssumption
<1>3. QED
  BY <1>1, <1>2 DEF Stored, State, DataInv
-----------------------------------------------------------------------------
(* A step of one hart keeps the types, and other harts' loops as they are. *)

LEMMA BecomeData ==
  ASSUME DataInv, NEW h \in Harts, NEW s, Become(h, s), s.reg \in [Regs -> Longs],
         s.mem \in [Addrs -> Longs], lhs' \in {lhs, [lhs EXCEPT ![h] = NoLoad]},
         lhs'[h] = NoLoad, DOMAIN last' = Harts
  PROVE  DataInv'
<1>1. /\ reg' \in [Harts -> [Regs -> Longs]] /\ mem' \in [Addrs -> Longs]
      /\ DOMAIN lhs' = Harts /\ DOMAIN pc' = Harts /\ Text' = Text
  BY DEF DataInv, Become, Text
<1>2. ASSUME NEW k \in Harts, lhs'[k] # NoLoad
      PROVE  /\ pc'[k] \in DOMAIN Text /\ Amo(k)'.op = "amo"
             /\ reg'[k][Amo(k)'.rs1] \in Addrs /\ \E v \in Longs : lhs'[k] = <<v>>
  <2>1. k # h /\ lhs'[k] = lhs[k]
    BY <1>2 DEF DataInv
  <2>2. pc'[k] = pc[k] /\ reg'[k] = reg[k] /\ prog' = prog
    BY <2>1 DEF DataInv, Become
  <2>3. Amo(k)' = Amo(k)
    BY <2>2 DEF Amo
  <2>4. QED
    BY <1>2, <2>1, <2>2, <2>3 DEF DataInv
<1>3. QED
  BY <1>1, <1>2 DEF DataInv

LEMMA Replaces ==
  ASSUME NEW h \in Harts, NEW a \in Addrs, NEW w \in Widths, NEW x \in Widths,
         NEW v \in Longs, Debugged' = Debugged,
         last' = [last EXCEPT ![h] = <<a, Trunc(w, mem[a])>>],
         mem' = [mem EXCEPT ![a] = Merge(x, mem[a], v)]
  PROVE  Atomic!ReadModifyWrite(h)
  BY Zenon DEF Atomic!ReadModifyWrite, Atomic!Write

LEMMA CasStep ==
  ASSUME SpaceInv, NEW h \in Harts, CompareAndSwap(h)
  PROVE  /\ DataInv'
         /\ UNCHANGED <<mem, last, prog, touched>> \/ Atomic!ReadModifyWrite(h)
<1> DEFINE i == At(h)
           j == code[pc[h] + 2]
<1>1. DataInv
  BY DEF SpaceInv
<1>2. Fetch(h, {"cas12", "cas10"}) /\ Become(h, Cas(i, j, State(h))) /\ lhs' = lhs
      /\ UNCHANGED <<prog, touched>>
  BY DEF CompareAndSwap, Become
<1>3. /\ i.w \in Widths /\ i.rs1 \in Regs /\ i.rs2 \in Regs /\ i.rs3 \in Regs
  BY <1>2, FetchedCas, CasOperands
<1>4. reg[h][i.rs1] \in Addrs
  BY <1>2, FetchedAccess DEF Accesses
<1>5. /\ OldValue(i, State(h)) \in Longs
      /\ OldValue(i, State(h)) = Trunc(i.w, mem[reg[h][i.rs1]])
  BY <1>1, <1>3, <1>4, OldValueType
<1>6. lhs'[h] = NoLoad
  BY <1>2 DEF Fetch
<1>7. State(h).reg = reg[h] /\ State(h).mem = mem /\ reg[h] \in [Regs -> Longs]
  BY <1>1 DEF State, DataInv
<1>8. Put(reg[h], j.rs1, OldValue(i, State(h))) \in [Regs -> Longs]
  BY <1>5, <1>7, PutType
<1>9. CASE Swaps(i, State(h))
  <2>1. Cas(i, j, State(h)).reg \in [Regs -> Longs]
    <3>1. Put(Put(reg[h], j.rs1, OldValue(i, State(h))), i.rd, 0) \in [Regs -> Longs]
      BY <1>8, PutType, SpaceAssumption
    <3>2. QED
      BY <1>9, <1>7, <3>1 DEF Cas
  <2>2. PICK t : /\ t = [i EXCEPT !.rs2 = i.rs3]
                 /\ t.w = i.w /\ t.rs1 = i.rs1 /\ t.rs2 = i.rs3
    <3>1. i = reg3insn(i.op, i.w, i.rd, i.rs1, i.rs2, i.rs3)
      BY <1>2, FetchedCas, InsnOp DEF CasInsn
    <3>2. LET t == [reg3insn(i.op, i.w, i.rd, i.rs1, i.rs2, i.rs3) EXCEPT !.rs2 = i.rs3]
          IN  t.w = i.w /\ t.rs1 = i.rs1 /\ t.rs2 = i.rs3
      BY OtherOperand
    <3>3. LET t == [i EXCEPT !.rs2 = i.rs3]
          IN  t.w = i.w /\ t.rs1 = i.rs1 /\ t.rs2 = i.rs3
      BY <3>1, <3>2, Zenon
    <3>4. QED
      BY <3>3, Zenon
  <2>3. /\ Stored(t, State(h)) \in [Addrs -> Longs]
        /\ Stored(t, State(h)) = [mem EXCEPT ![reg[h][i.rs1]]
                                   = Merge(i.w, mem[reg[h][i.rs1]], reg[h][i.rs3])]
        /\ reg[h][i.rs3] \in Longs
    <3>1. t.w \in Widths /\ reg[h][t.rs1] \in Addrs /\ t.rs2 \in Regs
      BY <1>3, <1>4, <2>2, Zenon
    <3>2. /\ Stored(t, State(h)) \in [Addrs -> Longs]
          /\ Stored(t, State(h)) = [mem EXCEPT ![reg[h][t.rs1]]
                                     = Merge(t.w, mem[reg[h][t.rs1]], reg[h][t.rs2])]
          /\ reg[h][t.rs2] \in Longs
      BY <1>1, <3>1, StoredWrite, Zenon
    <3>3. QED
      BY <2>2, <3>2, Zenon
  <2>4. Cas(i, j, State(h)).mem = Stored(t, State(h))
    BY <1>9, <2>2 DEF Cas
  <2>5. last' = [last EXCEPT ![h] = <<reg[h][i.rs1], OldValue(i, State(h))>>]
    BY <1>9 DEF CompareAndSwap
  <2>6. DataInv'
    BY <1>1, <1>2, <1>6, <2>1, <2>3, <2>4, <2>5, BecomeData DEF DataInv
  <2>7. mem' = Stored(t, State(h))
    BY <1>2, <2>4 DEF Become
  <2>8. Debugged' = Debugged
    BY <1>2 DEF Debugged
  <2>9. Atomic!ReadModifyWrite(h)
    BY <1>3, <1>4, <1>5, <2>3, <2>5, <2>7, <2>8, Replaces
  <2>10. QED
    BY <2>6, <2>9
<1>10. CASE ~Swaps(i, State(h))
  <2>1. /\ Cas(i, j, State(h)).reg = Put(reg[h], j.rs1, OldValue(i, State(h)))
        /\ Cas(i, j, State(h)).mem = mem
    BY <1>10, <1>7 DEF Cas, State
  <2>2. last' = last
    BY <1>10 DEF CompareAndSwap
  <2>3. mem \in [Addrs -> Longs] /\ DOMAIN last = Harts
    BY <1>1 DEF DataInv
  <2>4. DataInv'
    BY <1>1, <1>2, <1>6, <1>8, <2>1, <2>2, <2>3, BecomeData
  <2>5. mem' = mem
    BY <1>2, <2>1 DEF Become
  <2>6. QED
    BY <1>2, <2>2, <2>4, <2>5
<1>11. QED
  BY <1>9, <1>10
-----------------------------------------------------------------------------
(***************************************************************************)
(* Each step keeps the types and is a step of AtomicMemory or none of it.  *)
(***************************************************************************)
Good == DataInv' /\ [Atomic!Next]_(Atomic!mvars)

LEMMA GoodStutter ==
  ASSUME DataInv', UNCHANGED <<mem, last, prog, touched>>
  PROVE  Good
  BY DEF Good, Debugged, Atomic!mvars

LEMMA GoodCas == ASSUME SpaceInv, NEW h \in Harts, CompareAndSwap(h) PROVE Good
<1>1. CASE UNCHANGED <<mem, last, prog, touched>>
  BY <1>1, CasStep, GoodStutter
<1>2. CASE Atomic!ReadModifyWrite(h)
  BY <1>2, CasStep DEF Good, Atomic!Next
<1>3. QED
  BY <1>1, <1>2, CasStep

LEMMA GoodCompute == ASSUME SpaceInv, NEW h \in Harts, Compute(h) PROVE Good
<1>1. /\ DataInv /\ lhs' = lhs /\ last' = last /\ lhs[h] = NoLoad /\ DOMAIN last = Harts
      /\ UNCHANGED <<prog, touched>> /\ mem \in [Addrs -> Longs]
  BY DEF Compute, SpaceInv, Become, Fetch, DataInv
<1>2. PICK v \in Inputs :
        Become(h, [State(h) EXCEPT !.reg = Put(reg[h], At(h).rd, v), !.pc = pc[h] + 2])
  BY DEF Compute
<1> DEFINE s == [State(h) EXCEPT !.reg = Put(reg[h], At(h).rd, v), !.pc = pc[h] + 2]
<1>3. s.reg = Put(reg[h], At(h).rd, v) /\ s.mem = mem /\ Become(h, s)
  BY <1>2 DEF State
<1> HIDE DEF s
<1>4. s.reg \in [Regs -> Longs]
  <2>1. reg[h] \in [Regs -> Longs] /\ v \in Longs
    BY <1>1, SpaceAssumption DEF DataInv
  <2>2. QED
    BY <1>3, <2>1, PutType
<1>5. DataInv'
  BY <1>1, <1>3, <1>4, BecomeData
<1>6. mem' = mem
  BY <1>3 DEF Become
<1>7. QED
  BY <1>1, <1>5, <1>6, GoodStutter

LEMMA GoodJump == ASSUME SpaceInv, NEW h \in Harts, Jump(h) PROVE Good
<1>1. /\ DataInv /\ lhs' = lhs /\ last' = last /\ lhs[h] = NoLoad /\ DOMAIN last = Harts
      /\ UNCHANGED <<prog, touched>> /\ mem \in [Addrs -> Longs]
      /\ reg[h] \in [Regs -> Longs]
  BY DEF Jump, SpaceInv, Become, Fetch, DataInv
<1> DEFINE s == Branch(At(h), State(h))
<1>2. s.reg = reg[h] /\ s.mem = mem
  BY DEF Branch, State
<1>3. Become(h, s)
  BY DEF Jump
<1> HIDE DEF s
<1>4. DataInv'
  BY <1>1, <1>2, <1>3, BecomeData
<1>5. mem' = mem
  BY <1>2, <1>3 DEF Become
<1>6. QED
  BY <1>1, <1>4, <1>5, GoodStutter

LEMMA GoodStore == ASSUME SpaceInv, NEW h \in Harts, Store(h) PROVE Good
<1>1. /\ DataInv /\ lhs' = lhs /\ last' = last /\ lhs[h] = NoLoad /\ DOMAIN last = Harts
      /\ UNCHANGED <<prog, touched>> /\ reg[h] \in [Regs -> Longs]
  BY DEF Store, SpaceInv, Become, Fetch, DataInv
<1>2. /\ At(h).w \in Widths /\ At(h).rs2 \in Regs /\ reg[h][At(h).rs1] \in Addrs
  BY FetchedText, FetchedAccess DEF Store, HasOperands, Accesses
<1>3. /\ Stored(At(h), State(h)) \in [Addrs -> Longs] /\ reg[h][At(h).rs2] \in Longs
      /\ Stored(At(h), State(h)) = [mem EXCEPT ![reg[h][At(h).rs1]]
            = Merge(At(h).w, mem[reg[h][At(h).rs1]], reg[h][At(h).rs2])]
  BY <1>1, <1>2, StoredWrite
<1> DEFINE s == [State(h) EXCEPT !.mem = Stored(At(h), State(h)), !.pc = pc[h] + 2]
<1>4. s.reg = reg[h] /\ s.mem = Stored(At(h), State(h))
  BY DEF State
<1>5. Become(h, s)
  BY DEF Store
<1> HIDE DEF s
<1>6. DataInv'
  BY <1>1, <1>3, <1>4, <1>5, BecomeData
<1>7. mem' = Stored(At(h), State(h)) /\ Debugged' = Debugged
  BY <1>1, <1>4, <1>5 DEF Become, Debugged
<1>8. Atomic!Write(reg[h][At(h).rs1])
  BY <1>2, <1>3, <1>7, Zenon DEF Atomic!Write
<1>9. Atomic!Store
  BY <1>1, <1>2, <1>7, <1>8 DEF Atomic!Store
<1>10. QED
  BY <1>6, <1>9 DEF Good, Atomic!Next

LEMMA GoodLr == ASSUME SpaceInv, NEW h \in Harts, LoadReserved(h) PROVE Good
<1>1. /\ DataInv /\ lhs' = lhs /\ last' = last /\ lhs[h] = NoLoad /\ DOMAIN last = Harts
      /\ UNCHANGED <<prog, touched>> /\ mem \in [Addrs -> Longs]
      /\ reg[h] \in [Regs -> Longs]
  BY DEF LoadReserved, SpaceInv, Become, Fetch, DataInv
<1>2. At(h).w \in Widths /\ reg[h][At(h).rs1] \in Addrs
  BY FetchedText, FetchedAccess DEF LoadReserved, HasOperands, Accesses
<1>3. PICK v \in Longs : v = Trunc(At(h).w, mem[reg[h][At(h).rs1]])
  BY <1>1, <1>2, OldValueType
<1> DEFINE s == Lr(At(h), State(h))
<1>4. s.reg = Put(reg[h], At(h).rd, v) /\ s.mem = mem
  BY <1>3 DEF Lr, State
<1>5. Become(h, s)
  BY DEF LoadReserved
<1> HIDE DEF s
<1>6. s.reg \in [Regs -> Longs]
  BY <1>1, <1>3, <1>4, PutType
<1>7. DataInv'
  BY <1>1, <1>4, <1>5, <1>6, BecomeData
<1>8. mem' = mem
  BY <1>4, <1>5 DEF Become
<1>9. QED
  BY <1>1, <1>7, <1>8, GoodStutter

\* A store-conditional is executed only where gdb has written into a sequence.
LEMMA GoodSc == ASSUME SpaceInv, NEW h \in Harts, StoreConditional(h) PROVE Good
<1>1. /\ DataInv /\ lhs' = lhs /\ lhs[h] = NoLoad /\ DOMAIN last = Harts
      /\ UNCHANGED <<prog, touched>> /\ reg[h] \in [Regs -> Longs]
      /\ last' = [last EXCEPT ![h] = <<reg[h][At(h).rs1], read[h][1]>>]
  BY DEF StoreConditional, SpaceInv, Become, Fetch, DataInv
<1>2. /\ At(h).w \in Widths /\ At(h).rs2 \in Regs /\ reg[h][At(h).rs1] \in Addrs
      /\ pc[h] \in DOMAIN Text /\ Text[pc[h]].op = "sc" /\ WellFormed(Text) /\ up = "run"
  BY FetchedText, FetchedAccess DEF StoreConditional, HasOperands, Accesses
<1>3. Debugged
  BY <1>2 DEF WellFormed, SpaceInv, FlowInv
<1>4. /\ Stored(At(h), State(h)) \in [Addrs -> Longs] /\ reg[h][At(h).rs2] \in Longs
      /\ Stored(At(h), State(h)) = [mem EXCEPT ![reg[h][At(h).rs1]]
            = Merge(At(h).w, mem[reg[h][At(h).rs1]], reg[h][At(h).rs2])]
  BY <1>1, <1>2, StoredWrite
<1> DEFINE s == Sc(At(h), State(h))
<1>5. s.reg = Put(reg[h], At(h).rd, 0) /\ s.mem = Stored(At(h), State(h))
  BY DEF Sc, State
<1>6. Become(h, s)
  BY DEF StoreConditional
<1> HIDE DEF s
<1>7. s.reg \in [Regs -> Longs]
  BY <1>1, <1>5, PutType, SpaceAssumption
<1>8. DOMAIN last' = Harts /\ \A k \in Harts \ {h} : last'[k] = last[k]
  BY <1>1
<1>9. DataInv'
  BY <1>1, <1>4, <1>5, <1>6, <1>7, <1>8, BecomeData
<1>10. mem' = Stored(At(h), State(h)) /\ Debugged' = Debugged
  BY <1>1, <1>5, <1>6 DEF Become, Debugged
<1>11. Atomic!Write(reg[h][At(h).rs1])
  BY <1>2, <1>4, <1>10, Zenon DEF Atomic!Write
<1>12. Atomic!Torn(h)
  BY <1>2, <1>3, <1>8, <1>10, <1>11 DEF Atomic!Torn
<1>13. QED
  BY <1>9, <1>12 DEF Good, Atomic!Next

LEMMA GoodAmoLoad == ASSUME SpaceInv, NEW h \in Harts, AmoLoad(h) PROVE Good
<1>1. /\ DataInv /\ UNCHANGED <<prog, mem, reg, pc, touched, last>>
  BY DEF AmoLoad, SpaceInv
<1>2. /\ At(h).w \in Widths /\ reg[h][At(h).rs1] \in Addrs
      /\ pc[h] \in DOMAIN Text /\ At(h) = Text[pc[h]] /\ At(h).op = "amo"
  BY FetchedText, FetchedAccess DEF AmoLoad, HasOperands, Accesses
<1>3. PICK v \in Longs : v = OldValue(At(h), State(h))
  BY <1>1, <1>2, OldValueType
<1>4. lhs' = [lhs EXCEPT ![h] = <<v>>]
  BY <1>3 DEF AmoLoad
<1>5. Amo(h) = At(h)
  BY <1>2 DEF Amo, Text
<1>6. Text' = Text /\ \A k \in Harts : Amo(k)' = Amo(k)
  BY <1>1 DEF Text, Amo
<1>7. DataInv'
  BY <1>1, <1>2, <1>4, <1>5, <1>6 DEF DataInv
<1>8. QED
  BY <1>1, <1>7, GoodStutter

LEMMA GoodAmoSwap == ASSUME SpaceInv, NEW h \in Harts, AmoSwap(h) PROVE Good
<1>1. /\ DataInv /\ AmoDone(h) /\ lhs' = [lhs EXCEPT ![h] = NoLoad]
      /\ <<OldValue(Amo(h), State(h))>> = lhs[h] /\ UNCHANGED <<prog, touched>>
      /\ reg[h] \in [Regs -> Longs] /\ DOMAIN last = Harts /\ DOMAIN lhs = Harts
  BY DEF AmoSwap, SpaceInv, AmoDone, Become, DataInv
<1>2. /\ pc[h] \in DOMAIN Text /\ Amo(h).op = "amo" /\ reg[h][Amo(h).rs1] \in Addrs
      /\ Amo(h) = Text[pc[h]] /\ up = "run"
  BY DEF AmoSwap, SpaceInv, DataInv, Amo, Text
<1>3. Amo(h).w \in Widths /\ Amo(h).rs2 \in Regs
  BY <1>2 DEF SpaceInv, FlowInv, WellFormed, HasOperands
<1>4. PICK v \in Longs : v = Trunc(Amo(h).w, mem[reg[h][Amo(h).rs1]]) /\ lhs[h] = <<v>>
  BY <1>1, <1>2, <1>3, OldValueType
<1>5. /\ Stored(Amo(h), State(h)) \in [Addrs -> Longs] /\ reg[h][Amo(h).rs2] \in Longs
      /\ Stored(Amo(h), State(h)) = [mem EXCEPT ![reg[h][Amo(h).rs1]]
            = Merge(Amo(h).w, mem[reg[h][Amo(h).rs1]], reg[h][Amo(h).rs2])]
  BY <1>1, <1>2, <1>3, StoredWrite
<1>6. lhs[h][1] = v
  BY <1>4
<1> DEFINE s == [reg |-> Put(reg[h], Amo(h).rd, lhs[h][1]), pc |-> pc[h] + 2,
                 mem |-> Stored(Amo(h), State(h))]
<1>7. s.reg = Put(reg[h], Amo(h).rd, v) /\ s.mem = Stored(Amo(h), State(h))
  BY <1>6
<1>8. Become(h, s)
  BY <1>1 DEF AmoDone
<1> HIDE DEF s
<1>9. s.reg \in [Regs -> Longs]
  BY <1>1, <1>4, <1>7, PutType
<1>10. last' = [last EXCEPT ![h] = <<reg[h][Amo(h).rs1], v>>]
  BY <1>1, <1>6 DEF AmoDone
<1>11. DataInv'
  <2>1. lhs'[h] = NoLoad /\ DOMAIN last' = Harts
    BY <1>1, <1>10
  <2>2. QED
    BY <1>1, <1>5, <1>7, <1>8, <1>9, <2>1, BecomeData
<1>12. mem' = Stored(Amo(h), State(h)) /\ Debugged' = Debugged
  BY <1>1, <1>7, <1>8 DEF Become, Debugged
<1>13. Atomic!ReadModifyWrite(h)
  <2>1. PICK a \in Addrs, w \in Widths, u \in Longs :
          /\ a = reg[h][Amo(h).rs1] /\ w = Amo(h).w /\ u = reg[h][Amo(h).rs2]
    BY <1>2, <1>3, <1>5
  <2>2. last' = [last EXCEPT ![h] = <<a, Trunc(w, mem[a])>>]
    BY <1>4, <1>10, <2>1
  <2>3. mem' = [mem EXCEPT ![a] = Merge(w, mem[a], u)]
    BY <1>5, <1>12, <2>1
  <2>4. QED
    BY <1>12, <2>2, <2>3, Replaces
<1>14. QED
  BY <1>11, <1>13 DEF Good, Atomic!Next

LEMMA GoodAmoLost == ASSUME SpaceInv, NEW h \in Harts, AmoLost(h) PROVE Good
<1>1. DataInv /\ UNCHANGED <<prog, mem, reg, pc, touched, last>>
      /\ lhs' = [lhs EXCEPT ![h] = NoLoad]
  BY DEF AmoLost, SpaceInv
<1>2. Text' = Text /\ \A k \in Harts : Amo(k)' = Amo(k)
  BY <1>1 DEF Text, Amo
<1>3. DataInv'
  BY <1>1, <1>2 DEF DataInv
<1>4. QED
  BY <1>1, <1>3, GoodStutter

\* gdb writes an instruction: into a sequence, or outside of them all.
LEMMA GoodDebug ==
  ASSUME SpaceInv, UNCHANGED <<prog, mem, reg, pc, lhs, last>>, touched \subseteq touched'
  PROVE  Good
<1>1. Text' = Text /\ \A k \in Harts : Amo(k)' = Amo(k)
  BY DEF Text, Amo
<1>2. DataInv'
  BY <1>1 DEF SpaceInv, DataInv
<1>3. Debugged => Debugged'
  BY DEF Debugged
<1>4. CASE Debugged' = Debugged
  BY <1>2, <1>4 DEF Good, Atomic!mvars
<1>5. CASE Debugged' # Debugged
  <2>1. Debugged' = TRUE
    BY <1>3, <1>5 DEF Debugged
  <2>2. QED
    BY <1>2, <2>1 DEF Good, Atomic!Next, Atomic!Debug
<1>6. QED
  BY <1>4, <1>5

LEMMA GoodStep == SpaceInv /\ [Next]_vars => Good
<1> SUFFICES ASSUME SpaceInv, [Next]_vars PROVE Good
  OBVIOUS
<1>1. ASSUME NEW h \in Harts, Interpreter(h) PROVE Good
  <2>1. CASE Breakpoint(h) \/ Die(h)
    BY <2>1, GoodDebug DEF Breakpoint, Die, vars
  <2>2. QED
    BY <1>1, <2>1, GoodCas, GoodCompute, GoodJump, GoodStore, GoodLr, GoodSc, GoodAmoLoad,
       GoodAmoSwap, GoodAmoLost DEF Interpreter
<1>2. ASSUME NEW p, SetBreakpoint(p) PROVE Good
  BY <1>2, GoodDebug DEF SetBreakpoint
<1>3. CASE ClearBreakpoint
  BY <1>3, GoodDebug DEF ClearBreakpoint
<1>4. CASE UNCHANGED vars
  BY <1>4, GoodDebug DEF vars
<1>5. QED
  BY <1>1, <1>2, <1>3, <1>4 DEF Next, Halted
-----------------------------------------------------------------------------
(***************************************************************************)
(* Until gdb writes into a sequence, the sequences stay as they were       *)
(* loaded and no hart gets into one.                                       *)
(***************************************************************************)
LEMMA SameText ==
  ASSUME prog' = prog
  PROVE  Text' = Text /\ (touched' = touched => Debugged' = Debugged)
  BY DEF Text, Debugged

LEMMA CodeStep == SpaceInv /\ [Next]_vars => CodeInv'
<1> SUFFICES ASSUME SpaceInv, [Next]_vars PROVE CodeInv'
  OBVIOUS
<1>1. ASSUME UNCHANGED <<prog, code, touched>> PROVE CodeInv'
  BY <1>1, SameText DEF SpaceInv, CodeInv
<1>2. ASSUME NEW h \in Harts, Interpreter(h) PROVE CodeInv'
  BY <1>1, <1>2 DEF Interpreter, Compute, Jump, Store, CompareAndSwap, LoadReserved,
     StoreConditional, AmoLoad, AmoSwap, AmoDone, AmoLost, Breakpoint, Die, Become, vars
<1>3. ASSUME NEW p, SetBreakpoint(p) PROVE CodeInv'
  <2>1. /\ prog' = prog /\ touched = {} /\ touched' = {p} /\ p \in DOMAIN code
        /\ code' = [code EXCEPT ![p] = Ebreak]
    BY <1>3 DEF SetBreakpoint, redecode
  <2>2. Text' = Text
    BY <2>1 DEF Text
  <2>3. ASSUME ~Debugged' PROVE p \notin Inside(Text) /\ ~Debugged
    <3>1. Sequences[prog] = Inside(Text)
      BY DEF Sequences, Text, SpaceInv, FlowInv
    <3>2. QED
      BY <2>1, <2>3, <3>1 DEF Debugged
  <2>4. QED
    BY <2>1, <2>2, <2>3 DEF SpaceInv, CodeInv, Inside
<1>4. CASE ClearBreakpoint
  <2>1. /\ prog' = prog /\ touched' = touched /\ bp \in touched
        /\ code' = [code EXCEPT ![bp] = Text[bp]]
    BY <1>4 DEF ClearBreakpoint, redecode, Text, SpaceInv, FlowInv
  <2>2. Text' = Text /\ Debugged' = Debugged
    BY <2>1, SameText
  <2>3. ASSUME ~Debugged PROVE bp \notin Inside(Text)
    <3>1. Sequences[prog] = Inside(Text)
      BY DEF Sequences, Text, SpaceInv, FlowInv
    <3>2. QED
      BY <2>1, <2>3, <3>1 DEF Debugged
  <2>4. QED
    BY <2>1, <2>2, <2>3 DEF SpaceInv, CodeInv, Inside
<1>5. CASE UNCHANGED vars
  BY <1>1, <1>5 DEF vars
<1>6. QED
  BY <1>2, <1>3, <1>4, <1>5 DEF Next, Halted

\* Where the instructions of a well-formed program lead, outside its sequences.
LEMMA LeadsOut ==
  ASSUME WellFormed(Text), NEW p \in DOMAIN Text, p \notin Within(Text)
  PROVE  /\ Text[p].op \in {"any", "store", "amo"} => p + 2 \notin Within(Text)
         /\ Text[p].op \in {"bne", "c_bnez", "j"} =>
              p + Size(Text[p]) \notin Within(Text) /\ p + Text[p].imm \notin Within(Text)
         /\ p \in Heads(Text) =>
              /\ Third(Text, p) + 2 \notin Within(Text)
              /\ p + 2 + Text[p + 2].imm \notin Within(Text)
         /\ Text[p].op # "sc"
<1>1. Successors(Text, p) \cap Within(Text) = {} /\ Text[p].op # "sc"
  BY DEF WellFormed
<1>2. p \in Heads(Text) => Text[p].op = "lr"
  BY DEF Heads
<1>3. ASSUME Text[p].op \in {"any", "store", "amo"} PROVE p + 2 \in Successors(Text, p)
  BY <1>2, <1>3 DEF Successors
<1>4. ASSUME Text[p].op \in {"bne", "c_bnez", "j"}
      PROVE  {p + Size(Text[p]), p + Text[p].imm} \subseteq Successors(Text, p)
  BY <1>2, <1>4 DEF Successors
<1>5. ASSUME p \in Heads(Text)
      PROVE  {Third(Text, p) + 2, p + 2 + Text[p + 2].imm} \subseteq Successors(Text, p)
  BY <1>2, <1>5 DEF Successors
<1>6. QED
  BY <1>1, <1>3, <1>4, <1>5

FlowsOut(h) == \/ pc' = pc
               \/ \E q : q \notin Within(Text) /\ pc' = [pc EXCEPT ![h] = q]

\* The compare-and-swap skips the rest of its sequence, of which a compressed
\* branch makes one parcel less.
LEMMA CasFlow ==
  ASSUME SpaceInv, NEW h \in Harts, ~Debugged, pc[h] \notin Within(Text), CompareAndSwap(h)
  PROVE  FlowsOut(h)
<1> DEFINE p == pc[h]
           s == Cas(At(h), code[p + 2], State(h))
<1>1. /\ p \in Heads(Text) /\ At(h) = CasInsn(Text, p) /\ WellFormed(Text)
      /\ pc' = [pc EXCEPT ![h] = s.pc]
  BY FetchedCas DEF CompareAndSwap, Become
<1>2. p \in DOMAIN Text /\ p + 2 \in Within(Text) /\ p + 2 \in DOMAIN Text /\ p \in Nat
  BY <1>1, CasOperands DEF Heads, WellFormed, Inside
<1>3. code[p + 2] = Text[p + 2]
  BY <1>1, <1>2 DEF SpaceInv, CodeInv
<1>4. /\ Third(Text, p) + 2 \notin Within(Text)
      /\ p + 2 + Text[p + 2].imm \notin Within(Text)
  BY <1>1, <1>2, LeadsOut
<1>5. /\ Text[p + 2].op = "bne" => At(h).op = "cas12" /\ Size(Text[p + 2]) = 2
      /\ Text[p + 2].op = "c_bnez" => At(h).op = "cas10" /\ Size(Text[p + 2]) = 1
      /\ Text[p + 2].op \in {"bne", "c_bnez"}
  BY SMTT(30), <1>1, InsnOp DEF CasInsn, Size, Heads, IsCas
<1>6. s.pc \in {p + 2 + Text[p + 2].imm, Third(Text, p) + 2}
  <2>1. CASE Swaps(At(h), State(h))
    <3>1. s.pc = p + (IF At(h).op = "cas12" THEN 6 ELSE 5)
      BY <2>1 DEF Cas, State
    <3>2. QED
      BY <1>5, <3>1, <1>2 DEF Third
  <2>2. CASE ~Swaps(At(h), State(h))
    BY <1>3, <2>2 DEF Cas, State
  <2>3. QED
    BY <2>1, <2>2
<1>7. QED
  BY <1>1, <1>4, <1>6 DEF FlowsOut

LEMMA FlowHart ==
  ASSUME SpaceInv, NEW h \in Harts, ~Debugged, pc[h] \notin Within(Text), Interpreter(h)
  PROVE  FlowsOut(h)
<1>1. CASE Compute(h)
  <2>1. /\ pc[h] \in DOMAIN Text /\ Text[pc[h]].op = "any" /\ WellFormed(Text)
    BY <1>1, FetchedText DEF Compute
  <2>2. pc' = [pc EXCEPT ![h] = pc[h] + 2]
    BY <1>1 DEF Compute, Become, State
  <2>3. QED
    BY <2>1, <2>2, LeadsOut DEF FlowsOut
<1>2. CASE Store(h)
  <2>1. /\ pc[h] \in DOMAIN Text /\ Text[pc[h]].op = "store" /\ WellFormed(Text)
    BY <1>2, FetchedText DEF Store
  <2>2. pc' = [pc EXCEPT ![h] = pc[h] + 2]
    BY <1>2 DEF Store, Become, State
  <2>3. QED
    BY <2>1, <2>2, LeadsOut DEF FlowsOut
<1>3. CASE Jump(h)
  <2>1. /\ pc[h] \in DOMAIN Text /\ Text[pc[h]].op \in {"bne", "c_bnez", "j"}
        /\ At(h) = Text[pc[h]] /\ WellFormed(Text)
    BY <1>3, FetchedText DEF Jump
  <2>2. PICK q \in {pc[h] + Size(At(h)), pc[h] + At(h).imm} : pc' = [pc EXCEPT ![h] = q]
    <3>1. pc' = [pc EXCEPT ![h] = Branch(At(h), State(h)).pc]
      BY <1>3 DEF Jump, Become
    <3>2. Branch(At(h), State(h)).pc \in {pc[h] + Size(At(h)), pc[h] + At(h).imm}
      BY DEF Branch, State
    <3>3. QED
      BY <3>1, <3>2
  <2>3. QED
    BY <2>1, <2>2, LeadsOut DEF FlowsOut
<1>4. CASE LoadReserved(h)
  <2>1. /\ pc[h] \in DOMAIN Text /\ Text[pc[h]].op = "lr" /\ code[pc[h]].op = "lr"
        /\ WellFormed(Text) /\ up = "run"
    BY <1>4, FetchedText DEF LoadReserved, At
  <2>2. pc[h] \in Heads(Text)
    BY <2>1 DEF SpaceInv, FlowInv, Refused, Heads
  <2>3. code[pc[h]] = CasInsn(Text, pc[h])
    BY <2>1, <2>2 DEF SpaceInv, CodeInv
  <2>4. QED
    BY <2>1, <2>2, <2>3, CasOperands
<1>5. CASE StoreConditional(h)
  <2>1. /\ pc[h] \in DOMAIN Text /\ Text[pc[h]].op = "sc" /\ WellFormed(Text)
    BY <1>5, FetchedText DEF StoreConditional
  <2>2. QED
    BY <2>1, LeadsOut
<1>6. CASE AmoSwap(h)
  <2>1. /\ pc[h] \in DOMAIN Text /\ Text[pc[h]].op = "amo" /\ WellFormed(Text)
    BY <1>6 DEF AmoSwap, SpaceInv, DataInv, FlowInv, Amo, Text
  <2>2. pc' = [pc EXCEPT ![h] = pc[h] + 2]
    BY <1>6 DEF AmoSwap, AmoDone, Become
  <2>3. QED
    BY <2>1, <2>2, LeadsOut DEF FlowsOut
<1>7. CASE AmoLoad(h) \/ AmoLost(h) \/ Breakpoint(h) \/ Die(h)
  BY <1>7 DEF AmoLoad, AmoLost, Breakpoint, Die, vars, FlowsOut
<1>8. QED
  BY <1>1, <1>2, <1>3, <1>4, <1>5, <1>6, <1>7, CasFlow DEF Interpreter

LEMMA FlowStep == SpaceInv /\ [Next]_vars => FlowInv'
<1> SUFFICES ASSUME SpaceInv, [Next]_vars PROVE FlowInv'
  OBVIOUS
<1>1. ASSUME UNCHANGED <<prog, bp, touched, pc>>, up' = "run" => up = "run" PROVE FlowInv'
  <2>1. Text' = Text /\ Debugged' = Debugged
    BY <1>1, SameText
  <2>2. QED
    BY <1>1, <2>1 DEF SpaceInv, FlowInv
<1>2. ASSUME NEW h \in Harts, Interpreter(h) PROVE FlowInv'
  <2>1. UNCHANGED <<prog, bp, touched>> /\ up = "run" /\ DOMAIN pc = Harts
    BY <1>2 DEF Interpreter, Compute, Jump, Store, CompareAndSwap, LoadReserved,
       StoreConditional, AmoLoad, AmoSwap, AmoDone, AmoLost, Breakpoint, Die, Become, vars,
       Fetch, SpaceInv, DataInv
  <2>2. Text' = Text /\ Debugged' = Debugged
    BY <2>1, SameText
  <2>3. ASSUME ~Debugged PROVE \A k \in Harts : pc'[k] \notin Within(Text)
    <3>1. \A k \in Harts : pc[k] \notin Within(Text)
      BY <2>1, <2>3 DEF SpaceInv, FlowInv
    <3>2. FlowsOut(h)
      BY <1>2, <2>3, <3>1, FlowHart
    <3>3. QED
      BY <2>1, <3>1, <3>2 DEF FlowsOut
  <2>4. QED
    BY <2>1, <2>2, <2>3 DEF SpaceInv, FlowInv
<1>3. ASSUME NEW p, SetBreakpoint(p) PROVE FlowInv'
  <2>1. UNCHANGED <<prog, pc, up>> /\ bp' = p /\ touched' = {p} /\ touched = {} /\ p \in DOMAIN Text
    BY <1>3 DEF SetBreakpoint, SpaceInv, CodeInv
  <2>2. Text' = Text
    BY <2>1 DEF Text
  <2>3. Debugged => Debugged'
    BY <2>1 DEF Debugged
  <2>4. QED
    BY <2>1, <2>2, <2>3 DEF SpaceInv, FlowInv
<1>4. CASE ClearBreakpoint
  <2>1. UNCHANGED <<prog, pc, up, touched>> /\ bp' = NoReg
    BY <1>4 DEF ClearBreakpoint
  <2>2. Text' = Text /\ Debugged' = Debugged
    BY <2>1, SameText
  <2>3. QED
    BY <2>1, <2>2 DEF SpaceInv, FlowInv
<1>5. CASE UNCHANGED vars
  BY <1>1, <1>5 DEF vars
<1>6. QED
  BY <1>2, <1>3, <1>4, <1>5 DEF Next, Halted

LEMMA SpaceInit == Init => SpaceInv
<1> SUFFICES ASSUME Init PROVE SpaceInv
  OBVIOUS
<1>1. prog \in DOMAIN Programs /\ (Refused(Text) \/ WellFormed(Text)) /\ ~Debugged
  BY ProgramsAssumption DEF Init, Text, Debugged
<1>2. CodeInv
  <2>1. code = Substituted(Text)
    BY DEF Init, Text
  <2>2. \A p \in DOMAIN Text : code[p] = IF p \in Heads(Text) THEN CasInsn(Text, p) ELSE Text[p]
    BY <2>1 DEF Substituted, Heads
  <2>3. DOMAIN code = DOMAIN Text
    BY <2>1 DEF Substituted
  <2>4. \A p \in Heads(Text) : p \in DOMAIN Text
    BY DEF Heads
  <2>5. WellFormed(Text) => \A p \in Within(Text) : p \in DOMAIN Text /\ p \notin Heads(Text)
    BY DEF WellFormed, Inside
  <2>6. QED
    BY <2>2, <2>3, <2>4, <2>5 DEF CodeInv
<1>3. FlowInv
  <2>1. up = "run" => WellFormed(Text) /\ ~Refused(Text)
    BY <1>1 DEF Init, Text
  <2>2. WellFormed(Text) => \A h \in Harts : pc[h] \notin Within(Text)
    BY DEF Init, WellFormed
  <2>3. QED
    BY <1>1, <2>1, <2>2 DEF FlowInv, Init
<1>4. DataInv
  <2>1. reg \in [Harts -> [Regs -> Longs]]
    BY SpaceAssumption DEF Init
  <2>2. QED
    BY <2>1, SpaceAssumption DEF Init, DataInv
<1>5. QED
  BY <1>2, <1>3, <1>4 DEF SpaceInv

LEMMA SpaceStep == SpaceInv /\ [Next]_vars => SpaceInv'
  BY GoodStep, CodeStep, FlowStep DEF SpaceInv, Good

LEMMA UpStep ==
  ASSUME up \in {"run", "exit", "died"}, [Next]_vars
  PROVE  up' \in {"run", "exit", "died"}
<1>1. ASSUME NEW h \in Harts, Interpreter(h) PROVE up' \in {up, "died"}
  BY <1>1 DEF Interpreter, Compute, Jump, Store, CompareAndSwap, LoadReserved,
     StoreConditional, AmoLoad, AmoSwap, AmoDone, AmoLost, Breakpoint, Die, Become, vars
<1>2. QED
  BY <1>1 DEF Next, SetBreakpoint, ClearBreakpoint, Halted, vars

(***************************************************************************)
(* The types hold for any programs: stores of either width leave memory a  *)
(* memory of longs, and a hart inside an amo loop is at an amo, whatever   *)
(* gdb writes there meanwhile.                                             *)
(***************************************************************************)
THEOREM SpaceTypes == Spec => []TypeOK
<1> DEFINE Up == up \in {"run", "exit", "died"}
<1>1. Init => Up
  BY DEF Init
<1>2. Up /\ [Next]_vars => Up'
  BY UpStep
<1>3. SpaceInv /\ Up => TypeOK
  BY DEF SpaceInv, CodeInv, FlowInv, DataInv, TypeOK, Text
<1>4. QED
  BY <1>1, <1>2, <1>3, SpaceInit, SpaceStep, PTL DEF Spec

(***************************************************************************)
(* Atomic instructions and compare-and-swaps are atomic on shared memory.  *)
(***************************************************************************)
THEOREM AtomicSafe == Spec => AtomicSpec
<1>1. Init => Atomic!Init
  <2>1. ASSUME Init PROVE mem \in [Addrs -> Longs] /\ Debugged = FALSE
    BY <2>1, SpaceAssumption DEF Init, Debugged
  <2>2. ASSUME Init PROVE last = [h \in Harts |-> <<>>]
    BY <2>2 DEF Init, NoLoad
  <2>3. QED
    BY <2>1, <2>2 DEF Atomic!Init
<1>2. SpaceInv /\ [Next]_vars => [Atomic!Next]_(Atomic!mvars)
  BY GoodStep DEF Good
<1>3. QED
  BY <1>1, <1>2, SpaceInit, SpaceStep, PTL DEF Spec, AtomicSpec, Atomic!Spec
-----------------------------------------------------------------------------
(***************************************************************************)
(* A compare-and-swap does what the sequence did.  Register 0 is zero, so  *)
(* that a branch on it compares with zero.                                 *)
(***************************************************************************)
ZeroInv == \A h \in Harts : reg[h][0] = 0

LEMMA PutZero ==
  ASSUME NEW r \in [Regs -> Longs], NEW d, NEW v
  PROVE  Put(r, d, v)[0] = r[0]
  BY SpaceAssumption DEF Put

LEMMA PutZeroTwice ==
  ASSUME NEW r \in [Regs -> Longs], NEW d, NEW v \in Longs, NEW e, NEW w
  PROVE  Put(Put(r, d, v), e, w)[0] = r[0]
  BY PutType, PutZero

LEMMA ZeroInit == Init => ZeroInv
<1> SUFFICES ASSUME Init, NEW h \in Harts PROVE reg[h][0] = 0
  BY DEF ZeroInv
<1>1. PICK a \in Inputs : reg = [k \in Harts |-> [r \in Regs |-> IF r = 2 THEN a ELSE 0]]
  BY DEF Init
<1>2. reg[h] = [r \in Regs |-> IF r = 2 THEN a ELSE 0]
  BY <1>1
<1>3. QED
  BY <1>2, SpaceAssumption

LEMMA ZeroStep == SpaceInv /\ ZeroInv /\ [Next]_vars => ZeroInv'
<1> SUFFICES ASSUME SpaceInv, ZeroInv, [Next]_vars PROVE ZeroInv'
  OBVIOUS
<1>0. reg \in [Harts -> [Regs -> Longs]]
  BY DEF SpaceInv, DataInv
<1>1. ASSUME reg' = reg PROVE ZeroInv'
  BY <1>1 DEF ZeroInv
<1>2. ASSUME NEW h \in Harts, NEW s, Become(h, s), s.reg[0] = reg[h][0] PROVE ZeroInv'
  BY <1>0, <1>2 DEF Become, ZeroInv
<1>3. ASSUME NEW h \in Harts, Interpreter(h) PROVE ZeroInv'
  <2>1. CASE Compute(h)
    <3>1. PICK v \in Inputs :
            Become(h, [State(h) EXCEPT !.reg = Put(reg[h], At(h).rd, v), !.pc = pc[h] + 2])
      BY <2>1 DEF Compute
    <3>2. [State(h) EXCEPT !.reg = Put(reg[h], At(h).rd, v), !.pc = pc[h] + 2].reg[0] = reg[h][0]
      BY <1>0, PutZero DEF State
    <3>3. QED
      BY <1>2, <3>1, <3>2
  <2>2. CASE Jump(h)
    <3>1. Branch(At(h), State(h)).reg[0] = reg[h][0]
      BY DEF Branch, State
    <3>2. QED
      BY <1>2, <2>2, <3>1 DEF Jump
  <2>3. CASE Store(h)
    <3>1. [State(h) EXCEPT !.mem = Stored(At(h), State(h)), !.pc = pc[h] + 2].reg[0] = reg[h][0]
      BY DEF State
    <3>2. QED
      BY <1>2, <2>3, <3>1 DEF Store
  <2>4. CASE LoadReserved(h)
    <3>1. Lr(At(h), State(h)).reg[0] = reg[h][0]
      BY <1>0, PutZero DEF Lr, State
    <3>2. QED
      BY <1>2, <2>4, <3>1 DEF LoadReserved
  <2>5. CASE StoreConditional(h)
    <3>1. Sc(At(h), State(h)).reg[0] = reg[h][0]
      BY <1>0, PutZero DEF Sc, State
    <3>2. QED
      BY <1>2, <2>5, <3>1 DEF StoreConditional
  <2>6. CASE CompareAndSwap(h)
    <3> DEFINE i == At(h)
               j == code[pc[h] + 2]
               v == OldValue(i, State(h))
    <3>1. Fetch(h, {"cas12", "cas10"}) /\ Become(h, Cas(i, j, State(h)))
      BY <2>6 DEF CompareAndSwap
    <3>2. v \in Longs
      <4>1. i.w \in Widths
        BY <3>1, FetchedCas, CasOperands
      <4>2. reg[h][i.rs1] \in Addrs
        BY <3>1, FetchedAccess DEF Accesses
      <4>3. QED
        BY <4>1, <4>2, OldValueType DEF SpaceInv
    <3>3. /\ Put(reg[h], j.rs1, v)[0] = reg[h][0]
          /\ Put(Put(reg[h], j.rs1, v), i.rd, 0)[0] = reg[h][0]
      BY <1>0, <3>2, PutZero, PutZeroTwice
    <3>4. Cas(i, j, State(h)).reg[0] = reg[h][0]
      <4>1. CASE Swaps(i, State(h))
        BY <3>3, <4>1 DEF Cas, State
      <4>2. CASE ~Swaps(i, State(h))
        BY <3>3, <4>2 DEF Cas, State
      <4>3. QED
        BY <4>1, <4>2
    <3>5. QED
      BY <1>2, <3>1, <3>4
  <2>7. CASE AmoSwap(h)
    <3> DEFINE s == [reg |-> Put(reg[h], Amo(h).rd, lhs[h][1]), pc |-> pc[h] + 2,
                     mem |-> Stored(Amo(h), State(h))]
    <3>1. s.reg[0] = reg[h][0]
      BY <1>0, PutZero
    <3>2. Become(h, s)
      BY <2>7 DEF AmoSwap, AmoDone
    <3>3. QED
      BY <1>2, <3>1, <3>2
  <2>8. CASE AmoLoad(h) \/ AmoLost(h) \/ Breakpoint(h) \/ Die(h)
    BY <1>1, <2>8 DEF AmoLoad, AmoLost, Breakpoint, Die, vars
  <2>9. QED
    BY <1>3, <2>1, <2>2, <2>3, <2>4, <2>5, <2>6, <2>7, <2>8 DEF Interpreter
<1>4. CASE UNCHANGED vars \/ ClearBreakpoint \/ \E p \in Breakable : SetBreakpoint(p)
  BY <1>1, <1>4 DEF vars, ClearBreakpoint, SetBreakpoint
<1>5. QED
  BY <1>3, <1>4 DEF Next, Halted

\* What a branch of a sequence, once its load has been done, compares.
LEMMA Compared ==
  ASSUME SpaceInv, ZeroInv, NEW h \in Harts, NEW p \in Heads(Text), WellFormed(Text),
         Ordinary(p, State(h)), NEW v \in Longs
  PROVE  LET b == Text[p + 2]
             r == Put(reg[h], Text[p].rd, v)
         IN  /\ r = [reg[h] EXCEPT ![Text[p].rd] = v]
             /\ r[b.rs1] = v
             /\ Trunc(Text[p].w, reg[h][CasInsn(Text, p).rs2])
                  = IF b.op = "bne" THEN r[b.rs2] ELSE 0
             /\ r[Text[Third(Text, p)].rs1] = reg[h][Text[p].rs1]
             /\ r[Text[Third(Text, p)].rs2] = reg[h][Text[Third(Text, p)].rs2]
<1> DEFINE l == Text[p]
           b == Text[p + 2]
           c == Text[Third(Text, p)]
           r == Put(reg[h], l.rd, v)
<1>1. /\ p \in DOMAIN Text /\ p + 2 \in DOMAIN Text /\ Third(Text, p) \in DOMAIN Text
  BY DEF WellFormed, Heads, Within, Inside
<1>2. /\ l.op = "lr" /\ b.op \in {"bne", "c_bnez"} /\ c.op = "sc"
      /\ b.rs1 = l.rd /\ c.rs1 = l.rs1
  BY DEF Heads, IsCas
<1>3. /\ HasOperands(l) /\ HasOperands(b) /\ HasOperands(c)
  BY <1>1 DEF WellFormed
<1>4. /\ l.rd \in Regs /\ l.rs1 \in Regs /\ l.w \in Widths /\ c.rs2 \in Regs
      /\ b.op = "bne" => b.rs2 \in Regs
  BY <1>2, <1>3 DEF HasOperands
<1>5. /\ l.rd \notin {0, l.rs1, b.rs2, c.rs2}
      /\ b.op = "bne" => Trunc(l.w, reg[h][b.rs2]) = reg[h][b.rs2]
  BY DEF Ordinary, State, Text
<1>6. reg[h] \in [Regs -> Longs] /\ reg[h][0] = 0
  BY DEF SpaceInv, DataInv, ZeroInv
<1>7. r = [reg[h] EXCEPT ![l.rd] = v]
  BY <1>4, <1>5, SpaceAssumption DEF Put, NoReg
<1>8. r[l.rd] = v /\ \A k \in Regs : k # l.rd => r[k] = reg[h][k]
  BY <1>4, <1>6, <1>7
<1>9. Trunc(l.w, 0) = 0
  BY SpaceAssumption DEF Trunc
<1>10. CasInsn(Text, p).rs2 = IF b.op = "c_bnez" THEN 0 ELSE b.rs2
  BY InsnOp DEF CasInsn
<1>11. Trunc(l.w, reg[h][CasInsn(Text, p).rs2]) = IF b.op = "bne" THEN r[b.rs2] ELSE 0
  <2>1. CASE b.op = "bne"
    BY <1>4, <1>5, <1>8, <1>10, <2>1
  <2>2. CASE b.op = "c_bnez"
    BY <1>6, <1>9, <1>10, <2>2
  <2>3. QED
    BY <1>2, <2>1, <2>2
<1>12. QED
  BY <1>2, <1>4, <1>5, <1>7, <1>8, <1>11

LEMMA CasIsSequence ==
  ASSUME SpaceInv, ZeroInv, NEW h \in Harts, Fetch(h, {"cas12", "cas10"}), ~Debugged,
         Ordinary(pc[h], State(h)), pc[h] \notin Within(Text)
  PROVE  Cas(At(h), code[pc[h] + 2], State(h)) = Sequence(pc[h], State(h))
<1> DEFINE p == pc[h]
           s == State(h)
           l == Text[p]
           b == Text[p + 2]
           c == Text[Third(Text, p)]
           i == At(h)
           v == OldValue(i, s)
           r == Put(reg[h], l.rd, v)
           other == IF b.op = "bne" THEN r[b.rs2] ELSE 0
           t == [i EXCEPT !.rs2 = i.rs3]
           s1 == Lr(l, s)
           s2 == Branch(b, s1)
<1>1. p \in Heads(Text) /\ i = CasInsn(Text, p) /\ WellFormed(Text)
  BY FetchedCas
<1>2. /\ p \in DOMAIN Text /\ p \in Nat /\ p + 2 \in Within(Text)
      /\ Third(Text, p) \in Within(Text)
  BY <1>1, CasOperands DEF Heads, WellFormed
<1>3. code[p + 2] = b
  BY <1>1, <1>2 DEF SpaceInv, CodeInv
<1>4. /\ i.w = l.w /\ i.rs1 = l.rs1 /\ i.rd = c.rd /\ i.rs3 = c.rs2
      /\ i.w \in Widths /\ reg[h][i.rs1] \in Addrs
  <2>1. i.w \in Widths /\ reg[h][i.rs1] \in Addrs
    BY <1>1, CasOperands, FetchedAccess DEF Accesses
  <2>2. LET k == CasInsn(Text, p) IN
          k.w = l.w /\ k.rs1 = l.rs1 /\ k.rd = c.rd /\ k.rs3 = c.rs2
    BY InsnOp DEF CasInsn
  <2>3. QED
    BY <1>1, <2>1, <2>2, Zenon
<1>5. v \in Longs /\ v = Trunc(l.w, mem[reg[h][l.rs1]])
  BY <1>4, OldValueType DEF SpaceInv
<1>6. /\ r = [reg[h] EXCEPT ![l.rd] = v] /\ r[b.rs1] = v
      /\ Trunc(l.w, reg[h][i.rs2]) = other
      /\ r[c.rs1] = reg[h][l.rs1] /\ r[c.rs2] = reg[h][c.rs2]
  <2>1. /\ r = [reg[h] EXCEPT ![l.rd] = v] /\ r[b.rs1] = v
        /\ Trunc(l.w, reg[h][CasInsn(Text, p).rs2]) = other
        /\ r[c.rs1] = reg[h][l.rs1] /\ r[c.rs2] = reg[h][c.rs2]
    <3>1. PICK u \in Longs : u = v
      BY <1>5
    <3>2. PICK q \in Heads(Text) : q = p
      BY <1>1
    <3>3. Ordinary(q, State(h))
      BY <3>2
    <3>4. LET k == Text[q + 2]
              y == Put(reg[h], Text[q].rd, u)
          IN  /\ y = [reg[h] EXCEPT ![Text[q].rd] = u]
              /\ y[k.rs1] = u
              /\ Trunc(Text[q].w, reg[h][CasInsn(Text, q).rs2])
                   = IF k.op = "bne" THEN y[k.rs2] ELSE 0
              /\ y[Text[Third(Text, q)].rs1] = reg[h][Text[q].rs1]
              /\ y[Text[Third(Text, q)].rs2] = reg[h][Text[Third(Text, q)].rs2]
      BY <1>1, <3>3, Compared
    <3>5. QED
      BY <3>1, <3>2, <3>4, Zenon
  <2>2. QED
    BY <1>1, <2>1, Zenon
<1>7. s.reg = reg[h] /\ s.mem = mem /\ s.pc = p
  BY DEF State
<1>8. Swaps(i, s) <=> v = other
  BY <1>4, <1>6, <1>7 DEF Swaps
<1>9. s1 = [reg |-> r, pc |-> p + 2, mem |-> mem]
  BY <1>5, <1>7 DEF Lr
<1>10. s2 = [reg |-> r, mem |-> mem,
             pc |-> p + 2 + (IF v # other THEN b.imm ELSE Size(b))]
  <2>1. b.op # "j"
    BY <1>1 DEF Heads, IsCas
  <2>2. QED
    BY SMTT(30), <1>6, <1>9, <2>1 DEF Branch
<1>11. b.rs1 = l.rd /\ c.rs1 = l.rs1 /\ c.w = l.w
  BY <1>1 DEF Heads, IsCas, Ordinary, Text
<1>12. CASE v = other
  <2>1. s2.pc = Third(Text, p) /\ s2.reg = r /\ s2.mem = mem
    BY <1>10, <1>12 DEF Third
  <2>2. Sequence(p, s) = Sc(c, s2)
    BY <2>1 DEF Sequence, Text
  <2>3. Stored(c, s2) = [mem EXCEPT ![reg[h][l.rs1]]
                           = Merge(l.w, mem[reg[h][l.rs1]], reg[h][c.rs2])]
    BY <1>6, <1>11, <2>1 DEF Stored
  <2>4. t.w = l.w /\ t.rs1 = l.rs1 /\ t.rs2 = c.rs2
    <3>1. i = reg3insn(i.op, i.w, i.rd, i.rs1, i.rs2, i.rs3)
      BY SMTT(30), <1>1, InsnOp DEF CasInsn
    <3>2. LET u == [reg3insn(i.op, i.w, i.rd, i.rs1, i.rs2, i.rs3) EXCEPT !.rs2 = i.rs3]
          IN  u.w = i.w /\ u.rs1 = i.rs1 /\ u.rs2 = i.rs3
      BY OtherOperand
    <3>3. QED
      BY <1>4, <3>1, <3>2, Zenon
  <2>5. Stored(t, s) = [mem EXCEPT ![reg[h][l.rs1]]
                          = Merge(l.w, mem[reg[h][l.rs1]], reg[h][c.rs2])]
    BY <1>7, <2>4 DEF Stored
  <2>6. p + (IF i.op = "cas12" THEN 6 ELSE 5) = Third(Text, p) + 2
    <3>1. /\ b.op = "bne" => i.op = "cas12" /\ Size(b) = 2
          /\ b.op = "c_bnez" => i.op = "cas10" /\ Size(b) = 1
          /\ b.op \in {"bne", "c_bnez"}
      BY SMTT(30), <1>1, InsnOp DEF CasInsn, Size, Heads, IsCas
    <3>2. QED
      BY <1>2, <3>1 DEF Third
  <2>7. Cas(i, b, s) = [reg |-> Put(Put(reg[h], b.rs1, v), i.rd, 0), mem |-> Stored(t, s),
                        pc |-> p + (IF i.op = "cas12" THEN 6 ELSE 5)]
    BY <1>7, <1>8, <1>12 DEF Cas
  <2>8. Sc(c, s2) = [reg |-> Put(r, c.rd, 0), mem |-> Stored(c, s2), pc |-> Third(Text, p) + 2]
    BY <2>1 DEF Sc
  <2>9. QED
    BY ZenonT(30), <1>3, <1>4, <1>11, <2>2, <2>3, <2>5, <2>6, <2>7, <2>8
<1>13. CASE v # other
  <2>1. s2.pc = p + 2 + b.imm
    BY <1>10, <1>13
  <2>2. s2.pc # Third(Text, p)
    BY <1>1, <1>2, <2>1, LeadsOut
  <2>3. Sequence(p, s) = s2
    BY <2>2 DEF Sequence, Text
  <2>4. Cas(i, b, s) = [reg |-> r, mem |-> mem, pc |-> p + 2 + b.imm]
    BY <1>7, <1>8, <1>11, <1>13 DEF Cas, State
  <2>5. QED
    BY <1>3, <1>10, <1>13, <2>3, <2>4
<1>14. QED
  BY <1>12, <1>13

\* A hart at a compare-and-swap gets on only by executing it.
LEMMA OnlyCas ==
  ASSUME SpaceInv, [Next]_vars, NEW h \in Harts, Fetch(h, {"cas12", "cas10"}), pc'[h] # pc[h]
  PROVE  CompareAndSwap(h)
<1>1. DOMAIN pc = Harts /\ At(h).op \in {"cas12", "cas10"} /\ lhs[h] = NoLoad
  BY DEF Fetch, SpaceInv, DataInv
<1>2. ASSUME NEW k \in Harts, Interpreter(k) PROVE k = h
  <2>1. pc' = pc \/ \E x : pc' = [pc EXCEPT ![k] = x]
    BY <1>2 DEF Interpreter, Compute, Jump, Store, CompareAndSwap, LoadReserved,
       StoreConditional, AmoLoad, AmoSwap, AmoDone, AmoLost, Breakpoint, Die, Become, vars
  <2>2. QED
    BY <1>1, <2>1
<1>3. ASSUME Interpreter(h) PROVE CompareAndSwap(h)
  BY <1>1, <1>3 DEF Interpreter, Compute, Jump, Store, LoadReserved,
     StoreConditional, AmoLoad, AmoSwap, AmoLost, Breakpoint, Die, vars, Fetch
<1>4. \E k \in Harts : Interpreter(k)
  BY DEF Next, SetBreakpoint, ClearBreakpoint, Halted, vars
<1>5. QED
  BY <1>2, <1>3, <1>4

(***************************************************************************)
(* "pattern is good" (instructions.cc:173), for every program: a           *)
(* compare-and-swap leaves a hart as its sequence would have.              *)
(***************************************************************************)
THEOREM SequenceSafe == Spec => SameAsOriginal
<1> DEFINE Same(h) == Fetch(h, {"cas12", "cas10"}) /\ pc'[h] # pc[h] /\ ~Debugged
                        /\ Ordinary(pc[h], State(h)) => State(h)' = Sequence(pc[h], State(h))
<1>1. ASSUME SpaceInv, ZeroInv, [Next]_vars PROVE \A h \in Harts : Same(h)
  <2> SUFFICES ASSUME NEW h \in Harts, Fetch(h, {"cas12", "cas10"}), pc'[h] # pc[h],
                      ~Debugged, Ordinary(pc[h], State(h))
               PROVE  State(h)' = Sequence(pc[h], State(h))
    OBVIOUS
  <2> DEFINE s == Cas(At(h), code[pc[h] + 2], State(h))
  <2>1. Become(h, s)
    BY <1>1, OnlyCas DEF CompareAndSwap
  <2>2. s = [reg |-> s.reg, pc |-> s.pc, mem |-> s.mem]
    BY DEF Cas, State
  <2>3. reg'[h] = s.reg /\ pc'[h] = s.pc /\ mem' = s.mem
    <3> HIDE DEF s
    <3>1. QED
      BY <1>1, <2>1 DEF Become, SpaceInv, DataInv
  <2>4. pc[h] \notin Within(Text)
    BY <1>1 DEF Fetch, SpaceInv, FlowInv
  <2>5. s = Sequence(pc[h], State(h))
    BY <1>1, <2>4, CasIsSequence
  <2>6. State(h)' = [reg |-> s.reg, pc |-> s.pc, mem |-> s.mem]
    BY <2>3 DEF State
  <2>7. QED
    BY <2>2, <2>5, <2>6
<1>2. SpaceInv /\ ZeroInv /\ [Next]_vars => [\A h \in Harts : Same(h)]_vars
  BY <1>1
<1>3. QED
  BY <1>2, SpaceInit, SpaceStep, ZeroInit, ZeroStep, PTL DEF Spec, SameAsOriginal
=============================================================================
