---------------------------- MODULE CodeSpaceMC ----------------------------
(* Guest programs for CodeSpace: a compare-and-swap,                      *)
(* an amo and a store, in the forms a compiler gives them.                 *)
EXTENDS CodeSpace, Sequences, TLC

I(op, w, rd, rs1, rs2, imm) ==
  [Insn(op) EXCEPT !.w = w, !.rd = rd, !.rs1 = rs1, !.rs2 = rs2, !.imm = imm]
Mid == Insn("unknown")

\* The text segment that holds instructions s in a row.
RECURSIVE Text(_)
Text(s) == IF s = <<>> THEN <<>>
           ELSE (IF Size(Head(s)) = 1 THEN <<Head(s)>> ELSE <<Head(s), Mid>>) \o Text(Tail(s))
Segment(s) == [p \in 0 .. Len(Text(s)) - 1 |-> Text(s)[p + 1]]

\* x1 loaded, x2 address, x3 expected, x4 new, x5 flag.
Body(w, test, flag, addr) ==
  Segment(<<I("any", "d", 3, 0, 0, 0), I("any", "d", 4, 0, 0, 0),
            I("lr", w, 1, 2, 0, 0), test, I("sc", w, flag, addr, 4, 0),
            I("amo", w, 1, 2, 4, 0), I("store", "d", 0, 2, 3, 0), I("j", "d", 0, 0, 0, -12 - Size(test))>>)

Bne == I("bne", "d", 0, 1, 3, 4)
Bnez == I("c_bnez", "d", 0, 1, 0, 3)
AllPrograms == [n \in {"w12", "w10", "d12", "other"} |->
  CASE n = "w12" -> Body("w", Bne, 5, 2)
    [] n = "w10" -> Body("w", Bnez, 1, 2)
    [] n = "d12" -> Body("d", Bne, 1, 2)
    [] OTHER     -> Body("w", Bne, 5, 4)]
\* The sequence and the amo after it.
TheSequence == 4 .. 10
AllInputs  == {0, -1}
\* What stores of these, whole or in part, can make of one another.
SomeLongs  == {-4, -1, 0, 3}

Symmetry == Permutations(Harts)
=============================================================================
