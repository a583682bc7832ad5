----------------------------- MODULE StartUpMC -----------------------------
(* A handful of options, command lines of up to three words, and programs. *)
(* Numbers stand for the strings --gdb takes.                               *)
EXTENDS StartUp

TheDecl ==
  [quiet |-> [type |-> "bool", ini |-> FALSE, none |-> TRUE, no_equal |-> TRUE],
   stat  |-> [type |-> "long", ini |-> 100, none |-> 0, no_equal |-> FALSE],
   gdb   |-> [type |-> "string", ini |-> 0, none |-> 1234, no_equal |-> TRUE]]

W(o, r, v, l) == [opt |-> o, rest |-> r, val |-> v, len |-> l]
TheWords == {W("quiet", "", 0, 8), W("quiet", "=", 1, 10), W("stat", "=", 7, 9),
             W("stat", "=", 300, 11), W("stat", "", 0, 7), W("gdb", "", 0, 6),
             W("gdb", "=", 4321, 11), W("gdb", "more", 0, 9), W("help", "", 0, 7),
             W("none", "", 0, 2), W("none", "", 0, 9)}
TheLines == UNION {[1 .. m -> TheWords] : m \in 0 .. 3}

Seg(v, o, f, m) == [vaddr |-> v, offset |-> o, filesz |-> f, memsz |-> m]
Sec(q, a, s)    == [kind |-> q, addr |-> a, size |-> s]
Prog(g, t, e, b, l) == [segs |-> g, sects |-> t, entry |-> e, bias |-> b, length |-> l]

TheElfs ==
  { \* text and data in one page, bss in the data's last page and the next
    Prog(<<Seg(4, 0, 6, 6), Seg(10, 6, 3, 8)>>,
         <<Sec("text", 4, 4), Sec("text", 8, 2), Sec("data", 10, 3), Sec("bss", 13, 5)>>, 4, 0, 12),
    \* data in a page of its own, an empty segment
    Prog(<<Seg(5, 1, 4, 4), Seg(14, 6, 2, 2), Seg(0, 0, 0, 0)>>,
         <<Sec("bss", 17, 0), Sec("text", 5, 4)>>, 6, 0, 8),
    \* nothing of a segment in the file; and one linked for no address
    Prog(<<Seg(4, 0, 4, 4), Seg(12, 4, 0, 4)>>, <<Sec("text", 4, 4)>>, 4, 0, 4),
    Prog(<<Seg(4, 0, 4, 6)>>, <<Sec("text", 4, 4), Sec("bss", 8, 2)>>, 4, 4, 4) }

TheEnvs == {<<>>, <<3, 1, 5, 2, 4>>}
TheAuxs == {<<"NULL">>, <<"PAGESZ", "other", "PHDR", "RANDOM", "ENTRY", "NULL">>}
=============================================================================
