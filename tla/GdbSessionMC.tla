---------------------------- MODULE GdbSessionMC ----------------------------
(* Sessions of GdbSession for TLC: what gdb may send in each. *)
EXTENDS GdbSession

Cmd(op, addr, text) == [op |-> op, addr |-> addr, text |-> text]

Resumes == {Cmd("s", NoAddr, "none"), Cmd("c", NoAddr, "none"), Cmd("c", 2, "none")}
Inspect == {Cmd("g", NoAddr, "none"), Cmd("?", NoAddr, "none"),
            Cmd("m", 1, "none"), Cmd("m", Bad, "none")}
WellFormed == {Cmd("G", 2, "full"), Cmd("P", NoAddr, "full"), Cmd("M", 1, "orig"),
               Cmd("M", Bad, "orig")}
Malformed == {Cmd(op, NoAddr, "syntax") : op \in {"P", "m", "M", "s", "c"}}
               \cup {Cmd("other", NoAddr, "none")}
Unparsable == {Cmd("G", NoAddr, "badhex"), Cmd("P", NoAddr, "badhex"),
               Cmd("M", 1, "badhex")}
Breakpoints == {Cmd("M", 2, "ebreak"), Cmd("M", 2, "orig")}

\* Every command; all but the G that ViewCurrent leaves out; a few steps.
AllKinds == Resumes \cup Inspect \cup WellFormed \cup Malformed \cup Unparsable
              \cup Breakpoints
              \cup {Cmd("G", NoAddr, "short"), Cmd("M", 1, "two")}
Sound     == AllKinds \ {Cmd("G", NoAddr, "short")}
StepBreak == Breakpoints \cup {Cmd("s", NoAddr, "none")}
=============================================================================
