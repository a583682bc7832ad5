----------------------------- MODULE GdbSession -----------------------------
(***************************************************************************)
(* A debugging session: main()'s gdb loop and the packet protocol of       *)
(* gdblink.c, with gdb at the other end of a TCP link.                     *)
(*                                                                         *)
(* The stub is one thread.  `at` says where it waits: in ReceivePacket     *)
(* (recv), in the interpreter (run), in SendPacket for an acknowledgement  *)
(* (ack), or nowhere, killed by a signal (dead).  All it does between two  *)
(* waits is one action, because nothing else touches its state.            *)
(*                                                                         *)
(* A packet's text is abstracted to a command or a reply; its checksum to  *)
(* whether it is right.  gdb is external: it sends a command, repeats it   *)
(* on '-', takes a reply and acknowledges it, and may interrupt.           *)
(***************************************************************************)
EXTENDS Integers, Sequences

CONSTANTS NInsns,        \* the guest's instructions are at 1 .. NInsns
          Faulting,      \* those whose execution touches an unmapped address
          Commands,      \* what gdb may send
          MaxCommands,   \* bound: commands in a session
          MaxNoise,      \* bound: packets whose checksum arrives wrong
          MaxInterrupts  \* bound: interrupt characters gdb sends

Code    == 1 .. NInsns
Bad     == 0             \* an unmapped address: the null page
Addrs   == Code \cup {Bad}
NoAddr  == -1            \* a command without an address
Values  == {0, 1}        \* of the one register modelled

\* text: what a command carries after its letter.  "syntax" is a text the
\* command's own parser rejects; "badhex" data that stops being hexadecimal;
\* "short" is a G packet of the 32 registers without the pc, "full" one with the
\* pc, which is its addr; "two" an M packet
\* that covers two instructions.
Texts == {"none", "syntax", "badhex", "full", "short", "orig", "ebreak", "two"}
AllCommands == [op   : {"g", "G", "?", "P", "m", "M", "s", "c", "other"},
                addr : Addrs \cup {NoAddr},
                text : Texts]

ASSUME SessionAssumption ==
  /\ NInsns \in Nat \ {0} /\ Faulting \subseteq Code
  /\ Commands \subseteq AllCommands
  /\ \A c \in Commands :
       /\ c.op \in {"m", "M"} /\ c.text # "syntax" => c.addr # NoAddr
       /\ c.op = "M" => c.text \in {"syntax", "badhex", "orig", "ebreak", "two"}
       /\ c.op = "G" => c.text \in {"badhex", "full", "short"}
       /\ c.op = "G" /\ c.text = "full" => c.addr # NoAddr
  /\ MaxCommands \in Nat /\ MaxNoise \in Nat /\ MaxInterrupts \in Nat

VARIABLES at,            \* where the stub waits
          pc,            \* *gdb_pc, the hart's STATE.pc
          reg,           \* gdb_reg[r] for one register r
          mem,           \* what is in memory at each instruction's address
          dec,           \* what the code space holds decoded for it
          lastGdbSignal,
          segv_blocked,  \* is SIGSEGV in the process's signal mask?
          outBuf,        \* the reply SendPacket is sending
          toStub, toGdb, \* the two directions of the link
          gdb,           \* idle, wants an acknowledgement, or wants a reply
          cmd,           \* the command gdb sent last
          answer,        \* the reply gdb took last
          view,          \* pc and register as gdb knows them
          sent, noise, interrupts,
          served,        \* history: commands obeyed
          retired,       \* history: instructions executed
          traps          \* history: SIGTRAP stops gdb has been told of

stub  == <<at, pc, reg, mem, dec, lastGdbSignal, segv_blocked, outBuf, served,
           retired>>
peer  == <<gdb, cmd, answer, view, sent, interrupts, traps>>
vars  == <<stub, toStub, toGdb, peer, noise>>

None  == [op |-> "other", addr |-> NoAddr, text |-> "none"]
Char(c) == [is |-> c]
Ack == Char("+")

\* A reply answers command number id; pc and reg mean something in a stop
\* reply (pc) and in the answer to g (both).
ReplyOf(kind, p, r) == [id |-> served', kind |-> kind, pc |-> p, reg |-> r]

Init ==
  /\ at = "recv" /\ pc = 1 /\ reg = 0
  /\ mem = [a \in Code |-> "orig"] /\ dec = mem
  /\ lastGdbSignal = 0 /\ segv_blocked = FALSE
  /\ outBuf = [id |-> 0, kind |-> "empty", pc |-> 1, reg |-> 0]
  /\ toStub = <<>> /\ toGdb = <<>>
  /\ gdb = "idle" /\ cmd = None /\ answer = outBuf
  /\ view = [known |-> FALSE, pc |-> 1, reg |-> 0]
  /\ sent = 0 /\ noise = 0 /\ interrupts = 0
  /\ served = 0 /\ retired = 0 /\ traps = 0

\* The link delivers a packet with its checksum right, or not.
Packet(body, good) == [is |-> "$", body |-> body, good |-> good]
Delivered(good) == IF good THEN noise' = noise
                           ELSE noise < MaxNoise /\ noise' = noise + 1

(***************************************************************************)
(* gdb (external).                                                         *)
(***************************************************************************)
Send ==
  /\ gdb = "idle" /\ sent < MaxCommands
  /\ \E c \in Commands, good \in BOOLEAN :
       /\ cmd' = c
       /\ toStub' = Append(toStub, Packet(c, good))
       /\ Delivered(good)
  /\ gdb' = "unacked"
  /\ sent' = sent + 1
  /\ UNCHANGED <<stub, toGdb, answer, view, interrupts, traps>>

FromStub(c) == toGdb # <<>> /\ Head(toGdb).is = c /\ toGdb' = Tail(toGdb)

Acknowledged ==
  /\ gdb = "unacked" /\ FromStub("+")
  /\ gdb' = "waiting"
  /\ UNCHANGED <<stub, toStub, cmd, answer, view, sent, interrupts, traps,
                 noise>>

Repeat ==
  /\ gdb = "unacked" /\ FromStub("-")
  /\ \E good \in BOOLEAN :
       /\ toStub' = Append(toStub, Packet(cmd, good))
       /\ Delivered(good)
  /\ UNCHANGED <<stub, peer>>

\* A packet where an acknowledgement was due is an old reply sent again: gdb
\* acknowledges it and drops it.
DropOld ==
  /\ gdb = "unacked" /\ FromStub("$")
  /\ toStub' = Append(toStub, Ack)
  /\ UNCHANGED <<stub, peer, noise>>

\* What a reply tells gdb: registers it read, where the guest stopped, or that
\* what it wrote has been stored.
Learned(r) ==
  CASE r.kind = "regs"              -> [known |-> TRUE, pc |-> r.pc, reg |-> r.reg]
    [] r.kind \in {"trap", "segv"}  -> [view EXCEPT !.known = FALSE, !.pc = r.pc]
    [] r.kind = "E02"               -> [view EXCEPT !.known = FALSE]
    [] r.kind = "ok" /\ cmd.op = "P" -> [view EXCEPT !.reg = 1]
    [] r.kind = "ok" /\ cmd.op = "G" ->
         [view EXCEPT !.reg = 1, !.pc = IF cmd.text = "full" THEN cmd.addr ELSE @]
    [] OTHER -> view

TakeReply ==
  /\ gdb = "waiting" /\ FromStub("$") /\ Head(toGdb).good
  /\ LET r == Head(toGdb).body IN
       /\ answer' = r
       /\ view' = Learned(r)
       /\ traps' = traps + (IF r.kind = "trap" THEN 1 ELSE 0)
  /\ gdb' = "idle"
  /\ toStub' = Append(toStub, Ack)
  /\ UNCHANGED <<stub, cmd, sent, interrupts, noise>>

RefuseReply ==
  /\ gdb = "waiting" /\ FromStub("$") /\ ~Head(toGdb).good
  /\ toStub' = Append(toStub, Char("-"))
  /\ UNCHANGED <<stub, peer, noise>>

Interrupt ==
  /\ gdb = "waiting" /\ cmd.op \in {"s", "c"} /\ interrupts < MaxInterrupts
  /\ interrupts' = interrupts + 1
  /\ toStub' = Append(toStub, Char("interrupt"))
  /\ UNCHANGED <<stub, toGdb, gdb, cmd, answer, view, sent, traps,
                 noise>>

\* Mutant of SendPacket: what it sends again is the packet before this one.
SendPacketStale(reply, before) ==
  /\ at' = "ack"
  /\ outBuf' = outBuf
  /\ \E good \in BOOLEAN :
       /\ toGdb' = toGdb \o before \o <<Packet(reply, good)>>
       /\ Delivered(good)

(***************************************************************************)
(* SendPacket: send, then resend after every character that is not '+'.    *)
(***************************************************************************)
SendPacket(reply, before) ==
  /\ at' = "ack"
  /\ outBuf' = reply
  /\ \E good \in BOOLEAN :
       /\ toGdb' = toGdb \o before \o <<Packet(reply, good)>>
       /\ Delivered(good)

FromGdb == toStub # <<>> /\ toStub' = Tail(toStub)

GetAck ==
  /\ at = "ack" /\ FromGdb /\ Head(toStub).is = "+"
  /\ at' = "recv"
  /\ UNCHANGED <<pc, reg, mem, dec, lastGdbSignal, segv_blocked, outBuf, served,
                 retired, toGdb, peer, noise>>

\* Mutants of Resend: the acknowledgement of the command goes out again too; a
\* stop reply that was refused resumes the guest.
ResendAcked ==
  /\ at = "ack" /\ FromGdb /\ Head(toStub).is # "+"
  /\ SendPacket(outBuf, <<Ack>>)
  /\ UNCHANGED <<pc, reg, mem, dec, lastGdbSignal, segv_blocked, served, retired,
                 peer>>

ResendRuns ==
  /\ at = "ack" /\ FromGdb /\ Head(toStub).is # "+"
  /\ at' = "run"
  /\ UNCHANGED <<pc, reg, mem, dec, lastGdbSignal, segv_blocked, outBuf, served,
                 retired, toGdb, peer, noise>>

Resend ==
  /\ at = "ack" /\ FromGdb /\ Head(toStub).is # "+"
  /\ SendPacket(outBuf, <<>>)
  /\ UNCHANGED <<pc, reg, mem, dec, lastGdbSignal, segv_blocked, served, retired,
                 peer>>

(***************************************************************************)
(* ReceivePacket skips everything up to a '$', and refuses a packet whose  *)
(* checksum is wrong.                                                      *)
(***************************************************************************)
Skip ==
  /\ at = "recv" /\ FromGdb /\ Head(toStub).is # "$"
  /\ UNCHANGED <<stub, toGdb, peer, noise>>

\* Mutant of Refuse: a packet with a wrong checksum is dropped in silence.
RefuseSilently ==
  /\ at = "recv" /\ FromGdb /\ Head(toStub).is = "$" /\ ~Head(toStub).good
  /\ UNCHANGED <<stub, toGdb, peer, noise>>

Refuse ==
  /\ at = "recv" /\ FromGdb /\ Head(toStub).is = "$" /\ ~Head(toStub).good
  /\ toGdb' = Append(toGdb, Char("-"))
  /\ UNCHANGED <<stub, peer, noise>>

\* A good packet is acknowledged and obeyed.
Obey(op) ==
  /\ at = "recv" /\ FromGdb /\ Head(toStub).is = "$" /\ Head(toStub).good
  /\ Head(toStub).body.op = op
  /\ served' = served + 1
  /\ UNCHANGED <<peer, retired>>
Obeyed == Head(toStub).body
Answer(kind) == SendPacket(ReplyOf(kind, pc', reg'), <<Ack>>)

\* A command that fails to parse, or that the stub does not know.
NotUnderstood ==
  /\ \E op \in {"P", "m", "M", "s", "c", "other"} : Obey(op)
  /\ UNCHANGED <<pc, reg, mem, dec, lastGdbSignal, segv_blocked>>
  /\ \/ Obeyed.op = "other" /\ Answer("empty")
     \/ Obeyed.op # "other" /\ Obeyed.text = "syntax" /\ Answer("E01")

ReadRegisters ==
  /\ Obey("g")
  /\ UNCHANGED <<pc, reg, mem, dec, lastGdbSignal, segv_blocked>>
  /\ Answer("regs")

LastSignal ==
  /\ Obey("?")
  /\ UNCHANGED <<pc, reg, mem, dec, lastGdbSignal, segv_blocked>>
  /\ Answer("signal")

\* RcvHexToMemory clears its target before it parses, and succeeds when its
\* text ends there.  G calls it for the registers and then for the pc, and
\* answers OK when either call succeeds: the second for a full text, the
\* first for one without a pc.
WriteRegisters ==
  /\ Obey("G")
  /\ reg' = IF Obeyed.text = "badhex" THEN 0 ELSE 1
  /\ pc' = IF Obeyed.text = "full" THEN Obeyed.addr ELSE 0
  /\ UNCHANGED <<mem, dec, lastGdbSignal, segv_blocked>>
  /\ Answer(IF Obeyed.text = "badhex" THEN "E02" ELSE "ok")

WriteRegister ==
  /\ Obey("P") /\ Obeyed.text # "syntax"
  /\ UNCHANGED <<pc, mem, dec, lastGdbSignal, segv_blocked>>
  /\ reg' = IF Obeyed.text = "badhex" THEN 0 ELSE 1
  /\ Answer(IF Obeyed.text = "badhex" THEN "E02" ELSE "ok")

\* A memory access that faults: LocalExceptionHandler jumps out, and because
\* setjmp saved no signal mask, SIGSEGV stays blocked as it was in the
\* handler.  A fault while it is blocked kills the process.
Bombed(kind) ==
  \/ segv_blocked /\ at' = "dead" /\ toGdb' = Append(toGdb, Ack)
     /\ UNCHANGED <<segv_blocked, outBuf, noise>>
  \/ ~segv_blocked /\ segv_blocked' = TRUE /\ Answer(kind)

ReadMemory ==
  /\ Obey("m") /\ Obeyed.text # "syntax"
  /\ UNCHANGED <<pc, reg, mem, dec, lastGdbSignal>>
  /\ \/ Obeyed.addr = Bad /\ Bombed("E09")
     \/ Obeyed.addr # Bad /\ Answer("memory") /\ UNCHANGED segv_blocked

\* A write that succeeds is followed by redecode(addr), of one instruction.
Written(a, text) ==
  CASE text = "badhex" -> [mem EXCEPT ![a] = "zero"]
    [] text = "two"    -> [b \in Code |-> IF b \in {a, a + 1} THEN "ebreak" ELSE mem[b]]
    [] OTHER           -> [mem EXCEPT ![a] = text]

\* Mutant of WriteMemory: it decodes what a failed write has left.
WriteMemoryRedecodes ==
  /\ Obey("M") /\ Obeyed.text # "syntax"
  /\ UNCHANGED <<pc, reg, lastGdbSignal>>
  /\ LET a == Obeyed.addr IN
       \/ a = Bad /\ Bombed("E02") /\ UNCHANGED <<mem, dec>>
       \/ /\ a # Bad
          /\ mem' = Written(a, Obeyed.text)
          /\ dec' = [dec EXCEPT ![a] = mem'[a]]
          /\ Answer(IF Obeyed.text = "badhex" THEN "E02" ELSE "ok")
          /\ UNCHANGED segv_blocked

WriteMemory ==
  /\ Obey("M") /\ Obeyed.text # "syntax"
  /\ UNCHANGED <<pc, reg, lastGdbSignal>>
  /\ LET a == Obeyed.addr IN
       \/ a = Bad /\ Bombed("E02") /\ UNCHANGED <<mem, dec>>
       \/ /\ a # Bad
          /\ mem' = Written(a, Obeyed.text)
          /\ IF Obeyed.text = "badhex" THEN Answer("E02") /\ dec' = dec
             ELSE Answer("ok") /\ dec' = [dec EXCEPT ![a] = mem'[a]]
          /\ UNCHANGED segv_blocked

\* 's' and 'c' both leave ProcessGdbCommand for the loop that interprets.
Resume ==
  /\ Obey("s") \/ Obey("c")
  /\ Obeyed.text # "syntax"
  /\ at' = "run"
  /\ pc' = IF Obeyed.addr = NoAddr THEN pc ELSE Obeyed.addr
  /\ toGdb' = Append(toGdb, Ack)
  /\ UNCHANGED <<reg, mem, dec, lastGdbSignal, segv_blocked, outBuf, noise>>

\* Mutant of Stop: the pc reported is the one before the instruction.
StopStalePc(kind, signal) ==
  /\ lastGdbSignal' = signal
  /\ UNCHANGED <<mem, dec, served, toStub, peer>>
  /\ SendPacket(ReplyOf(kind, pc, reg'), <<>>)

(***************************************************************************)
(* The loop around interpreter(1).  An instruction that completes makes it *)
(* return false, which leaves the loop; a breakpoint makes it return true, *)
(* with pc at the breakpoint again, which does not.  A fault leaves it     *)
(* through signal_handler's longjmp.                                       *)
(***************************************************************************)
Stop(kind, signal) ==
  /\ lastGdbSignal' = signal
  /\ UNCHANGED <<mem, dec, served, toStub, peer>>
  /\ SendPacket(ReplyOf(kind, pc', reg'), <<>>)

Running(insn) == at = "run" /\ pc \in Code /\ dec[pc] = insn

Execute ==
  /\ Running("orig") /\ pc \notin Faulting
  /\ pc' = (pc % NInsns) + 1
  /\ reg' \in Values
  /\ retired' = retired + 1
  /\ Stop("trap", 5)
  /\ UNCHANGED segv_blocked

HitBreakpoint == Running("ebreak") /\ UNCHANGED vars

\* The instruction faults, or fetching it does: outside the code space index()
\* stores through a null pointer.
Faults == (Running("orig") /\ pc \in Faulting) \/ (at = "run" /\ pc \notin Code)

FaultCaught ==
  /\ Faults /\ ~segv_blocked
  /\ UNCHANGED <<pc, reg, retired>>
  /\ segv_blocked' = TRUE
  /\ Stop("segv", 11)

FaultKills ==
  /\ Faults /\ segv_blocked
  /\ at' = "dead"
  /\ UNCHANGED <<pc, reg, mem, dec, lastGdbSignal, segv_blocked, outBuf, served,
                 retired, toStub, toGdb, peer, noise>>

Protocol == GetAck \/ Resend \/ Skip \/ Refuse
Command == \/ NotUnderstood \/ ReadRegisters \/ LastSignal \/ WriteRegisters
           \/ WriteRegister \/ ReadMemory \/ WriteMemory \/ Resume
Interpret == Execute \/ HitBreakpoint \/ FaultCaught \/ FaultKills
Stub == Protocol \/ Command \/ Interpret

Listen == Acknowledged \/ Repeat \/ DropOld \/ TakeReply \/ RefuseReply
Gdb == Send \/ Listen \/ Interrupt

\* The session is over, for this model or because the stub is gone.
Over == /\ at = "dead" \/ (gdb = "idle" /\ sent = MaxCommands /\ toStub = <<>>)
        /\ UNCHANGED vars

Next == Stub \/ Gdb \/ Over
Spec == Init /\ [][Next]_vars

\* The stub's thread is scheduled, and gdb reads what it is sent.
FairSpec == Spec /\ WF_vars(Stub) /\ WF_vars(Listen)
-----------------------------------------------------------------------------
Replies == [id : Nat, kind : {"empty", "E01", "E02", "E09", "ok", "regs", "signal",
                              "memory", "trap", "segv"},
            pc : Addrs, reg : Values]

TypeOK ==
  /\ at \in {"recv", "run", "ack", "dead"}
  /\ pc \in Addrs /\ reg \in Values
  /\ mem \in [Code -> {"orig", "ebreak", "zero"}]
  /\ dec \in [Code -> {"orig", "ebreak"}]
  /\ lastGdbSignal \in {0, 5, 11} /\ segv_blocked \in BOOLEAN
  /\ outBuf \in Replies /\ answer \in Replies
  /\ gdb \in {"idle", "unacked", "waiting"}
  /\ cmd \in AllCommands
  /\ view \in [known : BOOLEAN, pc : Addrs, reg : Values]
  /\ served \in Nat /\ retired \in Nat /\ traps \in Nat

(***************************************************************************)
(* The two ends stay in step through refused packets, replies sent again   *)
(* and interrupts: each command is obeyed once, and the reply gdb takes is *)
(* the answer to the command it sent last, never an older one.             *)
(***************************************************************************)
InStep ==
  /\ gdb = "idle" => answer.id = sent /\ served = sent
  /\ gdb = "unacked" => answer.id = sent - 1
  /\ served \in {sent - 1, sent}

(***************************************************************************)
(* What gdb believes of a stopped guest is so: the pc of the last stop     *)
(* reply, and the registers it has read and since written, are the hart's. *)
(* For sessions without a G that leaves out the pc, and a refused write    *)
(* makes gdb believe nothing.                                              *)
(***************************************************************************)
ViewCurrent ==
  gdb = "idle" /\ sent > 0 =>
    /\ answer.kind \in {"trap", "segv", "regs"} => answer.pc = pc
    /\ view.known => view.pc = pc /\ view.reg = reg

(***************************************************************************)
(* Every instruction the guest has executed is one gdb was told of, once,  *)
(* by a SIGTRAP stop: a command received twice, a stop reply sent again or *)
(* an interrupt makes nothing execute or count twice, and a stop with      *)
(* SIGSEGV has executed nothing.                                           *)
(***************************************************************************)
OneInsnPerTrap == gdb = "idle" => retired = traps

(***************************************************************************)
(* Every command is answered, unless a second fault kills the process, the *)
(* guest reaches a breakpoint, or noise and interrupts meet on the link:   *)
(* an acknowledgement left over by a stop reply sent twice can then stand  *)
(* in for that of a reply that was lost.                                   *)
(***************************************************************************)
CommandAnswered ==
  (gdb # "idle") ~> \/ gdb = "idle" \/ at = "dead" \/ Running("ebreak")
                    \/ noise > 0 /\ interrupts > 0

(***************************************************************************)
(* "Single step." (gdblink.c:429): a step at a breakpoint, like any other, *)
(* comes back to gdb.                                                      *)
(***************************************************************************)
BreakpointReported == Running("ebreak") ~> at # "run"

=============================================================================
