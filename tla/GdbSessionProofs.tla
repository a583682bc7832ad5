-------------------------- MODULE GdbSessionProofs --------------------------
(***************************************************************************)
(* Proofs about GdbSession, for sessions of any length and any number of   *)
(* damaged packets and interrupts.  What makes the two ends stay in step   *)
(* is where the packets of the current exchange stand in the two queues:   *)
(* Exchange says it, one conjunct for each of gdb's states.                *)
(***************************************************************************)
EXTENDS GdbSession, SequenceTheorems, TLAPS

\* What travels on the link.
ToStub == [is : {"+", "-", "interrupt"}] \cup [is : {"$"}, body : Commands, good : BOOLEAN]
ToGdb  == [is : {"+", "-"}] \cup [is : {"$"}, body : Replies, good : BOOLEAN]

LinkOK ==
  /\ toStub \in Seq(ToStub) /\ toGdb \in Seq(ToGdb) /\ sent \in Nat
  /\ gdb # "idle" => cmd \in Commands

\* No command is on its way to the stub; nothing but replies on its way to gdb.
Quiet == \A i \in DOMAIN toStub : toStub[i].is # "$"
Stale == \A i \in DOMAIN toGdb : toGdb[i].is = "$"

\* An acknowledgement is in the link; and one is there before place n.
AckThere == \E j \in DOMAIN toStub : toStub[j].is = "+"
AckBefore(n) == \E j \in DOMAIN toStub : j < n /\ toStub[j].is = "+"

\* The command is in the link, alone; the stub, if it still waits for the
\* acknowledgement of its last reply, meets that one first.
Sent ==
  /\ served = sent - 1 /\ at \in {"recv", "ack"} /\ Stale
  /\ \E i \in DOMAIN toStub :
       /\ toStub[i].is = "$" /\ toStub[i].body = cmd
       /\ \A j \in DOMAIN toStub : j # i => toStub[j].is # "$"
       /\ at = "ack" => AckBefore(i)

\* The stub has refused it.
Refused ==
  /\ served = sent - 1 /\ at = "recv" /\ Quiet
  /\ \E i \in DOMAIN toGdb :
       toGdb[i].is = "-" /\ \A j \in DOMAIN toGdb : j # i => toGdb[j].is = "$"

\* The stub has obeyed it: what it has sent since is the answer.
Accepted ==
  /\ served = sent /\ Quiet
  /\ \E i \in DOMAIN toGdb :
       /\ toGdb[i].is = "+"
       /\ \A j \in DOMAIN toGdb : j # i => toGdb[j].is = "$"
       /\ \A j \in DOMAIN toGdb : j > i => toGdb[j].body = outBuf
       /\ at \in {"run", "dead"} => i = Len(toGdb)

\* Between commands; and while gdb waits for the answer.
Idle ==
  /\ served = sent /\ answer.id = sent /\ at \in {"recv", "ack"}
  /\ Quiet /\ Stale
  /\ at = "ack" => AckThere

Waiting ==
  /\ served = sent /\ Quiet /\ Stale
  /\ \A i \in DOMAIN toGdb : toGdb[i].body = outBuf
  /\ at \in {"run", "dead"} => toGdb = <<>>

Exchange ==
  /\ gdb = "idle" => Idle
  /\ gdb = "unacked" => answer.id = sent - 1 /\ (Sent \/ Refused \/ Accepted)
  /\ gdb = "waiting" => Waiting

\* What SendPacket has sent last answers the command obeyed last.
Buffered == at \in {"recv", "ack"} => outBuf.id = served

\* Of the instructions executed gdb has yet to take the stop reply of one.
Answered == gdb # "idle" /\ served = sent /\ at \in {"recv", "ack"}
Told == retired = traps + (IF Answered /\ outBuf.kind = "trap" THEN 1 ELSE 0)

\* A view that is right, and a reply that makes it so.
Right(v) == v.known => v.pc = pc /\ v.reg = reg
Located(r) == r.kind \in {"trap", "segv", "regs"} => r.pc = pc
ViewInv ==
  /\ gdb = "idle" => Located(answer)
  /\ gdb = "idle" \/ served # sent => Right(view)
  /\ Answered => Right(Learned(outBuf)) /\ Located(outBuf)

SessionInv == TypeOK /\ LinkOK /\ Exchange /\ Buffered /\ Told

NoShortG == \A c \in Commands : c.op = "G" => c.text # "short"
-----------------------------------------------------------------------------
(***************************************************************************)
(* Queues: what Append and Tail leave at each place.                       *)
(***************************************************************************)
LEMMA AppendAt ==
  ASSUME NEW S, NEW q \in Seq(S), NEW e \in S
  PROVE  /\ Append(q, e) \in Seq(S)
         /\ Len(q) \in Nat /\ Len(Append(q, e)) = Len(q) + 1
         /\ DOMAIN q = 1 .. Len(q) /\ DOMAIN Append(q, e) = 1 .. Len(q) + 1
         /\ Append(q, e)[Len(q) + 1] = e
         /\ \A i \in 1 .. Len(q) : Append(q, e)[i] = q[i]
  OBVIOUS

LEMMA TailAt ==
  ASSUME NEW S, NEW q \in Seq(S), q # <<>>
  PROVE  /\ Tail(q) \in Seq(S) /\ Head(q) \in S /\ Head(q) = q[1]
         /\ Len(q) \in Nat \ {0} /\ Len(Tail(q)) = Len(q) - 1
         /\ DOMAIN q = 1 .. Len(q) /\ DOMAIN Tail(q) = 1 .. Len(q) - 1
         /\ \A i \in 1 .. Len(q) - 1 : Tail(q)[i] = q[i + 1]
  OBVIOUS

LEMMA AppendNone ==
  ASSUME NEW S, NEW q \in Seq(S), NEW e \in S
  PROVE  q \o <<>> \o <<e>> = Append(q, e)
<1>1. q \o <<>> = q
  BY SeqEqual
<1>2. q \o <<e>> = Append(q, e)
  BY SeqEqual
<1>3. QED
  BY <1>1, <1>2

LEMMA AppendTwo ==
  ASSUME NEW S, NEW q \in Seq(S), NEW a \in S, NEW e \in S
  PROVE  q \o <<a>> \o <<e>> = Append(Append(q, a), e)
<1>1. q \o <<a>> = Append(q, a)
  BY SeqEqual
<1>2. Append(q, a) \in Seq(S)
  OBVIOUS
<1> DEFINE p == Append(q, a)
<1> HIDE DEF p
<1>3. p \o <<e>> = Append(p, e)
  BY <1>2, SeqEqual DEF p
<1>4. QED
  BY <1>1, <1>3 DEF p
-----------------------------------------------------------------------------
LEMMA Messages ==
  /\ Ack \in ToStub /\ Char("-") \in ToStub /\ Char("interrupt") \in ToStub
  /\ Ack \in ToGdb /\ Char("-") \in ToGdb
  /\ \A b \in Commands, g \in BOOLEAN : Packet(b, g) \in ToStub
  /\ \A b \in Replies, g \in BOOLEAN : Packet(b, g) \in ToGdb
  BY DEF Ack, Char, Packet, ToStub, ToGdb

LEMMA SessionInit == Init => SessionInv /\ ViewInv
<1> SUFFICES ASSUME Init PROVE SessionInv /\ ViewInv
  OBVIOUS
<1>1. TypeOK
  <2>1. 1 \in Addrs /\ 0 \in Values /\ NoAddr \in Addrs \cup {NoAddr}
    BY SessionAssumption DEF Addrs, Code, Values
  <2>2. outBuf \in Replies /\ answer \in Replies
    BY <2>1 DEF Init, Replies
  <2>3. cmd \in AllCommands
    BY DEF Init, None, AllCommands, Texts
  <2>4. mem \in [Code -> {"orig", "ebreak", "zero"}] /\ dec \in [Code -> {"orig", "ebreak"}]
    BY DEF Init
  <2>5. view \in [known : BOOLEAN, pc : Addrs, reg : Values]
    BY <2>1 DEF Init
  <2>6. QED
    BY <2>1, <2>2, <2>3, <2>4, <2>5 DEF Init, TypeOK
<1>2. LinkOK
  BY DEF Init, LinkOK
<1>3. Exchange /\ Buffered /\ Told
  BY DEF Init, Exchange, Idle, Buffered, Told, Quiet, Stale, Answered
<1>4. ViewInv
  BY DEF Init, ViewInv, Located, Right, Answered
<1>5. QED
  BY <1>1, <1>2, <1>3, <1>4 DEF SessionInv
-----------------------------------------------------------------------------
(***************************************************************************)
(* What the stub's steps do to the link, whatever the command.             *)
(***************************************************************************)
\* A good packet has been taken out of the link.
Took == /\ at = "recv" /\ toStub # <<>> /\ toStub' = Tail(toStub)
        /\ Head(toStub).is = "$" /\ Head(toStub) \in ToStub
        /\ served' = served + 1 /\ retired' = retired /\ UNCHANGED peer

LEMMA SendShape ==
  ASSUME TypeOK, LinkOK, NEW r \in Replies, SendPacket(r, <<>>)
  PROVE  /\ at' = "ack" /\ outBuf' = r
         /\ \E good \in BOOLEAN : toGdb' = Append(toGdb, Packet(r, good))
<1>1. PICK good \in BOOLEAN : toGdb' = toGdb \o <<>> \o <<Packet(r, good)>>
  BY DEF SendPacket
<1>2. Packet(r, good) \in ToGdb
  BY Messages
<1>3. toGdb' = Append(toGdb, Packet(r, good))
  BY <1>1, <1>2, AppendNone DEF LinkOK
<1>4. QED
  BY <1>3 DEF SendPacket

LEMMA AnswerShape ==
  ASSUME TypeOK, LinkOK, NEW r \in Replies, SendPacket(r, <<Ack>>)
  PROVE  /\ at' = "ack" /\ outBuf' = r
         /\ \E good \in BOOLEAN : toGdb' = Append(Append(toGdb, Ack), Packet(r, good))
<1>1. PICK good \in BOOLEAN : toGdb' = toGdb \o <<Ack>> \o <<Packet(r, good)>>
  BY DEF SendPacket
<1>2. Packet(r, good) \in ToGdb /\ Ack \in ToGdb
  BY Messages
<1>3. toGdb' = Append(Append(toGdb, Ack), Packet(r, good))
  BY <1>1, <1>2, AppendTwo DEF LinkOK
<1>4. QED
  BY <1>3 DEF SendPacket

Kinds == {"empty", "E01", "E02", "E09", "ok", "regs", "signal", "memory", "trap", "segv"}

\* The reply made of what the guest is left with is being sent, after some characters.
Replied(kind) ==
  /\ at' = "ack" /\ outBuf' = [id |-> served', kind |-> kind, pc |-> pc', reg |-> reg']
  /\ outBuf' \in Replies
AfterAck  == \E good \in BOOLEAN : toGdb' = Append(Append(toGdb, Ack), Packet(outBuf', good))
AtTheEnd  == \E good \in BOOLEAN : toGdb' = Append(toGdb, Packet(outBuf', good))
Unreplied == at' \in {"run", "dead"} /\ outBuf' = outBuf /\ toGdb' = Append(toGdb, Ack)

\* What a command may leave of the guest.
GuestOK ==
  /\ pc' \in Addrs /\ reg' \in Values
  /\ mem' \in [Code -> {"orig", "ebreak", "zero"}] /\ dec' \in [Code -> {"orig", "ebreak"}]
  /\ lastGdbSignal' \in {0, 5, 11} /\ segv_blocked' \in BOOLEAN

\* A command is answered after its acknowledgement, or only acknowledged.
CommandDone ==
  /\ Took /\ GuestOK
  /\ (\E kind \in Kinds \ {"trap", "segv"} : Replied(kind) /\ AfterAck) \/ Unreplied

LEMMA ObeyShape ==
  ASSUME TypeOK, LinkOK, NEW op, Obey(op)
  PROVE  Took /\ Obeyed \in Commands /\ Obeyed.op = op /\ served' \in Nat
<1>1. toStub # <<>> /\ Head(toStub) \in ToStub
  BY TailAt DEF LinkOK, Obey, FromGdb
<1>2. Obeyed \in Commands
  BY <1>1 DEF Obey, Obeyed, ToStub
<1>3. QED
  BY <1>1, <1>2 DEF Obey, FromGdb, Took, Obeyed, TypeOK

LEMMA AnswerGives ==
  ASSUME TypeOK, LinkOK, NEW kind \in Kinds, served' \in Nat, pc' \in Addrs, reg' \in Values,
         Answer(kind)
  PROVE  Replied(kind) /\ AfterAck
<1> DEFINE r == ReplyOf(kind, pc', reg')
<1>1. r \in Replies
  BY DEF ReplyOf, Replies, Kinds
<1>2. r = [id |-> served', kind |-> kind, pc |-> pc', reg |-> reg']
  BY DEF ReplyOf
<1>3. SendPacket(r, <<Ack>>)
  BY DEF Answer
<1> HIDE DEF r
<1>4. /\ at' = "ack" /\ outBuf' = r
      /\ \E good \in BOOLEAN : toGdb' = Append(Append(toGdb, Ack), Packet(r, good))
  BY <1>1, <1>3, AnswerShape
<1>5. QED
  BY <1>1, <1>2, <1>4 DEF Replied, AfterAck

LEMMA CommandShape ==
  ASSUME TypeOK, LinkOK, Command PROVE CommandDone
<1> USE DEF Kinds
<1>0. UNCHANGED <<pc, reg, mem, dec, lastGdbSignal, segv_blocked>> => GuestOK
  BY DEF GuestOK, TypeOK
<1>1. CASE NotUnderstood
  <2>1. PICK op : Obey(op)
    BY <1>1 DEF NotUnderstood
  <2>2. Took /\ served' \in Nat
    BY <2>1, ObeyShape
  <2>3. GuestOK
    BY <1>0, <1>1 DEF NotUnderstood
  <2>4. Answer("empty") \/ Answer("E01")
    BY <1>1 DEF NotUnderstood
  <2>5. QED
    BY <2>2, <2>3, <2>4, AnswerGives DEF CommandDone, GuestOK
<1>2. CASE ReadRegisters
  <2>1. Took /\ served' \in Nat
    BY <1>2, ObeyShape DEF ReadRegisters
  <2>2. GuestOK /\ Answer("regs")
    BY <1>0, <1>2 DEF ReadRegisters
  <2>3. QED
    BY <2>1, <2>2, AnswerGives DEF CommandDone, GuestOK
<1>3. CASE LastSignal
  <2>1. Took /\ served' \in Nat
    BY <1>3, ObeyShape DEF LastSignal
  <2>2. GuestOK /\ Answer("signal")
    BY <1>0, <1>3 DEF LastSignal
  <2>3. QED
    BY <2>1, <2>2, AnswerGives DEF CommandDone, GuestOK
<1>4. CASE WriteRegisters
  <2>1. Took /\ served' \in Nat /\ Obeyed \in Commands /\ Obeyed.op = "G"
    BY <1>4, ObeyShape DEF WriteRegisters
  <2>2. pc' \in Addrs /\ reg' \in Values
    <3>1. Obeyed.text = "full" => Obeyed.addr \in Addrs
      BY <2>1, SessionAssumption DEF AllCommands
    <3>2. QED
      BY <1>4, <3>1 DEF WriteRegisters, Addrs, Bad, Values
  <2>3. GuestOK
    BY <1>4, <2>2 DEF GuestOK, TypeOK, WriteRegisters
  <2>4. Answer("E02") \/ Answer("ok")
    BY <1>4 DEF WriteRegisters
  <2>5. QED
    BY <2>1, <2>3, <2>4, AnswerGives DEF CommandDone, GuestOK
<1>5. CASE WriteRegister
  <2>1. Took /\ served' \in Nat
    BY <1>5, ObeyShape DEF WriteRegister
  <2>2. GuestOK
    BY <1>5 DEF GuestOK, TypeOK, WriteRegister, Values
  <2>3. Answer("E02") \/ Answer("ok")
    BY <1>5 DEF WriteRegister
  <2>4. QED
    BY <2>1, <2>2, <2>3, AnswerGives DEF CommandDone, GuestOK
<1>6. ASSUME NEW kind \in {"E02", "E09"}, Bombed(kind), Took, served' \in Nat,
             UNCHANGED <<pc, reg, mem, dec, lastGdbSignal>>
      PROVE  CommandDone
  <2>1. GuestOK
    BY <1>6 DEF GuestOK, TypeOK, Bombed
  <2>2. Unreplied \/ Answer(kind)
    BY <1>6 DEF Bombed, Unreplied
  <2>3. QED
    BY <1>6, <2>1, <2>2, AnswerGives DEF CommandDone, GuestOK
<1>7. CASE ReadMemory
  <2>1. Took /\ served' \in Nat
    BY <1>7, ObeyShape DEF ReadMemory
  <2>2. CASE Bombed("E09")
    <3>1. UNCHANGED <<pc, reg, mem, dec, lastGdbSignal>>
      BY <1>7 DEF ReadMemory
    <3>2. QED
      BY <1>6, <2>1, <2>2, <3>1
  <2>3. CASE Answer("memory") /\ UNCHANGED segv_blocked
    <3>1. GuestOK
      BY <1>0, <1>7, <2>3 DEF ReadMemory
    <3>2. QED
      BY <2>1, <2>3, <3>1, AnswerGives DEF CommandDone, GuestOK
  <2>4. QED
    BY <1>7, <2>2, <2>3 DEF ReadMemory
<1>8. CASE WriteMemory
  <2>1. Took /\ served' \in Nat /\ Obeyed \in Commands /\ Obeyed.op = "M" /\ Obeyed.text # "syntax"
    BY <1>8, ObeyShape DEF WriteMemory
  <2>2. CASE Bombed("E02") /\ UNCHANGED <<mem, dec>>
    <3>1. UNCHANGED <<pc, reg, mem, dec, lastGdbSignal>>
      BY <1>8, <2>2 DEF WriteMemory
    <3>2. QED
      BY <1>6, <2>1, <2>2, <3>1
  <2>3. CASE ~(Bombed("E02") /\ UNCHANGED <<mem, dec>>)
    <3> DEFINE a == Obeyed.addr
               t == Obeyed.text
    <3>1. /\ a # Bad /\ mem' = Written(a, t) /\ segv_blocked' = segv_blocked
          /\ pc' = pc /\ reg' = reg /\ lastGdbSignal' = lastGdbSignal
          /\ \/ t = "badhex" /\ Answer("E02") /\ dec' = dec
             \/ t # "badhex" /\ Answer("ok") /\ dec' = [dec EXCEPT ![a] = mem'[a]]
      BY <1>8, <2>3 DEF WriteMemory
    <3>2. a \in Code /\ t \in {"badhex", "orig", "ebreak", "two"}
      BY <2>1, <3>1, SessionAssumption DEF AllCommands, Addrs
    <3> HIDE DEF a, t
    <3>3. mem' \in [Code -> {"orig", "ebreak", "zero"}]
      BY <3>1, <3>2 DEF Written, TypeOK
    <3>4. t # "badhex" => mem'[a] \in {"orig", "ebreak"}
      BY <3>1, <3>2 DEF Written, TypeOK
    <3>5. GuestOK
      BY <3>1, <3>2, <3>3, <3>4 DEF GuestOK, TypeOK
    <3>6. QED
      BY <2>1, <3>1, <3>5, AnswerGives DEF CommandDone, GuestOK
  <2>4. QED
    BY <2>2, <2>3
<1>9. CASE Resume
  <2>1. PICK op : Obey(op)
    BY <1>9 DEF Resume
  <2>2. Took /\ Obeyed \in Commands
    BY <2>1, ObeyShape
  <2>3. GuestOK
    BY <1>9, <2>2, SessionAssumption DEF GuestOK, TypeOK, Resume, AllCommands
  <2>4. Unreplied
    BY <1>9 DEF Resume, Unreplied
  <2>5. QED
    BY <2>2, <2>3, <2>4 DEF CommandDone
<1>10. QED
  BY <1>1, <1>2, <1>3, <1>4, <1>5, <1>7, <1>8, <1>9 DEF Command

\* The guest stops: its stop reply is the only thing that is sent.
Stopped(kind) ==
  /\ at = "run" /\ Replied(kind) /\ AtTheEnd /\ GuestOK
  /\ served' = served /\ toStub' = toStub /\ UNCHANGED peer
  /\ retired' = retired + (IF kind = "trap" THEN 1 ELSE 0)

LEMMA StopGives ==
  ASSUME TypeOK, LinkOK, NEW kind \in {"trap", "segv"}, NEW signal \in {5, 11}, Stop(kind, signal),
         pc' \in Addrs, reg' \in Values, segv_blocked' \in BOOLEAN
  PROVE  /\ Replied(kind) /\ AtTheEnd /\ GuestOK
         /\ served' = served /\ toStub' = toStub /\ UNCHANGED peer
<1> DEFINE r == ReplyOf(kind, pc', reg')
<1>1. served' = served /\ served' \in Nat
  BY DEF Stop, TypeOK
<1>2. r \in Replies
  BY <1>1 DEF ReplyOf, Replies
<1>3. r = [id |-> served', kind |-> kind, pc |-> pc', reg |-> reg']
  BY DEF ReplyOf
<1>4. SendPacket(r, <<>>)
  BY DEF Stop
<1> HIDE DEF r
<1>5. /\ at' = "ack" /\ outBuf' = r
      /\ \E good \in BOOLEAN : toGdb' = Append(toGdb, Packet(r, good))
  BY <1>2, <1>4, SendShape
<1>6. GuestOK
  BY DEF GuestOK, Stop, TypeOK
<1>7. QED
  BY <1>1, <1>2, <1>3, <1>5, <1>6 DEF Replied, AtTheEnd, Stop

LEMMA InterpretShape ==
  ASSUME TypeOK, LinkOK, Interpret
  PROVE  \/ \E kind \in {"trap", "segv"} : Stopped(kind)
         \/ FaultKills \/ UNCHANGED vars
<1>1. CASE Execute
  <2>1. pc' \in Addrs
    <3>1. pc \in Code
      BY <1>1 DEF Execute, Running
    <3>2. (pc % NInsns) + 1 \in 1 .. NInsns
      BY <3>1, SessionAssumption DEF Code
    <3>3. QED
      BY <1>1, <3>2 DEF Execute, Addrs, Code
  <2>2. /\ reg' \in Values /\ retired' = retired + 1 /\ Stop("trap", 5) /\ at = "run"
        /\ segv_blocked' \in BOOLEAN
    BY <1>1 DEF Execute, Running, TypeOK
  <2>3. QED
    BY <2>1, <2>2, StopGives DEF Stopped
<1>2. CASE FaultCaught
  <2>1. /\ pc' \in Addrs /\ reg' \in Values /\ retired' = retired + 0 /\ Stop("segv", 11)
        /\ at = "run" /\ segv_blocked' \in BOOLEAN
    BY <1>2 DEF FaultCaught, Faults, Running, TypeOK
  <2>2. QED
    BY <2>1, StopGives DEF Stopped
<1>3. QED
  BY <1>1, <1>2 DEF Interpret, HitBreakpoint
-----------------------------------------------------------------------------
(***************************************************************************)
(* Types.                                                                  *)
(***************************************************************************)
LEMMA LearnedType ==
  ASSUME TypeOK, LinkOK, NEW r \in Replies, gdb # "idle"
  PROVE  Learned(r) \in [known : BOOLEAN, pc : Addrs, reg : Values]
<1>1. /\ r.pc \in Addrs /\ r.reg \in Values /\ 1 \in Values
      /\ view \in [known : BOOLEAN, pc : Addrs, reg : Values]
  BY DEF Replies, TypeOK, Values
<1>2. cmd.op = "G" /\ cmd.text = "full" => cmd.addr \in Addrs
  BY SessionAssumption DEF LinkOK, AllCommands
<1>3. CASE r.kind = "regs"
  BY <1>1, <1>3 DEF Learned
<1>4. CASE r.kind \in {"trap", "segv"}
  BY <1>1, <1>4 DEF Learned
<1>5. CASE r.kind = "E02"
  BY <1>1, <1>5 DEF Learned
<1>6. CASE r.kind = "ok" /\ cmd.op = "P"
  BY <1>1, <1>6 DEF Learned
<1>7. CASE r.kind = "ok" /\ cmd.op = "G"
  BY <1>1, <1>2, <1>7 DEF Learned
<1>8. CASE r.kind \notin {"regs", "trap", "segv", "E02"} /\ ~(r.kind = "ok" /\ cmd.op \in {"P", "G"})
  BY <1>1, <1>8 DEF Learned
<1>9. QED
  BY <1>3, <1>4, <1>5, <1>6, <1>7, <1>8

LEMMA ReplyTaken ==
  ASSUME LinkOK, toGdb # <<>>, Head(toGdb).is = "$"
  PROVE  Head(toGdb).body \in Replies /\ Head(toGdb).good \in BOOLEAN
  BY TailAt DEF LinkOK, ToGdb

LEMMA GdbTypes ==
  ASSUME TypeOK, LinkOK, Gdb PROVE TypeOK' /\ LinkOK'
<1>1. CASE Send
  <2>1. PICK c \in Commands, good \in BOOLEAN : cmd' = c /\ toStub' = Append(toStub, Packet(c, good))
    BY <1>1 DEF Send
  <2>2. toStub' \in Seq(ToStub)
    BY <2>1, Messages, AppendAt DEF LinkOK
  <2>3. cmd' \in AllCommands
    BY <2>1, SessionAssumption
  <2>4. QED
    BY <1>1, <2>1, <2>2, <2>3 DEF Send, stub, TypeOK, LinkOK
<1>2. ASSUME FromStub("+") \/ FromStub("-") \/ FromStub("$")
      PROVE  toGdb' \in Seq(ToGdb)
  BY <1>2, TailAt DEF FromStub, LinkOK
<1>3. CASE Acknowledged
  BY <1>2, <1>3 DEF Acknowledged, stub, TypeOK, LinkOK
<1>4. CASE Repeat
  <2>1. toStub' \in Seq(ToStub)
    BY <1>4, Messages, AppendAt DEF Repeat, LinkOK
  <2>2. QED
    BY <1>2, <1>4, <2>1 DEF Repeat, stub, peer, TypeOK, LinkOK
<1>5. CASE DropOld
  <2>1. toStub' \in Seq(ToStub)
    BY <1>5, Messages, AppendAt DEF DropOld, LinkOK
  <2>2. QED
    BY <1>2, <1>5, <2>1 DEF DropOld, stub, peer, TypeOK, LinkOK
<1>6. CASE TakeReply
  <2> DEFINE r == Head(toGdb).body
  <2>1. r \in Replies
    BY <1>6, ReplyTaken DEF TakeReply, FromStub
  <2>2. answer' = r /\ view' = Learned(r) /\ traps' = traps + (IF r.kind = "trap" THEN 1 ELSE 0)
    BY <1>6 DEF TakeReply
  <2>3. toStub' \in Seq(ToStub)
    BY <1>6, Messages, AppendAt DEF TakeReply, LinkOK
  <2> HIDE DEF r
  <2>4. view' \in [known : BOOLEAN, pc : Addrs, reg : Values]
    BY <1>6, <2>1, <2>2, LearnedType DEF TakeReply
  <2>5. traps' \in Nat
    BY <2>2 DEF TypeOK
  <2>6. QED
    BY <1>2, <1>6, <2>1, <2>2, <2>3, <2>4, <2>5 DEF TakeReply, stub, TypeOK, LinkOK
<1>7. CASE RefuseReply
  <2>1. toStub' \in Seq(ToStub)
    BY <1>7, Messages, AppendAt DEF RefuseReply, LinkOK
  <2>2. QED
    BY <1>2, <1>7, <2>1 DEF RefuseReply, stub, peer, TypeOK, LinkOK
<1>8. CASE Interrupt
  <2>1. toStub' \in Seq(ToStub)
    BY <1>8, Messages, AppendAt DEF Interrupt, LinkOK
  <2>2. QED
    BY <1>8, <2>1 DEF Interrupt, stub, TypeOK, LinkOK
<1>9. QED
  BY <1>1, <1>3, <1>4, <1>5, <1>6, <1>7, <1>8 DEF Gdb, Listen

LEMMA StubTypes ==
  ASSUME TypeOK, LinkOK, Stub PROVE TypeOK' /\ LinkOK'
<1>0. ASSUME NEW q \in Seq(ToGdb), NEW good \in BOOLEAN, outBuf' \in Replies
      PROVE  Append(q, Packet(outBuf', good)) \in Seq(ToGdb)
  BY <1>0, Messages, AppendAt
<1>1. FromGdb => toStub' \in Seq(ToStub)
  BY TailAt DEF FromGdb, LinkOK
<1>2. CASE GetAck
  BY <1>1, <1>2 DEF GetAck, peer, TypeOK, LinkOK
<1>3. CASE Resend
  <2>1. /\ at' = "ack" /\ outBuf' = outBuf
        /\ \E good \in BOOLEAN : toGdb' = Append(toGdb, Packet(outBuf, good))
    BY <1>3, SendShape DEF Resend, TypeOK
  <2>2. toGdb' \in Seq(ToGdb)
    BY <1>0, <2>1 DEF TypeOK, LinkOK
  <2>3. QED
    BY <1>1, <1>3, <2>1, <2>2 DEF Resend, peer, TypeOK, LinkOK
<1>4. CASE Skip
  BY <1>1, <1>4 DEF Skip, stub, peer, TypeOK, LinkOK
<1>5. CASE Refuse
  <2>1. toGdb' \in Seq(ToGdb)
    BY <1>5, Messages, AppendAt DEF Refuse, LinkOK
  <2>2. QED
    BY <1>1, <1>5, <2>1 DEF Refuse, stub, peer, TypeOK, LinkOK
<1>6. CASE Command
  <2>1. CommandDone
    BY <1>6, CommandShape
  <2>2. toStub' \in Seq(ToStub)
    BY <2>1, TailAt DEF CommandDone, Took, LinkOK
  <2>3. Append(toGdb, Ack) \in Seq(ToGdb)
    BY Messages, AppendAt DEF LinkOK
  <2>4. at' \in {"ack", "run", "dead"} /\ outBuf' \in Replies /\ toGdb' \in Seq(ToGdb)
    BY <1>0, <2>1, <2>3 DEF CommandDone, Replied, AfterAck, Unreplied, TypeOK
  <2>5. QED
    BY <2>1, <2>2, <2>4 DEF CommandDone, Took, GuestOK, peer, TypeOK, LinkOK
<1>7. ASSUME NEW kind \in {"trap", "segv"}, Stopped(kind) PROVE TypeOK' /\ LinkOK'
  <2>1. toGdb' \in Seq(ToGdb)
    BY <1>0, <1>7 DEF Stopped, Replied, AtTheEnd, LinkOK
  <2>2. retired' \in Nat
    BY <1>7 DEF Stopped, TypeOK
  <2>3. QED
    BY <1>7, <2>1, <2>2 DEF Stopped, Replied, GuestOK, peer, TypeOK, LinkOK
<1>8. CASE FaultKills
  BY <1>8 DEF FaultKills, peer, TypeOK, LinkOK
<1>9. CASE UNCHANGED vars
  BY <1>9 DEF vars, stub, peer, TypeOK, LinkOK
<1>10. QED
  BY <1>2, <1>3, <1>4, <1>5, <1>6, <1>7, <1>8, <1>9, InterpretShape DEF Stub, Protocol
-----------------------------------------------------------------------------
(***************************************************************************)
(* The exchange, over the stub's steps.                                    *)
(***************************************************************************)
\* The two queues after a character has left one, or a message has joined it.
StubShifts == /\ toStub # <<>> /\ toStub' = Tail(toStub) /\ Head(toStub) = toStub[1]
              /\ Len(toStub) \in Nat \ {0}
              /\ DOMAIN toStub = 1 .. Len(toStub) /\ DOMAIN toStub' = 1 .. Len(toStub) - 1
              /\ Len(toStub') = Len(toStub) - 1
              /\ \A i \in 1 .. Len(toStub) - 1 : toStub'[i] = toStub[i + 1]
GdbGrows(m) == /\ Len(toGdb) \in Nat /\ DOMAIN toGdb = 1 .. Len(toGdb)
               /\ DOMAIN toGdb' = 1 .. Len(toGdb) + 1
               /\ Len(toGdb') = Len(toGdb) + 1
               /\ toGdb'[Len(toGdb) + 1] = m
               /\ \A i \in 1 .. Len(toGdb) : toGdb'[i] = toGdb[i]

LEMMA StubShift == LinkOK /\ FromGdb => StubShifts
  BY TailAt DEF LinkOK, FromGdb, StubShifts

LEMMA GdbGrow ==
  ASSUME LinkOK, NEW m \in ToGdb, toGdb' = Append(toGdb, m)
  PROVE  GdbGrows(m)
  BY AppendAt DEF LinkOK, GdbGrows

LEMMA ShiftQuiet == StubShifts /\ Quiet => Quiet'
  BY DEF StubShifts, Quiet

LEMMA GrowStale ==
  ASSUME NEW m, GdbGrows(m), m.is = "$", Stale PROVE Stale'
  BY DEF GdbGrows, Stale

\* An acknowledgement that is not the first stays, one place nearer.
LEMMA ShiftAck ==
  ASSUME StubShifts, toStub[1].is # "+", NEW n \in Nat, AckBefore(n)
  PROVE  AckBefore(n - 1)'
<1>1. PICK j \in DOMAIN toStub : j < n /\ toStub[j].is = "+"
  BY DEF AckBefore
<1>2. j \in 2 .. Len(toStub)
  BY <1>1 DEF StubShifts
<1>3. j - 1 \in DOMAIN toStub' /\ toStub'[j - 1] = toStub[j] /\ j - 1 < n - 1
  BY <1>1, <1>2 DEF StubShifts
<1>4. QED
  BY <1>1, <1>3 DEF AckBefore

LEMMA ShiftThere ==
  ASSUME StubShifts, toStub[1].is # "+", AckThere
  PROVE  AckThere'
<1>1. PICK j \in DOMAIN toStub : toStub[j].is = "+"
  BY DEF AckThere
<1>2. j \in 2 .. Len(toStub)
  BY <1>1 DEF StubShifts
<1>3. j - 1 \in DOMAIN toStub' /\ toStub'[j - 1] = toStub[j]
  BY <1>2 DEF StubShifts
<1>4. QED
  BY <1>1, <1>3 DEF AckThere

\* The stub takes a character that is not the command's packet.
LEMMA TakeCharacter ==
  ASSUME SessionInv, FromGdb, Head(toStub).is # "$", at \in {"recv", "ack"}, at' \in {"recv", "ack"},
         at' = "ack" => at = "ack" /\ Head(toStub).is # "+",
         UNCHANGED <<peer, served, outBuf>>,
         \/ toGdb' = toGdb
         \/ at = "ack" /\ \E good \in BOOLEAN : toGdb' = Append(toGdb, Packet(outBuf, good))
  PROVE  Exchange'
<1> USE DEF SessionInv
<1>1. StubShifts /\ toStub[1].is # "$"
  BY StubShift DEF StubShifts
<1>2. CASE toGdb' = toGdb
  <2>1. CASE gdb = "idle"
    <3>1. Idle
      BY <2>1 DEF Exchange
    <3>2. at' = "ack" => AckThere'
      BY <1>1, <3>1, ShiftThere DEF Idle, StubShifts
    <3>3. Idle'
      BY <1>1, <1>2, <3>1, <3>2, ShiftQuiet DEF Idle, Stale, peer
    <3>4. QED
      BY <2>1, <3>3 DEF Exchange, peer
  <2>2. CASE gdb = "unacked" /\ Sent
    <3>1. PICK i \in DOMAIN toStub :
            /\ toStub[i].is = "$" /\ toStub[i].body = cmd
            /\ \A j \in DOMAIN toStub : j # i => toStub[j].is # "$"
            /\ at = "ack" => AckBefore(i)
      BY <2>2 DEF Sent
    <3>2. i \in 2 .. Len(toStub)
      BY <1>1, <3>1 DEF StubShifts
    <3>3. /\ i - 1 \in DOMAIN toStub' /\ toStub'[i - 1] = toStub[i]
          /\ \A j \in DOMAIN toStub' : j # i - 1 => toStub'[j].is # "$"
      BY <1>1, <3>1, <3>2 DEF StubShifts
    <3>4. at' = "ack" => AckBefore(i - 1)'
      BY <1>1, <3>1, <3>2, ShiftAck DEF StubShifts
    <3>5. Sent'
      BY <1>2, <2>2, <3>1, <3>3, <3>4 DEF Sent, Stale, peer
    <3>6. QED
      BY <2>2, <3>5 DEF Exchange, peer
  <2>3. CASE gdb = "unacked" /\ Refused
    <3>1. Refused'
      BY <1>1, <1>2, <2>3, ShiftQuiet DEF Refused, peer
    <3>2. QED
      BY <2>3, <3>1 DEF Exchange, peer
  <2>4. CASE gdb = "unacked" /\ Accepted
    <3>1. Accepted'
      BY <1>1, <1>2, <2>4, ShiftQuiet DEF Accepted, peer
    <3>2. QED
      BY <2>4, <3>1 DEF Exchange, peer
  <2>5. CASE gdb = "waiting"
    <3>1. Waiting'
      BY <1>1, <1>2, <2>5, ShiftQuiet DEF Exchange, Waiting, Stale, peer
    <3>2. QED
      BY <2>5, <3>1 DEF Exchange, peer
  <2>6. QED
    BY <2>1, <2>2, <2>3, <2>4, <2>5 DEF Exchange, TypeOK
<1>3. ASSUME at = "ack", NEW good \in BOOLEAN, toGdb' = Append(toGdb, Packet(outBuf, good))
      PROVE  Exchange'
  <2> DEFINE m == Packet(outBuf, good)
  <2>0. m \in ToGdb /\ m.is = "$" /\ m.body = outBuf
    BY Messages DEF Packet, TypeOK
  <2> HIDE DEF m
  <2>1. GdbGrows(m)
    BY <1>3, <2>0, GdbGrow DEF m
  <2>2. CASE gdb = "idle"
    <3>1. Idle
      BY <2>2 DEF Exchange
    <3>2. at' = "ack" => AckThere'
      BY <1>1, <3>1, ShiftThere DEF Idle, StubShifts
    <3>3. Idle'
      BY <1>1, <2>0, <2>1, <3>1, <3>2, ShiftQuiet, GrowStale DEF Idle, peer
    <3>4. QED
      BY <2>2, <3>3 DEF Exchange, peer
  <2>3. CASE gdb = "unacked" /\ Sent
    <3>1. PICK i \in DOMAIN toStub :
            /\ toStub[i].is = "$" /\ toStub[i].body = cmd
            /\ \A j \in DOMAIN toStub : j # i => toStub[j].is # "$"
            /\ at = "ack" => AckBefore(i)
      BY <2>3 DEF Sent
    <3>2. i \in 2 .. Len(toStub)
      BY <1>1, <3>1 DEF StubShifts
    <3>3. /\ i - 1 \in DOMAIN toStub' /\ toStub'[i - 1] = toStub[i]
          /\ \A j \in DOMAIN toStub' : j # i - 1 => toStub'[j].is # "$"
      BY <1>1, <3>1, <3>2 DEF StubShifts
    <3>4. at' = "ack" => AckBefore(i - 1)'
      BY <1>1, <3>1, <3>2, ShiftAck DEF StubShifts
    <3>5. Sent'
      BY <2>0, <2>1, <2>3, <3>1, <3>3, <3>4, GrowStale DEF Sent, peer
    <3>6. QED
      BY <2>3, <3>5 DEF Exchange, peer
  <2>4. CASE gdb = "unacked" /\ Refused
    BY <1>3, <2>4 DEF Refused
  <2>5. CASE gdb = "unacked" /\ Accepted
    <3>1. PICK i \in DOMAIN toGdb :
            /\ toGdb[i].is = "+"
            /\ \A j \in DOMAIN toGdb : j # i => toGdb[j].is = "$"
            /\ \A j \in DOMAIN toGdb : j > i => toGdb[j].body = outBuf
      BY <2>5 DEF Accepted
    <3>2. /\ i \in DOMAIN toGdb' /\ toGdb'[i].is = "+"
          /\ \A j \in DOMAIN toGdb' : j # i => toGdb'[j].is = "$"
          /\ \A j \in DOMAIN toGdb' : j > i => toGdb'[j].body = outBuf
      BY <2>0, <2>1, <3>1 DEF GdbGrows
    <3>3. Accepted'
      BY <1>1, <2>5, <3>2, ShiftQuiet DEF Accepted, peer
    <3>4. QED
      BY <2>5, <3>3 DEF Exchange, peer
  <2>6. CASE gdb = "waiting"
    <3>1. Waiting
      BY <2>6 DEF Exchange
    <3>2. \A i \in DOMAIN toGdb' : toGdb'[i].body = outBuf
      BY <2>0, <2>1, <3>1 DEF GdbGrows, Waiting
    <3>3. Waiting'
      BY <1>1, <2>0, <2>1, <3>1, <3>2, ShiftQuiet, GrowStale DEF Waiting, peer
    <3>4. QED
      BY <2>6, <3>3 DEF Exchange, peer
  <2>7. QED
    BY <2>2, <2>3, <2>4, <2>5, <2>6 DEF Exchange, TypeOK
<1>4. QED
  BY <1>2, <1>3

\* A packet at the head of the link is the command gdb wants acknowledged.
LEMMA CommandFirst ==
  ASSUME TypeOK, LinkOK, Exchange, StubShifts, toStub[1].is = "$"
  PROVE  gdb = "unacked" /\ Sent /\ toStub[1].body = cmd /\ Quiet'
<1>1. ~Quiet
  BY DEF Quiet, StubShifts
<1>2. gdb = "unacked" /\ Sent
  BY <1>1 DEF Exchange, Idle, Refused, Accepted, Waiting, TypeOK
<1>3. PICK i \in DOMAIN toStub :
        /\ toStub[i].is = "$" /\ toStub[i].body = cmd
        /\ \A j \in DOMAIN toStub : j # i => toStub[j].is # "$"
  BY <1>2 DEF Sent
<1>4. i = 1
  BY <1>3 DEF StubShifts
<1>5. Quiet'
  BY <1>3, <1>4 DEF Quiet, StubShifts
<1>6. QED
  BY <1>2, <1>3, <1>4, <1>5

LEMMA RefuseKeeps == ASSUME SessionInv, Refuse PROVE Exchange'
<1>1. StubShifts /\ toStub[1].is = "$"
  BY StubShift DEF Refuse, StubShifts, SessionInv
<1>2. gdb = "unacked" /\ Sent /\ Quiet'
  BY <1>1, CommandFirst DEF SessionInv
<1>3. GdbGrows(Char("-"))
  BY GdbGrow, Messages DEF Refuse, SessionInv
<1>4. Refused'
  <2>1. /\ Len(toGdb) + 1 \in DOMAIN toGdb' /\ toGdb'[Len(toGdb) + 1].is = "-"
        /\ \A j \in DOMAIN toGdb' : j # Len(toGdb) + 1 => toGdb'[j].is = "$"
    BY <1>2, <1>3 DEF GdbGrows, Char, Sent, Stale
  <2>2. at' = "recv" /\ served' = sent' - 1
    BY <1>2 DEF Refuse, Sent, stub, peer
  <2>3. QED
    BY <1>2, <2>1, <2>2 DEF Refused
<1>5. QED
  BY <1>2, <1>4 DEF Exchange, SessionInv, Refuse, peer

\* Two messages join the queue to gdb.
LEMMA GdbGrowTwice ==
  ASSUME LinkOK, NEW a \in ToGdb, NEW m \in ToGdb, toGdb' = Append(Append(toGdb, a), m)
  PROVE  /\ Len(toGdb) \in Nat /\ DOMAIN toGdb = 1 .. Len(toGdb)
         /\ DOMAIN toGdb' = 1 .. Len(toGdb) + 2
         /\ toGdb'[Len(toGdb) + 1] = a /\ toGdb'[Len(toGdb) + 2] = m
         /\ \A i \in 1 .. Len(toGdb) : toGdb'[i] = toGdb[i]
<1> DEFINE p == Append(toGdb, a)
<1>1. /\ p \in Seq(ToGdb) /\ Len(toGdb) \in Nat /\ Len(p) = Len(toGdb) + 1
      /\ DOMAIN toGdb = 1 .. Len(toGdb) /\ p[Len(toGdb) + 1] = a
      /\ \A i \in 1 .. Len(toGdb) : p[i] = toGdb[i]
  BY AppendAt DEF LinkOK
<1>2. toGdb' = Append(p, m)
  OBVIOUS
<1> HIDE DEF p
<1>3. /\ DOMAIN toGdb' = 1 .. Len(p) + 1 /\ toGdb'[Len(p) + 1] = m
      /\ \A i \in 1 .. Len(p) : toGdb'[i] = p[i]
  BY <1>1, <1>2, AppendAt
<1>4. Len(p) + 1 = Len(toGdb) + 2
  BY <1>1
<1>5. Len(toGdb) + 1 \in 1 .. Len(p) /\ \A i \in 1 .. Len(toGdb) : i \in 1 .. Len(p)
  BY <1>1
<1>6. QED
  BY <1>1, <1>3, <1>4, <1>5

\* A command obeyed leaves its acknowledgement behind whatever old replies gdb has yet
\* to drop, and its own reply, if any, behind that.
LEMMA CommandKeeps ==
  ASSUME SessionInv, CommandDone
  PROVE  Exchange' /\ Buffered' /\ Told' /\ gdb = "unacked" /\ Sent /\ Obeyed = cmd
<1> USE DEF SessionInv
<1>1. StubShifts /\ toStub[1].is = "$"
  BY StubShift DEF StubShifts, CommandDone, Took, FromGdb
<1>2. gdb = "unacked" /\ Sent /\ toStub[1].body = cmd /\ Quiet'
  BY <1>1, CommandFirst
<1>3. Obeyed = cmd
  BY <1>1, <1>2 DEF Obeyed, StubShifts
<1>4. served' = sent' /\ served = sent - 1 /\ gdb' = "unacked" /\ answer' = answer /\ sent' = sent
      /\ retired' = retired /\ traps' = traps
  BY <1>2 DEF CommandDone, Took, Sent, peer, TypeOK, LinkOK
<1>5. CASE Unreplied
  <2>1. GdbGrows(Ack)
    BY <1>5, GdbGrow, Messages DEF Unreplied
  <2>2. /\ Len(toGdb) + 1 \in DOMAIN toGdb' /\ toGdb'[Len(toGdb) + 1].is = "+"
        /\ \A j \in DOMAIN toGdb' : j # Len(toGdb) + 1 => toGdb'[j].is = "$"
        /\ \A j \in DOMAIN toGdb' : ~(j > Len(toGdb) + 1)
        /\ Len(toGdb') = Len(toGdb) + 1
    BY <1>2, <2>1 DEF GdbGrows, Ack, Char, Sent, Stale
  <2>3. Accepted'
    BY <1>2, <1>4, <2>2 DEF Accepted
  <2>4. Buffered' /\ ~Answered'
    BY <1>5 DEF Buffered, Answered, Unreplied
  <2>5. ~Answered
    BY <1>4 DEF Answered, TypeOK, LinkOK
  <2>6. QED
    BY <1>2, <1>3, <1>4, <2>3, <2>4, <2>5 DEF Exchange, Told
<1>6. CASE \E kind \in Kinds \ {"trap", "segv"} : Replied(kind) /\ AfterAck
  <2>1. PICK kind \in Kinds \ {"trap", "segv"} : Replied(kind) /\ AfterAck
    BY <1>6
  <2>2. PICK good \in BOOLEAN : toGdb' = Append(Append(toGdb, Ack), Packet(outBuf', good))
    BY <2>1 DEF AfterAck
  <2> DEFINE r == outBuf'
             m == Packet(r, good)
  <2>3. m \in ToGdb /\ m.is = "$" /\ m.body = r
    BY <2>1, Messages DEF Packet, Replied
  <2>4. toGdb' = Append(Append(toGdb, Ack), m)
    BY <2>2
  <2> HIDE DEF m
  <2>5. /\ Len(toGdb) \in Nat /\ DOMAIN toGdb = 1 .. Len(toGdb)
        /\ DOMAIN toGdb' = 1 .. Len(toGdb) + 2
        /\ toGdb'[Len(toGdb) + 1] = Ack /\ toGdb'[Len(toGdb) + 2] = m
        /\ \A i \in 1 .. Len(toGdb) : toGdb'[i] = toGdb[i]
    BY <2>3, <2>4, GdbGrowTwice, Messages
  <2>6. /\ Len(toGdb) + 1 \in DOMAIN toGdb' /\ toGdb'[Len(toGdb) + 1].is = "+"
        /\ \A j \in DOMAIN toGdb' : j # Len(toGdb) + 1 => toGdb'[j].is = "$"
        /\ \A j \in DOMAIN toGdb' : j > Len(toGdb) + 1 => toGdb'[j].body = outBuf'
    BY <1>2, <2>3, <2>5 DEF Ack, Char, Sent, Stale
  <2>7. Accepted'
    BY <1>2, <1>4, <2>1, <2>6 DEF Accepted, Replied
  <2>8. Buffered' /\ outBuf'.kind # "trap"
    BY <2>1 DEF Buffered, Replied
  <2>9. ~Answered
    BY <1>4 DEF Answered, TypeOK, LinkOK
  <2>10. QED
    BY <1>2, <1>3, <1>4, <2>7, <2>8, <2>9 DEF Exchange, Told
<1>7. QED
  BY <1>5, <1>6 DEF CommandDone

\* The stop reply answers the command that resumed the guest.
LEMMA StoppedKeeps ==
  ASSUME SessionInv, NEW kind \in {"trap", "segv"}, Stopped(kind)
  PROVE  Exchange' /\ Buffered' /\ Told'
<1> USE DEF SessionInv
<1>1. PICK good \in BOOLEAN : toGdb' = Append(toGdb, Packet(outBuf', good))
  BY DEF Stopped, AtTheEnd
<1> DEFINE r == outBuf'
           m == Packet(r, good)
<1>2. m \in ToGdb /\ m.is = "$" /\ m.body = r
  BY Messages DEF Packet, Stopped, Replied
<1>3. toGdb' = Append(toGdb, m)
  BY <1>1
<1> HIDE DEF m
<1>4. GdbGrows(m)
  BY <1>2, <1>3, GdbGrow
<1>5. Quiet /\ toStub' = toStub => Quiet'
  BY DEF Quiet
<1>6. CASE gdb = "unacked"
  <2>1. Accepted
    BY <1>6 DEF Exchange, Sent, Refused, Stopped
  <2>2. PICK i \in DOMAIN toGdb :
          /\ toGdb[i].is = "+"
          /\ \A j \in DOMAIN toGdb : j # i => toGdb[j].is = "$"
          /\ at \in {"run", "dead"} => i = Len(toGdb)
    BY <2>1 DEF Accepted
  <2>3. i = Len(toGdb)
    BY <2>2 DEF Stopped
  <2>4. /\ i \in DOMAIN toGdb' /\ toGdb'[i].is = "+"
        /\ \A j \in DOMAIN toGdb' : j # i => toGdb'[j].is = "$"
        /\ \A j \in DOMAIN toGdb' : j > i => toGdb'[j].body = outBuf'
    BY <1>2, <1>4, <2>2, <2>3 DEF GdbGrows
  <2>5. at' = "ack" /\ served' = sent' /\ Quiet'
    BY <1>5, <2>1 DEF Accepted, Stopped, Replied, peer
  <2>6. Accepted'
    BY <2>4, <2>5 DEF Accepted
  <2>7. Exchange'
    BY <1>6, <2>6 DEF Exchange, Stopped, peer
  <2>8. QED
    BY <1>6, <2>1, <2>7 DEF Buffered, Told, Answered, Accepted, Stopped, Replied, peer, TypeOK
<1>7. CASE gdb = "waiting"
  <2>1. Waiting /\ toGdb = <<>>
    BY <1>7 DEF Exchange, Waiting, Stopped
  <2>2. Stale' /\ \A i \in DOMAIN toGdb' : toGdb'[i].body = outBuf'
    BY <1>2, <1>4, <2>1 DEF GdbGrows, Stale
  <2>3. at' = "ack" /\ served' = sent' /\ Quiet'
    BY <1>5, <2>1 DEF Waiting, Stopped, Replied, peer
  <2>4. Waiting'
    BY <2>2, <2>3 DEF Waiting
  <2>5. Exchange'
    BY <1>7, <2>4 DEF Exchange, Stopped, peer
  <2>6. QED
    BY <1>7, <2>1, <2>5 DEF Buffered, Told, Answered, Waiting, Stopped, Replied, peer, TypeOK
<1>8. QED
  BY <1>6, <1>7 DEF Exchange, Idle, Stopped, TypeOK

LEMMA StubKeeps ==
  ASSUME SessionInv, Stub PROVE SessionInv'
<1> USE DEF SessionInv
<1>1. TypeOK' /\ LinkOK'
  BY StubTypes
<1>2. ASSUME at = "ack", FromGdb PROVE Head(toStub).is # "$"
  <2>1. StubShifts
    BY <1>2, StubShift
  <2>2. CASE toStub[1].is = "$"
    <3>1. Sent
      BY <2>1, <2>2, CommandFirst
    <3>2. PICK i \in DOMAIN toStub :
            /\ \A j \in DOMAIN toStub : j # i => toStub[j].is # "$"
            /\ at = "ack" => AckBefore(i)
      BY <3>1 DEF Sent
    <3>3. i = 1
      BY <2>1, <2>2, <3>2 DEF StubShifts
    <3>4. QED
      BY <1>2, <2>1, <3>2, <3>3 DEF AckBefore, StubShifts
  <2>3. QED
    BY <2>1, <2>2 DEF StubShifts
<1>3. ASSUME FromGdb, at \in {"recv", "ack"}, at' \in {"recv", "ack"},
             UNCHANGED <<peer, served, outBuf, retired>>, Exchange'
      PROVE  Exchange' /\ Buffered' /\ Told'
  BY <1>3 DEF Buffered, Told, Answered, peer
<1>4. CASE GetAck
  <2>1. /\ FromGdb /\ Head(toStub).is = "+" /\ at = "ack" /\ at' = "recv"
        /\ UNCHANGED <<peer, served, outBuf, retired>> /\ toGdb' = toGdb
    BY <1>4 DEF GetAck, FromGdb
  <2>2. QED
    BY <1>1, <1>3, <2>1, TakeCharacter
<1>5. CASE Resend
  <2>1. /\ FromGdb /\ Head(toStub).is # "+" /\ at = "ack"
        /\ UNCHANGED <<peer, served, retired>>
        /\ SendPacket(outBuf, <<>>)
    BY <1>5 DEF Resend, FromGdb
  <2>2. /\ at' = "ack" /\ outBuf' = outBuf
        /\ \E good \in BOOLEAN : toGdb' = Append(toGdb, Packet(outBuf, good))
    BY <2>1, SendShape DEF TypeOK
  <2>3. QED
    BY <1>1, <1>2, <1>3, <2>1, <2>2, TakeCharacter
<1>6. CASE Skip
  <2>1. /\ FromGdb /\ Head(toStub).is # "$" /\ at = "recv" /\ at' = "recv"
        /\ UNCHANGED <<peer, served, outBuf, retired>> /\ toGdb' = toGdb
    BY <1>6 DEF Skip, FromGdb, stub
  <2>2. QED
    BY <1>1, <1>3, <2>1, TakeCharacter
<1>7. CASE Refuse
  <2>1. /\ FromGdb /\ at = "recv" /\ at' = "recv"
        /\ UNCHANGED <<peer, served, outBuf, retired>>
    BY <1>7 DEF Refuse, FromGdb, stub
  <2>2. QED
    BY <1>1, <1>3, <1>7, <2>1, RefuseKeeps
<1>8. CASE Command
  BY <1>1, <1>8, CommandShape, CommandKeeps
<1>9. ASSUME NEW kind \in {"trap", "segv"}, Stopped(kind) PROVE SessionInv'
  BY <1>1, <1>9, StoppedKeeps
<1>10. CASE FaultKills
  <2>1. at = "run" /\ at' = "dead"
    BY <1>10 DEF FaultKills, Faults, Running
  <2>2. Exchange'
    BY <1>10, <2>1 DEF Exchange, Idle, Sent, Refused, Accepted, Waiting, Quiet, Stale,
                       FaultKills, peer, TypeOK
  <2>3. QED
    BY <1>1, <1>10, <2>1, <2>2 DEF Buffered, Told, Answered, FaultKills, peer
<1>11. CASE UNCHANGED vars
  BY <1>1, <1>11 DEF Exchange, Idle, Sent, Refused, Accepted, Waiting, Quiet, Stale, AckThere,
             AckBefore, Buffered, Told, Answered, vars, stub, peer
<1>12. QED
  BY <1>4, <1>5, <1>6, <1>7, <1>8, <1>9, <1>10, <1>11, InterpretShape DEF Stub, Protocol
-----------------------------------------------------------------------------
(***************************************************************************)
(* The exchange, over gdb's steps.                                         *)
(***************************************************************************)
GdbShifts == /\ toGdb # <<>> /\ Head(toGdb) = toGdb[1]
             /\ Len(toGdb) \in Nat \ {0}
             /\ DOMAIN toGdb = 1 .. Len(toGdb) /\ DOMAIN toGdb' = 1 .. Len(toGdb) - 1
             /\ Len(toGdb') = Len(toGdb) - 1
             /\ \A i \in 1 .. Len(toGdb) - 1 : toGdb'[i] = toGdb[i + 1]
StubGrows(m) == /\ Len(toStub) \in Nat /\ DOMAIN toStub = 1 .. Len(toStub)
                /\ DOMAIN toStub' = 1 .. Len(toStub) + 1
                /\ toStub'[Len(toStub) + 1] = m
                /\ \A i \in 1 .. Len(toStub) : toStub'[i] = toStub[i]

LEMMA GdbShift ==
  ASSUME LinkOK, NEW c, FromStub(c) PROVE GdbShifts /\ toGdb[1].is = c
  BY TailAt DEF LinkOK, FromStub, GdbShifts

LEMMA StubGrow ==
  ASSUME LinkOK, NEW m \in ToStub, toStub' = Append(toStub, m) PROVE StubGrows(m)
  BY AppendAt DEF LinkOK, StubGrows

LEMMA ShiftPlace ==
  GdbShifts => /\ \A j \in DOMAIN toGdb' : j + 1 \in DOMAIN toGdb /\ toGdb'[j] = toGdb[j + 1]
               /\ \A j \in DOMAIN toGdb' : j \in Nat \ {0}
  BY DEF GdbShifts

LEMMA ShiftStale == GdbShifts /\ Stale => Stale'
  BY ShiftPlace DEF Stale

LEMMA GrowQuiet ==
  ASSUME NEW m, StubGrows(m), m.is # "$", Quiet PROVE Quiet'
  BY DEF StubGrows, Quiet

LEMMA SendKeeps == ASSUME SessionInv, Send PROVE Exchange' /\ Buffered' /\ Told'
<1> USE DEF SessionInv
<1>1. PICK c \in Commands, good \in BOOLEAN : cmd' = c /\ toStub' = Append(toStub, Packet(c, good))
  BY DEF Send
<1> DEFINE m == Packet(c, good)
<1>2. m \in ToStub /\ m.is = "$" /\ m.body = c
  BY Messages DEF Packet
<1>3. toStub' = Append(toStub, m)
  BY <1>1
<1> HIDE DEF m
<1>4. StubGrows(m)
  BY <1>2, <1>3, StubGrow
<1>5. Idle
  BY DEF Send, Exchange
<1>6. /\ Len(toStub) + 1 \in DOMAIN toStub'
      /\ toStub'[Len(toStub) + 1].is = "$" /\ toStub'[Len(toStub) + 1].body = cmd'
      /\ \A j \in DOMAIN toStub' : j # Len(toStub) + 1 => toStub'[j].is # "$"
  BY <1>1, <1>2, <1>4, <1>5 DEF StubGrows, Idle, Quiet
<1>7. \A n : n = Len(toStub) + 1 /\ at = "ack" => AckBefore(n)'
  BY <1>4, <1>5 DEF StubGrows, Idle, AckThere, AckBefore
<1>8. PICK n : n = Len(toStub) + 1
  OBVIOUS
<1>9. Sent'
  <2>1. served' = sent' - 1 /\ at' = at /\ Stale'
    BY <1>5 DEF Idle, Send, stub, Stale, TypeOK, LinkOK
  <2>2. /\ n \in DOMAIN toStub' /\ toStub'[n].is = "$" /\ toStub'[n].body = cmd'
        /\ \A j \in DOMAIN toStub' : j # n => toStub'[j].is # "$"
        /\ at' = "ack" => AckBefore(n)'
    BY <1>6, <1>7, <1>8, <2>1
  <2>3. QED
    BY <1>5, <2>1, <2>2 DEF Sent, Idle
<1>10. gdb' = "unacked" /\ answer'.id = sent' - 1
  BY <1>5 DEF Idle, Send, TypeOK, LinkOK
<1>11. ~Answered /\ ~Answered'
  BY <1>9 DEF Sent, Answered, Send, TypeOK, LinkOK
<1>12. QED
  BY <1>9, <1>10, <1>11 DEF Exchange, Buffered, Told, Send, stub

LEMMA AcknowledgedKeeps == ASSUME SessionInv, Acknowledged PROVE Exchange'
<1> USE DEF SessionInv
<1>1. GdbShifts /\ toGdb[1].is = "+"
  BY GdbShift DEF Acknowledged
<1>2. Accepted
  <2>1. 1 \in DOMAIN toGdb
    BY <1>1 DEF GdbShifts
  <2>2. ~Sent
    BY <1>1, <2>1 DEF Sent, Stale
  <2>3. ~Refused
    BY <1>1, <2>1 DEF Refused
  <2>4. Sent \/ Refused \/ Accepted
    BY DEF Acknowledged, Exchange
  <2>5. QED
    BY <2>2, <2>3, <2>4
<1>3. PICK i \in DOMAIN toGdb :
        /\ toGdb[i].is = "+"
        /\ \A j \in DOMAIN toGdb : j # i => toGdb[j].is = "$"
        /\ \A j \in DOMAIN toGdb : j > i => toGdb[j].body = outBuf
        /\ at \in {"run", "dead"} => i = Len(toGdb)
  BY <1>2 DEF Accepted
<1>4. i = 1
  BY <1>1, <1>3 DEF GdbShifts
<1>5. Stale' /\ \A j \in DOMAIN toGdb' : toGdb'[j].body = outBuf
  <2>1. \A j \in DOMAIN toGdb' : j + 1 # 1 /\ j + 1 > 1
    BY <1>1, ShiftPlace
  <2>2. QED
    BY <1>1, <1>3, <1>4, <2>1, ShiftPlace DEF Stale
<1>6. at \in {"run", "dead"} => toGdb' = <<>>
  <2>1. at \in {"run", "dead"} => Len(toGdb') = 0
    BY <1>1, <1>3, <1>4 DEF GdbShifts
  <2>2. toGdb' \in Seq(ToGdb)
    BY GdbTypes DEF Gdb, Listen, LinkOK
  <2>3. QED
    BY <2>1, <2>2, EmptySeq
<1>7. Waiting'
  BY <1>2, <1>5, <1>6 DEF Acknowledged, Accepted, Waiting, Quiet, stub
<1>8. QED
  BY <1>7 DEF Exchange, Acknowledged

LEMMA RepeatKeeps == ASSUME SessionInv, Repeat PROVE Exchange'
<1> USE DEF SessionInv
<1>1. GdbShifts /\ toGdb[1].is = "-" /\ gdb = "unacked"
  BY GdbShift DEF Repeat
<1>2. Refused
  BY <1>1 DEF Exchange, Sent, Accepted, Stale, GdbShifts
<1>3. Stale'
  <2>1. PICK i \in DOMAIN toGdb :
          toGdb[i].is = "-" /\ \A j \in DOMAIN toGdb : j # i => toGdb[j].is = "$"
    BY <1>2 DEF Refused
  <2>2. i = 1
    BY <1>1, <2>1 DEF GdbShifts
  <2>3. \A j \in DOMAIN toGdb' : j + 1 # 1
    BY <1>1, ShiftPlace
  <2>4. QED
    BY <1>1, <2>1, <2>2, <2>3, ShiftPlace DEF Stale
<1>4. PICK good \in BOOLEAN : toStub' = Append(toStub, Packet(cmd, good))
  BY DEF Repeat
<1> DEFINE m == Packet(cmd, good)
<1>5. m \in ToStub /\ m.is = "$" /\ m.body = cmd
  BY <1>1, Messages DEF Packet, LinkOK
<1>6. toStub' = Append(toStub, m)
  BY <1>4
<1> HIDE DEF m
<1>7. StubGrows(m)
  BY <1>5, <1>6, StubGrow
<1>8. /\ Len(toStub) + 1 \in DOMAIN toStub'
      /\ toStub'[Len(toStub) + 1].is = "$" /\ toStub'[Len(toStub) + 1].body = cmd
      /\ \A j \in DOMAIN toStub' : j # Len(toStub) + 1 => toStub'[j].is # "$"
  BY <1>2, <1>5, <1>7 DEF StubGrows, Refused, Quiet
<1>9. Sent'
  BY <1>2, <1>3, <1>8 DEF Sent, Refused, Repeat, stub, peer
<1>10. QED
  BY <1>1, <1>9 DEF Exchange, Repeat, peer

LEMMA DropOldKeeps == ASSUME SessionInv, DropOld PROVE Exchange'
<1> USE DEF SessionInv
<1>1. GdbShifts /\ toGdb[1].is = "$" /\ gdb = "unacked"
  BY GdbShift DEF DropOld
<1>2. StubGrows(Ack)
  BY StubGrow, Messages DEF DropOld
<1>3. Quiet => Quiet'
  BY <1>2, GrowQuiet DEF Ack, Char
<1>4. at' = at /\ served' = served /\ outBuf' = outBuf /\ cmd' = cmd /\ sent' = sent
      /\ gdb' = gdb /\ answer' = answer
  BY DEF DropOld, stub, peer
<1>5. CASE Sent
  <2>1. PICK i \in DOMAIN toStub :
          /\ toStub[i].is = "$" /\ toStub[i].body = cmd
          /\ \A j \in DOMAIN toStub : j # i => toStub[j].is # "$"
          /\ at = "ack" => AckBefore(i)
    BY <1>5 DEF Sent
  <2>2. /\ i \in DOMAIN toStub' /\ toStub'[i] = toStub[i]
        /\ \A j \in DOMAIN toStub' : j # i => toStub'[j].is # "$"
    BY <1>2, <2>1 DEF StubGrows, Ack, Char
  <2>3. at = "ack" => AckBefore(i)'
    BY <1>2, <2>1 DEF StubGrows, AckBefore
  <2>4. Sent'
    BY <1>1, <1>4, <1>5, <2>1, <2>2, <2>3, ShiftStale DEF Sent
  <2>5. QED
    BY <1>1, <1>4, <2>4 DEF Exchange
<1>6. CASE Refused
  <2>1. PICK i \in DOMAIN toGdb :
          toGdb[i].is = "-" /\ \A j \in DOMAIN toGdb : j # i => toGdb[j].is = "$"
    BY <1>6 DEF Refused
  <2>2. i \in 2 .. Len(toGdb)
    BY <1>1, <2>1 DEF GdbShifts
  <2>3. /\ i - 1 \in DOMAIN toGdb' /\ toGdb'[i - 1].is = "-"
        /\ \A j \in DOMAIN toGdb' : j # i - 1 => toGdb'[j].is = "$"
    <3>1. i - 1 \in DOMAIN toGdb' /\ toGdb'[i - 1] = toGdb[i]
      BY <1>1, <2>2 DEF GdbShifts
    <3>2. \A j \in DOMAIN toGdb' : j # i - 1 => j + 1 # i
      BY <1>1, <2>2, ShiftPlace
    <3>3. QED
      BY <1>1, <2>1, <3>1, <3>2, ShiftPlace
  <2>4. Refused'
    BY <1>3, <1>4, <1>6, <2>3 DEF Refused
  <2>5. QED
    BY <1>1, <1>4, <2>4 DEF Exchange
<1>7. CASE Accepted
  <2>1. PICK i \in DOMAIN toGdb :
          /\ toGdb[i].is = "+"
          /\ \A j \in DOMAIN toGdb : j # i => toGdb[j].is = "$"
          /\ \A j \in DOMAIN toGdb : j > i => toGdb[j].body = outBuf
          /\ at \in {"run", "dead"} => i = Len(toGdb)
    BY <1>7 DEF Accepted
  <2>2. i \in 2 .. Len(toGdb)
    BY <1>1, <2>1 DEF GdbShifts
  <2>3. /\ i - 1 \in DOMAIN toGdb' /\ toGdb'[i - 1].is = "+"
        /\ \A j \in DOMAIN toGdb' : j # i - 1 => toGdb'[j].is = "$"
        /\ \A j \in DOMAIN toGdb' : j > i - 1 => toGdb'[j].body = outBuf
    <3>1. i - 1 \in DOMAIN toGdb' /\ toGdb'[i - 1] = toGdb[i]
      BY <1>1, <2>2 DEF GdbShifts
    <3>2. \A j \in DOMAIN toGdb' : (j # i - 1 => j + 1 # i) /\ (j > i - 1 => j + 1 > i)
      BY <1>1, <2>2, ShiftPlace
    <3>3. QED
      BY <1>1, <2>1, <3>1, <3>2, ShiftPlace
  <2>4. at \in {"run", "dead"} => i - 1 = Len(toGdb')
    BY <1>1, <2>1 DEF GdbShifts
  <2>5. Accepted'
    BY <1>3, <1>4, <1>7, <2>3, <2>4 DEF Accepted
  <2>6. QED
    BY <1>1, <1>4, <2>5 DEF Exchange
<1>8. QED
  BY <1>1, <1>5, <1>6, <1>7 DEF Exchange

\* The reply gdb takes is what the stub sent last, and that answers the last command.
LEMMA TakeReplyKeeps ==
  ASSUME SessionInv, TakeReply
  PROVE  Exchange' /\ Buffered' /\ Told' /\ Answered /\ Head(toGdb).body = outBuf
<1> USE DEF SessionInv
<1>1. GdbShifts /\ toGdb[1].is = "$" /\ gdb = "waiting"
  BY GdbShift DEF TakeReply
<1>2. Waiting /\ at \in {"recv", "ack"}
  BY <1>1 DEF Exchange, Waiting, GdbShifts, TypeOK
<1>3. Head(toGdb).body = outBuf
  BY <1>1, <1>2 DEF Waiting, GdbShifts
<1>4. /\ answer' = outBuf /\ traps' = traps + (IF outBuf.kind = "trap" THEN 1 ELSE 0)
      /\ gdb' = "idle" /\ at' = at /\ served' = served /\ sent' = sent /\ retired' = retired
      /\ outBuf' = outBuf
  BY <1>3 DEF TakeReply, stub
<1>5. StubGrows(Ack)
  BY StubGrow, Messages DEF TakeReply
<1>6. Quiet' /\ AckThere' /\ Stale'
  BY <1>1, <1>2, <1>5, GrowQuiet, ShiftStale DEF Ack, Char, StubGrows, AckThere, Waiting
<1>7. outBuf.id = sent /\ Answered
  BY <1>1, <1>2 DEF Buffered, Answered, Waiting
<1>8. Idle'
  BY <1>2, <1>4, <1>6, <1>7 DEF Idle, Waiting
<1>9. Told'
  BY <1>4, <1>7 DEF Told, Answered, TypeOK
<1>10. QED
  BY <1>3, <1>4, <1>7, <1>8, <1>9 DEF Exchange, Buffered

\* What gdb refuses, or what it interrupts, leaves the exchange where it is.
LEMMA WaitingKeeps ==
  ASSUME SessionInv, RefuseReply \/ Interrupt PROVE Exchange'
<1> USE DEF SessionInv
<1>1. gdb = "waiting" /\ gdb' = gdb /\ at' = at /\ served' = served /\ sent' = sent /\ outBuf' = outBuf
  BY DEF RefuseReply, Interrupt, stub, peer
<1>2. Waiting
  BY <1>1 DEF Exchange
<1>3. CASE RefuseReply
  <2>1. GdbShifts /\ at \notin {"run", "dead"}
    BY <1>2, <1>3, GdbShift DEF RefuseReply, Waiting, GdbShifts
  <2>2. StubGrows(Char("-"))
    BY <1>3, StubGrow, Messages DEF RefuseReply
  <2>3. Quiet' /\ Stale'
    BY <1>2, <2>1, <2>2, GrowQuiet, ShiftStale DEF Char, Waiting
  <2>4. \A j \in DOMAIN toGdb' : toGdb'[j].body = outBuf
    BY <1>2, <2>1 DEF Waiting, GdbShifts
  <2>5. Waiting'
    BY <1>1, <1>2, <2>1, <2>3, <2>4 DEF Waiting
  <2>6. QED
    BY <1>1, <2>5 DEF Exchange
<1>4. CASE Interrupt
  <2>1. StubGrows(Char("interrupt")) /\ toGdb' = toGdb
    BY <1>4, StubGrow, Messages DEF Interrupt
  <2>2. Quiet'
    BY <1>2, <2>1, GrowQuiet DEF Char, Waiting
  <2>3. Waiting'
    BY <1>1, <1>2, <2>1, <2>2 DEF Waiting, Stale
  <2>4. QED
    BY <1>1, <2>3 DEF Exchange
<1>5. QED
  BY <1>3, <1>4

LEMMA GdbKeeps == ASSUME SessionInv, Gdb PROVE SessionInv'
<1> USE DEF SessionInv
<1>1. TypeOK' /\ LinkOK'
  BY GdbTypes
<1>2. CASE Send
  BY <1>1, <1>2, SendKeeps
<1>3. CASE TakeReply
  BY <1>1, <1>3, TakeReplyKeeps
<1>4. CASE Acknowledged \/ Repeat \/ DropOld \/ RefuseReply \/ Interrupt
  <2>1. Exchange'
    BY <1>4, AcknowledgedKeeps, RepeatKeeps, DropOldKeeps, WaitingKeeps
  <2>2. /\ UNCHANGED <<at, served, outBuf, retired, traps, sent>>
        /\ gdb # "idle" /\ gdb' # "idle"
    BY <1>4 DEF Acknowledged, Repeat, DropOld, RefuseReply, Interrupt, stub, peer
  <2>3. Buffered' /\ Told'
    BY <2>2 DEF Buffered, Told, Answered
  <2>4. QED
    BY <1>1, <2>1, <2>3
<1>5. QED
  BY <1>2, <1>3, <1>4 DEF Gdb, Listen
-----------------------------------------------------------------------------
(***************************************************************************)
(* What gdb believes.                                                      *)
(***************************************************************************)
LEMMA Learning ==
  ASSUME TypeOK, NEW r
  PROVE  /\ r.kind = "regs" => Learned(r).pc = r.pc /\ Learned(r).reg = r.reg
         /\ r.kind \in {"trap", "segv", "E02"} => ~Learned(r).known
         /\ r.kind = "ok" /\ cmd.op = "P" =>
              Learned(r).known = view.known /\ Learned(r).pc = view.pc /\ Learned(r).reg = 1
         /\ r.kind = "ok" /\ cmd.op = "G" /\ cmd.text = "full" =>
              Learned(r).pc = cmd.addr /\ Learned(r).reg = 1
         /\ r.kind \in {"empty", "E01", "E09", "signal", "memory"} => Learned(r) = view
         /\ r.kind = "ok" /\ cmd.op \notin {"P", "G"} => Learned(r) = view
<1>1. view \in [known : BOOLEAN, pc : Addrs, reg : Values]
  BY DEF TypeOK
<1>2. CASE r.kind = "regs"
  BY <1>1, <1>2 DEF Learned
<1>3. CASE r.kind \in {"trap", "segv"}
  BY <1>1, <1>3 DEF Learned
<1>4. CASE r.kind = "E02"
  BY <1>1, <1>4 DEF Learned
<1>5. CASE r.kind = "ok" /\ cmd.op = "P"
  BY <1>1, <1>5 DEF Learned
<1>6. CASE r.kind = "ok" /\ cmd.op = "G"
  BY <1>1, <1>6 DEF Learned
<1>7. CASE r.kind \notin {"regs", "trap", "segv", "E02"} /\ ~(r.kind = "ok" /\ cmd.op \in {"P", "G"})
  BY <1>7 DEF Learned
<1>8. QED
  BY <1>2, <1>3, <1>4, <1>5, <1>6, <1>7

LEMMA AnswerKind ==
  ASSUME NEW kind, Answer(kind) PROVE outBuf'.kind = kind
  BY DEF Answer, SendPacket, ReplyOf

\* The answer to each command makes a right view right again.
LEMMA CommandView ==
  ASSUME NoShortG, SessionInv, ViewInv, Command PROVE ViewInv'
<1> USE DEF SessionInv
<1>1. CommandDone
  BY CommandShape
<1>2. /\ gdb = "unacked" /\ served = sent - 1 /\ Obeyed = cmd /\ Obeyed \in Commands
      /\ UNCHANGED peer /\ served' = served + 1
  BY <1>1, CommandKeeps DEF CommandDone, Took, Sent, LinkOK
<1>3. gdb' = "unacked" /\ served' = sent' /\ Right(view) /\ view' = view /\ cmd' = cmd
  BY <1>2 DEF ViewInv, peer, TypeOK, LinkOK
<1>4. CASE Unreplied
  BY <1>3, <1>4 DEF Unreplied, ViewInv, Answered
<1>5. ASSUME NEW kind \in Kinds \ {"trap", "segv"}, Replied(kind) PROVE ViewInv'
  <2> DEFINE r == outBuf'
  <2>1. /\ r.kind = kind /\ r.pc = pc' /\ r.reg = reg' /\ at' = "ack"
    BY <1>5 DEF Replied
  <2>2. Learned(outBuf)' = Learned(r)
    BY <1>3 DEF Learned
  <2>3. view.known => view.pc = pc /\ view.reg = reg
    BY <1>3 DEF Right
  <2> HIDE DEF r
  <2>4. Learned(r).known => Learned(r).pc = pc' /\ Learned(r).reg = reg'
    <3>1. CASE NotUnderstood
      <4>1. kind \in {"empty", "E01"} /\ pc' = pc /\ reg' = reg
        BY <2>1, <3>1, AnswerKind DEF NotUnderstood, r
      <4>2. QED
        BY <2>1, <2>3, <4>1, Learning
    <3>2. CASE ReadRegisters
      <4>1. kind = "regs"
        BY <2>1, <3>2, AnswerKind DEF ReadRegisters, r
      <4>2. QED
        BY <2>1, <4>1, Learning
    <3>3. CASE LastSignal
      <4>1. kind = "signal" /\ pc' = pc /\ reg' = reg
        BY <2>1, <3>3, AnswerKind DEF LastSignal, r
      <4>2. QED
        BY <2>1, <2>3, <4>1, Learning
    <3>4. CASE WriteRegisters
      <4>1. cmd.op = "G" /\ cmd.text \in {"badhex", "full"}
        BY <1>2, <3>4, SessionAssumption DEF NoShortG, WriteRegisters, Obey, Obeyed
      <4>2. kind = IF cmd.text = "badhex" THEN "E02" ELSE "ok"
        BY <1>2, <2>1, <3>4, AnswerKind DEF WriteRegisters, r
      <4>3. cmd.text = "full" => pc' = cmd.addr /\ reg' = 1
        BY <1>2, <3>4 DEF WriteRegisters
      <4>4. QED
        BY <2>1, <4>1, <4>2, <4>3, Learning
    <3>5. CASE WriteRegister
      <4>1. cmd.op = "P" /\ pc' = pc
        BY <1>2, <3>5 DEF WriteRegister, Obey, Obeyed
      <4>2. kind = IF cmd.text = "badhex" THEN "E02" ELSE "ok"
        BY <1>2, <2>1, <3>5, AnswerKind DEF WriteRegister, r
      <4>3. cmd.text # "badhex" => reg' = 1
        BY <1>2, <3>5 DEF WriteRegister
      <4>4. QED
        BY <2>1, <2>3, <4>1, <4>2, <4>3, Learning
    <3>6. CASE ReadMemory
      <4>1. kind \in {"memory", "E09"} /\ pc' = pc /\ reg' = reg
        BY <2>1, <3>6, AnswerKind DEF ReadMemory, Bombed, r
      <4>2. QED
        BY <2>1, <2>3, <4>1, Learning
    <3>7. CASE WriteMemory
      <4>1. cmd.op = "M" /\ pc' = pc /\ reg' = reg
        BY <1>2, <3>7 DEF WriteMemory, Obey, Obeyed
      <4>2. Answer("E02") \/ Answer("ok")
        BY <2>1, <3>7 DEF WriteMemory, Bombed
      <4>3. kind \in {"E02", "ok"}
        BY <2>1, <4>2, AnswerKind DEF r
      <4>4. QED
        BY <2>1, <2>3, <4>1, <4>3, Learning
    <3>8. ~Resume
      BY <2>1 DEF Resume
    <3>9. QED
      BY <3>1, <3>2, <3>3, <3>4, <3>5, <3>6, <3>7, <3>8 DEF Command
  <2>5. Right(Learned(outBuf))'
    BY <2>2, <2>4 DEF Right
  <2>6. Located(outBuf)'
    BY <2>1 DEF Located, r
  <2>7. QED
    BY <1>3, <2>5, <2>6 DEF ViewInv
<1>6. QED
  BY <1>1, <1>4, <1>5 DEF CommandDone

LEMMA StubView ==
  ASSUME NoShortG, SessionInv, ViewInv, Stub PROVE ViewInv'
<1> USE DEF SessionInv
<1>1. ASSUME at \in {"recv", "ack"}, UNCHANGED <<peer, pc, reg, served, outBuf>> PROVE ViewInv'
  BY <1>1 DEF ViewInv, Located, Right, Answered, Learned, peer
<1>2. CASE Protocol
  <2>1. at \in {"recv", "ack"} /\ UNCHANGED <<peer, pc, reg, served>>
    BY <1>2 DEF Protocol, GetAck, Resend, Skip, Refuse, stub
  <2>2. outBuf' = outBuf
    BY <1>2 DEF Protocol, GetAck, Resend, Skip, Refuse, stub, SendPacket
  <2>3. QED
    BY <1>1, <2>1, <2>2
<1>3. CASE Command
  BY <1>3, CommandView
<1>4. at = "run" => gdb # "idle" /\ served = sent
  BY DEF Exchange, Idle, Sent, Refused, Accepted, Waiting, TypeOK
<1>5. ASSUME NEW kind \in {"trap", "segv"}, Stopped(kind) PROVE ViewInv'
  <2>1. /\ outBuf'.kind = kind /\ outBuf'.pc = pc' /\ gdb' # "idle" /\ served' = sent'
        /\ UNCHANGED peer
    BY <1>4, <1>5 DEF Stopped, Replied, peer
  <2>2. Learned(outBuf)' = Learned(outBuf')
    BY <2>1 DEF Learned, peer
  <2>3. ~Learned(outBuf').known
    BY <2>1, Learning
  <2>4. QED
    BY <2>1, <2>2, <2>3 DEF ViewInv, Located, Right
<1>6. CASE FaultKills
  <2>1. at = "run" /\ at' = "dead" /\ gdb' = gdb /\ served' = served /\ sent' = sent
    BY <1>6 DEF FaultKills, Faults, Running, peer
  <2>2. QED
    BY <1>4, <2>1 DEF ViewInv, Answered
<1>7. CASE UNCHANGED vars
  BY <1>7 DEF ViewInv, Located, Right, Answered, Learned, vars, stub, peer
<1>8. QED
  BY <1>2, <1>3, <1>5, <1>6, <1>7, InterpretShape DEF Stub

LEMMA GdbView ==
  ASSUME SessionInv, ViewInv, Gdb PROVE ViewInv'
<1>1. CASE Send
  <2>1. gdb = "idle" /\ gdb' = "unacked" /\ view' = view /\ pc' = pc /\ reg' = reg
        /\ served' = served /\ sent' = sent + 1
    BY <1>1 DEF Send, stub
  <2>2. served = sent
    BY <2>1 DEF SessionInv, Exchange, Idle
  <2>3. Right(view)'
    BY <2>1 DEF ViewInv, Right
  <2>4. ~Answered'
    BY <2>1, <2>2 DEF Answered, SessionInv, LinkOK
  <2>5. QED
    BY <2>1, <2>3, <2>4 DEF ViewInv
<1>2. CASE TakeReply
  <2>1. Answered /\ Head(toGdb).body = outBuf
    BY <1>2, TakeReplyKeeps
  <2>2. answer' = outBuf /\ view' = Learned(outBuf) /\ pc' = pc /\ reg' = reg /\ gdb' = "idle"
    BY <1>2, <2>1 DEF TakeReply, stub
  <2>3. QED
    BY <2>1, <2>2 DEF ViewInv, Right, Located, Answered
<1>3. CASE Acknowledged \/ Repeat \/ DropOld \/ RefuseReply \/ Interrupt
  <2>1. UNCHANGED <<stub, cmd, view, sent>> /\ gdb # "idle" /\ gdb' # "idle"
    BY <1>3 DEF Acknowledged, Repeat, DropOld, RefuseReply, Interrupt, peer
  <2>2. QED
    BY <2>1 DEF ViewInv, Located, Right, Answered, Learned, stub
<1>4. QED
  BY <1>1, <1>2, <1>3 DEF Gdb, Listen
-----------------------------------------------------------------------------
LEMMA NextKeeps == SessionInv /\ [Next]_vars => SessionInv'
<1>1. ASSUME SessionInv, UNCHANGED vars PROVE SessionInv'
  BY <1>1 DEF SessionInv, TypeOK, LinkOK, Exchange, Idle, Sent, Refused, Accepted, Waiting, Quiet,
              Stale, AckThere, AckBefore, Buffered, Told, Answered, vars, stub, peer
<1>2. QED
  BY <1>1, StubKeeps, GdbKeeps DEF Next, Over

LEMMA NextView == NoShortG /\ SessionInv /\ ViewInv /\ [Next]_vars => ViewInv'
<1>1. ASSUME ViewInv, UNCHANGED vars PROVE ViewInv'
  BY <1>1 DEF ViewInv, Located, Right, Answered, Learned, vars, stub, peer
<1>2. QED
  BY <1>1, StubView, GdbView DEF Next, Over

(***************************************************************************)
(* Each end is always in a state gdblink.c and the loop around it provide  *)
(* for, however long the session and however noisy the link.               *)
(***************************************************************************)
THEOREM SessionTypes == Spec => []TypeOK
<1>1. SessionInv => TypeOK
  BY DEF SessionInv
<1>2. QED
  BY <1>1, SessionInit, NextKeeps, PTL DEF Spec

(***************************************************************************)
(* Each command is obeyed once, and the reply gdb takes answers the        *)
(* command it sent last, through any number of refused packets, replies    *)
(* sent again by SendPacket and interrupt characters.                      *)
(***************************************************************************)
THEOREM SessionInStep == Spec => []InStep
<1>1. SessionInv => InStep
  BY DEF SessionInv, LinkOK, Exchange, Idle, Sent, Refused, Accepted, Waiting, InStep, TypeOK
<1>2. QED
  BY <1>1, SessionInit, NextKeeps, PTL DEF Spec

(***************************************************************************)
(* The guest executes exactly one instruction for each SIGTRAP stop gdb is *)
(* told of: nothing on the link steps the guest twice.                     *)
(***************************************************************************)
THEOREM SessionTraps == Spec => []OneInsnPerTrap
<1>1. SessionInv => OneInsnPerTrap
  BY DEF SessionInv, TypeOK, Told, Answered, OneInsnPerTrap
<1>2. QED
  BY <1>1, SessionInit, NextKeeps, PTL DEF Spec

(***************************************************************************)
(* Between commands gdb's view of pc and registers is the hart's, in every *)
(* session without a G packet that leaves out the pc (the stub answers     *)
(* that one OK after clearing the pc: gdblink.c's RcvHexToMemory).         *)
(***************************************************************************)
THEOREM SessionView == ASSUME NoShortG PROVE Spec => []ViewCurrent
<1>1. ViewInv => ViewCurrent
  BY DEF ViewInv, Located, Right, ViewCurrent
<1>2. SessionInv /\ ViewInv /\ [Next]_vars => SessionInv' /\ ViewInv'
  BY NextKeeps, NextView
<1>3. QED
  BY <1>1, <1>2, SessionInit, PTL DEF Spec
=============================================================================
