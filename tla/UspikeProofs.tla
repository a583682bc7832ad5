---------------------------- MODULE UspikeProofs ----------------------------
(***************************************************************************)
(* What uspike does around the instructions it interprets: the two         *)
(* counters that its threads advance by compare-and-swap, malloc's pooltop *)
(* (SimPool) and incr_count's total_insns (InsnCount), for any number of   *)
(* threads; and its start (StartUp, with Options), for any command line,   *)
(* program and environment.                                                *)
(***************************************************************************)
EXTENDS SimPool, InsnCount, StartUp, SumTheorems, SequenceTheorems, TLAPS

(***************************************************************************)
(* SimPool.                                                                *)
(***************************************************************************)
\* A thread about to swap computed its end from the top it will compare with,
\* and that end was inside the pool.
SwapReady ==
  \A t \in Threads :
    /\ where[t] # "idle" => size[t] \in Sizes
    /\ where[t] = "swap" => /\ after[t] = rv[t] + size[t] + Align
                         /\ after[t] <= PoolSize

TopAligned == pooltop % Align = 0

PoolInv == PoolTypeOK /\ SwapReady /\ TopAligned
             /\ Frontier /\ InPool /\ NoOverlap

(***************************************************************************)
(* Rounding down the end that allowed 16 bytes for alignment still leaves  *)
(* room for the block.                                                     *)
(***************************************************************************)
LEMMA RoundDownBounds ==
  \A a \in Nat : /\ RoundDown(a) \in Nat
                 /\ RoundDown(a) % Align = 0
                 /\ a - Align < RoundDown(a) /\ RoundDown(a) <= a
  BY SMT DEF RoundDown, Align

LEMMA PoolStarts == PoolInit => PoolInv
  BY PoolAssumption, SMT DEF PoolInit, PoolInv, PoolTypeOK, SwapReady,
     TopAligned, Frontier, InPool, NoOverlap, Align, Blocks

LEMMA PoolStep == ASSUME PoolInv, [PoolNext]_poolvars PROVE PoolInv'
<1> USE DEF PoolInv, PoolTypeOK
<1>0. \A t \in Threads : /\ size[t] \in Nat /\ rv[t] \in Nat
                         /\ after[t] \in Nat
  <2>1. Sizes \cup {0} \subseteq Nat
    BY PoolAssumption
  <2>2. QED
    BY <2>1
<1>1. ASSUME NEW t \in Threads, Call(t) PROVE PoolInv'
  BY <1>1 DEF Call, SwapReady, TopAligned, Frontier, InPool, NoOverlap
<1>2. ASSUME NEW t \in Threads, LoadTop(t) PROVE PoolInv'
  <2>1. pooltop + size[t] + Align \in Nat
    BY <1>0 DEF Align
  <2>2. PoolTypeOK'
    BY <1>2, <2>1, PoolAssumption DEF LoadTop, End
  <2>3. SwapReady'
    BY <1>2, <2>1 DEF LoadTop, End, SwapReady
  <2>4. UNCHANGED <<pooltop, blocks>>
    BY <1>2 DEF LoadTop
  <2>5. (TopAligned /\ Frontier /\ InPool /\ NoOverlap)'
    BY <2>4 DEF TopAligned, Frontier, InPool, NoOverlap
  <2>6. QED
    BY <2>2, <2>3, <2>5
<1>3. ASSUME NEW t \in Threads, PoolExhausted(t) \/ SwapTopLost(t) PROVE PoolInv'
  BY <1>3 DEF PoolExhausted, Return, SwapTopLost, SwapReady, TopAligned,
              Frontier, InPool, NoOverlap
<1>4. ASSUME NEW t \in Threads, SwapTop(t) PROVE PoolInv'
  <2> DEFINE b == [base |-> rv[t], size |-> size[t]]
  <2>1. /\ pooltop = rv[t] /\ pooltop' = RoundDown(after[t])
        /\ after[t] = rv[t] + size[t] + Align /\ after[t] <= PoolSize
        /\ size[t] \in Sizes /\ blocks' = blocks \cup {b}
    BY <1>4 DEF SwapTop, SwapReady
  <2> HIDE DEF b
  <2>2. /\ b \in Blocks /\ b.base = pooltop /\ b.base \in Nat
        /\ b.size = size[t] /\ b.size \in Nat
    BY <1>0, <2>1 DEF b, Blocks
  <2>3. \A c \in blocks : c.base \in Nat /\ c.size \in Nat
    BY PoolAssumption DEF Blocks
  <2>4. /\ pooltop' \in Nat /\ pooltop' % Align = 0
        /\ b.base + b.size < pooltop' /\ pooltop' <= PoolSize
    BY <1>0, <2>1, <2>2, RoundDownBounds, PoolAssumption DEF Align
  <2>5. pooltop < pooltop'
    BY <2>2, <2>4
  <2>6. PoolTypeOK' /\ SwapReady'
    BY <1>4, <2>1, <2>4, <2>2 DEF SwapTop, Return, SwapReady
  <2>7. TopAligned' /\ InPool'
    BY <2>1, <2>4, <2>5, <2>2, <2>3, PoolAssumption DEF TopAligned, InPool, Align
  <2>8. Frontier'
    BY <2>1, <2>4, <2>5, <2>2, <2>3 DEF Frontier
  <2>9. NoOverlap'
    BY <2>1, <2>2, <2>3 DEF NoOverlap, Frontier
  <2>10. QED
    BY <2>6, <2>7, <2>8, <2>9
<1>5. CASE UNCHANGED poolvars
  BY <1>5 DEF poolvars, SwapReady, TopAligned, Frontier, InPool, NoOverlap
<1>6. QED
  BY <1>1, <1>2, <1>3, <1>4, <1>5 DEF PoolNext, Malloc

LEMMA PoolInvariant == PoolSpec => []PoolInv
  BY PoolStarts, PoolStep, PTL DEF PoolSpec

\* The results and the tops malloc computes are addresses in any pool.
THEOREM PoolTypes == PoolSpec => []PoolTypeOK
<1>1. PoolInv => PoolTypeOK
  BY DEF PoolInv
<1>2. QED
  BY PoolInvariant, <1>1, PTL

(***************************************************************************)
(* No two calls of malloc are given the same byte, for any number of       *)
(* threads and any sizes.                                                  *)
(***************************************************************************)
THEOREM PoolSafe == PoolSpec => []NoOverlap
<1>1. PoolInv => NoOverlap
  BY DEF PoolInv
<1>2. QED
  BY PoolInvariant, <1>1, PTL

\* Everything from pooltop up is unused, so calloc need not clear it.
THEOREM FrontierSafe == PoolSpec => []Frontier
<1>1. PoolInv => Frontier
  BY DEF PoolInv
<1>2. QED
  BY PoolInvariant, <1>1, PTL

\* Blocks are aligned and end inside the pool, however full it is.
THEOREM BoundsSafe == PoolSpec => []InPool
<1>1. PoolInv => InPool
  BY DEF PoolInv
<1>2. QED
  BY PoolInvariant, <1>1, PTL
-----------------------------------------------------------------------------
(***************************************************************************)
(* InsnCount.                                                              *)
(***************************************************************************)
Adding(h, places) == at[h] \in {"load", "swap"} /\ then[h] \in places

\* Where the counter already includes the slice, and where it lags by it.
Settled(h) == \/ at[h] \in {"syscall", "report", "exiting", "done"}
              \/ Adding(h, {"syscall", "report"})
Lagging(h) == at[h] \in {"run", "ecalled", "off"} \/ Adding(h, {"ecalled"})

CountInv ==
  /\ CountTypeOK
  /\ \A h \in Harts :
       /\ Settled(h) \/ Lagging(h)
       /\ Settled(h) => executed[h] = retired[h]
       /\ Lagging(h) => executed[h] + insns[h] = retired[h]

LEMMA CountStep == CountInv /\ [CountNext]_countvars => CountInv'
<1> SUFFICES ASSUME CountInv, [CountNext]_countvars PROVE CountInv'
  OBVIOUS
<1> USE CountAssumption DEF CountInv, CountTypeOK, Places, Settled, Lagging, Adding
<1>1. ASSUME NEW h \in Harts, Instruction(h) PROVE CountInv'
  BY <1>1 DEF Instruction, Retire, IncrCount
<1>2. ASSUME NEW h \in Harts, Breakpoint(h) PROVE CountInv'
  BY <1>2 DEF Breakpoint, IncrCount
<1>3. ASSUME NEW h \in Harts, Ecall(h) PROVE CountInv'
  BY <1>3 DEF Ecall, IncrCount
<1>4. ASSUME NEW h \in Harts, Spawn(h) PROVE CountInv'
  BY <1>4 DEF Spawn
<1>5. ASSUME NEW h \in Harts, SyscallReturns(h) PROVE CountInv'
  BY <1>5 DEF SyscallReturns, IncrCount
<1>6. ASSUME NEW h \in Harts, EcallRetires(h) PROVE CountInv'
  <2>1. CASE insns[h] + 1 < HowMany
    BY <1>6, <2>1 DEF EcallRetires, Retire
  <2>2. CASE ~(insns[h] + 1 < HowMany)
    <3>1. /\ at' = [at EXCEPT ![h] = "load"]
          /\ executed' = [executed EXCEPT ![h] = @ + (insns[h] + 1)]
          /\ delta' = [delta EXCEPT ![h] = insns[h] + 1]
          /\ then' = [then EXCEPT ![h] = "report"]
          /\ retired' = [retired EXCEPT ![h] = @ + 1]
          /\ insns' = [insns EXCEPT ![h] = @ + 1]
          /\ UNCHANGED <<total, oldtotal>>
          /\ at[h] = "ecalled"
      BY <1>6, <2>2, Zenon DEF EcallRetires, Retire, IncrCount
    <3>2. QED
      BY <3>1
  <2>3. QED
    BY <2>1, <2>2
<1>7. ASSUME NEW h \in Harts, SyscallExits(h) PROVE CountInv'
  BY <1>7 DEF SyscallExits
<1>8. ASSUME NEW h \in Harts, LoadTotal(h) PROVE CountInv'
  BY <1>8 DEF LoadTotal
<1>9. ASSUME NEW h \in Harts, SwapTotal(h) PROVE CountInv'
  BY <1>9 DEF SwapTotal
<1>10. ASSUME NEW h \in Harts, SwapLost(h) PROVE CountInv'
  BY <1>10 DEF SwapLost
<1>11. ASSUME NEW h \in Harts, Report(h) PROVE CountInv'
  BY <1>11 DEF Report
<1>12. ASSUME NEW h \in Harts, ExitReport(h) PROVE CountInv'
  BY <1>12 DEF ExitReport
<1>13. CASE UNCHANGED countvars
  BY <1>13 DEF countvars
<1>14. QED
  BY <1>1, <1>2, <1>3, <1>4, <1>5, <1>6, <1>7,
     <1>8, <1>9, <1>10, <1>11, <1>12, <1>13 DEF CountNext

LEMMA CountInvariant == CountSpec => []CountInv
<1>1. CountInit => CountInv
  BY CountAssumption DEF CountInit, CountInv, CountTypeOK, Places, Settled, Lagging, Adding
<1>2. QED
  BY <1>1, CountStep, PTL DEF CountSpec

\* A slice never counts below zero; what is added to the total may be negative.
THEOREM CountTypes == CountSpec => []CountTypeOK
<1>1. CountInv => CountTypeOK
  BY DEF CountInv
<1>2. QED
  BY CountInvariant, <1>1, PTL

(***************************************************************************)
(* During a system call and in a report a hart's counter is what it has    *)
(* retired.                                                                *)
(***************************************************************************)
THEOREM CountSafe == CountSpec => []CountExact
<1>1. CountInv => CountExact
  BY DEF CountInv, CountExact, Settled
<1>2. QED
  BY CountInvariant, <1>1, PTL

(***************************************************************************)
(* Between them it lags by the current slice alone: what proxy_ecall adds  *)
(* for a system call, it takes back.                                       *)
(***************************************************************************)
THEOREM DriftSafe == CountSpec => []NoDrift
<1>1. CountInv => NoDrift
  BY DEF CountInv, NoDrift, Lagging
<1>2. QED
  BY CountInvariant, <1>1, PTL

(***************************************************************************)
(* The total.  It lags behind the sum of the harts' counters by what is in *)
(* transit between the two halves of incr_count, and nothing else is.      *)
(***************************************************************************)
InTransit ==
  \A h \in Harts :
    /\ insns[h] <= retired[h]
    /\ at[h] \notin {"load", "swap"} => delta[h] = 0
    /\ Adding(h, {"syscall", "report"}) => delta[h] = insns[h]
    /\ Adding(h, {"ecalled"}) => delta[h] = -insns[h]

LEMMA TransitStep == CountInv /\ InTransit /\ [CountNext]_countvars => InTransit'
<1> SUFFICES ASSUME CountInv, InTransit, [CountNext]_countvars PROVE InTransit'
  OBVIOUS
<1> USE CountAssumption DEF CountInv, InTransit, CountTypeOK, Places, Settled, Lagging, Adding
<1>1. ASSUME NEW h \in Harts, Instruction(h) PROVE InTransit'
  BY <1>1 DEF Instruction, Retire, IncrCount
<1>2. ASSUME NEW h \in Harts, Breakpoint(h) PROVE InTransit'
  BY <1>2 DEF Breakpoint, IncrCount
<1>3. ASSUME NEW h \in Harts, Ecall(h) PROVE InTransit'
  BY <1>3 DEF Ecall, IncrCount
<1>4. ASSUME NEW h \in Harts, Spawn(h) PROVE InTransit'
  BY <1>4 DEF Spawn
<1>5. ASSUME NEW h \in Harts, SyscallReturns(h) PROVE InTransit'
  BY <1>5 DEF SyscallReturns, IncrCount
<1>6. ASSUME NEW h \in Harts, EcallRetires(h) PROVE InTransit'
  <2>1. CASE insns[h] + 1 < HowMany
    BY <1>6, <2>1 DEF EcallRetires, Retire
  <2>2. CASE ~(insns[h] + 1 < HowMany)
    BY <1>6, <2>2 DEF EcallRetires, Retire, IncrCount
  <2>3. QED
    BY <2>1, <2>2
<1>7. ASSUME NEW h \in Harts, SyscallExits(h) PROVE InTransit'
  BY <1>7 DEF SyscallExits
<1>8. ASSUME NEW h \in Harts, LoadTotal(h) PROVE InTransit'
  BY <1>8 DEF LoadTotal
<1>9. ASSUME NEW h \in Harts, SwapTotal(h) PROVE InTransit'
  BY <1>9 DEF SwapTotal
<1>10. ASSUME NEW h \in Harts, SwapLost(h) PROVE InTransit'
  BY <1>10 DEF SwapLost
<1>11. ASSUME NEW h \in Harts, Report(h) PROVE InTransit'
  BY <1>11 DEF Report
<1>12. ASSUME NEW h \in Harts, ExitReport(h) PROVE InTransit'
  BY <1>12 DEF ExitReport
<1>13. CASE UNCHANGED countvars
  BY <1>13 DEF countvars
<1>14. QED
  BY <1>1, <1>2, <1>3, <1>4, <1>5, <1>6, <1>7,
     <1>8, <1>9, <1>10, <1>11, <1>12, <1>13 DEF CountNext

LEMMA Totals ==
  CountTypeOK => (TotalConserved <=>
               total = SumFunctionOnSet(executed, Harts) - SumFunctionOnSet(delta, Harts))
  BY DEF CountTypeOK, TotalConserved, SumFunction

\* What incr_count adds to a counter it owes to the total.
LEMMA CountingKeepsTotal ==
  ASSUME CountInv, InTransit, TotalConserved, NEW h \in Harts, NEW n \in Int, NEW p,
         at[h] \notin {"load", "swap"}, IncrCount(h, n, p), CountTypeOK'
  PROVE  TotalConserved'
<1> USE CountAssumption DEF CountInv, CountTypeOK
<1> DEFINE e == SumFunctionOnSet(executed, Harts)
           d == SumFunctionOnSet(delta, Harts)
<1>1. total = e - d
  BY Totals
<1>2. SumFunctionOnSet(executed', Harts) = e + n
  <2> DEFINE f == executed'
  <2>1. f[h] = executed[h] + n /\ \A x \in Harts \ {h} : f[x] = executed[x]
    BY DEF IncrCount
  <2> HIDE DEF f
  <2>2. SumFunctionOnSet(f, Harts) = e + n
    BY <2>1, SumBump
  <2>3. QED
    BY <2>2 DEF f
<1>3. SumFunctionOnSet(delta', Harts) = d + n
  <2> DEFINE f == delta'
  <2>1. f[h] = delta[h] + n /\ \A x \in Harts \ {h} : f[x] = delta[x]
    BY DEF IncrCount, InTransit
  <2> HIDE DEF f
  <2>2. SumFunctionOnSet(f, Harts) = d + n
    BY <2>1, SumBump
  <2>3. QED
    BY <2>2 DEF f
<1>4. e \in Int /\ d \in Int /\ total' = total
  BY SumRemove DEF IncrCount
<1> HIDE DEF e, d
<1>5. total' = (e + n) - (d + n)
  BY <1>1, <1>4
<1>6. QED
  BY <1>2, <1>3, <1>5 DEF TotalConserved, SumFunction

\* A swap that succeeds found the total it had loaded, and pays what it owes.
LEMMA SwapKeepsTotal ==
  ASSUME CountInv, TotalConserved, NEW h \in Harts, SwapTotal(h), CountTypeOK'
  PROVE  TotalConserved'
<1> USE CountAssumption DEF CountInv, CountTypeOK
<1> DEFINE e == SumFunctionOnSet(executed, Harts)
           d == SumFunctionOnSet(delta, Harts)
<1>1. total = e - d
  BY Totals
<1>2. SumFunctionOnSet(delta', Harts) = d + (-delta[h])
  <2> DEFINE f == delta'
             m == -delta[h]
  <2>1. f[h] = delta[h] + m /\ m \in Int /\ \A x \in Harts \ {h} : f[x] = delta[x]
    BY DEF SwapTotal
  <2> HIDE DEF f, m
  <2>2. SumFunctionOnSet(f, Harts) = d + m
    BY SMTT(30), <2>1, SumBump
  <2>3. QED
    BY <2>2 DEF f, m
<1>3. e \in Int /\ d \in Int /\ delta[h] \in Int
  BY SumRemove
<1>4. total' = total + delta[h] /\ executed' = executed
  BY DEF SwapTotal
<1> HIDE DEF e, d
<1>5. total' = e - (d + (-delta[h]))
  BY <1>1, <1>3, <1>4
<1>6. SumFunctionOnSet(executed', Harts) = e
  BY <1>4 DEF e
<1>7. QED
  BY <1>2, <1>5, <1>6 DEF TotalConserved, SumFunction

LEMMA TotalStep ==
  CountInv /\ InTransit /\ TotalConserved /\ [CountNext]_countvars => TotalConserved'
<1> SUFFICES ASSUME CountInv, InTransit, TotalConserved, [CountNext]_countvars PROVE TotalConserved'
  OBVIOUS
<1>0. CountInv /\ CountTypeOK'
  BY CountStep DEF CountInv
<1>1. UNCHANGED <<total, executed, delta>> => TotalConserved'
  BY DEF TotalConserved
<1>2. \A h \in Harts : insns[h] \in Nat
  BY <1>0 DEF CountInv, CountTypeOK
<1>3. ASSUME NEW h \in Harts, Instruction(h) \/ EcallRetires(h) PROVE TotalConserved'
  <2>1. CASE IncrCount(h, insns[h] + 1, "report")
    BY <1>0, <1>2, <1>3, <2>1, CountingKeepsTotal DEF Instruction, EcallRetires
  <2>2. CASE ~IncrCount(h, insns[h] + 1, "report")
    BY <1>1, <1>3, <2>2 DEF Instruction, EcallRetires
  <2>3. QED
    BY <2>1, <2>2
<1>4. ASSUME NEW h \in Harts, Breakpoint(h) \/ Ecall(h) PROVE TotalConserved'
  BY <1>0, <1>2, <1>4, CountingKeepsTotal DEF Breakpoint, Ecall
<1>5. ASSUME NEW h \in Harts, SyscallReturns(h) PROVE TotalConserved'
  <2>1. -insns[h] \in Int
    BY <1>2
  <2>2. QED
    BY <1>0, <1>5, <2>1, CountingKeepsTotal DEF SyscallReturns
<1>6. ASSUME NEW h \in Harts, SwapTotal(h) PROVE TotalConserved'
  BY <1>0, <1>6, SwapKeepsTotal
<1>7. ASSUME NEW h \in Harts, \/ Spawn(h) \/ SyscallExits(h) \/ LoadTotal(h) \/ SwapLost(h)
                              \/ Report(h) \/ ExitReport(h)
      PROVE  TotalConserved'
  BY <1>1, <1>7 DEF Spawn, SyscallExits, LoadTotal, SwapLost, Report, ExitReport
<1>8. CASE UNCHANGED countvars
  BY <1>1, <1>8 DEF countvars
<1>9. QED
  BY <1>3, <1>4, <1>5, <1>6, <1>7, <1>8 DEF CountNext

LEMMA TotalInvariant == CountSpec => [](CountInv /\ InTransit /\ TotalConserved)
<1>1. ASSUME CountInit PROVE CountInv /\ InTransit /\ TotalConserved
  <2>1. CountInv /\ InTransit
    BY <1>1, CountAssumption DEF CountInit, CountInv, InTransit, CountTypeOK, Places, Settled, Lagging, Adding
  <2>2. SumFunctionOnSet(executed, Harts) = 0 /\ SumFunctionOnSet(delta, Harts) = 0
    BY <1>1, CountAssumption, SumZero DEF CountInit
  <2>3. TotalConserved
    BY <1>1, <2>1, <2>2, Totals DEF CountInit, CountInv
  <2>4. QED
    BY <2>1, <2>3
<1>2. QED
  BY <1>1, CountStep, TransitStep, TotalStep, PTL DEF CountSpec

(***************************************************************************)
(* No instruction is lost or counted twice in the total, however many      *)
(* harts race in incr_count's compare-and-swap loop.                       *)
(***************************************************************************)
THEOREM TotalSafe == CountSpec => []TotalConserved
  BY TotalInvariant, PTL

(***************************************************************************)
(* The divisor of status_report is positive whenever the hart that reports *)
(* has retired an instruction: no hart's share of the total is negative,   *)
(* not even while a system call's adjustment is being taken back.          *)
(***************************************************************************)
THEOREM ReportSafe == CountSpec => []ReportDivides
<1>1. ASSUME CountInv, InTransit, TotalConserved PROVE ReportDivides
  <2> USE <1>1, CountAssumption DEF CountInv, CountTypeOK
  <2> DEFINE share == [h \in Harts |-> executed[h] - delta[h]]
  <2>1. \A h \in Harts : share[h] \in Nat
    BY DEF InTransit, Settled, Lagging, Adding, Places
  <2>2. total = SumFunctionOnSet(share, Harts)
    <3>1. \A x \in Harts : executed[x] \in Int /\ delta[x] \in Int /\ share[x] = executed[x] - delta[x]
      OBVIOUS
    <3> HIDE DEF share
    <3>2. SumFunctionOnSet(share, Harts)
            = SumFunctionOnSet(executed, Harts) - SumFunctionOnSet(delta, Harts)
      BY <3>1, SumMinus
    <3>3. QED
      BY <3>2, Totals
  <2>3. \A h \in Harts : share[h] <= total
    <3> HIDE DEF share
    <3>1. QED
      BY <2>1, <2>2, SumNat
  <2>4. ASSUME NEW h \in Harts, at[h] \in {"report", "exiting"}, retired[h] > 0 PROVE total > 0
    <3>1. share[h] = retired[h]
      BY <2>4 DEF InTransit, Settled
    <3>2. share[h] <= total /\ retired[h] \in Nat
      BY <2>3
    <3> HIDE DEF share
    <3>3. QED
      BY <2>4, <3>1, <3>2
  <2>5. QED
    BY <2>4 DEF ReportDivides
<1>2. QED
  BY <1>1, TotalInvariant, PTL

(***************************************************************************)
(* StartUp: the options.                                                   *)
(***************************************************************************)
LEMMA LinesAreSeqs ==
  \A l \in Lines : /\ Len(l) \in Nat /\ DOMAIN l = 1 .. Len(l)
                   /\ l \in Seq({l[j] : j \in DOMAIN l})
  BY OptionsAssumption

\* What parse_options has passed, and what those words have written.
Parsed ==
  /\ line \in Lines /\ i \in 1 .. Len(line) + 1 /\ DOMAIN value = Names
  /\ \A j \in 1 .. i - 1 : IsOption(line[j]) /\ Accepted(line[j])
  /\ phase \notin {"options", "exited"} => ~AtOption

Last(o, j) == line[j].opt = o /\ \A m \in j + 1 .. i - 1 : line[m].opt # o

LastWins ==
  \A o \in Names :
    /\ (\A j \in 1 .. i - 1 : line[j].opt # o) => value[o] = Decl[o].ini
    /\ \A j \in 1 .. i - 1 : Last(o, j) => value[o] = SetVal(o, line[j])

LEMMA ParsedStep == ASSUME Parsed, [Next]_vars PROVE Parsed'
<1> USE DEF Parsed
<1>0. Len(line) \in Nat
  BY LinesAreSeqs
<1>1. CASE ParseOption
  <2>1. i \in 1 .. Len(line) /\ i' = i + 1 /\ line' = line /\ phase = "options" /\ phase' = phase
    BY <1>0, <1>1 DEF ParseOption, AtOption
  <2>2. \A j \in 1 .. i' - 1 : IsOption(line[j]) /\ Accepted(line[j])
    BY <1>1, <2>1 DEF ParseOption, AtOption
  <2>3. DOMAIN value' = Names
    BY <1>1 DEF ParseOption
  <2>4. phase' \in {"options", "exited"} /\ line' \in Lines /\ i' \in 1 .. Len(line') + 1
    BY <1>0, <2>1
  <2>5. \A j \in 1 .. i' - 1 : (IsOption(line[j]) /\ Accepted(line[j]))'
    BY <2>1, <2>2 DEF IsOption, Accepted, Malformed
  <2>6. QED
    BY <2>3, <2>4, <2>5
<1>2. CASE UNCHANGED optvars /\ (AtOption \/ phase = "options" \/ phase' \in {phase} \/ phase \notin {"options", "exited"})
           /\ (phase' \notin {"options", "exited"} => ~AtOption)
  BY <1>2 DEF optvars, AtOption, IsOption, Accepted, Malformed
<1>3. CASE HelpExit \/ ParseDone
  BY <1>2, <1>3 DEF HelpExit, ParseDone
<1>4. CASE LoadSegment \/ SegmentsDone \/ ScanSection \/ Predecode
  BY <1>2, <1>4 DEF LoadSegment, SegmentsDone, ScanSection, Predecode
<1>5. CASE CopyPhdrs \/ CopyString \/ PushVector \/ PushAux \/ Run \/ Over \/ UNCHANGED vars
  BY <1>2, <1>5 DEF CopyPhdrs, CopyString, PushVector, PushAux, Run, Over, vars
<1>6. QED
  BY <1>1, <1>3, <1>4, <1>5 DEF Next, ParseOptions

LEMMA LastStep == ASSUME Parsed, LastWins, [Next]_vars PROVE LastWins'
<1>0. Len(line) \in Nat
  BY LinesAreSeqs DEF Parsed
<1>1. CASE ParseOption
  <2> DEFINE w == line[i]
  <2>1. /\ i \in 1 .. Len(line) /\ i' = i + 1 /\ line' = line
        /\ value' = [value EXCEPT ![w.opt] = SetVal(w.opt, w)]
        /\ w.opt \in Names /\ DOMAIN value = Names
    BY <1>0, <1>1 DEF ParseOption, AtOption, Parsed, Accepted
  <2>2. ASSUME NEW o \in Names
        PROVE  /\ (\A j \in 1 .. i : line[j].opt # o) => value'[o] = Decl[o].ini
               /\ \A j \in 1 .. i : line[j].opt = o /\ (\A m \in j + 1 .. i : line[m].opt # o)
                                      => value'[o] = SetVal(o, line[j])
    <3>1. CASE w.opt = o
      <4>1. value'[o] = SetVal(o, line[i])
        BY <2>1, <3>1
      <4>2. ASSUME NEW j \in 1 .. i, \A m \in j + 1 .. i : line[m].opt # o PROVE j = i
        BY <2>1, <3>1, <4>2
      <4>3. QED
        BY <2>1, <3>1, <4>1, <4>2
    <3>2. CASE w.opt # o
      <4>1. value'[o] = value[o]
        BY <2>1, <3>2
      <4>2. ASSUME \A j \in 1 .. i : line[j].opt # o PROVE value'[o] = Decl[o].ini
        BY <2>1, <4>1, <4>2 DEF LastWins
      <4>3. ASSUME NEW j \in 1 .. i, line[j].opt = o, \A m \in j + 1 .. i : line[m].opt # o
            PROVE  value'[o] = SetVal(o, line[j])
        <5>1. j \in 1 .. i - 1 /\ Last(o, j)
          BY <2>1, <3>2, <4>3 DEF Last
        <5>2. QED
          BY <4>1, <5>1 DEF LastWins
      <4>4. QED
        BY <4>2, <4>3
    <3>3. QED
      BY <3>1, <3>2
  <2>3. i' - 1 = i
    BY <2>1
  <2>4. \A o, j : Last(o, j)' <=> line[j].opt = o /\ \A m \in j + 1 .. i : line[m].opt # o
    BY <2>1, <2>3 DEF Last
  <2>5. \A o \in Names :
          /\ (\A j \in 1 .. i' - 1 : line'[j].opt # o) => value'[o] = Decl[o].ini
          /\ \A j \in 1 .. i' - 1 : Last(o, j)' => value'[o] = SetVal(o, line'[j])
    BY <2>1, <2>2, <2>3, <2>4
  <2>6. QED
    BY <2>5 DEF LastWins
<1>2. CASE UNCHANGED optvars
  BY <1>2 DEF optvars, LastWins, Last
<1>3. CASE HelpExit \/ ParseDone
  BY <1>2, <1>3 DEF HelpExit, ParseDone
<1>4. CASE LoadSegment \/ SegmentsDone \/ ScanSection \/ Predecode
  BY <1>2, <1>4 DEF LoadSegment, SegmentsDone, ScanSection, Predecode
<1>5. CASE CopyPhdrs \/ CopyString \/ PushVector \/ PushAux \/ Run \/ Over \/ UNCHANGED vars
  BY <1>2, <1>5 DEF CopyPhdrs, CopyString, PushVector, PushAux, Run, Over, vars
<1>6. QED
  BY <1>1, <1>3, <1>4, <1>5 DEF Next, ParseOptions

\* A number that fits in an int is what atoi makes of it.
LEMMA AtoiFits == \A n \in 0 .. (IntMod \div 2) - 1 : Atoi(n) = n
<1> SUFFICES ASSUME NEW n \in 0 .. (IntMod \div 2) - 1 PROVE Atoi(n) = n
  OBVIOUS
<1>1. IntMod \in Nat \ {0}
  BY OptionsAssumption
<1>2. 2 * n < IntMod /\ n % IntMod = n
  BY <1>1, Z3
<1>3. QED
  BY <1>2 DEF Atoi

LEMMA MentionsPassed ==
  ASSUME Parsed, phase \notin {"options", "exited"}, NEW o \in Names
  PROVE  Mentions(o) = {j \in 1 .. i - 1 : line[j].opt = o}
<1>0. Len(line) \in Nat /\ i \in 1 .. Len(line) + 1
  BY LinesAreSeqs DEF Parsed
<1>1. ASSUME NEW j \in 1 .. Len(line), \A m \in 1 .. j : IsOption(line[m]) PROVE j \in 1 .. i - 1
  BY <1>0, <1>1 DEF Parsed, AtOption
<1>2. \A j \in 1 .. i - 1 : j \in 1 .. Len(line) /\ \A m \in 1 .. j : IsOption(line[m])
  BY <1>0 DEF Parsed
<1>3. QED
  BY <1>1, <1>2 DEF Mentions

LEMMA LargestExists ==
  ASSUME NEW n \in Nat, NEW M \in SUBSET (1 .. n), M # {}
  PROVE  \E j \in M : \A m \in M : m <= j
<1> DEFINE Q == {n0 \in Nat : \A S \in SUBSET (1 .. n0) : S # {} => \E j \in S : \A m \in S : m <= j}
<1>1. 0 \in Q
  <2>1. 1 .. 0 = {}
    OBVIOUS
  <2>2. QED
    BY <2>1
<1>2. ASSUME NEW n0 \in Nat, n0 \in Q PROVE n0 + 1 \in Q
  <2> SUFFICES ASSUME NEW S \in SUBSET (1 .. n0 + 1), S # {} PROVE \E j \in S : \A m \in S : m <= j
    OBVIOUS
  <2>1. CASE n0 + 1 \in S
    BY <2>1
  <2>2. CASE n0 + 1 \notin S
    <3>1. S \in SUBSET (1 .. n0)
      BY <2>2
    <3>2. QED
      BY <1>2, <3>1
  <2>3. QED
    BY <2>1, <2>2
<1> HIDE DEF Q
<1>3. n \in Q
  BY <1>1, <1>2, NatSetInduction
<1>4. QED
  BY <1>3 DEF Q

LEMMA MeantHere == ASSUME Parsed, LastWins PROVE OptionsMeant
<1> SUFFICES ASSUME phase \notin {"options", "exited"}, NEW o \in Names
             PROVE  IF Mentions(o) = {} THEN value[o] = Decl[o].ini
                    ELSE Written(o, line[CHOOSE j \in Mentions(o) : \A m \in Mentions(o) : m <= j])
  BY DEF OptionsMeant
<1>0. Len(line) \in Nat /\ i \in 1 .. Len(line) + 1
  BY LinesAreSeqs DEF Parsed
<1>1. Mentions(o) = {j \in 1 .. i - 1 : line[j].opt = o}
  BY MentionsPassed
<1>2. CASE Mentions(o) = {}
  BY <1>1, <1>2 DEF LastWins
<1>3. CASE Mentions(o) # {}
  <2> DEFINE last == CHOOSE j \in Mentions(o) : \A m \in Mentions(o) : m <= j
  <2>1. i - 1 \in Nat /\ Mentions(o) \in SUBSET (1 .. i - 1)
    BY <1>0, <1>1
  <2>2. \E j \in Mentions(o) : \A m \in Mentions(o) : m <= j
    BY <1>3, <2>1, LargestExists
  <2>3. last \in Mentions(o) /\ \A m \in Mentions(o) : m <= last
    BY <2>2
  <2> HIDE DEF last
  <2>4. last \in 1 .. i - 1 /\ Last(o, last)
    BY <1>0, <1>1, <2>3 DEF Last
  <2>5. value[o] = SetVal(o, line[last]) /\ Accepted(line[last]) /\ line[last].opt = o
    BY <2>4 DEF LastWins, Parsed, Last
  <2>6. Written(o, line[last])
    BY <2>5, AtoiFits DEF SetVal, Written
  <2>7. QED
    BY <1>3, <2>6 DEF last
<1>4. QED
  BY <1>2, <1>3

LEMMA OptionsStart == Init => Parsed /\ LastWins
<1>1. Init => line \in Lines /\ i = 1 /\ value = [o \in Names |-> Decl[o].ini] /\ phase = "options"
  BY DEF Init, OptionsInit
<1>2. QED
  BY <1>1, LinesAreSeqs DEF Parsed, LastWins

LEMMA OptionsInvariant == Spec => [](Parsed /\ LastWins)
<1>1. QED
  BY OptionsStart, ParsedStep, LastStep, PTL DEF Spec

(***************************************************************************)
(* Whatever the command line, an option means what its last mention before *)
(* the program's name says, and nothing after that name changes it.        *)
(***************************************************************************)
THEOREM MeantSafe == Spec => []OptionsMeant
  BY OptionsInvariant, MeantHere, PTL

(***************************************************************************)
(* StartUp: the image of the program.                                      *)
(***************************************************************************)
LEMMA RoundUpAbove == ASSUME NEW a \in Nat PROVE RoundUp(a) \in Nat /\ a <= RoundUp(a)
<1> DEFINE q == (a + Page - 1) \div Page
<1>1. Page \in Nat \ {0}
  BY StartUpAssumption
<1>2. q \in Nat /\ (a + Page) - 1 < q * Page + Page
  BY <1>1, Z3
<1>3. q * Page \in Nat
  BY <1>1, <1>2, Z3
<1> HIDE DEF q
<1>4. a <= q * Page
  BY <1>1, <1>2, <1>3
<1>5. QED
  BY <1>3, <1>4 DEF RoundUp, q

LEMMA MappedCovers ==
  ASSUME NEW s \in Segments
  PROVE  /\ Pad(s) \in Nat /\ Mapped(s) \in Int /\ s.filesz <= Mapped(s)
         /\ s.memsz > Mapped(s) => ZeroPages(s) \in Nat
<1>0. s.vaddr \in Nat /\ s.filesz \in Nat /\ s.memsz \in Nat
  BY DEF Segments
<1>1. Pad(s) \in Nat
  <2>1. Page \in Nat \ {0}
    BY StartUpAssumption
  <2>2. QED
    BY <1>0, <2>1, Z3 DEF Pad
<1>2. Mapped(s) \in Int /\ s.filesz <= Mapped(s)
  BY <1>0, <1>1, RoundUpAbove DEF Mapped
<1>3. s.memsz > Mapped(s) => ZeroPages(s) \in Nat
  <2>1. SUFFICES ASSUME s.memsz > Mapped(s) PROVE s.memsz - Mapped(s) \in Nat
    BY RoundUpAbove DEF ZeroPages
  <2>2. QED
    BY <1>0, <1>2, <2>1
<1>4. QED
  BY <1>1, <1>2, <1>3

LEMMA ElfTypes ==
  ASSUME NEW e \in Elfs
  PROVE  /\ Len(e.segs) \in Nat /\ Len(e.sects) \in Nat
         /\ \A j \in 1 .. Len(e.segs) : e.segs[j] \in Segments
         /\ \A j \in 1 .. Len(e.sects) : e.sects[j] \in Sections
         /\ e.length \in Nat /\ e.bias \in Nat /\ e.entry \in Nat
  BY ElfsAssumption

\* The file's part of a segment is where the program expects it, and as the file has it.
Held(s) == \A x \in 0 .. s.filesz - 1 : mem[s.vaddr + x] = s.offset + x + 1

ClearedBy(n, a) ==
  \E j \in 1 .. n : elf.sects[j].kind = "bss" /\ Within(a, elf.sects[j].addr, elf.sects[j].size)

ImageTypes ==
  /\ elf \in Elfs /\ k \in Nat /\ bounds \in Int \X Int
  /\ mem \in [0 .. Memory - 1 -> -1 .. elf.length]

\* n sections have been looked at.
Scanned(n) ==
  /\ \A a \in 0 .. Memory - 1 : ClearedBy(n, a) => mem[a] = 0
  /\ \A j \in 1 .. Len(elf.segs) : LET s == elf.segs[j] IN
       \A x \in 0 .. s.filesz - 1 :
         ClearedBy(n, s.vaddr + x) \/ mem[s.vaddr + x] = s.offset + x + 1
  /\ \A j \in 1 .. n : LET s == elf.sects[j] IN
       s.kind = "text" => bounds[1] <= s.addr /\ s.addr + s.size <= bounds[2]

ImageInv ==
  /\ phase \in {"options", "elf"} =>
       /\ k <= Len(elf.segs)
       /\ elf.bias = 0 => \A j \in k + 1 .. Len(elf.segs) : Held(elf.segs[j])
  /\ phase = "sections" =>
       /\ k \in 1 .. Len(elf.sects) + 1
       /\ elf.bias = 0 => Scanned(k - 1)
  /\ phase \in {"phdrs", "strings", "auxv", "run"} /\ elf.bias = 0 => Scanned(Len(elf.sects))

LEMMA LoadedTypes ==
  ASSUME ImageTypes, NEW n \in 1 .. Len(elf.segs)
  PROVE  Loaded(SegmentAt(n)) \in [0 .. Memory - 1 -> -1 .. elf.length]
<1> DEFINE s == SegmentAt(n)
<1>1. /\ s \in Segments /\ elf.length \in Nat /\ elf.bias \in Nat /\ DOMAIN mem = 0 .. Memory - 1
      /\ s.vaddr \in Nat /\ s.offset \in Nat
      /\ Memory \in Nat
  BY ElfTypes, StartUpAssumption DEF ImageTypes, SegmentAt, Segments
<1> HIDE DEF s
<1>2. ASSUME NEW a \in 0 .. Memory - 1, Within(a, s.vaddr + elf.bias, Mapped(s))
      PROVE  FileByte(s.offset + a - (s.vaddr + elf.bias)) \in -1 .. elf.length
  <2> DEFINE off == s.offset + a - (s.vaddr + elf.bias)
  <2>1. off \in Nat
    BY <1>1, <1>2 DEF Within
  <2> HIDE DEF off
  <2>2. FileByte(off) \in -1 .. elf.length
    BY <1>1, <2>1 DEF FileByte
  <2>3. QED
    BY <2>2 DEF off
<1>3. \A a \in 0 .. Memory - 1 : mem[a] \in -1 .. elf.length
  BY DEF ImageTypes
<1>4. 0 \in -1 .. elf.length
  BY <1>1
<1>5. Loaded(s) \in [0 .. Memory - 1 -> -1 .. elf.length]
  BY <1>1, <1>2, <1>3, <1>4 DEF Loaded
<1>6. QED
  BY <1>5 DEF s

LEMMA SamePlace ==
  \A v, o, w, q, x \in Nat : w - q = v - o => o + (w + x) - v = q + x
  OBVIOUS

(***************************************************************************)
(* Loading a segment puts its own part of the file in place, and leaves    *)
(* that of one further up as it was: the pages it maps over it hold the    *)
(* same bytes.                                                             *)
(***************************************************************************)
LEMMA LoadHolds ==
  ASSUME ImageTypes, NEW n \in 1 .. Len(elf.segs), elf.bias = 0,
         elf.segs[n].memsz > 0, mem' = Loaded(SegmentAt(n)),
         NEW l \in n .. Len(elf.segs), l = n \/ Held(elf.segs[l]),
         NEW x \in 0 .. elf.segs[l].filesz - 1
  PROVE  mem'[elf.segs[l].vaddr + x] = elf.segs[l].offset + x + 1
<1> DEFINE s == elf.segs[n]
           t == elf.segs[l]
           a == t.vaddr + x
<1>1. /\ s \in Segments /\ t \in Segments /\ l \in 1 .. Len(elf.segs)
      /\ elf.length \in Nat /\ DOMAIN mem = 0 .. Memory - 1 /\ Len(elf.segs) \in Nat
  BY ElfTypes DEF ImageTypes
<1>2. /\ s.filesz <= s.memsz
      /\ t.filesz <= t.memsz /\ t.offset + t.filesz <= elf.length
      /\ t.vaddr + 0 + t.memsz <= Memory /\ Memory \in Nat
  BY <1>1, ElfsAssumption, StartUpAssumption DEF ImageTypes, Linked
<1>3. l # n => /\ s.vaddr <= t.vaddr
               /\ t.vaddr < s.vaddr + Mapped(s) => t.vaddr - t.offset = s.vaddr - s.offset
               /\ s.memsz > Mapped(s) => s.vaddr + Mapped(s) + ZeroPages(s) <= t.vaddr
  <2>1. SUFFICES ASSUME l # n PROVE s.memsz > 0 /\ t.filesz > 0 /\ l \in n + 1 .. Len(elf.segs)
    BY <1>1, ElfsAssumption DEF ImageTypes, Linked
  <2>2. QED
    BY <1>1, <2>1, SMTT(30) DEF Segments
<1>4. mem' = [b \in DOMAIN mem |->
         IF Within(b, s.vaddr - Pad(s), Pad(s)) THEN 0
         ELSE IF Within(b, s.vaddr, Mapped(s)) THEN FileByte(s.offset + b - s.vaddr)
         ELSE IF s.memsz > Mapped(s) /\ Within(b, s.vaddr + Mapped(s), ZeroPages(s)) THEN 0
         ELSE mem[b]]
  <2>1. s.vaddr + elf.bias = s.vaddr
    BY <1>1 DEF Segments
  <2>2. QED
    BY <2>1 DEF Loaded, SegmentAt
<1>5. /\ s.vaddr \in Nat /\ s.offset \in Nat /\ s.filesz \in Nat /\ s.memsz \in Nat
      /\ t.vaddr \in Nat /\ t.offset \in Nat /\ t.filesz \in Nat /\ t.memsz \in Nat
  BY <1>1 DEF Segments
<1>6. Pad(s) \in Nat /\ Mapped(s) \in Int /\ s.filesz <= Mapped(s)
      /\ (s.memsz > Mapped(s) => ZeroPages(s) \in Nat)
  BY <1>1, MappedCovers
<1>7. l # n => mem[a] = t.offset + x + 1
  BY DEF Held
<1>8. l = n => s = t
  OBVIOUS
<1>9. x \in Nat /\ x < t.filesz
  BY <1>5
<1> HIDE DEF s, t
<1>10. a \in DOMAIN mem /\ a \in Nat
  <2>1. PICK v \in Nat, f \in Nat, m \in Nat : v = t.vaddr /\ f = t.filesz /\ m = t.memsz
    BY <1>5
  <2>2. v + x \in 0 .. Memory - 1
    BY <1>2, <1>9, <2>1, SMTT(30)
  <2>3. QED
    BY <1>1, <2>1, <2>2
<1>11. ~Within(a, s.vaddr - Pad(s), Pad(s))
  BY <1>3, <1>5, <1>6, <1>8, <1>9 DEF Within
<1>12. CASE Within(a, s.vaddr, Mapped(s))
  <2>1. t.vaddr - t.offset = s.vaddr - s.offset
    BY <1>3, <1>5, <1>6, <1>8, <1>9, <1>12, SMTT(30) DEF Within
  <2>2. s.offset + a - s.vaddr = t.offset + x
    <3>1. PICK v \in Nat, o \in Nat, w \in Nat, q \in Nat :
            v = s.vaddr /\ o = s.offset /\ w = t.vaddr /\ q = t.offset
      BY <1>5
    <3>2. w - q = v - o
      BY <2>1, <3>1
    <3>3. PICK y \in Nat : y = x
      BY <1>9
    <3>4. o + (w + y) - v = q + y
      BY <3>2, SamePlace
    <3>5. QED
      BY <3>1, <3>3, <3>4
  <2>3. FileByte(t.offset + x) = t.offset + x + 1
    <3>1. \A o, f, m \in Nat : o + f <= m /\ x < f => o + x < m
      BY <1>9
    <3>2. t.offset + x < elf.length
      BY <1>1, <1>2, <1>5, <1>9, <3>1
    <3>3. QED
      BY <3>2 DEF FileByte
  <2>4. mem'[a] = FileByte(s.offset + a - s.vaddr)
    BY <1>4, <1>10, <1>11, <1>12
  <2>5. QED
    BY <2>2, <2>3, <2>4 DEF t
<1>13. CASE ~Within(a, s.vaddr, Mapped(s))
  <2>1. l # n
    BY <1>5, <1>6, <1>8, <1>9, <1>13 DEF Within
  <2>2. ~(s.memsz > Mapped(s) /\ Within(a, s.vaddr + Mapped(s), ZeroPages(s)))
    BY <1>3, <1>5, <1>6, <1>9, <2>1, SMTT(30) DEF Within
  <2>3. mem'[a] = mem[a]
    BY <1>4, <1>10, <1>11, <1>13, <2>2
  <2>4. QED
    BY <1>7, <2>1, <2>3 DEF t
<1>14. QED
  BY <1>12, <1>13

LEMMA LoadStep == ASSUME ImageTypes, ImageInv, LoadSegment PROVE ImageTypes' /\ ImageInv'
<1> USE DEF ImageTypes
<1>1. /\ phase = "elf" /\ k \in 1 .. Len(elf.segs) /\ k' = k - 1 /\ elf' = elf /\ bounds' = bounds
      /\ Len(elf.segs) \in Nat
  BY ElfTypes DEF LoadSegment, ImageInv, lvars
<1>2. CASE phase' = "died" /\ mem' = mem
  BY <1>1, <1>2 DEF ImageInv
<1>3. CASE phase' = phase /\ SegmentAt(k).memsz > 0 /\ mem' = Loaded(SegmentAt(k))
  <2>1. ImageTypes'
    BY <1>1, <1>3, LoadedTypes
  <2>2. ASSUME elf.bias = 0, NEW j \in k .. Len(elf.segs) PROVE Held(elf.segs[j])'
    <3>1. j = k \/ Held(elf.segs[j])
      BY <1>1, <2>2 DEF ImageInv
    <3>2. \A x \in 0 .. elf.segs[j].filesz - 1 :
            mem'[elf.segs[j].vaddr + x] = elf.segs[j].offset + x + 1
      BY <1>1, <1>3, <2>2, <3>1, LoadHolds DEF SegmentAt
    <3>3. QED
      BY <1>1, <3>2 DEF Held
  <2>3. k' + 1 = k
    BY <1>1
  <2>4. QED
    BY <1>1, <1>3, <2>1, <2>2, <2>3 DEF ImageInv
<1>4. CASE phase' = phase /\ ~(SegmentAt(k).memsz > 0) /\ mem' = mem
  <2>1. SegmentAt(k).filesz = 0
    <3>1. elf.segs[k].filesz <= elf.segs[k].memsz /\ elf.segs[k] \in Segments
      BY <1>1, ElfsAssumption, ElfTypes DEF Linked
    <3>2. QED
      BY <1>4, <3>1 DEF SegmentAt, Segments
  <2>2. ASSUME elf.bias = 0, NEW j \in k .. Len(elf.segs) PROVE Held(elf.segs[j])'
    <3>1. j = k \/ Held(elf.segs[j])
      BY <1>1, <2>2 DEF ImageInv
    <3>2. QED
      BY <1>1, <1>4, <2>1, <3>1 DEF Held, SegmentAt
  <2>3. k' + 1 = k
    BY <1>1
  <2>4. QED
    BY <1>1, <1>4, <2>2, <2>3 DEF ImageInv
<1>5. QED
  BY <1>2, <1>3, <1>4 DEF LoadSegment

LEMMA SegmentsStep == ASSUME ImageTypes, ImageInv, SegmentsDone PROVE ImageTypes' /\ ImageInv'
<1>1. /\ phase = "elf" /\ k = 0 /\ phase' = "sections" /\ k' = 1 /\ elf' = elf
      /\ mem' = mem /\ bounds' = bounds /\ Len(elf.sects) \in Nat
  BY ElfTypes DEF SegmentsDone, lvars, ImageTypes
<1>2. \A a : ~ClearedBy(0, a)'
  BY DEF ClearedBy
<1>3. elf.bias = 0 => Scanned(0)'
  <2>1. SUFFICES ASSUME elf.bias = 0 PROVE Scanned(0)'
    OBVIOUS
  <2>2. \A j \in 1 .. Len(elf.segs) : Held(elf.segs[j])
    BY <1>1, <2>1 DEF ImageInv
  <2>3. QED
    BY <1>1, <1>2, <2>2 DEF Scanned, Held
<1>4. QED
  BY <1>1, <1>3 DEF ImageInv, ImageTypes

LEMMA ScanStep == ASSUME ImageTypes, ImageInv, ScanSection PROVE ImageTypes' /\ ImageInv'
<1> DEFINE s == elf.sects[k]
<1>1. /\ phase = "sections" /\ k \in 1 .. Len(elf.sects) /\ k' = k + 1 /\ elf' = elf
      /\ Len(elf.sects) \in Nat /\ s \in Sections /\ Memory \in Nat
      /\ elf.length \in Nat
  BY ElfTypes, StartUpAssumption, SMTT(30) DEF ScanSection, ImageInv, ImageTypes
<1>2. s.addr \in Nat /\ s.size \in Nat
  BY <1>1 DEF Sections
<1>3. /\ bounds' = IF s.kind # "text" THEN bounds
                   ELSE <<IF s.addr < bounds[1] THEN s.addr ELSE bounds[1],
                          IF s.addr + s.size > bounds[2] THEN s.addr + s.size ELSE bounds[2]>>
      /\ mem' = IF s.kind = "bss" /\ phase' = phase THEN Clear(s) ELSE mem
      /\ phase' \in {"died", "sections"}
  BY <1>1 DEF ScanSection
<1>4. bounds[1] \in Int /\ bounds[2] \in Int /\ DOMAIN mem = 0 .. Memory - 1
  BY DEF ImageTypes
<1> HIDE DEF s
<1>5. bounds' \in Int \X Int /\ bounds'[1] <= bounds[1] /\ bounds[2] <= bounds'[2]
      /\ (s.kind = "text" => bounds'[1] <= s.addr /\ s.addr + s.size <= bounds'[2])
  BY <1>2, <1>3, <1>4 DEF ImageTypes
<1>6. mem' \in [0 .. Memory - 1 -> -1 .. elf.length]
  BY <1>1, <1>3, <1>4, SMTT(30) DEF Clear, ImageTypes
<1>7. ASSUME elf.bias = 0, phase' = phase PROVE Scanned(k - 1)'
  <2>1. Scanned(k - 1)
    BY <1>1, <1>7 DEF ImageInv
  <2>2. \A a : ClearedBy(k - 1, a)' <=> ClearedBy(k - 1, a) \/ (s.kind = "bss" /\ Within(a, s.addr, s.size))
    <3>1. 1 .. k' - 1 = (1 .. k - 1) \cup {k}
      BY <1>1
    <3>2. QED
      BY <1>1, <3>1 DEF ClearedBy, s
  <2>3. \A a \in 0 .. Memory - 1 :
          mem'[a] = IF s.kind = "bss" /\ Within(a, s.addr, s.size) THEN 0 ELSE mem[a]
    BY <1>3, <1>4, <1>7 DEF Clear
  <2>4. \A a \in 0 .. Memory - 1 : ClearedBy(k - 1, a)' => mem'[a] = 0
    BY <2>1, <2>2, <2>3 DEF Scanned
  <2>5. ASSUME NEW j \in 1 .. Len(elf.segs), NEW x \in 0 .. elf.segs[j].filesz - 1,
               ~ClearedBy(k - 1, elf.segs[j].vaddr + x)'
        PROVE  mem'[elf.segs[j].vaddr + x] = elf.segs[j].offset + x + 1
    <3>1. mem[elf.segs[j].vaddr + x] = elf.segs[j].offset + x + 1
      <4>1. ~ClearedBy(k - 1, elf.segs[j].vaddr + x)
        BY <1>1, <2>2, <2>5
      <4>2. QED
        BY <2>1, <4>1 DEF Scanned
    <3>2. elf.segs[j].vaddr + x \in 0 .. Memory - 1
      <4>1. elf.segs[j] \in Segments /\ elf.segs[j].filesz <= elf.segs[j].memsz
            /\ elf.segs[j].vaddr + 0 + elf.segs[j].memsz <= Memory
        BY <1>7, ElfTypes, ElfsAssumption DEF ImageTypes, Linked
      <4>2. PICK v \in Nat, g \in Nat, z \in Nat :
              v = elf.segs[j].vaddr /\ g = elf.segs[j].filesz /\ z = elf.segs[j].memsz
        BY <4>1 DEF Segments
      <4>3. x \in 0 .. g - 1
        BY <4>2
      <4>4. v + z <= Memory /\ g <= z
        BY <4>1, <4>2
      <4>5. PICK y \in Nat : y = x /\ y < g
        BY <4>3
      <4>6. v + y \in 0 .. Memory - 1
        BY <1>1, <4>4, <4>5
      <4>7. QED
        BY <4>2, <4>5, <4>6
    <3>3. PICK a \in 0 .. Memory - 1 : a = elf.segs[j].vaddr + x
      BY <3>2, SMTT(30)
    <3>4. ~(s.kind = "bss" /\ Within(a, s.addr, s.size))
      BY <1>1, <2>2, <2>5, <3>3
    <3>5. mem'[a] = mem[a]
      BY <2>3, <3>4
    <3>6. QED
      BY <3>1, <3>3, <3>5
  <2>6. \A j \in 1 .. k : elf.sects[j].kind = "text" =>
          bounds'[1] <= elf.sects[j].addr /\ elf.sects[j].addr + elf.sects[j].size <= bounds'[2]
    <3>1. ASSUME NEW j \in 1 .. k - 1, elf.sects[j].kind = "text"
          PROVE  bounds'[1] <= elf.sects[j].addr /\ elf.sects[j].addr + elf.sects[j].size <= bounds'[2]
      <4>1. bounds[1] <= elf.sects[j].addr /\ elf.sects[j].addr + elf.sects[j].size <= bounds[2]
        BY <2>1, <3>1 DEF Scanned
      <4>2. elf.sects[j] \in Sections
        BY <1>1, ElfTypes DEF ImageTypes
      <4>3. bounds'[1] \in Int /\ bounds'[2] \in Int /\ elf.sects[j].addr \in Nat /\ elf.sects[j].size \in Nat
        BY <1>5, <4>2 DEF Sections
      <4>4. QED
        BY <1>4, <1>5, <4>1, <4>3, SMTT(30)
    <3>2. QED
      BY <1>1, <1>5, <3>1 DEF s
  <2>7. k' - 1 = k
    BY <1>1
  <2>8. QED
    BY <1>1, <2>4, <2>5, <2>6, <2>7 DEF Scanned
<1>8. k' - 1 = k /\ k' \in 1 .. Len(elf.sects) + 1
  BY <1>1
<1>9. ImageTypes'
  BY <1>1, <1>5, <1>6 DEF ImageTypes
<1>10. ImageInv'
  <2>1. phase' = "sections" /\ elf'.bias = 0 => Scanned(k - 1)'
    BY <1>1, <1>7
  <2>2. QED
    BY <1>1, <1>3, <1>8, <2>1 DEF ImageInv
<1>11. QED
  BY <1>9, <1>10

LEMMA ImageStep == ASSUME ImageTypes, ImageInv, [Next]_vars PROVE ImageTypes' /\ ImageInv'
<1>1. CASE ParseOptions
  <2>1. phase = "options" /\ phase' \in {"options", "elf", "exited"}
        /\ elf' = elf /\ k' = k /\ mem' = mem /\ bounds' = bounds
    BY <1>1 DEF ParseOptions, HelpExit, ParseOption, ParseDone, lvars
  <2>2. QED
    BY <2>1 DEF ImageInv, ImageTypes, Held
<1>2. CASE Predecode
  <2>1. /\ phase = "sections" /\ k > Len(elf.sects) /\ phase' \in {"died", "phdrs"} /\ k' = 1
        /\ elf' = elf /\ mem' = mem /\ bounds' = bounds
    BY <1>2 DEF Predecode, lvars
  <2>2. k - 1 = Len(elf.sects)
    BY <2>1, ElfTypes DEF ImageInv, ImageTypes
  <2>3. elf.bias = 0 => Scanned(Len(elf.sects))
    BY <2>1, <2>2 DEF ImageInv
  <2>4. QED
    BY <2>1, <2>3 DEF ImageInv, ImageTypes, Scanned, ClearedBy
<1>3. CASE CopyPhdrs \/ CopyString \/ PushVector \/ PushAux \/ Run
  <2>1. /\ phase \in {"phdrs", "strings", "auxv"} /\ phase' \in {"phdrs", "strings", "auxv", "run"}
        /\ elf' = elf /\ mem' = mem /\ bounds' = bounds
    BY <1>3 DEF CopyPhdrs, CopyString, PushVector, PushAux, Run, lvars
  <2>2. k' \in Nat
    BY <1>3 DEF CopyPhdrs, CopyString, PushVector, PushAux, Run, ImageTypes
  <2>3. QED
    BY <2>1, <2>2 DEF ImageInv, ImageTypes, Scanned, ClearedBy
<1>4. CASE Over \/ UNCHANGED vars
  <2>1. phase' = phase /\ elf' = elf /\ k' = k /\ mem' = mem /\ bounds' = bounds
    BY <1>4 DEF Over, vars, lvars
  <2>2. ImageTypes'
    BY <2>1 DEF ImageTypes
  <2>3. ImageInv'
    BY <2>1 DEF ImageInv, Scanned, ClearedBy, Held
  <2>4. QED
    BY <2>2, <2>3
<1>5. QED
  BY <1>1, <1>2, <1>3, <1>4, LoadStep, SegmentsStep, ScanStep DEF Next

LEMMA ImageHere == ASSUME ImageTypes, ImageInv PROVE ImageLoaded
<1> SUFFICES ASSUME phase \in {"phdrs", "strings", "auxv", "run"}, elf.bias = 0 PROVE ImageLoaded
  BY DEF ImageLoaded
<1>1. Scanned(Len(elf.sects))
  BY DEF ImageInv
<1>2. \A a : Cleared(a) <=> ClearedBy(Len(elf.sects), a)
  BY DEF Cleared, ClearedBy
<1>3. ASSUME NEW j \in 1 .. Len(elf.segs), NEW x \in 0 .. elf.segs[j].memsz - 1
      PROVE  IF Cleared(elf.segs[j].vaddr + x) THEN mem[elf.segs[j].vaddr + x] = 0
             ELSE x < elf.segs[j].filesz => mem[elf.segs[j].vaddr + x] = elf.segs[j].offset + x + 1
  <2>1. elf.segs[j] \in Segments /\ elf.segs[j].vaddr + 0 + elf.segs[j].memsz <= Memory
    BY ElfTypes, ElfsAssumption DEF ImageTypes, Linked
  <2>2. elf.segs[j].vaddr + x \in 0 .. Memory - 1
    BY <2>1, StartUpAssumption, SMTT(30) DEF Segments
  <2>3. x < elf.segs[j].filesz => x \in 0 .. elf.segs[j].filesz - 1
    BY <2>1 DEF Segments
  <2>4. QED
    BY <1>1, <1>2, <2>2, <2>3 DEF Scanned
<1>4. Within(elf.entry, bounds[1], bounds[2] - bounds[1])
  <2>1. PICK j \in 1 .. Len(elf.sects) :
          elf.sects[j].kind = "text" /\ Within(elf.entry, elf.sects[j].addr, elf.sects[j].size)
    BY ElfsAssumption DEF ImageTypes, Linked
  <2>2. elf.sects[j] \in Sections /\ elf.entry \in Nat /\ bounds[1] \in Int /\ bounds[2] \in Int
    BY ElfTypes DEF ImageTypes
  <2>3. bounds[1] <= elf.sects[j].addr /\ elf.sects[j].addr + elf.sects[j].size <= bounds[2]
    BY <1>1, <2>1 DEF Scanned
  <2>4. QED
    BY <2>1, <2>2, <2>3 DEF Within, Sections
<1>5. QED
  BY <1>3, <1>4 DEF ImageLoaded

LEMMA ImageStart == Init => ImageTypes /\ ImageInv
<1> SUFFICES ASSUME Init PROVE ImageTypes /\ ImageInv
  OBVIOUS
<1>1. /\ elf \in Elfs /\ phase = "options" /\ k = Len(elf.segs) /\ bounds = <<Memory, 0>>
      /\ mem = [a \in 0 .. Memory - 1 |-> -1]
  BY DEF Init, OptionsInit
<1>2. Len(elf.segs) \in Nat /\ elf.length \in Nat /\ Memory \in Nat
  BY <1>1, ElfTypes, StartUpAssumption
<1>3. ImageTypes
  BY <1>1, <1>2 DEF ImageTypes
<1>4. QED
  BY <1>1, <1>2, <1>3 DEF ImageInv

LEMMA ImageInvariant == Spec => [](ImageTypes /\ ImageInv)
  BY ImageStart, ImageStep, PTL DEF Spec

(***************************************************************************)
(* For any program a linker makes for fixed addresses, whatever pages its  *)
(* segments share, the guest finds what the file holds at the addresses it *)
(* says, its .bss cleared, and its first instruction in the decoded text.  *)
(***************************************************************************)
THEOREM ImageSafe == Spec => []ImageLoaded
  BY ImageInvariant, ImageHere, PTL

(***************************************************************************)
(* StartUp: the guest's first stack.                                       *)
(***************************************************************************)
Early == {"options", "elf", "sections", "phdrs", "exited", "died"}

Fixed == line \in Lines /\ i \in 1 .. Len(line) + 1 /\ env \in Envs /\ aux \in Auxs

\* The bytes of the strings from the m-th on.
Rest(m) ==
  SumFunctionOnSet([n \in Strings(argv, env) |-> Length(argv, env, n)], m .. argc + envc)

\* The strings copied are below the headers and each below those before it.
Laid ==
  \A j \in 1 .. Len(ptrs) :
    /\ ptrs[j] + StringLen(j) <= StackTop - PhdrRoom
    /\ \A l \in 1 .. j - 1 : ptrs[j] + StringLen(j) <= ptrs[l]

\* A place of the vector: the words that precede auxv.
Place(j) == IF j <= argc THEN 1 + j ELSE 2 + j

Placed ==
  /\ \A j \in 1 .. argc + envc : vector[Place(j)] = ptrs[j]
  /\ vector[1] = argc /\ vector[2 + argc] = 0 /\ vector[3 + argc + envc] = 0

Cells == Int \cup STRING

StackInv ==
  /\ Fixed /\ stack_top \in 1 .. StackTop /\ ptrs \in Seq(stack_top .. StackTop)
  /\ phase \in Early => stack_top = StackTop /\ ptrs = <<>>
  /\ phase = "phdrs" => k = 1
  /\ phase = "strings" =>
       /\ k \in 1 .. argc + envc + 1 /\ Len(ptrs) = k - 1 /\ Laid
       /\ stack_top - Rest(k) = StackTop - PhdrRoom - Rest(1)
       /\ stack_top <= StackTop - PhdrRoom
  /\ phase \in {"auxv", "run"} =>
       /\ k \in 1 .. auxc + 1 /\ Len(ptrs) = argc + envc /\ Laid
       /\ stack_top % 16 = 0
       /\ \A j \in 1 .. Len(ptrs) : stack_top + VectorRoom + 16 * auxc <= ptrs[j]
       /\ vector \in Seq(Cells) /\ 3 + argc + envc <= Len(vector) /\ Placed
       /\ Len(vector) <= 3 + argc + envc + 2 * (k - 1)

LEMMA Counts ==
  ASSUME Fixed
  PROVE  /\ argc \in Nat /\ envc \in Nat /\ auxc \in Nat /\ auxc >= 1
         /\ StackTop \in Nat /\ PhdrRoom \in Nat
         /\ Strings(argv, env) = 1 .. argc + envc
         /\ \A j \in 1 .. argc + envc : StringLen(j) \in Nat
<1>1. /\ line \in Seq({line[j] : j \in DOMAIN line}) /\ Len(line) \in Nat /\ DOMAIN line = 1 .. Len(line)
      /\ i \in 1 .. Len(line) + 1
  BY LinesAreSeqs DEF Fixed
<1>2. /\ argc \in Nat
      /\ \A j \in 1 .. argc : argv[j] = line[i + j - 1] /\ i + j - 1 \in 1 .. Len(line)
  <2>1. \A j \in i .. Len(line) : line[j] \in {line[m] : m \in DOMAIN line}
    BY <1>1
  <2>2. /\ Len(SubSeq(line, i, Len(line))) = IF i <= Len(line) THEN Len(line) - i + 1 ELSE 0
        /\ \A j \in 1 .. Len(line) - i + 1 : SubSeq(line, i, Len(line))[j] = line[i + j - 1]
    BY <1>1, <2>1, SubSeqProperties, SMTT(30)
  <2>3. QED
    BY <1>1, <2>2 DEF argc, argv
<1>3. env \in Seq(Nat \ {0}) /\ envc \in Nat /\ \A j \in 1 .. envc : env[j] \in Nat
  BY StartUpAssumption DEF Fixed, envc
<1>4. aux \in Seq(STRING) /\ auxc \in Nat /\ auxc >= 1
  BY StartUpAssumption, EmptySeq DEF Fixed, auxc
<1>5. \A j \in 1 .. Len(line) : line[j].len \in Nat
  BY StartUpAssumption DEF Fixed
<1>6. \A j \in 1 .. argc + envc : StringLen(j) \in Nat
  BY <1>2, <1>3, <1>5, SMTT(30) DEF StringLen, Length, argc, envc
<1>7. Strings(argv, env) = 1 .. argc + envc
  BY DEF Strings, argc, envc
<1>8. QED
  BY <1>2, <1>3, <1>4, <1>6, <1>7, StartUpAssumption

LEMMA Rests ==
  ASSUME Fixed
  PROVE  /\ \A m \in 1 .. argc + envc + 1 : Rest(m) \in Nat
         /\ \A m \in 1 .. argc + envc : Rest(m) = StringLen(m) + Rest(m + 1)
         /\ Rest(argc + envc + 1) = 0
         /\ PhdrRoom + Rest(1) + 8 * (argc + envc + 4 * auxc + 6) < StackTop
<1> DEFINE N == argc + envc
           f == [n \in Strings(argv, env) |-> Length(argv, env, n)]
<1>1. /\ N \in Nat /\ Strings(argv, env) = 1 .. N
      /\ \A j \in 1 .. N : StringLen(j) \in Nat
  BY Counts
<1>2. \A j \in 1 .. N : f[j] = StringLen(j) /\ f[j] \in Nat
  BY <1>1 DEF StringLen
<1>3. \A m : Rest(m) = SumFunctionOnSet(f, m .. N)
  BY DEF Rest
<1>4. PhdrRoom + Rest(1) + 8 * (argc + envc + 4 * auxc + 6) < StackTop
  <2>1. PhdrRoom + SumFunctionOnSet(f, Strings(argv, env)) + 8 * (Len(argv) + Len(env) + 4 * Len(aux) + 6)
          < StackTop
    BY StartUpAssumption DEF Fixed, argv
  <2>2. SumFunctionOnSet(f, Strings(argv, env)) = Rest(1)
    BY <1>1, <1>3
  <2>3. QED
    BY <2>1, <2>2 DEF argc, envc, auxc
<1> HIDE DEF f, N
<1>5. ASSUME NEW m \in 1 .. N + 1 PROVE Rest(m) \in Nat
  <2>1. IsFiniteSet(m .. N)
    BY <1>1, FS_Interval
  <2>2. \A j \in m .. N : f[j] \in Nat
    <3>1. \A j \in m .. N : j \in 1 .. N
      BY <1>1
    <3>2. QED
      BY <1>2, <3>1
  <2>3. SumFunctionOnSet(f, m .. N) \in Nat
    BY <2>1, <2>2, SumNat
  <2>4. QED
    BY <1>3, <2>3
<1>6. ASSUME NEW m \in 1 .. N PROVE Rest(m) = StringLen(m) + Rest(m + 1)
  <2>1. IsFiniteSet(m .. N)
    BY <1>1, FS_Interval
  <2>2. m \in m .. N /\ (m .. N) \ {m} = m + 1 .. N
    BY <1>1
  <2>3. \A j \in m .. N : f[j] \in Int
    <3>1. \A j \in m .. N : j \in 1 .. N
      BY <1>1
    <3>2. QED
      BY <1>2, <3>1
  <2>4. SumFunctionOnSet(f, m .. N) = f[m] + SumFunctionOnSet(f, (m .. N) \ {m})
    <3> DEFINE T == m .. N
    <3>1. IsFiniteSet(T) /\ m \in T /\ \A j \in T : f[j] \in Int
      BY <2>1, <2>2, <2>3
    <3> HIDE DEF T
    <3>2. \A c \in T : SumFunctionOnSet(f, T) = f[c] + SumFunctionOnSet(f, T \ {c})
      BY <3>1, SumRemove, ZenonT(30)
    <3>3. QED
      BY <3>1, <3>2 DEF T
  <2>5. QED
    BY <1>2, <1>3, <2>2, <2>4
<1>7. Rest(N + 1) = 0
  <2>1. N + 1 .. N = {}
    BY <1>1
  <2>2. QED
    BY <1>3, <2>1, SumEmpty
<1>8. QED
  BY <1>4, <1>5, <1>6, <1>7 DEF N

LEMMA AlignDown ==
  ASSUME NEW x \in Nat
  PROVE  /\ AlignTo(x, 8) \in Nat /\ x - 7 <= AlignTo(x, 8) /\ AlignTo(x, 8) <= x
         /\ AlignTo(x, 16) \in Nat /\ x - 15 <= AlignTo(x, 16) /\ AlignTo(x, 16) <= x
         /\ AlignTo(x, 16) % 16 = 0
  BY Z3 DEF AlignTo

\* st, len: the top and the string; rk, rn, r: what was left, is left, was at first.
LEMMA StringFits ==
  ASSUME NEW st \in Int, NEW len \in Nat, NEW rk \in Int, NEW rn \in Nat, NEW r \in Nat,
         NEW top \in Nat, NEW ph \in Nat, st <= top,
         st - rk = top - ph - r, rk = len + rn, ph + r < top
  PROVE  /\ (st - len) \in 1 .. st /\ (st - len) - rn = top - ph - r
  OBVIOUS

LEMMA CopyStringKeeps == ASSUME StackInv, CopyString PROVE StackInv'
<1> DEFINE N == argc + envc
<1>1. Fixed /\ stack_top \in 1 .. StackTop /\ ptrs \in Seq(stack_top .. StackTop)
  BY DEF StackInv
<1>2. /\ argc \in Nat /\ envc \in Nat /\ StackTop \in Nat /\ PhdrRoom \in Nat
      /\ \A j \in 1 .. N : StringLen(j) \in Nat
  BY <1>1, Counts
<1>3. /\ k \in 1 .. N /\ Len(ptrs) = k - 1 /\ Laid
      /\ stack_top - Rest(k) = StackTop - PhdrRoom - Rest(1)
      /\ stack_top <= StackTop - PhdrRoom
      /\ stack_top' = stack_top - StringLen(k) /\ ptrs' = Append(ptrs, stack_top') /\ k' = k + 1
      /\ phase = "strings" /\ phase' = phase
      /\ line' = line /\ i' = i /\ env' = env /\ aux' = aux
  BY <1>2 DEF StackInv, CopyString, optvars
<1>4. Rest(k) = StringLen(k) + Rest(k + 1) /\ Rest(k + 1) \in Nat /\ Rest(1) \in Nat
      /\ PhdrRoom + Rest(1) < StackTop
  <2>1. k \in 1 .. N /\ k + 1 \in 1 .. N + 1 /\ 1 \in 1 .. N + 1
    BY <1>2, <1>3
  <2>2. \A m \in 1 .. N + 1 : Rest(m) \in Nat
    BY <1>1, Rests
  <2>3. Rest(k) = StringLen(k) + Rest(k + 1)
    BY <1>1, <2>1, Rests
  <2>4. PhdrRoom + Rest(1) + 8 * (argc + envc + 4 * auxc + 6) < StackTop /\ auxc \in Nat
    BY <1>1, Rests, Counts
  <2>5. QED
    BY <1>2, <2>1, <2>2, <2>3, <2>4
<1>5. argc' = argc /\ envc' = envc /\ Fixed' /\ (\A j : StringLen(j)' = StringLen(j))
      /\ \A m : Rest(m)' = Rest(m)
  BY <1>1, <1>3 DEF argc, argv, envc, Fixed, StringLen, Rest
<1>6. StringLen(k) \in Nat
  BY <1>2, <1>3
<1>7. stack_top' \in 1 .. stack_top /\ stack_top' - Rest(k + 1) = StackTop - PhdrRoom - Rest(1)
  <2>1. stack_top \in Int /\ stack_top <= StackTop /\ Rest(k) \in Int
    BY <1>1, <1>2, <1>4, <1>6
  <2>2. PICK st \in Int, len \in Nat, rk \in Int, rn \in Nat, r \in Nat :
          st = stack_top /\ len = StringLen(k) /\ rk = Rest(k) /\ rn = Rest(k + 1) /\ r = Rest(1)
    BY <1>4, <1>6, <2>1
  <2>3. /\ st <= StackTop /\ st - rk = StackTop - PhdrRoom - r /\ rk = len + rn
        /\ PhdrRoom + r < StackTop
    BY <1>3, <1>4, <2>1, <2>2
  <2>4. (st - len) \in 1 .. st /\ (st - len) - rn = StackTop - PhdrRoom - r
    BY <1>2, <2>3, StringFits
  <2>5. QED
    BY <1>3, <2>2, <2>4
<1>8. stack_top' + StringLen(k) <= StackTop - PhdrRoom /\ stack_top' <= StackTop - PhdrRoom
  <2>1. stack_top' + StringLen(k) = stack_top /\ stack_top \in Int /\ stack_top' <= stack_top
    BY <1>1, <1>2, <1>3, <1>6, <1>7
  <2>2. QED
    BY <1>2, <1>3, <1>7, <2>1
<1>9. /\ ptrs' \in Seq(stack_top' .. StackTop) /\ Len(ptrs') = k
      /\ \A j \in 1 .. k - 1 : ptrs'[j] = ptrs[j]
      /\ ptrs'[k] = stack_top'
  <2>1. ptrs \in Seq(stack_top' .. StackTop)
    <3>1. stack_top .. StackTop \subseteq stack_top' .. StackTop
      BY <1>1, <1>7
    <3>2. QED
      BY <1>1, <3>1, SeqMonotonic
  <2>2. stack_top' \in stack_top' .. StackTop
    BY <1>1, <1>2, <1>7
  <2>3. QED
    BY <1>3, <2>1, <2>2, AppendProperties
<1>10. Laid'
  <2>1. ASSUME NEW j \in 1 .. k
        PROVE  /\ ptrs'[j] + StringLen(j) <= StackTop - PhdrRoom
               /\ \A l \in 1 .. j - 1 : ptrs'[j] + StringLen(j) <= ptrs'[l]
    <3>1. CASE j \in 1 .. k - 1
      BY <1>3, <1>9, <3>1 DEF Laid
    <3>2. CASE j = k
      <4>1. ptrs'[k] + StringLen(k) = stack_top
        BY <1>1, <1>3, <1>6, <1>9
      <4>2. \A l \in 1 .. k - 1 : stack_top <= ptrs'[l]
        <5>1. \A l \in 1 .. k - 1 : ptrs[l] \in stack_top .. StackTop
          BY <1>1, <1>3, ElementOfSeq
        <5>2. QED
          BY <1>1, <1>9, <5>1
      <4>3. QED
        BY <1>8, <1>9, <3>2, <4>1, <4>2
    <3>3. QED
      BY <1>3, <3>1, <3>2
  <2>2. QED
    BY <1>5, <1>9, <2>1 DEF Laid
<1>11. k' \in 1 .. argc + envc + 1 /\ Len(ptrs') = k' - 1 /\ stack_top' \in 1 .. StackTop
       /\ stack_top' <= StackTop - PhdrRoom
  BY <1>1, <1>2, <1>3, <1>7, <1>8, <1>9
<1>12. (stack_top - Rest(k) = StackTop - PhdrRoom - Rest(1))'
  <2>1. Rest(k)' = Rest(k + 1) /\ Rest(1)' = Rest(1)
    BY <1>3, <1>5 DEF Rest, argc, argv, envc
  <2>2. QED
    BY <1>7, <2>1
<1>13. Fixed' /\ phase' = "strings" /\ (k \in 1 .. argc + envc + 1)' /\ (Len(ptrs) = k - 1)'
       /\ (stack_top \in 1 .. StackTop)' /\ (stack_top <= StackTop - PhdrRoom)'
  BY <1>3, <1>5, <1>11
<1>14. ptrs' \in Seq(stack_top' .. StackTop)
  BY <1>9
<1>15. QED
  BY <1>10, <1>12, <1>13, <1>14 DEF StackInv, Early

LEMMA PushVectorKeeps == ASSUME StackInv, PushVector PROVE StackInv'
<1> DEFINE N == argc + envc
<1>1. Fixed /\ stack_top \in 1 .. StackTop /\ ptrs \in Seq(stack_top .. StackTop)
  BY DEF StackInv
<1>2. /\ argc \in Nat /\ envc \in Nat /\ StackTop \in Nat /\ PhdrRoom \in Nat
      /\ auxc \in Nat /\ auxc >= 1
      /\ \A j \in 1 .. N : StringLen(j) \in Nat
  BY <1>1, Counts
<1>3. /\ k = N + 1 /\ Len(ptrs) = N /\ Laid
      /\ stack_top - Rest(k) = StackTop - PhdrRoom - Rest(1)
      /\ stack_top' = AlignTo(AlignTo(stack_top - auxc * 16, 8) - VectorRoom, 16)
      /\ ptrs' = ptrs /\ k' = 1 /\ phase' = "auxv"
      /\ line' = line /\ i' = i /\ env' = env /\ aux' = aux
  <2>1. phase = "strings" /\ k > N
    BY DEF PushVector
  <2>2. k \in 1 .. N + 1 /\ Len(ptrs) = k - 1
    BY <2>1 DEF StackInv
  <2>3. k = N + 1 /\ Len(ptrs) = N
    BY <1>2, <2>1, <2>2
  <2>4. QED
    BY <2>1, <2>3 DEF StackInv, PushVector, optvars
<1>4. /\ argc' = argc /\ envc' = envc /\ auxc' = auxc /\ VectorRoom' = VectorRoom /\ Fixed'
      /\ \A j : StringLen(j)' = StringLen(j)
  BY <1>1, <1>3 DEF argc, argv, envc, auxc, Fixed, StringLen, VectorRoom
<1>5. stack_top > 8 * (N + 4 * auxc + 6)
  <2>1. Rest(N + 1) = 0 /\ PhdrRoom + Rest(1) + 8 * (N + 4 * auxc + 6) < StackTop
    BY <1>1, Rests
  <2>2. Rest(1) \in Nat
    <3>1. 1 \in 1 .. N + 1
      BY <1>2
    <3>2. QED
      BY <1>1, <3>1, Rests
  <2>3. QED
    BY <1>1, <1>2, <1>3, <2>1, <2>2
<1>6. VectorRoom = 8 * (3 + N + 2 * auxc) /\ VectorRoom \in Nat
  BY <1>2 DEF VectorRoom
<1>7. /\ stack_top' \in 1 .. stack_top /\ stack_top' % 16 = 0
      /\ stack_top' + VectorRoom + 16 * auxc <= stack_top
  <2> DEFINE u == AlignTo(stack_top - auxc * 16, 8)
  <2>1. stack_top - auxc * 16 \in Nat
    BY <1>1, <1>2, <1>5
  <2>2. u \in Nat /\ (stack_top - auxc * 16) - 7 <= u /\ u <= stack_top - auxc * 16
    BY <2>1, AlignDown
  <2> HIDE DEF u
  <2>3. u - VectorRoom \in Nat /\ u - VectorRoom > 15
    BY <1>1, <1>2, <1>5, <1>6, <2>2
  <2>4. /\ AlignTo(u - VectorRoom, 16) \in Nat /\ (u - VectorRoom) - 15 <= AlignTo(u - VectorRoom, 16)
        /\ AlignTo(u - VectorRoom, 16) <= u - VectorRoom /\ AlignTo(u - VectorRoom, 16) % 16 = 0
    BY <2>3, AlignDown
  <2>5. stack_top' = AlignTo(u - VectorRoom, 16)
    BY <1>3 DEF u
  <2>6. QED
    BY <1>1, <1>2, <1>6, <2>2, <2>3, <2>4, <2>5
<1>8. ptrs' \in Seq(stack_top' .. StackTop)
  <2>1. stack_top .. StackTop \subseteq stack_top' .. StackTop
    BY <1>1, <1>7
  <2>2. QED
    BY <1>1, <1>3, <2>1, SeqMonotonic
<1>9. \A j \in 1 .. N : stack_top' + VectorRoom + 16 * auxc <= ptrs[j]
  <2>1. ASSUME NEW j \in 1 .. N PROVE ptrs[j] \in Int /\ stack_top <= ptrs[j]
    <3>1. ptrs[j] \in stack_top .. StackTop
      BY <1>1, <1>3, ElementOfSeq
    <3>2. QED
      BY <1>1, <1>2, <3>1
  <2>2. stack_top' + VectorRoom + 16 * auxc \in Int /\ stack_top \in Int
    BY <1>1, <1>2, <1>6, <1>7
  <2>3. QED
    BY <1>7, <2>1, <2>2
<1>10. vector' \in Seq(Cells) /\ Len(vector') = 3 + N /\ Placed'
  <2> DEFINE p == SubSeq(ptrs, 1, argc)
             q == SubSeq(ptrs, argc + 1, N)
             v1 == <<argc>> \o p
             v2 == v1 \o <<0>>
             v3 == v2 \o q
             v4 == v3 \o <<0>>
  <2>1. ASSUME NEW j \in 1 .. N PROVE ptrs[j] \in Cells
    <3>1. ptrs[j] \in stack_top .. StackTop
      BY <1>1, <1>3, ElementOfSeq
    <3>2. QED
      BY <1>1, <1>2, <3>1 DEF Cells
  <2>2. p \in Seq(Cells) /\ Len(p) = argc /\ \A j \in 1 .. argc : p[j] = ptrs[j]
    BY <1>2, <2>1, SubSeqProperties
  <2>3. q \in Seq(Cells) /\ Len(q) = envc /\ \A j \in 1 .. envc : q[j] = ptrs[argc + j]
    <3>1. /\ q \in Seq(Cells) /\ Len(q) = IF argc + 1 <= N THEN N - (argc + 1) + 1 ELSE 0
          /\ \A j \in 1 .. N - (argc + 1) + 1 : q[j] = ptrs[argc + 1 + j - 1]
      BY <1>2, <2>1, SubSeqProperties
    <3>2. QED
      BY <1>2, <3>1
  <2>4. <<argc>> \in Seq(Cells) /\ <<0>> \in Seq(Cells) /\ Len(<<argc>>) = 1 /\ Len(<<0>>) = 1
        /\ <<argc>>[1] = argc /\ <<0>>[1] = 0
    BY <1>2 DEF Cells
  <2> HIDE DEF p, q
  <2>5. /\ v1 \in Seq(Cells) /\ Len(v1) = 1 + argc /\ v1[1] = argc
        /\ \A j \in 1 .. argc : v1[1 + j] = ptrs[j]
    BY <1>2, <2>2, <2>4, ConcatProperties
  <2> HIDE DEF v1
  <2>6. /\ v2 \in Seq(Cells) /\ Len(v2) = 2 + argc /\ v2[1] = argc
        /\ v2[2 + argc] = 0
        /\ \A j \in 1 .. argc : v2[1 + j] = ptrs[j]
    BY <1>2, <2>4, <2>5, ConcatProperties
  <2> HIDE DEF v2
  <2>7. /\ v3 \in Seq(Cells) /\ Len(v3) = 2 + N /\ v3[1] = argc
        /\ v3[2 + argc] = 0
        /\ \A j \in 1 .. argc : v3[1 + j] = ptrs[j]
        /\ \A j \in argc + 1 .. N : v3[2 + j] = ptrs[j]
    <3>1. /\ v3 \in Seq(Cells) /\ Len(v3) = 2 + argc + envc
          /\ \A j \in 1 .. 2 + argc + envc : v3[j] = IF j <= 2 + argc THEN v2[j] ELSE q[j - (2 + argc)]
      <4>1. /\ v3 \in Seq(Cells) /\ Len(v3) = Len(v2) + Len(q)
            /\ \A j \in 1 .. Len(v2) + Len(q) : v3[j] = IF j <= Len(v2) THEN v2[j] ELSE q[j - Len(v2)]
        <5>1. v2 \in Seq(Cells) /\ q \in Seq(Cells)
          BY <2>3, <2>6
        <5>2. QED
          BY <5>1, ConcatProperties, ZenonT(30)
      <4>2. QED
        BY <1>2, <2>3, <2>6, <4>1
    <3>2. ASSUME NEW j \in argc + 1 .. N PROVE v3[2 + j] = ptrs[j]
      <4>1. /\ 2 + j \in 1 .. 2 + argc + envc /\ ~(2 + j <= 2 + argc)
            /\ (2 + j) - (2 + argc) = j - argc /\ j - argc \in 1 .. envc /\ argc + (j - argc) = j
        BY <1>2
      <4>2. v3[2 + j] = q[j - argc]
        BY <3>1, <4>1
      <4>3. QED
        BY <2>3, <4>1, <4>2
    <3>3. QED
      BY <1>2, <2>6, <3>1, <3>2
  <2> HIDE DEF v3
  <2>8. /\ v4 \in Seq(Cells) /\ Len(v4) = 3 + N /\ v4[1] = argc
        /\ v4[2 + argc] = 0 /\ v4[3 + N] = 0
        /\ \A j \in 1 .. argc : v4[1 + j] = ptrs[j]
        /\ \A j \in argc + 1 .. N : v4[2 + j] = ptrs[j]
    <3>1. /\ v4 \in Seq(Cells) /\ Len(v4) = Len(v3) + Len(<<0>>)
          /\ \A j \in 1 .. Len(v3) + Len(<<0>>) :
               v4[j] = IF j <= Len(v3) THEN v3[j] ELSE <<0>>[j - Len(v3)]
      BY <2>4, <2>7, ConcatProperties
    <3>2. Len(v4) = 3 + N /\ v4[3 + N] = 0 /\ \A j \in 1 .. 2 + N : v4[j] = v3[j]
      BY <1>2, <2>4, <2>7, <3>1
    <3>3. /\ 1 \in 1 .. 2 + N /\ 2 + argc \in 1 .. 2 + N
          /\ \A j \in 1 .. argc : 1 + j \in 1 .. 2 + N
          /\ \A j \in argc + 1 .. N : 2 + j \in 1 .. 2 + N
      BY <1>2
    <3>4. QED
      BY <2>7, <3>1, <3>2, <3>3
  <2>9. vector' = v4
    BY DEF PushVector, v1, v2, v3, p, q
  <2> HIDE DEF v4
  <2>10. Placed'
    BY <1>2, <1>3, <1>4, <2>8, <2>9 DEF Placed, Place
  <2>11. QED
    BY <2>8, <2>9, <2>10
<1>11. Laid'
  BY <1>3, <1>4 DEF Laid
<1>12. /\ k' \in 1 .. auxc + 1 /\ stack_top' \in 1 .. StackTop
       /\ Len(vector') <= 3 + N + 2 * (k' - 1) /\ 3 + N <= Len(vector')
  BY <1>1, <1>2, <1>3, <1>7, <1>10
<1>13. (\A j \in 1 .. Len(ptrs) : stack_top + VectorRoom + 16 * auxc <= ptrs[j])'
  BY <1>3, <1>4, <1>9
<1>14. /\ (k \in 1 .. auxc + 1)' /\ (Len(ptrs) = argc + envc)'
       /\ (3 + argc + envc <= Len(vector))'
       /\ (Len(vector) <= 3 + argc + envc + 2 * (k - 1))'
  BY <1>2, <1>3, <1>4, <1>12
<1>15. phase' = "auxv" /\ (stack_top % 16 = 0)' /\ (ptrs \in Seq(stack_top .. StackTop))'
  BY <1>3, <1>7, <1>8
<1>16. QED
  BY <1>4, <1>10, <1>11, <1>12, <1>13, <1>14, <1>15 DEF StackInv, Early

LEMMA PushAuxKeeps == ASSUME StackInv, ImageTypes, PushAux PROVE StackInv'
<1> DEFINE N == argc + envc
<1>1. Fixed /\ stack_top \in 1 .. StackTop
  BY DEF StackInv
<1>2. argc \in Nat /\ envc \in Nat /\ auxc \in Nat /\ StackTop \in Nat /\ PhdrRoom \in Nat
  BY <1>1, Counts
<1>3. /\ phase = "auxv" /\ phase' = phase /\ k \in 1 .. auxc /\ k' = k + 1
      /\ stack_top' = stack_top /\ ptrs' = ptrs
      /\ line' = line /\ i' = i /\ env' = env /\ aux' = aux
      /\ vector \in Seq(Cells) /\ 3 + N <= Len(vector) /\ Placed
      /\ Len(vector) <= 3 + N + 2 * (k - 1)
      /\ vector' = IF aux[k] \in Known THEN vector \o <<aux[k], AuxValue(aux[k])>> ELSE vector
  BY <1>2 DEF StackInv, PushAux, optvars
<1>4. /\ argc' = argc /\ envc' = envc /\ auxc' = auxc /\ VectorRoom' = VectorRoom /\ Fixed'
      /\ \A j : StringLen(j)' = StringLen(j) /\ Place(j)' = Place(j)
  BY <1>1, <1>3 DEF argc, argv, envc, auxc, Fixed, StringLen, VectorRoom, Place
<1>5. ASSUME aux[k] \in Known PROVE <<aux[k], AuxValue(aux[k])>> \in Seq(Cells)
  <2>1. aux[k] \in Cells
    <3>1. aux \in Seq(STRING)
      BY <1>1, StartUpAssumption DEF Fixed
    <3>2. aux[k] \in STRING
      BY <1>3, <3>1, ElementOfSeq DEF auxc
    <3>3. QED
      BY <3>2 DEF Cells
  <2>2. AuxValue(aux[k]) \in Cells
    <3>1. Page \in Int /\ StackTop - PhdrRoom \in Int /\ Len(elf.segs) \in Int
          /\ elf.entry + elf.bias \in Int /\ stack_top \in Int
      BY <1>1, <1>2, ElfTypes, StartUpAssumption DEF ImageTypes
    <3>2. QED
      BY <1>5, <3>1 DEF AuxValue, Known, Cells
  <2>3. QED
    BY <2>1, <2>2
<1>6. /\ vector' \in Seq(Cells) /\ Len(vector) \in Nat
      /\ Len(vector) <= Len(vector') /\ Len(vector') <= Len(vector) + 2 /\ Len(vector') \in Nat
      /\ \A j \in 1 .. Len(vector) : vector'[j] = vector[j]
  <2>1. CASE aux[k] \in Known
    <3>1. Len(<<aux[k], AuxValue(aux[k])>>) = 2
      OBVIOUS
    <3>2. QED
      BY <1>3, <1>5, <2>1, <3>1, ConcatProperties, LenProperties
  <2>2. CASE aux[k] \notin Known
    BY <1>3, <2>2, LenProperties
  <2>3. QED
    BY <2>1, <2>2
<1>7. Placed'
  <2>1. \A j \in 1 .. N : Place(j) \in 1 .. Len(vector)
    BY <1>2, <1>3, <1>6 DEF Place
  <2>2. 1 \in 1 .. Len(vector) /\ 2 + argc \in 1 .. Len(vector) /\ 3 + argc + envc \in 1 .. Len(vector)
    BY <1>2, <1>3, <1>6
  <2>3. QED
    BY <1>3, <1>4, <1>6, <2>1, <2>2 DEF Placed
<1>8. Laid'
  BY <1>3, <1>4 DEF Laid, StackInv
<1>9. /\ k' \in 1 .. auxc + 1 /\ 3 + N <= Len(vector') /\ Len(vector') <= 3 + N + 2 * (k' - 1)
  BY <1>2, <1>3, <1>6
<1>10. (\A j \in 1 .. Len(ptrs) : stack_top + VectorRoom + 16 * auxc <= ptrs[j])'
  BY <1>3, <1>4 DEF StackInv
<1>11. /\ (k \in 1 .. auxc + 1)' /\ (Len(ptrs) = argc + envc)'
       /\ (3 + argc + envc <= Len(vector))'
       /\ (Len(vector) <= 3 + argc + envc + 2 * (k - 1))'
  <2>1. Len(ptrs) = argc + envc
    BY <1>3 DEF StackInv
  <2>2. QED
    BY <1>2, <1>3, <1>4, <1>6, <1>9, <2>1
<1>12. /\ phase' = "auxv" /\ (stack_top % 16 = 0)' /\ (ptrs \in Seq(stack_top .. StackTop))'
       /\ (stack_top \in 1 .. StackTop)'
  BY <1>3 DEF StackInv
<1>13. QED
  BY <1>4, <1>6, <1>7, <1>8, <1>10, <1>11, <1>12 DEF StackInv, Early

LEMMA StackFrame ==
  ASSUME StackInv, UNCHANGED <<line, i, env, aux, k, stack_top, ptrs, vector>>,
         phase' = phase \/ (phase = "auxv" /\ phase' = "run")
  PROVE  StackInv'
<1>1. /\ argc' = argc /\ envc' = envc /\ auxc' = auxc /\ VectorRoom' = VectorRoom
      /\ \A j : StringLen(j)' = StringLen(j) /\ Place(j)' = Place(j)
  BY DEF argc, argv, envc, auxc, StringLen, VectorRoom, Place
<1>2. Fixed' = Fixed /\ Laid' = Laid /\ Placed' = Placed
  BY <1>1 DEF Fixed, Laid, Placed
<1>3. Rest(k)' = Rest(k) /\ Rest(1)' = Rest(1)
  BY DEF Rest, argc, argv, envc
<1>4. QED
  BY <1>1, <1>2, <1>3 DEF StackInv, Early

LEMMA StackStep == ASSUME StackInv, Parsed', ImageTypes, [Next]_vars PROVE StackInv'
<1>1. CASE ParseOptions \/ LoadSegment \/ SegmentsDone \/ ScanSection \/ Predecode
  <2>1. /\ phase \in Early \ {"phdrs"} /\ phase' \in Early
        /\ (phase' = "phdrs" => k' = 1)
        /\ stack_top' = stack_top /\ ptrs' = ptrs /\ env' = env /\ aux' = aux
    <3>1. CASE ParseOptions
      BY <3>1 DEF ParseOptions, HelpExit, ParseOption, ParseDone, tvars, Early
    <3>2. CASE LoadSegment \/ SegmentsDone
      BY <3>2 DEF LoadSegment, SegmentsDone, tvars, Early
    <3>3. CASE ScanSection \/ Predecode
      BY <3>3 DEF ScanSection, Predecode, tvars, Early
    <3>4. QED
      BY <1>1, <3>1, <3>2, <3>3
  <2>2. Fixed'
    BY <2>1 DEF StackInv, Fixed, Parsed
  <2>3. QED
    BY <2>1, <2>2 DEF StackInv, Early
<1>2. CASE CopyPhdrs
  <2>1. /\ phase = "phdrs" /\ phase' = "strings" /\ stack_top' = stack_top - PhdrRoom
        /\ ptrs' = ptrs /\ k' = k /\ line' = line /\ i' = i /\ env' = env /\ aux' = aux
    BY <1>2 DEF CopyPhdrs, optvars
  <2>2. Fixed /\ stack_top = StackTop /\ ptrs = <<>> /\ k = 1
    BY <2>1 DEF StackInv, Early
  <2>3. /\ argc \in Nat /\ envc \in Nat /\ auxc \in Nat /\ StackTop \in Nat /\ PhdrRoom \in Nat
        /\ PhdrRoom + Rest(1) + 8 * (argc + envc + 4 * auxc + 6) < StackTop
    BY <2>2, Counts, Rests
  <2>4. Rest(1) \in Nat
    <3>1. 1 \in 1 .. argc + envc + 1
      BY <2>3
    <3>2. QED
      BY <2>2, <3>1, Rests
  <2>5. Fixed' /\ argc' = argc /\ envc' = envc /\ Rest(k)' = Rest(1) /\ Rest(1)' = Rest(1)
    BY <2>1, <2>2 DEF Fixed, argc, argv, envc, Rest
  <2>6. stack_top' \in 1 .. StackTop /\ stack_top' - Rest(1) = StackTop - PhdrRoom - Rest(1)
        /\ stack_top' <= StackTop - PhdrRoom
    BY <2>1, <2>2, <2>3, <2>4
  <2>7. ptrs' \in Seq(stack_top' .. StackTop) /\ Len(ptrs') = 0 /\ Laid'
    BY <2>1, <2>2 DEF Laid
  <2>8. k' \in 1 .. argc + envc + 1 /\ Len(ptrs') = k' - 1
    BY <2>1, <2>2, <2>3, <2>7
  <2>9. QED
    BY <2>1, <2>2, <2>5, <2>6, <2>7, <2>8 DEF StackInv, Early
<1>3. CASE Run \/ Over \/ UNCHANGED vars
  BY <1>3, StackFrame DEF Run, Over, vars, tvars, optvars
<1>4. QED
  BY <1>1, <1>2, <1>3, CopyStringKeeps, PushVectorKeeps, PushAuxKeeps DEF Next

LEMMA StackStart == Init => StackInv
<1> SUFFICES ASSUME Init PROVE StackInv
  OBVIOUS
<1>1. /\ phase = "options" /\ stack_top = StackTop /\ ptrs = <<>> /\ env \in Envs /\ aux \in Auxs
      /\ line \in Lines /\ i = 1
  BY DEF Init, OptionsInit
<1>2. Fixed
  BY <1>1, LinesAreSeqs DEF Fixed
<1>3. StackTop \in 1 .. StackTop
  <2>1. argc \in Nat /\ envc \in Nat /\ auxc \in Nat /\ StackTop \in Nat /\ PhdrRoom \in Nat
        /\ PhdrRoom + Rest(1) + 8 * (argc + envc + 4 * auxc + 6) < StackTop
    BY <1>2, Counts, Rests
  <2>2. Rest(1) \in Nat
    <3>1. 1 \in 1 .. argc + envc + 1
      BY <2>1
    <3>2. QED
      BY <1>2, <3>1, Rests
  <2>3. QED
    BY <2>1, <2>2
<1>4. QED
  BY <1>1, <1>2, <1>3 DEF StackInv, Early

Phases == {"options", "elf", "sections", "phdrs", "strings", "auxv", "run", "exited", "died"}

LEMMA PhaseStep == ASSUME phase \in Phases, [Next]_vars PROVE phase' \in Phases
<1>1. CASE ParseOptions \/ LoadSegment \/ SegmentsDone \/ ScanSection \/ Predecode
  BY <1>1 DEF ParseOptions, HelpExit, ParseOption, ParseDone, LoadSegment, SegmentsDone,
     ScanSection, Predecode, Phases
<1>2. CASE CopyPhdrs \/ CopyString \/ PushVector \/ PushAux \/ Run \/ Over \/ UNCHANGED vars
  BY <1>2 DEF CopyPhdrs, CopyString, PushVector, PushAux, Run, Over, vars, Phases
<1>3. QED
  BY <1>1, <1>2 DEF Next

LEMMA StackInvariant == Spec => [](Parsed /\ ImageTypes /\ StackInv /\ phase \in Phases)
<1>1. Init => Parsed /\ ImageTypes /\ StackInv /\ phase \in Phases
  BY OptionsStart, ImageStart, StackStart DEF Init, OptionsInit, Phases
<1>2. Parsed /\ ImageTypes /\ ImageInv /\ StackInv /\ phase \in Phases /\ [Next]_vars
        => (Parsed /\ ImageTypes /\ StackInv /\ phase \in Phases)'
  BY ParsedStep, ImageStep, StackStep, PhaseStep
<1>3. QED
  BY <1>1, <1>2, ImageInvariant, PTL DEF Spec

(***************************************************************************)
(* From the command line to the first instruction the types hold: the      *)
(* stack never runs out, and every pointer stays on it.                    *)
(***************************************************************************)
THEOREM StartTypes == Spec => []TypeOK
<1>1. Parsed /\ ImageTypes /\ StackInv /\ phase \in Phases => TypeOK
  BY DEF Parsed, ImageTypes, StackInv, Fixed, Phases, TypeOK
<1>2. QED
  BY <1>1, StackInvariant, PTL

LEMMA StackHere == ASSUME StackInv PROVE StackOK
<1> SUFFICES ASSUME phase = "run" PROVE StackOK
  BY DEF StackOK
<1> DEFINE N == argc + envc
<1>1. /\ argc \in Nat /\ envc \in Nat /\ auxc \in Nat /\ auxc >= 1
      /\ \A j \in 1 .. N : StringLen(j) \in Nat
  BY Counts DEF StackInv
<1>2. /\ k \in 1 .. auxc + 1 /\ Len(ptrs) = N /\ Laid /\ stack_top % 16 = 0
      /\ vector \in Seq(Cells) /\ Placed
      /\ Len(vector) <= 3 + N + 2 * (k - 1)
      /\ \A j \in 1 .. N : stack_top + VectorRoom + 16 * auxc <= ptrs[j]
      /\ stack_top \in 1 .. StackTop /\ \A j \in 1 .. N : ptrs[j] \in Nat
  <2>1. ptrs \in Seq(stack_top .. StackTop) /\ stack_top \in 1 .. StackTop
    BY DEF StackInv
  <2>2. Len(ptrs) = N
    BY DEF StackInv
  <2>3. ASSUME NEW j \in 1 .. N PROVE ptrs[j] \in Nat
    <3>1. ptrs[j] \in stack_top .. StackTop
      BY <2>1, <2>2, ElementOfSeq
    <3>2. QED
      BY <2>1, <3>1
  <2>4. \A j \in 1 .. Len(ptrs) : stack_top + VectorRoom + 16 * auxc <= ptrs[j]
    BY DEF StackInv
  <2>5. QED
    <3>1. /\ k \in 1 .. auxc + 1 /\ Laid /\ stack_top % 16 = 0 /\ vector \in Seq(Cells) /\ Placed
          /\ Len(vector) <= 3 + argc + envc + 2 * (k - 1)
      BY DEF StackInv
    <3>2. Len(vector) <= 3 + N + 2 * (k - 1)
      <4>1. 3 + N = 3 + argc + envc
        BY <1>1
      <4>2. QED
        BY <3>1, <4>1
    <3>3. \A j \in 1 .. N : stack_top + VectorRoom + 16 * auxc <= ptrs[j]
      BY <2>2, <2>4
    <3>4. QED
      BY <2>1, <2>2, <2>3, <3>1, <3>2, <3>3
<1>3. stack_top + 8 * (Len(vector) + 2) <= stack_top + VectorRoom + 16 * auxc
  <2>1. VectorRoom = 8 * (3 + N + 2 * auxc) /\ Len(vector) \in Nat
    BY <1>1, <1>2, LenProperties DEF VectorRoom
  <2>2. Len(vector) <= 3 + N + 2 * auxc
    BY <1>1, <1>2, <2>1
  <2>3. QED
    BY <1>1, <1>2, <2>1, <2>2
<1>4. ASSUME NEW j \in 1 .. N
      PROVE  /\ vector[IF j <= argc THEN 1 + j ELSE 2 + j] = ptrs[j]
             /\ stack_top + 8 * (Len(vector) + 2) <= StringAt(j).lo
             /\ StringAt(j).hi <= StackTop - PhdrRoom
             /\ \A l \in 1 .. j - 1 : StringAt(j).hi <= StringAt(l).lo
  <2>1. StringAt(j).lo = ptrs[j] /\ StringAt(j).hi = ptrs[j] + StringLen(j)
        /\ \A l : StringAt(l).lo = ptrs[l]
    BY DEF StringAt
  <2>2. stack_top + 8 * (Len(vector) + 2) <= ptrs[j]
    <3>1. Len(vector) \in Nat /\ VectorRoom \in Nat
      BY <1>1, <1>2, LenProperties DEF VectorRoom
    <3>2. QED
      BY <1>1, <1>2, <1>3, <3>1
  <2>3. vector[IF j <= argc THEN 1 + j ELSE 2 + j] = ptrs[j]
    BY <1>2 DEF Placed, Place
  <2>4. ptrs[j] + StringLen(j) <= StackTop - PhdrRoom
        /\ \A l \in 1 .. j - 1 : ptrs[j] + StringLen(j) <= ptrs[l]
    BY <1>2 DEF Laid
  <2>5. QED
    BY <2>1, <2>2, <2>3, <2>4
<1>5. QED
  BY <1>2, <1>4 DEF StackOK, Placed

(***************************************************************************)
(* For any words, environment and auxiliary vector that fit, the first     *)
(* stack is aligned, each of its pointers leads to its own string, and the *)
(* words pushed reach into no string and not into the program headers.     *)
(***************************************************************************)
THEOREM StackSafe == Spec => []StackOK
<1>1. Parsed /\ ImageTypes /\ StackInv /\ phase \in Phases => StackOK
  BY StackHere
<1>2. QED
  BY <1>1, StackInvariant, PTL
=============================================================================
