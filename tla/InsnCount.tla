----------------------------- MODULE InsnCount -----------------------------
(***************************************************************************)
(* Instruction counting.  The interpreter counts a slice in a local, and   *)
(* incr_count adds it to the hart's own counter and, with a compare-and-   *)
(* swap loop, to the total of all harts.  Around a proxied system call the *)
(* part of the slice already run is added and taken away again, so that    *)
(* what the call can see (exit's report, another hart's report) is right.  *)
(***************************************************************************)
EXTENDS Integers, FiniteSets, Functions

CONSTANTS Harts,
          Main,
          HowMany,      \* instructions in a slice, conf_stat * 1000000
          MaxRetired    \* bound: instructions a hart retires in a behaviour

ASSUME CountAssumption ==
  /\ Main \in Harts /\ IsFiniteSet(Harts)
  /\ HowMany \in Nat \ {0} /\ MaxRetired \in Nat

VARIABLES at,         \* where each hart's thread is
          executed,   \* hart_t::_executed
          total,      \* hart_t::total_insns
          insns,      \* the interpreter's local count of this slice
          oldtotal,   \* incr_count's local
          delta,      \* incr_count's argument
          then,       \* where incr_count returns to
          retired     \* history: instructions the hart has completed

countvars == <<at, executed, total, insns, oldtotal, delta, then, retired>>

CountInit ==
  /\ at = [h \in Harts |-> IF h = Main THEN "run" ELSE "off"]
  /\ executed = [h \in Harts |-> 0]
  /\ total = 0
  /\ insns = [h \in Harts |-> 0]
  /\ oldtotal = [h \in Harts |-> 0]
  /\ delta = [h \in Harts |-> 0]
  /\ then = [h \in Harts |-> "run"]
  /\ retired = [h \in Harts |-> 0]

Ended == \E h \in Harts : at[h] = "done"

\* incr_count(n), to return to place p: _executed += n, then the loop.
IncrCount(h, n, p) ==
  /\ at' = [at EXCEPT ![h] = "load"]
  /\ executed' = [executed EXCEPT ![h] = @ + n]
  /\ delta' = [delta EXCEPT ![h] = n]
  /\ then' = [then EXCEPT ![h] = p]
  /\ UNCHANGED <<total, oldtotal>>

LoadTotal(h) ==
  /\ at[h] = "load"
  /\ at' = [at EXCEPT ![h] = "swap"]
  /\ oldtotal' = [oldtotal EXCEPT ![h] = total]
  /\ UNCHANGED <<executed, total, insns, delta, then, retired>>

\* Mutant of SwapTotal: a plain store.
StoreTotal(h) ==
  /\ at[h] = "swap"
  /\ total' = oldtotal[h] + delta[h]
  /\ at' = [at EXCEPT ![h] = then[h]]
  /\ oldtotal' = [oldtotal EXCEPT ![h] = 0]
  /\ delta' = [delta EXCEPT ![h] = 0]
  /\ then' = [then EXCEPT ![h] = "run"]
  /\ UNCHANGED <<executed, insns, retired>>

SwapTotal(h) ==
  /\ at[h] = "swap" /\ total = oldtotal[h]
  /\ total' = oldtotal[h] + delta[h]
  /\ at' = [at EXCEPT ![h] = then[h]]
  /\ oldtotal' = [oldtotal EXCEPT ![h] = 0]
  /\ delta' = [delta EXCEPT ![h] = 0]
  /\ then' = [then EXCEPT ![h] = "run"]
  /\ UNCHANGED <<executed, insns, retired>>

SwapLost(h) ==
  /\ at[h] = "swap" /\ total # oldtotal[h]
  /\ at' = [at EXCEPT ![h] = "load"]
  /\ UNCHANGED <<executed, total, insns, oldtotal, delta, then, retired>>

(***************************************************************************)
(* The interpreter.  Counted(h, n) is the end of its loop with n in insns: *)
(* another instruction, or the end of the slice.                           *)
(***************************************************************************)
Retire(h) ==
  /\ retired[h] < MaxRetired
  /\ retired' = [retired EXCEPT ![h] = @ + 1]
  /\ insns' = [insns EXCEPT ![h] = @ + 1]

Instruction(h) ==
  /\ at[h] = "run"
  /\ Retire(h)
  /\ IF insns[h] + 1 < HowMany
     THEN UNCHANGED <<at, executed, total, oldtotal, delta, then>>
     ELSE IncrCount(h, insns[h] + 1, "report")

\* trap_breakpoint: the slice ends before the instruction.
Breakpoint(h) ==
  /\ at[h] = "run"
  /\ IncrCount(h, insns[h], "report")
  /\ UNCHANGED <<insns, retired>>

\* Mutant of Ecall: the slice so far is not added.
EcallUncounted(h) ==
  /\ at[h] = "run"
  /\ retired[h] < MaxRetired
  /\ IncrCount(h, 0, "syscall")
  /\ UNCHANGED <<insns, retired>>

Ecall(h) ==
  /\ at[h] = "run"
  /\ retired[h] < MaxRetired
  /\ IncrCount(h, insns[h], "syscall")
  /\ UNCHANGED <<insns, retired>>

\* clone(): the new hart starts with a count of its own while this one waits.
Spawn(h) ==
  /\ at[h] = "syscall"
  /\ \E c \in Harts :
       /\ at[c] = "off"
       /\ at' = [at EXCEPT ![c] = "run"]
  /\ UNCHANGED <<executed, total, insns, oldtotal, delta, then, retired>>

\* Mutant of SyscallReturns: the adjustment is not taken back.
SyscallReturnsKept(h) ==
  /\ at[h] = "syscall"
  /\ IncrCount(h, 0, "ecalled")
  /\ UNCHANGED <<insns, retired>>

SyscallReturns(h) ==
  /\ at[h] = "syscall"
  /\ IncrCount(h, -insns[h], "ecalled")
  /\ UNCHANGED <<insns, retired>>

\* proxy_ecall has returned; the ecall itself is counted like any other.
EcallRetires(h) ==
  /\ at[h] = "ecalled"
  /\ Retire(h)
  /\ IF insns[h] + 1 < HowMany
     THEN /\ at' = [at EXCEPT ![h] = "run"]
          /\ UNCHANGED <<executed, total, oldtotal, delta, then>>
     ELSE IncrCount(h, insns[h] + 1, "report")

\* exit() runs exit_func, and so status_report, on this thread.  The call's
\* number is loaded into a7 by an instruction of this thread: a thread starts
\* with zero, or clone's number, there.
SyscallExits(h) ==
  /\ at[h] = "syscall"
  /\ retired[h] > 0
  /\ at' = [at EXCEPT ![h] = "exiting"]
  /\ UNCHANGED <<executed, total, insns, oldtotal, delta, then, retired>>

\* status_report only reads; then the next slice, or the end of the process.
Report(h) ==
  /\ at[h] = "report"
  /\ at' = [at EXCEPT ![h] = "run"]
  /\ insns' = [insns EXCEPT ![h] = 0]
  /\ UNCHANGED <<executed, total, oldtotal, delta, then, retired>>

ExitReport(h) ==
  /\ at[h] = "exiting"
  /\ at' = [at EXCEPT ![h] = "done"]
  /\ UNCHANGED <<executed, total, insns, oldtotal, delta, then, retired>>

CountNext ==
  \/ /\ ~Ended
     /\ \E h \in Harts :
          \/ Instruction(h) \/ Breakpoint(h) \/ Ecall(h) \/ Spawn(h)
          \/ SyscallReturns(h) \/ EcallRetires(h) \/ SyscallExits(h)
          \/ LoadTotal(h) \/ SwapTotal(h) \/ SwapLost(h)
          \/ Report(h) \/ ExitReport(h)
  \/ Ended /\ UNCHANGED countvars

CountSpec == CountInit /\ [][CountNext]_countvars
-----------------------------------------------------------------------------
Places == {"off", "run", "load", "swap", "syscall", "ecalled", "report",
           "exiting", "done"}

CountTypeOK ==
  /\ at \in [Harts -> Places]
  /\ executed \in [Harts -> Int]
  /\ total \in Int
  /\ insns \in [Harts -> Nat]
  /\ oldtotal \in [Harts -> Int]
  /\ delta \in [Harts -> Int]
  /\ then \in [Harts -> {"run", "syscall", "ecalled", "report"}]
  /\ retired \in [Harts -> Nat]

(***************************************************************************)
(* No instruction is lost or counted twice in the total, whatever          *)
(* increments race: it differs from the sum of the harts' counters only by *)
(* what is between incr_count's two halves, its argument.                  *)
(***************************************************************************)
TotalConserved == total = SumFunction(executed) - SumFunction(delta)

(***************************************************************************)
(* While a system call is in progress, and when a slice is reported, the   *)
(* hart's counter is what it has retired: "make _count correct for         *)
(* inspection/exit" (proxy_syscall.cc:84).                                 *)
(***************************************************************************)
CountExact ==
  \A h \in Harts : at[h] \in {"syscall", "report", "exiting", "done"} =>
    executed[h] = retired[h]

(***************************************************************************)
(* Within a slice the counter lags by the slice alone: the adjustment made *)
(* for a system call is undone (proxy_syscall.cc:105), so it never drifts. *)
(***************************************************************************)
NoDrift ==
  \A h \in Harts : at[h] \in {"run", "ecalled"} => executed[h] + insns[h] = retired[h]

\* status_report divides by the total: whenever it may run, that is not zero.
ReportDivides ==
  \A h \in Harts : at[h] \in {"report", "exiting"} /\ retired[h] > 0 => total > 0
=============================================================================
