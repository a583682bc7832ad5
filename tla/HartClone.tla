------------------------------ MODULE HartClone ------------------------------
(***************************************************************************)
(* Creation of a guest thread.  A guest `clone` is proxied by the calling  *)
(* host thread, which starts a second host thread and waits on a futex     *)
(* word until that thread has built its own hart: pushed it on the lock-   *)
(* free list of harts, taken an index, and copied the caller's registers.  *)
(*                                                                         *)
(* Each hart is identified with the host thread that runs it.  `at[h]` is  *)
(* where that thread is, one value for each access to shared memory:       *)
(*   caller   run -> clone -> test -> (futex -> asleep -> test)* -> run    *)
(*   child    link -> push -> count -> bump -> copy -> setup -> unlock     *)
(*            -> wake -> run                                               *)
(* The register file is abstracted to a context (what the guest program    *)
(* last put in it) and to what a clone has overwritten in it.              *)
(***************************************************************************)
EXTENDS Naturals, FiniteSets

CONSTANTS Harts,     \* every hart the process may ever create
          Main,      \* the hart main() constructs
          NoHart,    \* the null pointer, and a result that names no thread
          Contexts,  \* what a guest program may put in its registers
          NPcs,      \* instruction addresses are 0 .. NPcs - 1
          Outcomes   \* what the host's clone() may do for this guest

ASSUME HartsAssumption ==
  /\ IsFiniteSet(Harts) /\ Main \in Harts /\ NoHart \notin Harts
  /\ Outcomes \subseteq {"thread", "fork", "fail"}
  /\ NPcs \in Nat \ {0}

VARIABLES at,           \* where each host thread is
          cpu_list,     \* hart_t::cpu_list, head of the list of harts
          link,         \* hart_t::link
          num_threads,  \* hart_t::num_threads
          old_n,        \* the constructor's local old_n
          number,       \* hart_t::_number
          clone_lock,   \* hart_t::clone_lock
          retval,       \* proxy_syscall's local retval
          oldcpu,       \* thread_interpreter's argument
          regs,         \* integer registers in state_t
          spc,          \* state_t::pc, what write_pc stored last
          pc,           \* the interpreter's local pc
          exited        \* whether the process has ended

vars == <<at, cpu_list, link, num_threads, old_n, number, clone_lock,
          retval, oldcpu, regs, spc, pc, exited>>

PCs == 0 .. NPcs - 1
Succ(a) == (a + 1) % NPcs     \* the instruction after the one at a

Constructing == {"link", "push", "count", "bump", "copy", "setup", "unlock"}
Waiting      == {"test", "futex", "asleep"}
Places       == {"unborn", "run", "clone", "wake", "done"}
                  \cup Constructing \cup Waiting

Registers == [ctx : Contexts, overlay : {"none", "child", "caller"}]

\* What a clone overwrites in the registers of each side: the result in a0 for
\* the caller; a0 = 0, sp and tp for the child.
Overlaid(r, who) == [ctx |-> r.ctx, overlay |-> who]

Unborn  == {h \in Harts : at[h] = "unborn"}
\* Harts whose constructor has put them on the list, and given them an index.
Pushed  == {h \in Harts : at[h] \notin {"unborn", "link", "push"}}
Indexed == {h \in Pushed : at[h] \notin {"count", "bump"}}

Init ==
  /\ at = [h \in Harts |-> IF h = Main THEN "run" ELSE "unborn"]
  /\ cpu_list = Main
  /\ link = [h \in Harts |-> NoHart]
  /\ num_threads = 1
  /\ old_n = [h \in Harts |-> 0]
  /\ number = [h \in Harts |-> 0]
  /\ clone_lock = [h \in Harts |-> 0]
  /\ retval = [h \in Harts |-> NoHart]
  /\ oldcpu = [h \in Harts |-> NoHart]
  /\ regs \in {[h \in Harts |-> [ctx |-> c, overlay |-> "none"]] : c \in Contexts}
  /\ spc = [h \in Harts |-> 0]
  /\ pc = [h \in Harts |-> 0]
  /\ exited = "no"

Goto(h, from, to) == at[h] = from /\ at' = [at EXCEPT ![h] = to]

(***************************************************************************)
(* Guest instructions, and the interpreter's return to its loop.           *)
(***************************************************************************)
GuestStep(h) ==
  /\ at[h] = "run"
  /\ \E c \in Contexts, a \in PCs :
       /\ regs' = [regs EXCEPT ![h] = [ctx |-> c, overlay |-> "none"]]
       /\ pc' = [pc EXCEPT ![h] = a]
  /\ UNCHANGED <<at, cpu_list, link, num_threads, old_n, number, clone_lock,
                 retval, oldcpu, spc, exited>>

EndSlice(h) ==
  /\ at[h] = "run"
  /\ spc' = [spc EXCEPT ![h] = pc[h]]
  /\ UNCHANGED <<at, cpu_list, link, num_threads, old_n, number, clone_lock,
                 retval, oldcpu, regs, pc, exited>>

\* Mutants of EcallClone: STATE.pc is not brought up to date; the lock is not
\* taken.
EcallCloneStalePc(h) ==
  /\ Cardinality({g \in Harts : at[g] = "clone"}) < Cardinality(Unborn)
  /\ Goto(h, "run", "clone")
  /\ clone_lock' = [clone_lock EXCEPT ![h] = 1]
  /\ UNCHANGED <<cpu_list, link, num_threads, old_n, number, retval, oldcpu,
                 regs, spc, pc, exited>>

EcallCloneUnlocked(h) ==
  /\ Cardinality({g \in Harts : at[g] = "clone"}) < Cardinality(Unborn)
  /\ Goto(h, "run", "clone")
  /\ spc' = [spc EXCEPT ![h] = pc[h]]
  /\ UNCHANGED <<cpu_list, link, num_threads, old_n, number, clone_lock,
                 retval, oldcpu, regs, pc, exited>>

(***************************************************************************)
(* The caller.  A clone is only begun while an unborn hart is left for it  *)
(* (the bound on the number of threads).                                   *)
(***************************************************************************)
EcallClone(h) ==
  /\ Cardinality({g \in Harts : at[g] = "clone"}) < Cardinality(Unborn)
  /\ Goto(h, "run", "clone")
  /\ spc' = [spc EXCEPT ![h] = pc[h]]
  /\ clone_lock' = [clone_lock EXCEPT ![h] = 1]
  /\ UNCHANGED <<cpu_list, link, num_threads, old_n, number, retval, oldcpu,
                 regs, pc, exited>>

CloneThread(h) ==
  /\ "thread" \in Outcomes
  /\ at[h] = "clone"
  /\ \E c \in Unborn :
       /\ at' = [at EXCEPT ![h] = "test", ![c] = "link"]
       /\ oldcpu' = [oldcpu EXCEPT ![c] = h]
       /\ retval' = [retval EXCEPT ![h] = c]
  /\ UNCHANGED <<cpu_list, link, num_threads, old_n, number, clone_lock, regs,
                 spc, pc, exited>>

\* A clone without CLONE_VM: the child runs thread_interpreter in a copy of
\* this process, and the clone_lock it clears is the copy's.
CloneProcess(h) ==
  /\ "fork" \in Outcomes
  /\ Goto(h, "clone", "test")
  /\ retval' = [retval EXCEPT ![h] = NoHart]
  /\ UNCHANGED <<cpu_list, link, num_threads, old_n, number, clone_lock,
                 oldcpu, regs, spc, pc, exited>>

\* clone() returns -1: nothing was started.
CloneFails(h) ==
  /\ "fail" \in Outcomes
  /\ Goto(h, "clone", "test")
  /\ retval' = [retval EXCEPT ![h] = NoHart]
  /\ UNCHANGED <<cpu_list, link, num_threads, old_n, number, clone_lock,
                 oldcpu, regs, spc, pc, exited>>

TestLocked(h) ==
  /\ clone_lock[h] # 0
  /\ Goto(h, "test", "futex")
  /\ UNCHANGED <<cpu_list, link, num_threads, old_n, number, clone_lock,
                 retval, oldcpu, regs, spc, pc, exited>>

\* The loop ends; a0 takes retval and the interpreter steps over the ecall.
TestFree(h) ==
  /\ clone_lock[h] = 0
  /\ Goto(h, "test", "run")
  /\ regs' = [regs EXCEPT ![h] = Overlaid(@, "caller")]
  /\ pc' = [pc EXCEPT ![h] = Succ(pc[h])]
  /\ UNCHANGED <<cpu_list, link, num_threads, old_n, number, clone_lock,
                 retval, oldcpu, spc, exited>>

\* Mutant of FutexWait: it sleeps without comparing the word again.
FutexSleep(h) ==
  /\ Goto(h, "futex", "asleep")
  /\ UNCHANGED <<cpu_list, link, num_threads, old_n, number, clone_lock,
                 retval, oldcpu, regs, spc, pc, exited>>

\* FUTEX_WAIT compares and queues in one step of the kernel.
FutexWait(h) ==
  /\ at[h] = "futex"
  /\ at' = [at EXCEPT ![h] = IF clone_lock[h] = 1 THEN "asleep" ELSE "test"]
  /\ UNCHANGED <<cpu_list, link, num_threads, old_n, number, clone_lock,
                 retval, oldcpu, regs, spc, pc, exited>>

\* A signal, or any other reason for FUTEX_WAIT to return early.
SpuriousWake(h) ==
  /\ Goto(h, "asleep", "test")
  /\ UNCHANGED <<cpu_list, link, num_threads, old_n, number, clone_lock,
                 retval, oldcpu, regs, spc, pc, exited>>

(***************************************************************************)
(* The child: newcore() constructs its hart, then thread_interpreter makes *)
(* it the child's and releases the caller.                                 *)
(***************************************************************************)
ReadHead(c) ==
  /\ Goto(c, "link", "push")
  /\ link' = [link EXCEPT ![c] = cpu_list]
  /\ UNCHANGED <<cpu_list, num_threads, old_n, number, clone_lock, retval,
                 oldcpu, regs, spc, pc, exited>>

\* Mutants of PushCAS: a plain store; a retry that does not read the head again.
PushStore(c) ==
  /\ Goto(c, "push", "count")
  /\ cpu_list' = c
  /\ UNCHANGED <<link, num_threads, old_n, number, clone_lock, retval, oldcpu,
                 regs, spc, pc, exited>>

PushCASNoReload(c) ==
  /\ at[c] = "push"
  /\ cpu_list = link[c]
  /\ cpu_list' = c
  /\ at' = [at EXCEPT ![c] = "count"]
  /\ UNCHANGED <<link, num_threads, old_n, number, clone_lock, retval, oldcpu,
                 regs, spc, pc, exited>>

PushCAS(c) ==
  /\ at[c] = "push"
  /\ \/ /\ cpu_list = link[c]
        /\ cpu_list' = c
        /\ at' = [at EXCEPT ![c] = "count"]
     \/ /\ cpu_list # link[c]
        /\ cpu_list' = cpu_list
        /\ at' = [at EXCEPT ![c] = "link"]
  /\ UNCHANGED <<link, num_threads, old_n, number, clone_lock, retval, oldcpu,
                 regs, spc, pc, exited>>

ReadCount(c) ==
  /\ Goto(c, "count", "bump")
  /\ old_n' = [old_n EXCEPT ![c] = num_threads]
  /\ UNCHANGED <<cpu_list, link, num_threads, number, clone_lock, retval,
                 oldcpu, regs, spc, pc, exited>>

\* Mutant of CountCAS: a plain store.
CountStore(c) ==
  /\ Goto(c, "bump", "copy")
  /\ num_threads' = old_n[c] + 1
  /\ number' = [number EXCEPT ![c] = old_n[c]]
  /\ UNCHANGED <<cpu_list, link, old_n, clone_lock, retval, oldcpu, regs, spc,
                 pc, exited>>

CountCAS(c) ==
  /\ at[c] = "bump"
  /\ \/ /\ num_threads = old_n[c]
        /\ num_threads' = old_n[c] + 1
        /\ number' = [number EXCEPT ![c] = old_n[c]]
        /\ at' = [at EXCEPT ![c] = "copy"]
     \/ /\ num_threads # old_n[c]
        /\ at' = [at EXCEPT ![c] = "count"]
        /\ UNCHANGED <<num_threads, number>>
  /\ UNCHANGED <<cpu_list, link, old_n, clone_lock, retval, oldcpu, regs, spc,
                 pc, exited>>

CopyState(c) ==
  /\ Goto(c, "copy", "setup")
  /\ regs' = [regs EXCEPT ![c] = regs[oldcpu[c]]]
  /\ spc' = [spc EXCEPT ![c] = spc[oldcpu[c]]]
  /\ UNCHANGED <<cpu_list, link, num_threads, old_n, number, clone_lock,
                 retval, oldcpu, pc, exited>>

\* Mutant of SetupChild: the child starts at the ecall, and clones again.
SetupChildAtEcall(c) ==
  /\ Goto(c, "setup", "unlock")
  /\ regs' = [regs EXCEPT ![c] = Overlaid(@, "child")]
  /\ UNCHANGED <<cpu_list, link, num_threads, old_n, number, clone_lock,
                 retval, oldcpu, spc, pc, exited>>

\* sp, tp and a0 become the child's; its pc steps over the ecall.
SetupChild(c) ==
  /\ Goto(c, "setup", "unlock")
  /\ regs' = [regs EXCEPT ![c] = Overlaid(@, "child")]
  /\ spc' = [spc EXCEPT ![c] = Succ(spc[c])]
  /\ UNCHANGED <<cpu_list, link, num_threads, old_n, number, clone_lock,
                 retval, oldcpu, pc, exited>>

Unlock(c) ==
  /\ Goto(c, "unlock", "wake")
  /\ clone_lock' = [clone_lock EXCEPT ![oldcpu[c]] = 0]
  /\ UNCHANGED <<cpu_list, link, num_threads, old_n, number, retval, oldcpu,
                 regs, spc, pc, exited>>

\* FUTEX_WAKE, then the child's interpreter loads its pc.
WakeAndRun(c) ==
  /\ at[c] = "wake"
  /\ at' = [h \in Harts |->
              IF h = c THEN "run"
              ELSE IF h = oldcpu[c] /\ at[h] = "asleep" THEN "test" ELSE at[h]]
  /\ pc' = [pc EXCEPT ![c] = spc[c]]
  /\ UNCHANGED <<cpu_list, link, num_threads, old_n, number, clone_lock,
                 retval, oldcpu, regs, spc, exited>>

(***************************************************************************)
(* SYS_exit and SYS_exit_group share one body: exit(a0), which ends the    *)
(* process and every thread in it.                                         *)
(***************************************************************************)
Exit(h) ==
  /\ Goto(h, "run", "done")
  /\ exited' = "yes"
  /\ spc' = [spc EXCEPT ![h] = pc[h]]
  /\ UNCHANGED <<cpu_list, link, num_threads, old_n, number, clone_lock,
                 retval, oldcpu, regs, pc>>

\* The steps a host thread takes without the guest program's choosing.
CallerStep(h) == \/ CloneThread(h) \/ CloneProcess(h) \/ CloneFails(h)
                 \/ TestLocked(h) \/ TestFree(h) \/ FutexWait(h)
ChildStep(c)  == \/ ReadHead(c) \/ PushCAS(c) \/ ReadCount(c) \/ CountCAS(c)
                 \/ CopyState(c) \/ SetupChild(c) \/ Unlock(c) \/ WakeAndRun(c)
GuestChoice(h) == \/ GuestStep(h) \/ EndSlice(h) \/ EcallClone(h)
                  \/ Exit(h)

HartStep(h) == CallerStep(h) \/ ChildStep(h)

\* The process is gone.
Ended == exited # "no" /\ UNCHANGED vars

Next == \/ /\ exited = "no"
           /\ \E h \in Harts : HartStep(h) \/ GuestChoice(h) \/ SpuriousWake(h)
        \/ Ended

Spec == Init /\ [][Next]_vars

\* The host's scheduler runs every thread that is not blocked.
Fairness == \A h \in Harts : WF_vars(exited = "no" /\ HartStep(h))
FairSpec == Spec /\ Fairness
-----------------------------------------------------------------------------
TypeOK ==
  /\ at \in [Harts -> Places]
  /\ cpu_list \in Harts
  /\ link \in [Harts -> Harts \cup {NoHart}]
  /\ num_threads \in Nat
  /\ old_n \in [Harts -> Nat]
  /\ number \in [Harts -> Nat]
  /\ clone_lock \in [Harts -> {0, 1}]
  /\ retval \in [Harts -> Harts \cup {NoHart}]
  /\ oldcpu \in [Harts -> Harts \cup {NoHart}]
  /\ regs \in [Harts -> Registers]
  /\ spc \in [Harts -> PCs]
  /\ pc \in [Harts -> PCs]
  /\ exited \in {"no", "yes"}

(***************************************************************************)
(* While a child builds its hart from its caller's registers, the caller   *)
(* is held in its wait loop for that child and no other: it cannot have    *)
(* resumed through a wake meant for an earlier clone, and no two children  *)
(* share a caller.                                                         *)
(***************************************************************************)
CallerHeld ==
  \A c \in Harts : at[c] \in Constructing =>
    /\ oldcpu[c] \in Harts
    /\ at[oldcpu[c]] \in Waiting
    /\ clone_lock[oldcpu[c]] = 1
    /\ retval[oldcpu[c]] = c

(***************************************************************************)
(* The image a child is about to publish is its caller's at the ecall: the *)
(* same context, the address after the caller's own ecall (the caller's    *)
(* STATE.pc was brought up to date before the proxied call).               *)
(***************************************************************************)
ImageInherited ==
  \A c \in Harts : at[c] = "unlock" =>
    LET p == oldcpu[c] IN
      /\ regs[c] = Overlaid(regs[p], "child")
      /\ spc[c] = Succ(pc[p])

(***************************************************************************)
(* A walk of the list from cpu_list, as status_report and hart_t::find do  *)
(* it with no lock, meets only harts that have been pushed, ends, and      *)
(* meets every one of them, whatever pushes race with each other: any set  *)
(* that holds the head and is closed under link holds all pushed harts.    *)
(***************************************************************************)
LinksPushed == /\ cpu_list \in Pushed
               /\ \A h \in Harts : link[h] \in Pushed \cup {NoHart}
WalkEnds == \A S \in SUBSET Pushed : S # {} => \E h \in S : link[h] \notin S
WalkMeetsAll ==
  \A S \in SUBSET Harts :
    cpu_list \in S /\ (\A h \in S : link[h] \in S \cup {NoHart}) => Pushed \subseteq S
ListComplete == LinksPushed /\ WalkEnds /\ WalkMeetsAll

(***************************************************************************)
(* The indices handed out by racing constructors are distinct and leave no *)
(* gap: they are 0 .. num_threads - 1, so number() can index an array of   *)
(* threads() elements.                                                     *)
(***************************************************************************)
NumbersUnique ==
  /\ \A g, h \in Indexed : number[g] = number[h] => g = h
  /\ \A h \in Indexed : number[h] < num_threads
NumbersDense == num_threads = Cardinality(Indexed)

(***************************************************************************)
(* A guest's clone returns: its caller gets back to guest code, unless the *)
(* process ends first.  So it does where clone() always starts a thread; a *)
(* caller whose clone() failed, or made a process, waits for ever on the   *)
(* lock that nobody clears.                                                *)
(***************************************************************************)
CloneReturns ==
  \A h \in Harts : (at[h] = "test") ~> (at[h] = "run" \/ exited # "no")

(***************************************************************************)
(* A child whose caller is waiting starts to run, however long the other   *)
(* children keep winning the two compare-and-swap loops.                   *)
(***************************************************************************)
ChildStarts ==
  \A c \in Harts : (at[c] = "link") ~> (at[c] = "run" \/ exited # "no")

(***************************************************************************)
(* Every behaviour is one GuestThreads allows.  A thread has started once  *)
(* SetupChild has finished its image; its pc is STATE.pc until its         *)
(* interpreter has loaded it.                                              *)
(***************************************************************************)
Live   == {h \in Harts : at[h] \in {"run", "clone", "unlock", "wake", "done"}
                                    \cup Waiting}
InCall == {h \in Harts : at[h] \in {"clone"} \cup Waiting}
Loaded(h) == at[h] \notin {"unlock", "wake"}

Guest == INSTANCE GuestThreads WITH
  Threads  <- Harts,
  NoThread <- NoHart,
  image    <- [h \in Live |-> [ctx     |-> regs[h].ctx,
                               overlay |-> regs[h].overlay,
                               pc      |-> IF Loaded(h) THEN pc[h] ELSE spc[h]]],
  calling  <- InCall,
  child    <- [h \in Harts |-> IF at[h] \in Waiting /\ retval[h] \in Live
                               THEN retval[h] ELSE NoHart],
  ended    <- exited # "no"
GuestSpec == Guest!Spec
=============================================================================
