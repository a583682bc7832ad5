# cavatools in TLA+

Specifications, model-checking instances and machine-checked proofs for the
concurrent and stateful parts of cavatools: **uspike**, a RISC-V interpreter that
proxies the guest's system calls to the host; **caveat**, a cache and timing model
on top of it; and **erised**, a viewer of caveat's counters.

Paths below are relative to `src/`.

## 1. The system

### Parts, their state and their operations

| part | state it keeps | operations | what must be right |
|---|---|---|---|
| thread creation: `uspike/hart.h`, `hart.cc`, `proxy_syscall.cc` | list of harts `cpu_list`/`link`, `num_threads`, `_number`, `clone_lock`, the registers and pc of each hart | the `hart_t` constructors, `proxy_ecall`, the `SYS_clone` case, `thread_interpreter`, exit | a child starts from its caller's registers at the ecall; the caller resumes after that, once; no hart is lost from the list; indices are distinct and dense |
| memory pool: `uspike/main.cc`, `caveat/simulator.cc` | `pooltop` | `malloc`; `calloc` is `malloc`, `free` does nothing | blocks are disjoint, aligned, in the pool; memory past `pooltop` is untouched (`calloc` does not clear) |
| instruction counting: `hart.cc`, `interpreter.cc`, `proxy_syscall.cc` | `_executed` per hart, `total_insns`, the interpreter's `insns` | `incr_count`, the end of a slice, the adjustment around a system call, `status_report` | nothing lost or counted twice; exact where it is inspected; no division by zero |
| gdb stub: `uspike/gdblink.c`, `main.cc` | the guest's registers, memory and decoded code, `lastGdbSignal`, the signal mask, the packet buffers | packets `g G ? P m M s c`, acknowledgement and retransmission, the loop around `interpreter(1)`, the signal handlers | one command, one execution, one answer, on a link that corrupts packets; gdb's view of a stopped guest is true |
| cache model: `caveat/cache.h`, `cache.cc` | `tags`, `states` (one number per row), counters, `*evicted` | `lookup`, `flush` | true LRU, one copy of a line, each dirty line written back once |
| table generator: `caveat/make_cache` | none | writes the LRU state machine of N ways | the machine it writes is LRU |
| timing and counters: `caveat/simulator.cc`, `perf.h`, `perf.cc` | `local_time` per core, counters in shared memory, a slot per core | `insn_model`, `load_model`, `store_model`, `amo_model`, `jump_model`, `core_t`'s constructors | the counters account for the clock; a core counts in its own slot |
| interpreter and code space: `uspike/interpreter.cc`, `instructions.cc`, `instructions.h`, `mmu.h`, `RV.fast` | decoded instructions `predecoded`, guest memory, each hart's registers and pc | `loadelf`, `substitute_cas`, `redecode`, `cas`, the amo loops, plain stores | what an atomic instruction or a substituted sequence read is what it replaced; a substituted sequence does what the original did |
| counters segment: `caveat/perf.cc`, `perf.h` | a header and three arrays per core in shared memory | `perf_t::create`, `open`, `perf_t(n)` | the counters lie inside the segment and apart; a viewer reads only what is there |
| viewer: `erised/erised.cc` | a local histogram window, the listing's base and bound | the loop of `interactive()`: paint, click, wheel, zoom, quit, clamp | the windows stay in the text; the bins cover them; the wheel moves one instruction |
| options: `uspike/options.cc`, `options.h` | the registered options' values | `parse_options`, `setval`, `matches`, `help_exit` | an option means what its last mention says; the guest's words are its own |
| ELF loader and stack: `uspike/elf_loader.c` | guest memory, the bounds of the text, the stack pointer | `load_elf_binary`, `initialize_stack` | a segment is what the file holds though pages are shared; the stack is the ABI's |
| code generators | none after build time | | |

### How they interact

* A guest `ecall` runs in the interpreter of its hart: `proxy_ecall` adds the part of
  the slice already run to the counters, stores the pc, calls `proxy_syscall`, and takes
  the count away again. `SYS_clone` starts a host thread that builds a new hart from the
  caller's and clears the caller's `clone_lock`; the caller waits on it with a futex.
* Harts share `cpu_list`, `num_threads`, `total_insns`, `pooltop` (compare-and-swap),
  and, under caveat, the counters segment (plain loads and stores).
* With `--gdb` the process has one thread that alternates between packets and
  `interpreter(1)`; SIGSEGV leaves either by `longjmp`.
* caveat subclasses the hart with `mem_t` (caches, clock) and `perf_t` (slot). Each
  instruction calls the model's hooks, which call `cache_t::lookup` and add to counters.
* erised maps the same segment read-only. Nothing orders erised's `open` after caveat's
  `create`, and a second caveat truncates the segment under an erised that has it mapped.
* erised loads the same ELF file as caveat, by itself, to find the instructions whose
  counters it shows.
* gdb's `M` packet writes guest memory and calls `redecode`, which changes the code the harts
  execute, a substituted sequence included.

### What is hard here

Lock-free pushes and counters raced by constructors; a futex handshake with the wake
before the sleep; registers of one thread read by another; the pc kept in a local; a packet
protocol with retransmission and out-of-band interrupts; `longjmp` out of signal handlers;
a generated table no one can read; an order of base-class construction; an atomic sequence of
three instructions executed as one, and undone by a breakpoint; a segment read while it is
created; walking backwards over instructions of two sizes. `PROJECT.json` lists these as
hazards, each at its line with the properties that would catch it, or with the reason why none would.

## 2. Modules

```
GuestThreads <-refines- HartClone  -- HartCloneMC, HartCloneProofs
         SimPool, InsnCount        -- InsnCountMC, UspikeProofs (with SumTheorems)
LruStack     <-refines- LruCache   -- LruCacheMC (with MakeCache), LruCacheProofs
                        GdbSession -- GdbSessionMC, GdbSessionProofs
                        PerfCounters -- PerfCountersProofs (with SumTheorems)
AtomicMemory <-refines- CodeSpace  -- CodeSpaceMC, CodeSpaceProofs
          PerfSegment - ErisedView -- ErisedViewMC, ErisedViewProofs (with SumTheorems)
              Options - StartUp    -- StartUpMC, UspikeProofs
```

An action is one access to memory that another actor can see; what a thread does
between two such accesses belongs to the action. Operators named
"Mutant of X" are not part of any specification: each is X with one plausible
programming error, kept to show that a property would notice it.

**HartClone** identifies a hart with its host thread and gives `at[h]` a value for each shared
access: the caller goes `run, clone, test, futex, asleep`, the child `link, push, count,
bump, copy, setup, unlock, wake, run`. `ReadHead`/`PushCAS` are the loop of
`hart.cc:142-144`, `ReadCount`/`CountCAS` that of `145-150`, `CopyState` the copy
constructor's part, `SetupChild`, `Unlock`, `WakeAndRun` are `thread_interpreter`,
`TestLocked`, `TestFree`, `FutexWait` are `while (clone_lock) futex(...)`. Clone has three outcomes:
a thread, a process (no `CLONE_VM`, so the lock the child clears is a copy) and failure.
A register file is abstracted to a context and to what a clone has laid over it; sp, tp and a0
of the child are one such overlay. FUTEX_WAIT's compare-and-sleep is one step because the
kernel guarantees it; early returns are `SpuriousWake`. A pc taken from `STATE.pc` and the
interpreter's local pc are separate variables (`spc`, `pc`), for that is the hazard.

**GuestThreads** is the promise: a thread calls, another starts with the
image of the caller at the call, then the call returns. `HartClone!GuestSpec` states that
HartClone implements it: a thread has started once `SetupChild` is done, and the caller
is calling from `EcallClone` to `TestFree`. A clone that does not start a thread is, for the
abstract guest, a call that has not returned yet.

**SimPool** has one action per access of `malloc` to `pooltop`. `Frontier` is strict: every
block ends below `pooltop`, so the next one starts on untouched memory. malloc names
`pooltop` twice before the swap; both Makefiles build with `-Ofast`, which loads it once,
and the model is of that build (see Divergences). The copy of malloc in caveat differs only in its
wording, and the module stands for both.

**InsnCount** is `incr_count` as a subroutine (`load`, `swap`, return to `then[h]`) called at the
end of a slice, at a breakpoint and around a system call. `retired` is a history variable.
A report reads counters without a lock and changes nothing.

**LruCache** is `cache_t::lookup` on any table `Fsm`; `FsmAssumption` says that the table is an LRU
machine and TLC evaluates it on the table that **MakeCache**, a translation of the generator,
produces. `RowOf` is the masked address. **LruStack** is the textbook cache: rows
are stacks, a dirty line is written back when it leaves. The refinement mapping reads a
row's tags in the order its state gives.

**GdbSession** has the stub's thread wait in one of four places; everything it does between two
waits is one action, since nothing else touches its state. Each direction of the link is
a queue; a packet carries a command or a reply and whether its checksum arrives right. gdb
itself is external: it sends, repeats on '-', drops an old reply where an acknowledgement was
due, acknowledges, and may send an interrupt while it waits for the guest to stop. The
guest is three instructions, one of which may touch an unmapped address; memory (`mem`)
and its decoded copy (`dec`) are kept apart because only `redecode` makes them agree. A pc outside the
code space faults like a bad load: `index()` ends in a store through a null pointer.
SIGSEGV's place in the signal mask is `segv_blocked`.

**PerfCounters** gives a core the list of increments its current instruction owes
(`todo`); each is a load and a store, so cores in one slot can overwrite each other. Whether
a lookup hits is free. `Unset` is what `_number` may hold when `mem_t(number())` reads it before
`hart_t` has set it: zero in memory fresh from the static pool, and anything, in C++, by the
standard.

**CodeSpace** is the decoded text and the harts that execute from it. `Starts` and `Decoded` are
the walk of `loadelf`, `Substituted` is `substitute_cas` and `Refused` its exit when it finds a
load-reserved it cannot replace. Of the guest's instructions the atomic ones, a store, the branches and
"any" are kept; programs are given as data, in parcels of two bytes, so that the sequences of 12 and of
10 bytes differ. `CompareAndSwap` is one step, as the host's instruction is; an amo is two
(`AmoLoad`, then `AmoSwap` or `AmoLost`), as `mmu.h:46` is. `SetBreakpoint` and `ClearBreakpoint` are the stub's
write and `redecode`, at any moment between two accesses: the harts a guest has cloned run on
while gdb holds the first. `LoadReserved` and `StoreConditional` are what
a hart executes once `redecode` has put a load-reserved back. A breakpoint loops (main ignores the
interpreter's result), and `Die` is an unknown instruction, a fetch outside the text or a bad access.
`lr`, `sc` and the computations come from Spike's sources, which are not here, and are external.

**AtomicMemory** is the promise: stores, and read-modify-writes in one step that report what they
replaced, until a debugger has written into a sequence. `CodeSpace!AtomicSpec` says that CodeSpace
implements it; `last`, a history variable of CodeSpace, is what a sequence saw.

**PerfSegment** is the segment's life: `ShmOpen` (with `O_TRUNC`), `Ftruncate`, the header's four
plain stores in any order, and on erised's side `Open`, `ReadSize` and `Attach`. caveat is started up to
`MaxRuns` times, with erised's program or another, and overtakes erised at every point. `CountAt`,
`ImissAt` and `DmissAt` are perf_t's three pointers.

**ErisedView** extends it with `interactive()`. One iteration is one action: it sums and paints (`Frame`: every
address it reads must be in the text and its counter in the segment, else `FrameFaults`), takes one event and
clamps. `Walk`, `BinStart` and `BinSums` are `histo_compute`, with its rest at the end of the last bin;
`Row` and `Listed` are `assembly_paint`; `Back` is the look at the two bytes before an instruction, which are
Op_ZERO if they are the middle of another.

**Options** is `parse_options` word by word. A word is a record: which option its text begins with, how the
name is followed, its value. **StartUp** extends it with main's other steps: the segments, last one first,
each mapped in whole pages and cleared in front; the sections; decoding; the stack, a string and an entry of auxv
at a time (`CopyString`, `PushVector`, `PushAux`). A byte of
guest memory is a byte of the file, by its offset, or zero, or not mapped.
`Linked` is what the loader relies on and does not test: segments ascend, one whose last page holds the start of the
next has it from the same page of the file, the zeros after a segment share no page with the next.

## 3. What is checked

The twelve runs, all within five minutes on two workers:

| run | question | result |
|---|---|---|
| `HartCloneImage` | 3 harts, 2 contexts, 2 addresses, all outcomes of clone: is a child's image its caller's (`ImageInherited`), and does the code implement GuestThreads (`GuestSpec`)? | holds |
| `HartCloneThreads` | 4 harts, scheduler fair: is the caller held (`CallerHeld`), the list complete to an unlocked walk (`ListComplete`), are indices unique and dense, does every clone return (`CloneReturns`) and every child start (`ChildStarts`)? | holds |
| `SimPoolThreads` | 3 threads, sizes 0, 1 and 20 in 64 bytes: are blocks disjoint, aligned, inside, below the frontier, and does malloc return? | holds |
| `InsnCountSafety` | 3 harts, slices of 2: total conserved, counter exact at a system call and a report, no drift, no division by zero? | holds |
| `LruCacheTable` | 4 ways, 2 rows, the generated 24-state table, 6 lines: exact LRU (`LruSpec`), one copy, write-backs accounted for? | holds |
| `GdbLink` | every command, 2 corrupted packets and 2 interrupt characters in one session: one execution and one answer per command, a true view, an answer but for three cases? | holds |
| `PerfShared` | 2 cores, 2 slots, any unset number: do the counters account for and explain the clock, never too much? | holds |
| `CodeSpaceAtomic` | 2 harts in sequences of both widths and lengths, an amo and a store to one word, a breakpoint anywhere in them: is memory atomic (`AtomicSpec`), and does a substituted sequence do what the original would (`SameAsOriginal`)? | holds |
| `ErisedWindows` | caveat twice around an erised that is clicked, scrolled and zoomed: counters apart, the local window in the text, bins complete, one instruction per click of the wheel, faults only at the ends or after a race? | holds |
| `StartUp` | 1464 command lines, four programs, two environments: options mean what they say (`OptionsMeant`), memory is the file's (`ImageLoaded`), the stack is the ABI's (`StackOK`)? | holds |
| `GdbBreakpoint` | does a step onto a breakpoint come back to gdb? | violated |
| `PerfSlots` | does a core count in the slot of its number? | violated |

Of the type invariants, which section 4 proves, the runs evaluate those of GdbSession,
PerfCounters and StartUp.

### Bounds, and why they are enough

* *HartClone*: `Harts` bounds how many threads are ever created; `EcallClone` is guarded by it. Three
  children race in the two CAS loops, which is one more than a lost update needs and lets
  a child lose twice; one child can be the caller of another. Two contexts and two addresses
  tell a stale image from the right one. Harts other than main are interchangeable
  (symmetry in `HartCloneImage`; none where liveness is checked). In `HartCloneThreads` the host's clone always starts a
  thread: the other two outcomes are in `HartCloneImage`, and would break `CloneReturns` (Divergence 4).
* *SimPool*: 64 bytes hold up to three blocks and overflow on the fourth; 0, 1 and 20 lie at and on both
  sides of the alignment step.
* *InsnCount*: `HowMany` = 2 lets a slice end on an ordinary instruction and on an ecall;
  `MaxRetired` = 3 lets a hart complete one and enter the next.
* *LruCache*: `MaxRefs` = 6 is the length of a behaviour; five lines of row 0 fill its four ways,
  evict, and reach a line again. The bound stops the system, so deadlock is not checked there. The
  table itself is checked by `FsmAssumption`, whatever the bound.
* *GdbSession*: `MaxCommands` = 3 allows write, run, inspect; `MaxNoise` and `MaxInterrupts` are 2: the second may hit
  what repairs the first. `GdbLink` leaves out one command, the G without a pc, whose answer is wrong
  (Divergences). A session ends after its commands, so deadlock is not checked there.
* *PerfCounters*: `MaxInsns` = 2 instructions in all, by one core or two, each of up to six
  increments; two slots and three unset numbers cover own slot, shared slot and none. The
  costs are the program's defaults, but for a data miss, 7 cycles instead of 15, so that a miss charged as the
  other kind shows.
* *CodeSpace*: two harts, one word of memory, registers that hold 0 or -1, a word of two bits and longs of either
  width in it: the least in which a compare sees another's store, a 32-bit store leaves half of a long, and a
  32-bit load extends its sign. Three programs with a sequence each (32 bits of 12 and of 10 bytes, 64 bits of
  12), then an amo, a store and a jump back; a fourth is refused. One breakpoint in a behaviour, set and
  cleared. Harts are interchangeable.
* *ErisedView*: a text of four instructions, sizes 4, 4, 2, 2, in six parcels, three rows below the title: every
  pair of neighbouring sizes but 2, 4, windows that do not divide evenly, listings that reach the end. Another
  program of half the length; caveat twice, with two cores.
* *StartUp*: words in every form the parser tells apart, up to three of them, so that an option is repeated,
  follows the program's name, or is left incomplete; pages of four bytes; programs whose segments share a page,
  leave a gap, are empty, have nothing in the file, or no fixed address.

### Fairness

`HartClone`, `SimPool`: weak fairness of each host thread inside simulator code, which the host's
scheduler gives: none of those steps can be disabled for good except by sleeping in the futex. Guest
choices and spurious wakes are never assumed. Nothing is assumed about who wins a
compare-and-swap: `ChildStarts` and `MallocReturns` hold because each lost swap is someone
else's success, and there is a finite number of harts, or of pool. `GdbSession`: the stub's thread runs,
and gdb reads what it is sent; gdb need never send or interrupt. The other specifications state no fairness:
their properties are of safety.

## 4. What is proved

All theorems are of the specifications above, for every value of the constants that
the modules' assumptions admit. Each is an induction: the initial states satisfy the
strengthened invariant, every action keeps it, and it implies the property.

* **HartCloneProofs**: `CloneTypes` (`TypeOK`), `HeldSafe` (`CallerHeld`), `CloneSafe` (`ImageInherited`), from
  `CloneInv`. `ImageInherited` speaks of one place of the child, and is not inductive. It is strengthened by
  `CallerHeld` (a hart under construction has a caller in its wait loop, locked, whose `retval` is that hart: no two
  children share a caller and nobody changes the caller's registers and pc), by `CallerArmed` (a caller between its
  ecall and its return has `STATE.pc` equal to its local pc, and has taken the lock before it calls clone) and by
  `CopyFresh` (what a child has copied is still what its caller holds). `ListSafe`: `ListComplete`, which is
  inductive because it is stated with sets and not with paths: every nonempty set of pushed harts has a link out
  of it (the walk ends), and a set that holds the head and is closed under `link` holds every pushed hart (the walk
  meets all). `ListFrame` shows that only `ReadHead` and a successful `PushCAS` of a hart not yet pushed touch
  the list. `NumbersSafe`, `DenseSafe`: `NumbersUnique` and `NumbersDense` by counting: `num_threads` is the
  cardinality of the harts that have passed the swap, and every index is below it.
  `GuestSafe` is the refinement, `Spec => GuestSpec`. `SetupChild` maps to `Start`, `TestFree`
  to `Return`, `EcallClone` to `Call`, `Exit` to `End`, `GuestStep` to `Step`, everything else to a stutter, with one lemma
  for each. Besides `CloneInv` it needs `Answered`: the `retval` of a waiting caller names its own child, and a caller
  whose lock is clear has a child that has started. This is what lets `Return` happen in the abstract.
* **UspikeProofs**, for the two counters that threads advance by compare-and-swap and for the start of the program. The pool: `PoolTypes`, `PoolSafe`
  (`NoOverlap`), `FrontierSafe`, `BoundsSafe` (`InPool`), from `PoolInv`: `SwapReady` (a thread about to swap holds an
  end computed from the very top it compares with, and inside the pool) and `TopAligned`; the arithmetic is
  `RoundDownBounds`. The counts: `CountTypes`, `CountSafe` (`CountExact`), `DriftSafe` (`NoDrift`), from `CountInv`, one
  equation per place of a hart that relates `executed`, `insns` and `retired`, including the places inside `incr_count`;
  `TotalSafe` (`TotalConserved`), where a step of incr_count changes one term of a sum over the harts and the total
  alike; and `ReportSafe` (`ReportDivides`): the total is the sum of the harts' shares, counted less owed, of which none
  is negative, and the share of one that reports is what it has retired. Both need `InTransit`: what a hart owes
  between the two halves of incr_count is what it has run of its slice.
  The options: `MeantSafe` (`OptionsMeant`), from `LastWins`: an option's value is what its last word so far wrote. An
  integer is what its text says because `AtoiFits` keeps out those C would cut. The loader: `ImageSafe` (`ImageLoaded`),
  from `ImageInv`: every segment loaded so far is as the file has it (`Held`), which a segment mapped over its last page
  does not change, since it brings the same bytes (`LoadHolds`); then the sections scanned so far are cleared and
  within the bounds (`Scanned`). The stack: `StartTypes` (`TypeOK`) and `StackSafe` (`StackOK`), from `StackInv`: each string
  lies below the one before (`Laid`), the strings still to copy (`Rest`), auxv and the vector fit below stack_top, and the
  words pushed are where the ABI has them (`Placed`).
* **SumTheorems**: the facts about `SumFunctionOnSet` that those sums and the ones of PerfCounters rest on: what a
  sum is after one index is added, or one value changed, or when one sum is below another. It is a recursive function
  that the library defines by CHOOSE, and `SumExists` shows that there is one to choose. The inductions, over numbers
  and finite sets, take a set in the place of the predicate, and rest on the library's well-founded relations.
* **GdbSessionProofs**: `SessionTypes` (`TypeOK`), `SessionInStep` (`InStep`), `SessionTraps` (`OneInsnPerTrap`), from
  `SessionInv`, and `SessionView` (`ViewCurrent`). What keeps the ends in step is where the packets of the current
  command stand in both queues. `Exchange` says it for each of gdb's states: at rest no command is under way, and the
  stub still waiting for an acknowledgement has one coming (`Idle`); a command not yet acknowledged is in the link,
  alone, and behind that acknowledgement (`Sent`), or refused with one '-' on its way back (`Refused`), or obeyed,
  with one '+' on its way back and behind it nothing but copies of the answer (`Accepted`); then only those are left
  (`Waiting`). `Told` relates the instructions executed to the stop replies gdb took. `ViewInv` says that the reply in
  the stub's buffer tells the truth of the guest; `SessionView` assumes `NoShortG`, that gdb does not send the G without a pc,
  which the stub answers OK and does not obey (Divergence 10); `GdbLink` leaves it out for the same reason.
* **LruCacheProofs**: `CacheTypes`, `OneCopySafe`, `WritesSafe` (`WritesAccounted`), from `FsmAssumption`: the order of a
  state visits every way, so a miss means that the line is in none. For the write-backs, `DirtyChange` counts the
  dirty lines before and after one slot changes and `LookupCounts` the ways a lookup can go.
  `LruSafe` is the refinement, `Spec => LruSpec`: a row's tags, read in the order its state gives (`RowLines`), are a
  stack of LruStack. `LookupMoves` gives the one effect of a lookup on a row: the line at place i of the order comes
  to the front and those before it move back by one; `MoveToFront` and `PushFront` say what that is of sequences. It
  needs `FilledFirst` (the ways that hold nothing are the last of the order, by which a row with a free way is a
  stack that is not full) and `DirtyHeld` (only a line that is there is dirty).
* **PerfCountersProofs**: `PerfTypes` (`TypeOK`), `ExplainedSafe` (`CyclesExplained`), from `PerfInv`. The property
  speaks of a core between instructions; `Charged` says it of every moment, of what is counted together with what is
  `Owed`: each of the at most six increments left to make has a weight, those of a fetch and of a miss cancel, a jump
  leaves one (`FetchOwes`, `RestOwes`), and a store moves its weight from what is owed to what is counted
  (`StoreMoves`). That needs `Current` (no store of another core comes between the load and the store of a core alone
  in its slot) and `Unused` (the slot a new core gets to itself is still zero). `TimeSafe` (`CyclesAreTime`) and
  `OvercountSafe` (`NeverOvercounts`) are sums over the text, from `LedgerInv`: for every slot and counter there is a
  ledger of what the cores have stored into it, by address, that adds up to what they spent less what they still owe; the
  slot never holds more than its ledger, and exactly it while one core counts there. A store of a stale value loses
  what others stored in between, and so can only take away.
* **CodeSpaceProofs**: `AtomicSafe` is the refinement, `Spec => AtomicSpec`: every step of the interpreter maps to a
  step of AtomicMemory or a stutter. It needs `SpaceInv`, three parts that hold each other up: `CodeInv` (what the
  decoded text holds is the original, an ebreak, or the compare-and-swap of a sequence, and in sequences gdb has not
  touched it is the latter), `FlowInv` (until gdb has written into one no hart is inside a sequence, so no lone
  store-conditional is executed) and `DataInv` (the address and operands of an amo loop are those of its load; memory and
  registers hold longs). `SequenceSafe`: `SameAsOriginal`, which also needs `ZeroInv` (register 0 is zero, for the
  branch that compares with it). `SpaceTypes`: `TypeOK`. Assumed of the guest: `WellFormed` (nothing
  but its load-reserved leads into a sequence, the failing branch leads out, operands are registers), and that `Longs` is
  closed under 32-bit loads and stores; both are assumptions TLC evaluates for the programs it runs.
* **ErisedViewProofs**: `SegmentTypes`; `LayoutSafe` (`CountersDisjoint`) for any number of cores and parcels, where the
  products in the addresses are what the lemmas `MulMono`, `NextBlock` and `InBlock` are for, from `SegInv` (a
  segment that has its length holds what has been stored in it); `LostSafe` (`LostOnlyIfRaced`) from `OpenedWhole`
  (what erised read of a segment that it opened whole, and that nobody truncated since, is still what the header
  says); `LocalSafe` (`LocalInCode`) from `LocalInv` (the range is natural and the bins fit, through C's division,
  whatever row is clicked). The walks are functions the model defines over the naturals; `WalkExists` shows that there is
  one, and `WalkSplit` that a walk through one bin and then the next is the walk through both. `BinsSafe` (`BinsCover`)
  then counts each instruction of a window in one bin (`FirstBins`), and needs `Ranged` (the range is the window's
  length by the bins, rounded down). `CrashSafe` (`CrashOnlyAtEnds`) follows the listing down from its base (`ListingUp`,
  `AsmInv`). `ClickSafe` (`OneInsnPerClick`) is `Neighbours`: the parcel before an instruction tells how long the one
  before it is, for a text decoded as `DecodedAssumption` has it.

Assumptions: those named in the modules (`HartsAssumption`, `PoolAssumption`, `CountAssumption`, `CacheAssumption`,
`FsmAssumption`, `SessionAssumption`, `PerfAssumption`, `SpaceAssumption`, `ProgramsAssumption`, `SegmentAssumption`, `ViewAssumption`,
`DecodedAssumption`, `OptionsAssumption`, `ElfsAssumption`, `StartUpAssumption`), which TLC evaluates
in every run. `FsmAssumption` is what MakeCache's table has to satisfy; that it does is checked, for 4 ways, not proved. `DecodedAssumption` is what `loadelf`'s
walk leaves of a text; `ElfsAssumption` what a linker gives (`Linked`); `StartUpAssumption` that the guest's strings, which the
host's kernel let into its own stack, fit into the guest's.

**Only model-checked**: that MakeCache's table is an LRU machine, and all liveness (`CloneReturns`, `ChildStarts`, that malloc
returns, `CommandAnswered`). Liveness under fairness, ENABLED and RECURSIVE operators are outside what the proof system does, and so is the
library's induction rule over an operator: the modules that are proved about use recursive functions and folds instead,
and an induction is made over a set.

## 5. Divergences

Between the code and what its documents and comments say, and places where the code goes wrong that the models
met and the properties except by name. The first two are runs.

1. `main.cc:87`: the loop goes on while `interpreter(1)` is true, which is its result at a breakpoint,
   and stops when an instruction completes: a breakpoint is never reported (`GdbBreakpoint`) and `c`
   executes one instruction. Without gdb (`main.cc:102`) the result is ignored and the ebreak executed for ever.
2. `simulator.cc:140`: `mem_t(number())` reads `_number` before `hart_t` sets it; all cores share
   slot 0 (`PerfSlots`).
3. `proxy_syscall.cc:135`: SYS_exit, which ends a thread, ends the process, although README.md:5 says "Multi-threaded
   guest programs compiled with Pthead and OpenMP are supported." (`HartClone!Exit`.)
4. `proxy_syscall.cc:142-144`: a clone that fails, or one without `CLONE_VM`, leaves the caller waiting
   for a `clone_lock` nobody clears: so with `"fail"` or `"fork"` in `Outcomes`, `CloneReturns` fails, although
   README.md:5 says "All host Linux system calls are available to the guest program."
5. `main.cc:120-125`: compiled without optimisation (the commented `-O0` line), `pooltop` is loaded twice
   before the swap and another thread's allocation in between moves the top into its block.
6. `cache.h:67-70`: the victim's address is overwritten before it is stored in `*evicted`, where cache.h:30 says "tag of
   evicted line, 0 if clean". No code reads it today.
7. `cache.cc:49`: `flush()` clears tags to line 0, which counts as present: the first access to line 0 hits.
8. `gdblink.c:40` and `470`: `longjmp` out of the SIGSEGV handler leaves the signal blocked, so a second
   fault or bad address kills the simulator (`at = "dead"` in GdbSession).
9. `gdblink.c:225`: every character that is not '+' makes SendPacket send again. After an interrupt gdb
   acknowledges the stop reply twice; the second '+' is taken for the next reply's, and if that reply
   is the one corrupted nobody sends it again: both ends wait for ever (excepted in `CommandAnswered`).
10. `gdblink.c:375`: one of two conversions is enough for OK, so a G without the pc is answered OK with
    the pc cleared. `gdblink.c:419`: an M over two instructions redecodes the first only.
11. `gdblink.c:247`: the check of the reply buffer counts bytes, and two characters are written for each.
    `gdblink.c:312`: an address is accumulated in an int, so the guest's stack cannot be named. `gdblink.c:57`: when
    gdb closes the link `read()` returns 0 and `getDebugChar` loops.
12. `instructions.cc:177`, `mmu.h:60`: a breakpoint inside a sequence, set and cleared, leaves the load-reserved and the
    store-conditional themselves, whose reservation check always succeeds: the sequence is no longer atomic. A
    breakpoint on the branch alone leaves the compare-and-swap, which takes the register to write from what is decoded
    four bytes on (`interpreter.cc:83`), now an ebreak: it writes to register -1.
13. `interpreter.cc:80`: cas compares 32 bits where the branch compares 64, and writes the loaded register even where
    the sequence still needs it (`Ordinary` excepts both). It counts as one instruction where three were, and has
    no call to the cache model.
14. `perf.cc:52`: erised started during caveat's start maps a size of zero or reads a header half stored; a second
    caveat truncates the segment under it. Both end in a fault (`vat = "lost"`). The comparison with 0 does not see
    mmap's failure.
15. `erised.cc:279`: the wheel at the first instruction reads the one before the text, as does the first turn of
    it before any click (the listing's base is then 0), and at the end the one after; `code.at` faults.
16. `erised.cc:329`: a click on a histogram's title row counts as row -1: the local window moves below the text and
    clamping leaves it empty. The ranges are rounded down, so the last rest of a window, smaller than
    the number of bins, is in none of them.
17. `erised.cc:368`: the name "caveat" is written into erised, although README.md:60 says of the segment "filename can
    be changed with option".
18. `elf_loader.c:160` and `173`: a program linked for no fixed address has its segments loaded at a bias, but its
    sections cleared and its text sought without: it dies at start-up.
19. `options.cc:16`: numbers are read by `atoi`, those that do not fit in an int are cut (excepted in
    `OptionsMeant`); a mistake in the options ends with status 0.

## 6. Not modelled, and why

* Semantics of single instructions, encodings, the disassembler: generated from Spike's sources, which are not here.
  What CodeSpace needs of them is external and named so in the map.
* `OpenTcpLink`, the end of file on the link, buffer lengths, SIGABRT and SIGFPE (they leave their own signal
  blocked the same way), `--show` traces in the gdb loop.
* Other system calls: one host call with its arguments passed through.
* `update_time` in caveat, which nothing calls; reports, colours and their layout; erised's resize event, which is
  compiled out.
* Of the ELF loader: refusing a file that is no RISC-V program or names an interpreter, memory protection, the
  symbol table and its searches.
* The code generators: scripts that run at build time on files of other repositories.

## 7. Left to do

1. The interpreter's exceptions and `--show` loop together with GdbSession's signals, in one model.
2. The symbol table (`elf_find_symbol`, `elf_find_pc`) as a pure search against a reference.

## 8. Running

    tlc -workers 2 -config HartCloneImage.cfg HartCloneMC
    tlapm HartCloneProofs.tla

The module of each run is in `PROJECT.json`.
