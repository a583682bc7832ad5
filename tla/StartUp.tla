------------------------------ MODULE StartUp ------------------------------
(***************************************************************************)
(* main() from the command line to the guest's first instruction: options, *)
(* the ELF file's segments and sections, the text decoded, the stack.  A   *)
(* byte of guest memory is -1 if it is not mapped, 0, or the offset in the *)
(* file of the byte that was loaded there, plus one.                       *)
(***************************************************************************)
EXTENDS Options, Functions

CONSTANTS Page,       \* RISCV_PGSIZE
          Memory,     \* bound: the addresses below the stack
          Elfs,       \* programs: segments, sections, entry, bias, file length
          PhdrRoom,   \* sizeof(phdrs)
          StackTop,   \* MEM_END, counted from the lowest address of the stack
          Envs, Auxs  \* environments, as lengths of strings; and kinds of auxv entries

Within(a, lo, size) == lo <= a /\ a < lo + size
RoundUp(a) == ((a + Page - 1) \div Page) * Page

\* A segment's file part is mapped in whole pages, and so are the zeros after it.
Pad(s)       == s.vaddr % Page
Mapped(s)    == RoundUp(s.filesz + Pad(s)) - Pad(s)
ZeroPages(s) == RoundUp(s.memsz - Mapped(s))

(***************************************************************************)
(* What a linker gives: the segments ascend; one whose last page holds the *)
(* start of the next has it from the same page of the file; the zeros      *)
(* after a segment share no page; execution starts in the text.            *)
(***************************************************************************)
Segments == [vaddr : Nat, offset : Nat, filesz : Nat, memsz : Nat]
Sections == [kind : STRING, addr : Nat, size : Nat]

Linked(e) ==
  /\ \A j \in 1 .. Len(e.segs) : LET s == e.segs[j] IN
       /\ s.vaddr % Page = s.offset % Page
       /\ s.filesz <= s.memsz /\ s.offset + s.filesz <= e.length
       /\ s.vaddr + e.bias + s.memsz <= Memory
       /\ \A l \in j + 1 .. Len(e.segs) : LET t == e.segs[l] IN
            s.memsz > 0 /\ t.filesz > 0 =>
              /\ s.vaddr <= t.vaddr
              /\ t.vaddr < s.vaddr + Mapped(s) => t.vaddr - t.offset = s.vaddr - s.offset
              /\ s.memsz > Mapped(s) => s.vaddr + Mapped(s) + ZeroPages(s) <= t.vaddr
  /\ \E j \in 1 .. Len(e.sects) :
       e.sects[j].kind = "text" /\ Within(e.entry, e.sects[j].addr, e.sects[j].size)

ASSUME ElfsAssumption ==
  \A e \in Elfs :
    /\ e.segs \in Seq(Segments) /\ e.sects \in Seq(Sections)
    /\ e.entry \in Nat /\ e.bias \in Nat /\ e.length \in Nat
    /\ Linked(e)

\* The strings of the guest's words w and environment v, with their zeros.
Length(w, v, j) == IF j <= Len(w) THEN w[j].len ELSE v[j - Len(w)]
Strings(w, v)   == 1 .. Len(w) + Len(v)

(***************************************************************************)
(* The host's kernel has let the strings into a stack of its own, and the  *)
(* guest's is no smaller: STACK_SIZE.                                      *)
(***************************************************************************)
ASSUME StartUpAssumption ==
  /\ Page \in Nat \ {0} /\ Memory \in Nat
  /\ StackTop \in Nat /\ PhdrRoom \in Nat
  /\ \A l \in Lines : \A j \in 1 .. Len(l) : l[j].len \in Nat \ {0}
  /\ \A v \in Envs : v \in Seq(Nat \ {0})
  /\ \A x \in Auxs : x \in Seq(STRING) /\ x # <<>> /\ x[Len(x)] = "NULL"
  /\ \A l \in Lines, v \in Envs, x \in Auxs : \A j \in 1 .. Len(l) + 1 :
       LET w == SubSeq(l, j, Len(l)) IN
       PhdrRoom + SumFunctionOnSet([n \in Strings(w, v) |-> Length(w, v, n)], Strings(w, v))
         + 8 * (Len(w) + Len(v) + 4 * Len(x) + 6) < StackTop

VARIABLES elf, env, aux,
          k,             \* the segment, section or string the loop is at
          mem,
          bounds,        \* low_bound and high_bound
          stack_top,
          ptrs,          \* addresses of the strings copied, argv's and then envp's
          vector         \* the words at stack_top

lvars == <<mem, bounds>>
tvars == <<stack_top, ptrs, vector>>
vars  == <<optvars, phase, elf, env, aux, k, lvars, tvars>>

Init ==
  /\ OptionsInit
  /\ elf \in Elfs /\ env \in Envs /\ aux \in Auxs
  /\ k = Len(elf.segs) /\ mem = [a \in 0 .. Memory - 1 |-> -1]
  /\ bounds = <<Memory, 0>>
  /\ stack_top = StackTop /\ ptrs = <<>> /\ vector = <<>>

ParseOptions ==
  (HelpExit \/ ParseOption \/ ParseDone) /\ UNCHANGED <<elf, env, aux, k, lvars, tvars>>
-----------------------------------------------------------------------------
(***************************************************************************)
(* load_elf_binary.                                                        *)
(***************************************************************************)
\* A page of the file: zero after its end.
FileByte(off) == IF off < elf.length THEN off + 1 ELSE 0

\* The pages of a segment's file part, with what precedes it in its first page
\* cleared; and the pages after them.
Loaded(s) ==
  LET vaddr == s.vaddr + elf.bias
  IN  [a \in DOMAIN mem |->
         IF Within(a, vaddr - Pad(s), Pad(s)) THEN 0
         ELSE IF Within(a, vaddr, Mapped(s)) THEN FileByte(s.offset + a - vaddr)
         ELSE IF s.memsz > Mapped(s) /\ Within(a, vaddr + Mapped(s), ZeroPages(s)) THEN 0
         ELSE mem[a]]

\* The order of the segments in the loop, which maps the last one first.
\* Mutant of SegmentAt: the first one first.
SegmentAtForward(j) == elf.segs[Len(elf.segs) + 1 - j]

SegmentAt(j) == elf.segs[j]

LoadSegment ==
  /\ phase = "elf" /\ k > 0
  /\ LET s == SegmentAt(k) IN
       IF s.memsz > 0 /\ s.filesz + Pad(s) = 0
       THEN phase' = "died" /\ UNCHANGED mem                 \* mmap of nothing
       ELSE phase' = phase /\ mem' = IF s.memsz > 0 THEN Loaded(s) ELSE mem
  /\ k' = k - 1
  /\ UNCHANGED <<optvars, elf, env, aux, bounds, tvars>>

SegmentsDone ==
  /\ phase = "elf" /\ k = 0
  /\ phase' = "sections" /\ k' = 1
  /\ UNCHANGED <<optvars, elf, env, aux, lvars, tvars>>

\* .bss and .sbss are cleared where the file says they are, bias or not.
Clear(s) == [a \in DOMAIN mem |-> IF Within(a, s.addr, s.size) THEN 0 ELSE mem[a]]

ScanSection ==
  /\ phase = "sections" /\ k <= Len(elf.sects)
  /\ LET s == elf.sects[k] IN
       /\ phase' = IF s.kind = "bss" /\ \E a \in DOMAIN mem :
                         Within(a, s.addr, s.size) /\ mem[a] = -1
                   THEN "died" ELSE phase
       /\ mem' = IF s.kind = "bss" /\ phase' = phase THEN Clear(s) ELSE mem
       /\ bounds' = IF s.kind # "text" THEN bounds
                    ELSE <<IF s.addr < bounds[1] THEN s.addr ELSE bounds[1],
                           IF s.addr + s.size > bounds[2] THEN s.addr + s.size ELSE bounds[2]>>
  /\ k' = k + 1
  /\ UNCHANGED <<optvars, elf, env, aux, tvars>>

\* insnSpace_t::loadelf decodes all between the bounds, which must be there.
Predecode ==
  /\ phase = "sections" /\ k > Len(elf.sects)
  /\ phase' = IF \E a \in bounds[1] .. bounds[2] - 1 : mem[a] = -1 THEN "died" ELSE "phdrs"
  /\ k' = 1
  /\ UNCHANGED <<optvars, elf, env, aux, lvars, tvars>>
-----------------------------------------------------------------------------
(***************************************************************************)
(* initialize_stack, and the guest's stack pointer.                        *)
(***************************************************************************)
CopyPhdrs ==
  /\ phase = "phdrs"
  /\ stack_top' = stack_top - PhdrRoom
  /\ phase' = "strings"
  /\ UNCHANGED <<optvars, elf, env, aux, k, lvars, ptrs, vector>>

argc == Len(argv)
envc == Len(env)
auxc == Len(aux)

StringLen(j) == Length(argv, env, j)

CopyString ==
  /\ phase = "strings" /\ k <= argc + envc
  /\ stack_top' = stack_top - StringLen(k)
  /\ ptrs' = Append(ptrs, stack_top')
  /\ k' = k + 1
  /\ UNCHANGED <<optvars, phase, elf, env, aux, lvars, vector>>

Known == {"PAGESZ", "PHDR", "PHENT", "PHNUM", "ENTRY", "SECURE", "RANDOM"}
AuxValue(key) ==
  CASE key = "PAGESZ" -> Page
    [] key = "PHDR"   -> StackTop - PhdrRoom
    [] key = "PHENT"  -> 56
    [] key = "PHNUM"  -> Len(elf.segs)
    [] key = "ENTRY"  -> elf.entry + elf.bias
    [] key = "SECURE" -> 0
    [] key = "RANDOM" -> stack_top

AlignTo(x, a) == x - (x % a)

\* Mutant of VectorRoom: no room for envp.
VectorRoomNoEnv == (1 + argc + 1 + 1 + 2 * auxc) * 8

VectorRoom == (1 + argc + 1 + envc + 1 + 2 * auxc) * 8

PushVector ==
  /\ phase = "strings" /\ k > argc + envc
  /\ stack_top' = AlignTo(AlignTo(stack_top - auxc * 16, 8) - VectorRoom, 16)
  /\ vector' = <<argc>> \o SubSeq(ptrs, 1, argc) \o <<0>>
                \o SubSeq(ptrs, argc + 1, argc + envc) \o <<0>>
  /\ phase' = "auxv" /\ k' = 1
  /\ UNCHANGED <<optvars, elf, env, aux, lvars, ptrs>>

\* AT_NULL, which ends auxv, is not pushed.
PushAux ==
  /\ phase = "auxv" /\ k <= auxc
  /\ vector' = IF aux[k] \in Known THEN vector \o <<aux[k], AuxValue(aux[k])>> ELSE vector
  /\ k' = k + 1
  /\ UNCHANGED <<optvars, phase, elf, env, aux, lvars, stack_top, ptrs>>

Run ==
  /\ phase = "auxv" /\ k > auxc
  /\ phase' = "run"
  /\ UNCHANGED <<optvars, elf, env, aux, k, lvars, tvars>>

Over == phase \in {"exited", "died", "run"} /\ UNCHANGED vars

Next ==
  \/ ParseOptions
  \/ LoadSegment \/ SegmentsDone \/ ScanSection \/ Predecode
  \/ CopyPhdrs \/ CopyString \/ PushVector \/ PushAux \/ Run \/ Over

Spec == Init /\ [][Next]_vars
-----------------------------------------------------------------------------
TypeOK ==
  /\ line \in Lines /\ i \in 1 .. Len(line) + 1 /\ DOMAIN value = Names
  /\ phase \in {"options", "elf", "sections", "phdrs", "strings", "auxv", "run", "exited", "died"}
  /\ elf \in Elfs /\ env \in Envs /\ aux \in Auxs /\ k \in Nat
  /\ mem \in [0 .. Memory - 1 -> -1 .. elf.length]
  /\ stack_top \in 1 .. StackTop
  /\ ptrs \in Seq(stack_top .. StackTop)

Cleared(a) == \E j \in 1 .. Len(elf.sects) :
                elf.sects[j].kind = "bss" /\ Within(a, elf.sects[j].addr, elf.sects[j].size)

(***************************************************************************)
(* A program linked for fixed addresses finds its segments as the file has *)
(* them, those that share a page included, and its .bss cleared, although  *)
(* each mapping replaces whole pages and clears the front of its first.    *)
(***************************************************************************)
ImageLoaded ==
  phase \in {"phdrs", "strings", "auxv", "run"} /\ elf.bias = 0 =>
    /\ \A j \in 1 .. Len(elf.segs) : LET s == elf.segs[j] IN
         \A x \in 0 .. s.memsz - 1 :
           LET a == s.vaddr + x IN
           IF Cleared(a) THEN mem[a] = 0
           ELSE x < s.filesz => mem[a] = s.offset + x + 1
    /\ Within(elf.entry, bounds[1], bounds[2] - bounds[1])

(***************************************************************************)
(* The first stack is the one the ABI describes: aligned; each pointer     *)
(* leads to its own string; the words pushed, and the two zero ones after  *)
(* them that stand for AT_NULL and are never written, reach into no        *)
(* string and not into the program headers.                                *)
(***************************************************************************)
StringAt(j) == [lo |-> ptrs[j], hi |-> ptrs[j] + StringLen(j)]
StackOK ==
  phase = "run" =>
    /\ stack_top % 16 = 0
    /\ \A j \in 1 .. argc + envc :
         /\ vector[IF j <= argc THEN 1 + j ELSE 2 + j] = ptrs[j]
         /\ stack_top + 8 * (Len(vector) + 2) <= StringAt(j).lo
         /\ StringAt(j).hi <= StackTop - PhdrRoom
         /\ \A l \in 1 .. j - 1 : StringAt(j).hi <= StringAt(l).lo
    /\ vector[1] = argc /\ vector[2 + argc] = 0 /\ vector[3 + argc + envc] = 0
=============================================================================
