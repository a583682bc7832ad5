--------------------------- MODULE HartCloneProofs ---------------------------
(***************************************************************************)
(* Safety of thread creation, for any number of harts, any context and any *)
(* outcome of the host's clone(), and the refinement of GuestThreads.      *)
(***************************************************************************)
EXTENDS HartClone, FiniteSetTheorems, TLAPS

\* A caller arms its lock before it asks the host for a thread, and from then
\* until it resumes its STATE.pc is the address of its ecall.
CallerArmed ==
  \A h \in Harts : /\ at[h] = "clone" => clone_lock[h] = 1
                   /\ at[h] \in {"clone"} \cup Waiting => spc[h] = pc[h]

\* The registers a child has copied are still those of its caller.
CopyFresh ==
  \A c \in Harts : at[c] = "setup" => /\ regs[c] = regs[oldcpu[c]]
                                      /\ spc[c] = spc[oldcpu[c]]

CloneInv == TypeOK /\ CallerHeld /\ CallerArmed /\ CopyFresh /\ ImageInherited

\* The address after an instruction is an address.
LEMMA SuccType == \A a \in PCs : Succ(a) \in PCs
  BY HartsAssumption, SMT DEF PCs, Succ

LEMMA OverlaidType ==
  \A r \in Registers, who \in {"child", "caller"} : Overlaid(r, who) \in Registers
  BY DEF Registers, Overlaid

LEMMA CloneInvInit == Init => CloneInv
<1> SUFFICES ASSUME Init PROVE CloneInv
  OBVIOUS
<1>1. TypeOK
  BY HartsAssumption, SMT DEF Init, TypeOK, Places, Registers, PCs
<1>2. QED
  BY <1>1 DEF Init, CloneInv, CallerHeld, CallerArmed, CopyFresh,
              ImageInherited, Constructing, Waiting

\* One step of the process keeps the types.
LEMMA TypeStep == CloneInv /\ Next => TypeOK'
<1> SUFFICES ASSUME CloneInv, Next PROVE TypeOK'
  OBVIOUS
<1> USE HartsAssumption, SuccType, OverlaidType DEF CloneInv, TypeOK, Goto
<1>1. ASSUME NEW h \in Harts, GuestStep(h) PROVE TypeOK'
  BY <1>1 DEF GuestStep, Registers
<1>2. ASSUME NEW h \in Harts, EndSlice(h) PROVE TypeOK'
  BY <1>2 DEF EndSlice
<1>3. ASSUME NEW h \in Harts, EcallClone(h) PROVE TypeOK'
  BY <1>3 DEF EcallClone, Places
<1>4. ASSUME NEW h \in Harts, CloneThread(h) PROVE TypeOK'
  BY <1>4 DEF CloneThread, Places, Constructing, Waiting, Unborn
<1>5. ASSUME NEW h \in Harts, CloneProcess(h) \/ CloneFails(h) PROVE TypeOK'
  BY <1>5 DEF CloneProcess, CloneFails, Places, Waiting
<1>6. ASSUME NEW h \in Harts, TestLocked(h) PROVE TypeOK'
  BY <1>6 DEF TestLocked, Places, Waiting
<1>7. ASSUME NEW h \in Harts, TestFree(h) PROVE TypeOK'
  BY <1>7 DEF TestFree, Places
<1>8. ASSUME NEW h \in Harts, FutexWait(h) \/ SpuriousWake(h) PROVE TypeOK'
  BY <1>8 DEF FutexWait, SpuriousWake, Places, Waiting
<1>9. ASSUME NEW c \in Harts, ReadHead(c) PROVE TypeOK'
  BY <1>9 DEF ReadHead, Places, Constructing
<1>10. ASSUME NEW c \in Harts, PushCAS(c) PROVE TypeOK'
  BY <1>10 DEF PushCAS, Places, Constructing
<1>11. ASSUME NEW c \in Harts, ReadCount(c) PROVE TypeOK'
  BY <1>11 DEF ReadCount, Places, Constructing
<1>12. ASSUME NEW c \in Harts, CountCAS(c) PROVE TypeOK'
  BY <1>12 DEF CountCAS, Places, Constructing
<1>13. ASSUME NEW c \in Harts, CopyState(c) PROVE TypeOK'
  <2>1. oldcpu[c] \in Harts
    BY <1>13 DEF CopyState, CallerHeld, Constructing
  <2>2. QED
    BY <1>13, <2>1 DEF CopyState, Places, Constructing
<1>14. ASSUME NEW c \in Harts, SetupChild(c) PROVE TypeOK'
  BY <1>14 DEF SetupChild, Places, Constructing
<1>15. ASSUME NEW c \in Harts, Unlock(c) PROVE TypeOK'
  BY <1>15 DEF Unlock, Places
<1>16. ASSUME NEW c \in Harts, WakeAndRun(c) PROVE TypeOK'
  BY <1>16 DEF WakeAndRun, Places, Waiting
<1>17. ASSUME NEW h \in Harts, Exit(h)
       PROVE  TypeOK'
  BY <1>17 DEF Exit, Places
<1>18. ASSUME Ended PROVE TypeOK'
  BY <1>18 DEF Ended, vars
<1>19. QED
  BY <1>1, <1>2, <1>3, <1>4, <1>5, <1>6, <1>7, <1>8, <1>9, <1>10, <1>11,
     <1>12, <1>13, <1>14, <1>15, <1>16, <1>17, <1>18
     DEF Next, HartStep, CallerStep, ChildStep, GuestChoice

(***************************************************************************)
(* The caller stays held.  A caller in "clone" has no child yet, a caller  *)
(* leaves its loop only with its lock clear, and only its own child, the   *)
(* one its retval names, clears it.                                        *)
(***************************************************************************)
LEMMA HeldStep ==
  CloneInv /\ Next => CallerHeld' /\ CallerArmed' /\ CopyFresh' /\ ImageInherited'
<1> SUFFICES ASSUME CloneInv, Next
             PROVE  CallerHeld' /\ CallerArmed' /\ CopyFresh' /\ ImageInherited'
  OBVIOUS
<1> DEFINE Kept == CallerHeld' /\ CallerArmed' /\ CopyFresh' /\ ImageInherited'
<1> USE HartsAssumption DEF CloneInv, TypeOK, Goto, CallerHeld, CallerArmed,
        CopyFresh, ImageInherited, Constructing, Waiting
<1>1. ASSUME NEW h \in Harts, GuestStep(h) PROVE Kept
  BY <1>1 DEF GuestStep
<1>2. ASSUME NEW h \in Harts, EndSlice(h) PROVE Kept
  BY <1>2 DEF EndSlice
<1>3. ASSUME NEW h \in Harts, EcallClone(h) PROVE Kept
  BY <1>3 DEF EcallClone
<1>4. ASSUME NEW h \in Harts, CloneThread(h) PROVE Kept
  BY <1>4 DEF CloneThread, Unborn
<1>5. ASSUME NEW h \in Harts, CloneProcess(h) PROVE Kept
  BY <1>5 DEF CloneProcess
<1>6. ASSUME NEW h \in Harts, CloneFails(h) PROVE Kept
  BY <1>6 DEF CloneFails
<1>7. ASSUME NEW h \in Harts, TestLocked(h) PROVE Kept
  BY <1>7 DEF TestLocked
<1>8. ASSUME NEW h \in Harts, TestFree(h) PROVE Kept
  BY <1>8 DEF TestFree
<1>9. ASSUME NEW h \in Harts, FutexWait(h) PROVE Kept
  BY <1>9 DEF FutexWait
<1>10. ASSUME NEW h \in Harts, SpuriousWake(h) PROVE Kept
  BY <1>10 DEF SpuriousWake
<1>11. ASSUME NEW c \in Harts, ReadHead(c) PROVE Kept
  BY <1>11 DEF ReadHead
<1>12. ASSUME NEW c \in Harts, PushCAS(c) PROVE Kept
  BY <1>12 DEF PushCAS
<1>13. ASSUME NEW c \in Harts, ReadCount(c) PROVE Kept
  BY <1>13 DEF ReadCount
<1>14. ASSUME NEW c \in Harts, CountCAS(c) PROVE Kept
  BY <1>14 DEF CountCAS
<1>15. ASSUME NEW c \in Harts, CopyState(c) PROVE Kept
  BY <1>15 DEF CopyState
<1>16. ASSUME NEW c \in Harts, SetupChild(c) PROVE Kept
  BY <1>16 DEF SetupChild
<1>17. ASSUME NEW c \in Harts, Unlock(c) PROVE Kept
  BY <1>17 DEF Unlock
<1>18. ASSUME NEW c \in Harts, WakeAndRun(c) PROVE Kept
  BY <1>18 DEF WakeAndRun
<1>19. ASSUME NEW h \in Harts, Exit(h)
       PROVE  Kept
  BY <1>19 DEF Exit
<1>20. ASSUME Ended PROVE Kept
  BY <1>20 DEF Ended, vars
<1>21. QED
  BY <1>1, <1>2, <1>3, <1>4, <1>5, <1>6, <1>7, <1>8, <1>9, <1>10, <1>11, <1>12, <1>13, <1>14, <1>15, <1>16, <1>17, <1>18, <1>19, <1>20
     DEF Next, HartStep, CallerStep, ChildStep, GuestChoice

\* The invariant holds throughout.
LEMMA CloneInvariant == Spec => []CloneInv
<1>1. CloneInv /\ [Next]_vars => CloneInv'
  <2> SUFFICES ASSUME CloneInv, [Next]_vars PROVE CloneInv'
    OBVIOUS
  <2>1. CASE Next
    BY <2>1, TypeStep, HeldStep DEF CloneInv
  <2>2. CASE UNCHANGED vars
    BY <2>2 DEF vars, CloneInv, TypeOK, CallerHeld, CallerArmed, CopyFresh,
                ImageInherited
  <2>3. QED
    BY <2>1, <2>2
<1>2. QED
  BY CloneInvInit, <1>1, PTL DEF Spec

\* A child's caller, indices and links are harts whenever hart_t uses them.
THEOREM CloneTypes == Spec => []TypeOK
<1>1. CloneInv => TypeOK
  BY DEF CloneInv
<1>2. QED
  BY CloneInvariant, <1>1, PTL

(***************************************************************************)
(* Wherever the constructors of any number of harts interleave, the caller *)
(* of a constructing child waits in SYS_clone, for that child alone.       *)
(***************************************************************************)
THEOREM HeldSafe == Spec => []CallerHeld
<1>1. CloneInv => CallerHeld
  BY DEF CloneInv
<1>2. QED
  BY CloneInvariant, <1>1, PTL

(***************************************************************************)
(* The image a child publishes in thread_interpreter is its caller's at    *)
(* the ecall, for any registers, addresses and outcomes of clone().        *)
(***************************************************************************)
THEOREM CloneSafe == Spec => []ImageInherited
<1>1. CloneInv => ImageInherited
  BY DEF CloneInv
<1>2. QED
  BY CloneInvariant, <1>1, PTL

(***************************************************************************)
(* Which steps move a hart on to the list and give it an index.            *)
(***************************************************************************)
LEMMA ListFrame ==
  ASSUME TypeOK, Next
  PROVE  \/ Pushed' = Pushed /\ cpu_list' = cpu_list /\ link' = link
         \/ \E c \in Harts \ Pushed : ReadHead(c)
         \/ \E c \in Harts \ Pushed : PushCAS(c) /\ cpu_list = link[c]
<1> DEFINE Same == Pushed' = Pushed /\ cpu_list' = cpu_list /\ link' = link
<1> USE DEF TypeOK, Pushed, Goto
<1>1. ASSUME NEW h \in Harts, GuestChoice(h) \/ SpuriousWake(h) PROVE Same
  BY <1>1 DEF GuestChoice, GuestStep, EndSlice, EcallClone, Exit, SpuriousWake
<1>2. ASSUME NEW h \in Harts, CallerStep(h) PROVE Same
  BY <1>2 DEF CallerStep, CloneThread, CloneProcess, CloneFails, TestLocked,
              TestFree, FutexWait, Unborn
<1>3. ASSUME NEW c \in Harts,
             \/ ReadCount(c) \/ CountCAS(c) \/ CopyState(c) \/ SetupChild(c)
             \/ Unlock(c) \/ WakeAndRun(c)
      PROVE  Same
  BY <1>3 DEF ReadCount, CountCAS, CopyState, SetupChild, Unlock, WakeAndRun
<1>4. ASSUME NEW c \in Harts, ReadHead(c) PROVE c \notin Pushed
  BY <1>4 DEF ReadHead
<1>5. ASSUME NEW c \in Harts, PushCAS(c)
      PROVE  c \notin Pushed /\ (cpu_list # link[c] => Same)
  BY <1>5 DEF PushCAS
<1>6. ASSUME Ended PROVE Same
  BY <1>6 DEF Ended, vars
<1>7. QED
  BY <1>1, <1>2, <1>3, <1>4, <1>5, <1>6 DEF Next, HartStep, ChildStep

LEMMA ListStep == TypeOK /\ Next /\ ListComplete => ListComplete'
<1> SUFFICES ASSUME TypeOK, Next, ListComplete PROVE ListComplete'
  OBVIOUS
<1> USE HartsAssumption DEF ListComplete
<1>1. CASE Pushed' = Pushed /\ cpu_list' = cpu_list /\ link' = link
  BY <1>1 DEF LinksPushed, WalkEnds, WalkMeetsAll
<1>2. ASSUME NEW c \in Harts \ Pushed, ReadHead(c) PROVE ListComplete'
  <2>1. /\ Pushed' = Pushed /\ cpu_list' = cpu_list
        /\ link'[c] = cpu_list
        /\ \A h \in Harts \ {c} : link'[h] = link[h]
    BY <1>2 DEF ReadHead, Goto, Pushed, TypeOK
  <2>2. LinksPushed'
    BY <2>1 DEF LinksPushed
  <2>3. WalkEnds'
    BY <2>1 DEF WalkEnds, Pushed
  <2>4. ASSUME NEW S \in SUBSET Harts, cpu_list' \in S,
               \A h \in S : link'[h] \in S \cup {NoHart}
        PROVE  Pushed' \subseteq S
    <3>1. \A h \in S \ {c} : link[h] \in (S \ {c}) \cup {NoHart}
      BY <2>1, <2>4 DEF LinksPushed
    <3>2. cpu_list \in S \ {c} /\ S \ {c} \in SUBSET Harts
      BY <2>1, <2>4 DEF LinksPushed
    <3>3. QED
      BY <2>1, <3>1, <3>2 DEF WalkMeetsAll
  <2>5. QED
    BY <2>2, <2>3, <2>4 DEF WalkMeetsAll
<1>3. ASSUME NEW c \in Harts \ Pushed, PushCAS(c), cpu_list = link[c]
      PROVE  ListComplete'
  <2>1. /\ Pushed' = Pushed \cup {c} /\ cpu_list' = c /\ link' = link
        /\ link[c] = cpu_list /\ cpu_list \in Harts
    BY <1>3 DEF PushCAS, Pushed, TypeOK
  <2>2. LinksPushed'
    BY <2>1 DEF LinksPushed
  <2>3. ASSUME NEW S \in SUBSET Pushed', S # {}
        PROVE  \E h \in S : link'[h] \notin S
    <3>1. CASE S = {c}
      BY <2>1, <3>1 DEF LinksPushed
    <3>2. CASE S # {c}
      <4>1. S \ {c} \in SUBSET Pushed /\ S \ {c} # {}
        BY <2>1, <2>3, <3>2
      <4>2. PICK h \in S \ {c} : link[h] \notin S \ {c}
        BY <4>1 DEF WalkEnds
      <4>3. link[h] # c
        BY <4>1, <2>1, c \notin Pushed, h \in Harts DEF LinksPushed, Pushed
      <4>4. QED
        BY <2>1, <4>2, <4>3
    <3>3. QED
      BY <3>1, <3>2
  <2>4. ASSUME NEW S \in SUBSET Harts, cpu_list' \in S,
               \A h \in S : link'[h] \in S \cup {NoHart}
        PROVE  Pushed' \subseteq S
    BY <2>1, <2>4 DEF WalkMeetsAll
  <2>5. QED
    BY <2>2, <2>3, <2>4 DEF WalkEnds, WalkMeetsAll
<1>4. QED
  BY <1>1, <1>2, <1>3, ListFrame

(***************************************************************************)
(* Whatever pushes race, an unlocked walk of the list of harts ends and    *)
(* meets exactly the harts that have been pushed.                          *)
(***************************************************************************)
THEOREM ListSafe == Spec => []ListComplete
<1>1. Init => ListComplete
  <2> SUFFICES ASSUME Init PROVE ListComplete
    OBVIOUS
  <2>1. Pushed = {Main} /\ cpu_list = Main /\ link = [h \in Harts |-> NoHart]
    BY HartsAssumption DEF Init, Pushed
  <2>2. QED
    BY <2>1, HartsAssumption DEF ListComplete, LinksPushed, WalkEnds, WalkMeetsAll
<1>2. TypeOK /\ ListComplete /\ [Next]_vars => ListComplete'
  <2>1. UNCHANGED vars /\ ListComplete => ListComplete'
    BY DEF vars, ListComplete, LinksPushed, WalkEnds, WalkMeetsAll, Pushed
  <2>2. QED
    BY <2>1, ListStep
<1>3. QED
  BY <1>1, <1>2, CloneTypes, PTL DEF Spec

LEMMA NumberFrame ==
  ASSUME TypeOK, Next
  PROVE  \/ /\ Indexed' = Indexed /\ num_threads' = num_threads
            /\ number' = number
         \/ \E c \in Harts \ Indexed : /\ CountCAS(c)
                                       /\ num_threads = old_n[c]
<1> DEFINE Same == /\ Indexed' = Indexed /\ num_threads' = num_threads
                   /\ number' = number
<1> USE DEF TypeOK, Pushed, Indexed, Goto
<1>1. ASSUME NEW h \in Harts, GuestChoice(h) \/ SpuriousWake(h) PROVE Same
  BY <1>1 DEF GuestChoice, GuestStep, EndSlice, EcallClone, Exit, SpuriousWake
<1>2. ASSUME NEW h \in Harts, CallerStep(h) PROVE Same
  BY <1>2 DEF CallerStep, CloneThread, CloneProcess, CloneFails, TestLocked,
              TestFree, FutexWait, Unborn
<1>3. ASSUME NEW c \in Harts,
             \/ ReadHead(c) \/ PushCAS(c) \/ ReadCount(c) \/ CopyState(c)
             \/ SetupChild(c) \/ Unlock(c) \/ WakeAndRun(c)
      PROVE  Same
  BY <1>3 DEF ReadHead, PushCAS, ReadCount, CopyState, SetupChild, Unlock,
              WakeAndRun
<1>4. ASSUME NEW c \in Harts, CountCAS(c)
      PROVE  c \notin Indexed /\ (num_threads # old_n[c] => Same)
  BY <1>4 DEF CountCAS
<1>5. ASSUME Ended PROVE Same
  BY <1>5 DEF Ended, vars
<1>6. QED
  BY <1>1, <1>2, <1>3, <1>4, <1>5 DEF Next, HartStep, ChildStep

LEMMA NumberStep ==
  TypeOK /\ Next /\ NumbersUnique /\ NumbersDense => NumbersUnique' /\ NumbersDense'
<1> SUFFICES ASSUME TypeOK, Next, NumbersUnique, NumbersDense
             PROVE  NumbersUnique' /\ NumbersDense'
  OBVIOUS
<1>1. CASE Indexed' = Indexed /\ num_threads' = num_threads /\ number' = number
  BY <1>1 DEF NumbersUnique, NumbersDense
<1>2. ASSUME NEW c \in Harts \ Indexed, CountCAS(c), num_threads = old_n[c]
      PROVE  NumbersUnique' /\ NumbersDense'
  <2>1. /\ Indexed' = Indexed \cup {c}
        /\ num_threads' = num_threads + 1
        /\ number' = [number EXCEPT ![c] = num_threads]
    BY <1>2 DEF CountCAS, Indexed, Pushed, TypeOK
  <2>2. NumbersUnique'
    BY <2>1 DEF NumbersUnique, TypeOK, Indexed, Pushed
  <2>3. IsFiniteSet(Indexed)
    BY HartsAssumption, FS_Subset DEF Indexed, Pushed
  <2>4. NumbersDense'
    BY <2>1, <2>3, FS_AddElement DEF NumbersDense, TypeOK
  <2>5. QED
    BY <2>2, <2>4
<1>3. QED
  BY <1>1, <1>2, NumberFrame

LEMMA NumbersInvariant == Spec => [](NumbersUnique /\ NumbersDense)
<1>1. Init => NumbersUnique /\ NumbersDense
  <2> SUFFICES ASSUME Init PROVE NumbersUnique /\ NumbersDense
    OBVIOUS
  <2>1. Indexed = {Main} /\ num_threads = 1 /\ number[Main] = 0
    BY HartsAssumption DEF Init, Indexed, Pushed
  <2>2. Cardinality({Main}) = 1
    BY FS_Singleton
  <2>3. QED
    BY <2>1, <2>2 DEF NumbersUnique, NumbersDense
<1>2. TypeOK /\ NumbersUnique /\ NumbersDense /\ [Next]_vars
        => NumbersUnique' /\ NumbersDense'
  <2>1. UNCHANGED vars /\ NumbersUnique /\ NumbersDense
          => NumbersUnique' /\ NumbersDense'
    BY DEF vars, NumbersUnique, NumbersDense, Indexed, Pushed
  <2>2. QED
    BY <2>1, NumberStep
<1>3. QED
  BY <1>1, <1>2, CloneTypes, PTL DEF Spec

\* Constructors racing on num_threads are given distinct indices.
THEOREM NumbersSafe == Spec => []NumbersUnique
  BY NumbersInvariant, PTL

\* No index is skipped: num_threads counts the harts that have one.
THEOREM DenseSafe == Spec => []NumbersDense
  BY NumbersInvariant, PTL
-----------------------------------------------------------------------------
(***************************************************************************)
(* HartClone implements GuestThreads, for any number of harts: every step  *)
(* of the handshake is a step of the abstract clone or changes nothing the *)
(* guest can see.                                                          *)
(***************************************************************************)

\* A waiting caller's retval names its own child, born and never another's; and
\* one whose lock is clear has a child that has started.
Answered ==
  \A h \in Harts : at[h] \in Waiting =>
    /\ retval[h] # NoHart => /\ retval[h] \in Harts /\ at[retval[h]] # "unborn"
                             /\ oldcpu[retval[h]] = h
    /\ clone_lock[h] = 0 => retval[h] \in Live

LEMMA AnsweredInit == Init => Answered
  BY DEF Init, Answered, Waiting

\* Who is live stays live.
LEMMA LiveStays == CloneInv /\ Next => Live \subseteq Live'
<1> SUFFICES ASSUME CloneInv, Next, NEW g \in Harts, g \in Live PROVE g \in Live'
  BY DEF Live
<1> USE DEF CloneInv, TypeOK, Goto, Live, Waiting
<1>1. ASSUME NEW h \in Harts, GuestChoice(h) \/ SpuriousWake(h) PROVE g \in Live'
  BY <1>1 DEF GuestChoice, GuestStep, EndSlice, EcallClone, Exit, SpuriousWake
<1>2. ASSUME NEW h \in Harts, CallerStep(h) PROVE g \in Live'
  BY <1>2 DEF CallerStep, CloneThread, CloneProcess, CloneFails, TestLocked, TestFree,
     FutexWait, Unborn
<1>3. ASSUME NEW h \in Harts, ChildStep(h) PROVE g \in Live'
  BY <1>3 DEF ChildStep, ReadHead, PushCAS, ReadCount, CountCAS, CopyState, SetupChild,
     Unlock, WakeAndRun
<1>4. CASE Ended
  BY <1>4 DEF Ended, vars
<1>5. QED
  BY <1>1, <1>2, <1>3, <1>4 DEF Next, HartStep

LEMMA AnsweredStep == CloneInv /\ Answered /\ Next => Answered'
<1> SUFFICES ASSUME CloneInv, Answered, Next PROVE Answered'
  OBVIOUS
<1>0. Live \subseteq Live'
  BY LiveStays
<1> USE HartsAssumption DEF CloneInv, TypeOK, Goto, Answered, Waiting
<1>1. ASSUME NEW h \in Harts, GuestChoice(h) \/ SpuriousWake(h) PROVE Answered'
  BY <1>0, <1>1 DEF GuestChoice, GuestStep, EndSlice, EcallClone, Exit, SpuriousWake
<1>2. ASSUME NEW h \in Harts, CloneThread(h) PROVE Answered'
  BY <1>0, <1>2 DEF CloneThread, Unborn, CallerArmed
<1>3. ASSUME NEW h \in Harts, CloneProcess(h) \/ CloneFails(h) PROVE Answered'
  BY <1>0, <1>3 DEF CloneProcess, CloneFails, CallerArmed
<1>4. ASSUME NEW h \in Harts, TestLocked(h) \/ TestFree(h) \/ FutexWait(h) PROVE Answered'
  BY <1>0, <1>4 DEF TestLocked, TestFree, FutexWait
<1>5. ASSUME NEW h \in Harts, ReadHead(h) \/ PushCAS(h) \/ ReadCount(h) \/ CountCAS(h)
                              \/ CopyState(h) \/ SetupChild(h)
      PROVE  Answered'
  BY <1>0, <1>5 DEF ReadHead, PushCAS, ReadCount, CountCAS, CopyState, SetupChild
<1>6. ASSUME NEW c \in Harts, Unlock(c) PROVE Answered'
  <2>1. oldcpu[c] \in Harts /\ retval[oldcpu[c]] = c
    BY <1>6 DEF Unlock, CallerHeld, Constructing
  <2>2. c \in Live'
    BY <1>6 DEF Unlock, Live
  <2>3. QED
    BY <1>0, <1>6, <2>1, <2>2 DEF Unlock
<1>7. ASSUME NEW c \in Harts, WakeAndRun(c) PROVE Answered'
  BY <1>0, <1>7 DEF WakeAndRun
<1>8. CASE Ended
  BY <1>8 DEF Ended, vars, Live
<1>9. QED
  BY <1>1, <1>2, <1>3, <1>4, <1>5, <1>6, <1>7, <1>8 DEF Next, HartStep, CallerStep, ChildStep

-----------------------------------------------------------------------------
(***************************************************************************)
(* The refinement mapping, by name.                                        *)
(***************************************************************************)
Image(h) == [ctx     |-> regs[h].ctx,
             overlay |-> regs[h].overlay,
             pc      |-> IF Loaded(h) THEN pc[h] ELSE spc[h]]
Images   == [h \in Live |-> Image(h)]
Children == [h \in Harts |-> IF at[h] \in Waiting /\ retval[h] \in Live
                             THEN retval[h] ELSE NoHart]

Refines == [Guest!Next]_(Guest!gvars)

LEMMA GuestStutter ==
  ASSUME UNCHANGED <<Live, InCall, Children, exited>>, \A h \in Live : Image(h)' = Image(h)
  PROVE  Refines
<1>1. Images' = Images
  BY DEF Images
<1>2. QED
  BY <1>1 DEF Refines, Guest!gvars, Images, Image, Children

LEMMA GuestMapping ==
  /\ Guest!Running = Live \ InCall
  /\ Guest!Started = Live
  /\ Live \subseteq Harts /\ InCall \subseteq Live
<1>1. DOMAIN Images = Live
  BY DEF Images
<1>2. QED
  BY <1>1 DEF Guest!Running, Guest!Started, Images, Image, Live, InCall

\* A step that moves a hart between places of one kind.
LEMMA GuestMoves ==
  ASSUME NEW h \in Harts, CloneInv, Answered,
         \/ EndSlice(h) \/ CloneThread(h) \/ CloneProcess(h) \/ CloneFails(h)
         \/ TestLocked(h) \/ FutexWait(h) \/ SpuriousWake(h)
  PROVE  Refines
<1> USE HartsAssumption DEF CloneInv, TypeOK, Goto, Live, InCall, Waiting
<1>1. exited' = exited /\ Live' = Live /\ InCall' = InCall
  BY DEF EndSlice, CloneThread, CloneProcess, CloneFails, TestLocked, FutexWait,
     SpuriousWake, Unborn
<1>2. \A g \in Live : Image(g)' = Image(g)
  BY DEF EndSlice, CloneThread, CloneProcess, CloneFails, TestLocked, FutexWait,
     SpuriousWake, Unborn, Image, Loaded
<1>3. Children' = Children
  BY <1>1 DEF EndSlice, CloneThread, CloneProcess, CloneFails, TestLocked, FutexWait,
     SpuriousWake, Unborn, Children
<1>4. QED
  BY <1>1, <1>2, <1>3, GuestStutter

\* The constructor of a hart is nothing the guest sees.
LEMMA GuestConstructs ==
  ASSUME NEW c \in Harts, CloneInv, Answered,
         \/ ReadHead(c) \/ PushCAS(c) \/ ReadCount(c) \/ CountCAS(c) \/ CopyState(c)
         \/ Unlock(c) \/ WakeAndRun(c)
  PROVE  Refines
<1> USE HartsAssumption DEF CloneInv, TypeOK, Goto, Live, InCall, Waiting
<1>1. exited' = exited /\ Live' = Live /\ InCall' = InCall
  BY DEF ReadHead, PushCAS, ReadCount, CountCAS, CopyState, Unlock, WakeAndRun
<1>2. \A g \in Live : Image(g)' = Image(g)
  BY DEF ReadHead, PushCAS, ReadCount, CountCAS, CopyState, Unlock, WakeAndRun, Image, Loaded
<1>3. Children' = Children
  BY <1>1 DEF ReadHead, PushCAS, ReadCount, CountCAS, CopyState, Unlock, WakeAndRun, Children
<1>4. QED
  BY <1>1, <1>2, <1>3, GuestStutter

LEMMA GuestSteps ==
  ASSUME NEW h \in Harts, CloneInv, exited = "no", GuestStep(h)
  PROVE  Refines
<1> USE HartsAssumption DEF CloneInv, TypeOK, Waiting
<1>1. PICK c \in Contexts, a \in PCs :
        /\ regs' = [regs EXCEPT ![h] = [ctx |-> c, overlay |-> "none"]]
        /\ pc' = [pc EXCEPT ![h] = a]
  BY DEF GuestStep
<1>2. h \in Live \ InCall /\ UNCHANGED <<Live, InCall, Children, exited>> /\ Loaded(h)
      /\ Loaded(h)'
  BY DEF GuestStep, Live, InCall, Children, Loaded
<1>3. Image(h)' = [ctx |-> c, overlay |-> "none", pc |-> a]
  BY <1>1, <1>2 DEF Image
<1>4. \A g \in Live \ {h} : Image(g)' = Image(g)
  BY <1>1 DEF Image, GuestStep, Live, Loaded
<1>5. Images' = [Images EXCEPT ![h] = [ctx |-> c, overlay |-> "none", pc |-> a]]
  BY <1>2, <1>3, <1>4 DEF Images
<1>6. Guest!Step(h)
  BY <1>2, <1>5, GuestMapping DEF Guest!Step, Guest!PCs, PCs, Images, Image, Children
<1>7. QED
  BY <1>6 DEF Refines, Guest!Next

LEMMA GuestCalls ==
  ASSUME NEW h \in Harts, CloneInv, exited = "no", EcallClone(h)
  PROVE  Refines
<1> USE HartsAssumption DEF CloneInv, TypeOK, Waiting, Goto
<1>1. h \in Live \ InCall /\ UNCHANGED <<Live, Children, exited>> /\ InCall' = InCall \cup {h}
  BY DEF EcallClone, Live, InCall, Children
<1>2. \A g \in Live : Image(g)' = Image(g)
  BY DEF Image, EcallClone, Live, Loaded
<1>3. Images' = Images
  BY <1>1, <1>2 DEF Images
<1>4. Guest!Call(h)
  BY <1>1, <1>3, GuestMapping DEF Guest!Call, Images, Image, Children
<1>5. QED
  BY <1>4 DEF Refines, Guest!Next

LEMMA GuestEnds ==
  ASSUME NEW h \in Harts, CloneInv, exited = "no", Exit(h)
  PROVE  Refines
<1> USE HartsAssumption DEF CloneInv, TypeOK, Waiting, Goto
<1>1. h \in Live \ InCall /\ UNCHANGED <<Live, InCall, Children>> /\ exited' = "yes"
  BY DEF Exit, Live, InCall, Children
<1>2. \A g \in Live : Image(g)' = Image(g)
  BY DEF Image, Exit, Live, Loaded
<1>3. Images' = Images
  BY <1>1, <1>2 DEF Images
<1>4. Guest!End(h)
  BY <1>1, <1>3, GuestMapping DEF Guest!End, Images, Image, Children
<1>5. QED
  BY <1>4 DEF Refines, Guest!Next

\* The child's image is finished: the abstract thread starts.
LEMMA GuestStarts ==
  ASSUME NEW c \in Harts, CloneInv, Answered, exited = "no", SetupChild(c)
  PROVE  Refines
<1> DEFINE p == oldcpu[c]
<1> USE HartsAssumption
<1>1. /\ p \in Harts /\ at[p] \in Waiting /\ retval[p] = c /\ p # c
      /\ regs[c] = regs[p] /\ spc[c] = pc[p] /\ at[c] = "setup"
  BY DEF CloneInv, SetupChild, Goto, CallerHeld, CopyFresh, CallerArmed, Constructing, Waiting
<1>2. p \in InCall /\ c \notin Live /\ p \in Live /\ Loaded(p) /\ c # NoHart
  BY <1>1 DEF InCall, Live, Loaded, Waiting
<1>3. /\ Live' = Live \cup {c} /\ InCall' = InCall /\ exited' = exited
      /\ retval' = retval /\ \A h \in Harts : at'[h] \in Waiting <=> at[h] \in Waiting
  BY DEF SetupChild, Goto, Live, InCall, Waiting, CloneInv, TypeOK
<1>4. \A g \in Live : Image(g)' = Image(g)
  BY <1>2 DEF SetupChild, Goto, Image, Live, Loaded, CloneInv, TypeOK
<1>5. Image(c)' = Guest!After(Image(p), "child")
  <2>1. ~Loaded(c)'
    BY DEF SetupChild, Goto, Loaded, CloneInv, TypeOK
  <2>2. regs'[c] = [ctx |-> regs[p].ctx, overlay |-> "child"] /\ spc'[c] = (pc[p] + 1) % NPcs
    BY <1>1 DEF SetupChild, Overlaid, Succ, CloneInv, TypeOK
  <2>3. QED
    BY <1>2, <2>1, <2>2 DEF Image, Guest!After
<1>6. Children[p] = NoHart /\ Children' = [Children EXCEPT ![p] = c]
  <2>1. Children[p] = NoHart
    BY <1>1, <1>2 DEF Children
  <2>2. ASSUME NEW h \in Harts, h # p, at[h] \in Waiting PROVE retval[h] # c
    BY <2>2, <1>1, <1>2 DEF Answered
  <2>3. QED
    BY <1>1, <1>2, <1>3, <2>2 DEF Children
<1>7. Images' = [u \in Live \cup {c} |->
                   IF u = c THEN Guest!After(Images[p], "child") ELSE Images[u]]
  BY <1>2, <1>3, <1>4, <1>5 DEF Images
<1>8. Guest!Start(p, c)
  BY <1>2, <1>3, <1>6, <1>7, GuestMapping DEF Guest!Start, Images, Image, Children
<1>9. QED
  BY <1>1, <1>8 DEF Refines, Guest!Next

\* The caller leaves its wait loop: the abstract call returns.
LEMMA GuestReturns ==
  ASSUME NEW h \in Harts, CloneInv, Answered, exited = "no", TestFree(h)
  PROVE  Refines
<1> USE HartsAssumption
<1>1. /\ at[h] = "test" /\ retval[h] \in Live /\ retval[h] # NoHart /\ h \in InCall
      /\ h \in Live /\ Loaded(h)
  BY DEF TestFree, Goto, Answered, Waiting, InCall, Live, Loaded
<1>2. /\ Live' = Live /\ InCall' = InCall \ {h} /\ exited' = exited /\ Loaded(h)'
      /\ retval' = retval /\ at' = [at EXCEPT ![h] = "run"]
  BY DEF TestFree, Goto, Live, InCall, Waiting, Loaded, CloneInv, TypeOK
<1>3. \A g \in Live \ {h} : Image(g)' = Image(g)
  BY DEF TestFree, Goto, Image, Live, Loaded, CloneInv, TypeOK
<1>4. Image(h)' = Guest!After(Image(h), "caller")
  <2>1. regs'[h] = [ctx |-> regs[h].ctx, overlay |-> "caller"] /\ pc'[h] = (pc[h] + 1) % NPcs
    BY DEF TestFree, Overlaid, Succ, CloneInv, TypeOK
  <2>2. QED
    BY <1>1, <1>2, <2>1 DEF Image, Guest!After
<1>5. Children[h] # NoHart /\ Children' = [Children EXCEPT ![h] = NoHart]
  BY <1>1, <1>2 DEF Children, Waiting, CloneInv, TypeOK
<1>6. Images' = [Images EXCEPT ![h] = Guest!After(Images[h], "caller")]
  BY <1>1, <1>2, <1>3, <1>4 DEF Images
<1>7. Guest!Return(h)
  BY <1>1, <1>2, <1>5, <1>6, GuestMapping DEF Guest!Return, Images, Image, Children
<1>8. QED
  BY <1>7 DEF Refines, Guest!Next

(***************************************************************************)
(* The futex handshake is the clone guest threads are promised: for any    *)
(* number of harts, contexts and outcomes of clone(), a child starts from  *)
(* its caller's registers as they were at the ecall, and the call returns  *)
(* only after that, once.                                                  *)
(***************************************************************************)
THEOREM GuestSafe == Spec => GuestSpec
<1>1. Init => Guest!Init
  <2> SUFFICES ASSUME Init PROVE Guest!Init
    OBVIOUS
  <2> USE HartsAssumption
  <2>1. PICK c \in Contexts : regs = [h \in Harts |-> [ctx |-> c, overlay |-> "none"]]
    BY DEF Init
  <2>2. Live = {Main} /\ InCall = {} /\ exited = "no" /\ Loaded(Main)
    BY DEF Init, Live, InCall, Waiting, Loaded
  <2>3. Image(Main) = [ctx |-> c, overlay |-> "none", pc |-> 0]
    BY <2>1, <2>2 DEF Init, Image
  <2>4. Images = [t \in {Main} |-> [ctx |-> c, overlay |-> "none", pc |-> 0]]
    BY <2>2, <2>3 DEF Images
  <2>5. Children = [t \in Harts |-> NoHart]
    BY DEF Children, Init, Waiting
  <2>6. QED
    BY <2>2, <2>4, <2>5 DEF Guest!Init, Images, Image, Children
<1>2. CloneInv /\ Answered /\ [Next]_vars => Refines
  <2> SUFFICES ASSUME CloneInv, Answered, [Next]_vars PROVE Refines
    OBVIOUS
  <2>1. CASE UNCHANGED vars
    <3>1. UNCHANGED <<Live, InCall, Children, exited>>
      BY <2>1 DEF vars, Live, InCall, Children
    <3>2. \A h \in Live : Image(h)' = Image(h)
      BY <2>1 DEF vars, Image, Loaded
    <3>3. QED
      BY <3>1, <3>2, GuestStutter
  <2>2. ASSUME exited = "no", NEW h \in Harts, HartStep(h) \/ GuestChoice(h) \/ SpuriousWake(h)
        PROVE  Refines
    BY <2>2, GuestMoves, GuestConstructs, GuestSteps, GuestCalls, GuestEnds, GuestStarts,
       GuestReturns DEF HartStep, GuestChoice, CallerStep, ChildStep
  <2>3. QED
    BY <2>1, <2>2 DEF Next, Ended
<1>3. Answered /\ UNCHANGED vars => Answered'
  BY DEF Answered, vars, Live, Waiting
<1>4. Spec => []Answered
  BY <1>3, AnsweredInit, AnsweredStep, CloneInvariant, PTL DEF Spec
<1>5. QED
  BY <1>1, <1>2, <1>4, CloneInvariant, PTL DEF Spec, GuestSpec, Guest!Spec, Refines
=============================================================================
