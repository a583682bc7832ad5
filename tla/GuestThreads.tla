---------------------------- MODULE GuestThreads ----------------------------
(***************************************************************************)
(* What a guest program is promised about clone: the new thread starts     *)
(* from the caller's registers as they were at the call, and the call      *)
(* returns in the caller only after that, once.                            *)
(***************************************************************************)
EXTENDS Naturals

CONSTANTS Threads, Main, NoThread, Contexts, NPcs

VARIABLES image,    \* registers and pc of each thread that has started
          calling,  \* the threads inside a clone
          child,    \* the thread a caller's clone has started, once it has
          ended     \* the process is over

gvars == <<image, calling, child, ended>>

PCs == 0 .. NPcs - 1
Started == DOMAIN image
Running == Started \ calling

\* What clone leaves in a thread: the caller's context with the results of
\* the call laid over it, at the instruction after the ecall.
After(i, who) == [ctx |-> i.ctx, overlay |-> who, pc |-> (i.pc + 1) % NPcs]

Init ==
  /\ \E c \in Contexts :
       image = [t \in {Main} |-> [ctx |-> c, overlay |-> "none", pc |-> 0]]
  /\ calling = {}
  /\ child = [t \in Threads |-> NoThread]
  /\ ended = FALSE

Step(t) ==
  /\ t \in Running
  /\ \E c \in Contexts, a \in PCs :
       image' = [image EXCEPT ![t] = [ctx |-> c, overlay |-> "none", pc |-> a]]
  /\ UNCHANGED <<calling, child, ended>>

Call(t) ==
  /\ t \in Running
  /\ calling' = calling \cup {t}
  /\ UNCHANGED <<image, child, ended>>

Start(t, n) ==
  /\ t \in calling /\ child[t] = NoThread /\ n \notin Started
  /\ image' = [u \in Started \cup {n} |->
                 IF u = n THEN After(image[t], "child") ELSE image[u]]
  /\ child' = [child EXCEPT ![t] = n]
  /\ UNCHANGED <<calling, ended>>

Return(t) ==
  /\ t \in calling /\ child[t] # NoThread
  /\ calling' = calling \ {t}
  /\ image' = [image EXCEPT ![t] = After(image[t], "caller")]
  /\ child' = [child EXCEPT ![t] = NoThread]
  /\ UNCHANGED ended

End(t) ==
  /\ t \in Running
  /\ ended' = TRUE
  /\ UNCHANGED <<image, calling, child>>

Next ==
  /\ ~ended
  /\ \E t \in Threads :
       \/ Step(t) \/ Call(t) \/ Return(t) \/ End(t)
       \/ \E n \in Threads : Start(t, n)

Spec == Init /\ [][Next]_gvars
=============================================================================
