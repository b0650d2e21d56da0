---------------------------- MODULE ExceptThreads ----------------------------
(***************************************************************************)
(* The except library in a program with several threads.  Impl's stacks and *)
(* flag are thread_local and ObjectManager::k_destroyers is not.  The       *)
(* variables of Except are the running thread's; "parked" keeps those of    *)
(* the others, and a context switch exchanges them.  k_destroyers is left   *)
(* out of the exchange, as there is one for the whole process.              *)
(***************************************************************************)
EXTENDS Except

CONSTANT Threads

VARIABLES running, parked

process == <<vars, running, parked>>

ThreadState(f, e, a, s, c, u) ==
  [frames |-> f, thrown |-> e, alive |-> a, stack |-> s, caught |-> c, unwinding |-> u]

InitThreads ==
  /\ Init
  /\ running \in Threads
  /\ parked = [t \in Threads |->
                 ThreadState(<< >>, NoException, {}, << >>, << >>, FALSE)]

Step == Next /\ UNCHANGED <<running, parked>>

\* The scheduler preempts the running thread between two of its steps.
Switch(t) ==
  /\ t # running
  /\ ~terminated
  /\ parked' = [parked EXCEPT ![running] =
                  ThreadState(frames, thrown, alive, stack, caught, unwinding_in_progress)]
  /\ running' = t
  /\ frames' = parked[t].frames
  /\ thrown' = parked[t].thrown
  /\ alive' = parked[t].alive
  /\ stack' = parked[t].stack
  /\ caught' = parked[t].caught
  /\ unwinding_in_progress' = parked[t].unwinding
  /\ UNCHANGED <<k_destroyers, terminated>>

NextThreads == Step \/ \E t \in Threads : Switch(t)

SpecThreads == InitThreads /\ [][NextThreads]_process

\* "all the objects that were placed on the stack between the beginning of the
\* most narrow enclosing TRY block and the call to the Throw function, are
\* destroyed" (include/README.md): DeliveredCleanly, for the thread that throws.
ThreadUnwindsItsObjects ==
  [][(running' = running /\ thrown # NoException /\ thrown' = NoException) =>
       /\ Target(Len(frames'))
       /\ alive' = {f \in DOMAIN frames' : frames'[f].kind = "object"}]_process
=============================================================================
