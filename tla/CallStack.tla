----------------------------- MODULE CallStack -----------------------------
(***************************************************************************)
(* What the Karma calling convention promises to a program that keeps it   *)
(* (docs/src/sections/standard/function_calls): a stack of frames, each    *)
(* with its own values.  A frame holds the values of the main program, the *)
(* arguments of a call in preparation, or the locals of a callee.  Pushing *)
(* and popping reach the top frame only, a return drops the callee's       *)
(* locals together with its arguments and resumes after the call; all the  *)
(* other frames are out of reach.                                          *)
(***************************************************************************)
EXTENDS Naturals, Sequences, SequencesExt

CONSTANTS Words, WordCount

VARIABLES frames, pc, live

FrameType == [kind : {"main", "args", "body"}, ret : Words, values : Seq(Words)]

Frame(kind, ret) == [kind |-> kind, ret |-> ret, values |-> <<>>]

Advance == pc' = (pc + 1) % WordCount

Top == Last(frames)

Init == frames = <<>> /\ pc = 0 /\ live = FALSE

Start ==
    /\ ~live
    /\ live' = TRUE
    /\ frames' = <<Frame("main", 0)>>
    /\ pc' \in Words

PushValue ==
    /\ live
    /\ \E v \in Words :
          frames' = [frames EXCEPT ![Len(frames)].values = Append(@, v)]
    /\ Advance
    /\ UNCHANGED live

PopValue ==
    /\ live
    /\ Top.values # <<>>
    /\ frames' = [frames EXCEPT ![Len(frames)].values = Front(@)]
    /\ Advance
    /\ UNCHANGED live

Prepare ==
    /\ live
    /\ frames' = Append(frames, Frame("args", 0))
    /\ Advance
    /\ UNCHANGED live

Enter ==
    /\ live
    /\ Top.kind = "args"
    /\ frames' = Append(frames, Frame("body", (pc + 1) % WordCount))
    /\ pc' \in Words
    /\ UNCHANGED live

Leave ==
    /\ live
    /\ Top.kind = "body"
    /\ frames' = SubSeq(frames, 1, Len(frames) - 2)
    /\ pc' = Top.ret
    /\ UNCHANGED live

\* a command that concerns neither the stack nor the calls
Local ==
    /\ live
    /\ pc' \in Words
    /\ UNCHANGED <<frames, live>>

\* the program exits or fails
Stop ==
    /\ live
    /\ live' = FALSE
    /\ frames' = <<>>
    /\ pc' \in Words

Next == Start \/ PushValue \/ PopValue \/ Prepare \/ Enter \/ Leave \/ Local
          \/ Stop

Spec == Init /\ [][Next]_<<frames, pc, live>>
=============================================================================
