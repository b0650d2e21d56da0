----------------------------- MODULE KarmaCalls -----------------------------
(***************************************************************************)
(* The programs that keep the calling convention, on the Karma computer,   *)
(* and the call stack they see.  KarmaMachine executes the commands; the   *)
(* variable kinds only remembers which frames are open, and the guards     *)
(* below are the convention: a program that breaks it stops here.  The     *)
(* frames themselves are read back from memory, along the chain of the     *)
(* saved values of r13.                                                    *)
(***************************************************************************)
EXTENDS KarmaMachine, SequencesExt

VARIABLE kinds  \* the kinds of the open frames, the oldest first

callVars == <<vars, kinds>>

\* The callee's frame is entered, or left, only if the command succeeded.
Open(new) == kinds' = IF status' = "running" THEN kinds \o new ELSE kinds

CallInit == Init /\ kinds = <<>>

\* No value goes to the last cell, address 0: r14 would wrap around.
HasRoom == status' = "running" => registers'[Stack] < registers[Stack]

\* Nothing is received in r13, r14 and r15.
ReceivesElsewhere == Command.reg \notin {CallFrame, Stack, Instruction}

\* the stack starts in the memory behind the program, as Exec::Write leaves it
StartMain ==
    /\ Execute
    /\ registers'[Stack] \in Addresses /\ registers'[Stack] + 1 >= ConstantsEnd'
    /\ kinds' = <<"main">>

PushValue == PUSH /\ HasRoom /\ UNCHANGED kinds

\* a frame gives back what was pushed into it
PopValue ==
    /\ registers[Stack] < registers[CallFrame]
    /\ POP /\ ReceivesElsewhere
    /\ UNCHANGED kinds

Prepare == PRC /\ HasRoom /\ Open(<<"args">>)

\* a call is prepared first
Enter ==
    /\ kinds # <<>> /\ Last(kinds) = "args"
    /\ (CALL /\ ReceivesElsewhere) \/ CALLI
    /\ HasRoom
    /\ Open(<<"body">>)

\* what was prepared in the callee has been called
Leave ==
    /\ kinds # <<>> /\ Last(kinds) = "body"
    /\ RET
    /\ kinds' = IF status' = "running" THEN SubSeq(kinds, 1, Len(kinds) - 2)
                                       ELSE kinds

\* The other commands, as long as they leave r13, r14 and the stack alone.
Local ==
    /\ \/ SystemCommand \/ WordCommand \/ DoubleCommand \/ JumpCommand
       \/ DataCommand \/ ExecPointerOutOfMemory \/ SignalArrives
    /\ registers'[CallFrame] = registers[CallFrame]
    /\ registers'[Stack] = registers[Stack]
    /\ \A a \in Addresses : a > registers[Stack] => memory'[a] = memory[a]
    /\ UNCHANGED kinds

CallNext == \/ StartMain \/ PushValue \/ PopValue \/ Prepare \/ Enter \/ Leave
            \/ Local

CallSpec == CallInit /\ [][CallNext]_callVars
-----------------------------------------------------------------------------
Cell(address) == IF address \in Addresses THEN memory[address] ELSE 0

\* where the values of each frame start: r13 for the newest, for the others
\* the value of r13 the next frame saved
FrameBase ==
    LET n == Len(kinds)
        b[i \in 1 .. n] == IF i = n THEN registers[CallFrame]
                                    ELSE Cell(b[i + 1] + 1)
    IN  b

\* the newest value of frame i
FrameEnd(i) ==
    IF i = Len(kinds) THEN registers[Stack] + 1
    ELSE FrameBase[i + 1] + (IF kinds[i + 1] = "body" THEN 3 ELSE 2)

FrameOf(i) ==
    LET start == FrameBase[i]
    IN  [kind   |-> kinds[i],
         ret    |-> IF kinds[i] = "body" THEN Cell(start + 2) ELSE 0,
         values |-> [k \in 1 .. start - FrameEnd(i) + 1 |-> Cell(start - k + 1)]]

Live == status \in {"running", "halted"}

Abstract == INSTANCE CallStack WITH
    frames <- IF Live THEN [i \in 1 .. Len(kinds) |-> FrameOf(i)] ELSE <<>>,
    pc     <- registers[Instruction],
    live   <- Live

\* A program that keeps the convention sees its frames as if they were kept
\* apart from each other: no call, push or return damages the values of an
\* outer frame, and every return resumes after its own call with r13 and r14
\* as they were before the call was prepared (PrepareCall, Call, Return).
ImplementsCallStack == Abstract!Spec

\* The frames lie one below the other and within the memory the program did
\* not load: no frame overlaps another one, its saved registers or the code.
FramesNest ==
    Live =>
        /\ \A i \in 1 .. Len(kinds) : FrameEnd(i) <= FrameBase[i] + 1
        /\ \A i \in 2 .. Len(kinds) : FrameBase[i] < FrameBase[i - 1]
        /\ CodeIsWriteBlocked => registers[Stack] + 1 >= ConstantsEnd
=============================================================================
