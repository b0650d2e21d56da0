---------------------------- MODULE MCKarmaCalls ----------------------------
(* A main program that prepares and makes one call with one argument, and   *)
(* every callee of four words over the stack, call and a few other commands; *)
(* the stack of nine cells overflows in the deeper recursions.              *)
EXTENDS KarmaCalls

C(op, reg, src, arg) == [op |-> op, reg |-> reg, src |-> src, arg |-> arg]

CommandTable == <<
    C("EXIT", 0, 0, 0), C("PRC", 0, 0, 0), C("PUSH", 0, 0, 3),
    C("CALLI", 0, 0, 4), C("RET", 0, 0, 0), C("POP", 1, 0, 0),
    C("CALL", 1, 0, 6), C("CMPI", 1, 0, 3), C("JEQ", 0, 0, 6),
    C("CALLI", 0, 0, 7) >>

MCDecode == [w \in Words |-> IF w < Len(CommandTable) THEN CommandTable[w + 1]
                             ELSE C("UNKNOWN", 0, 0, 0)]
MCBitOp  == [op \in WordRROps \cup ShiftRROps |-> [p \in Words \X Words |-> 0]]

Free == 1 .. Len(CommandTable) - 1

MCJobs == {<<[code |-> <<1, 2, 3, 0, a, b, c, d>>, constants |-> <<>>,
              entrypoint |-> 0, initialStack |-> MemorySize - 1]>> :
               a \in Free, b \in Free, c \in Free, d \in Free}
MCConfigs  == {StrictConfig, [DefaultConfig EXCEPT !.maxStack = 8]}
NoWords == {}
=============================================================================
