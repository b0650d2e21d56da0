--------------------------- MODULE MCKarmaMachine ---------------------------
(* Every command on a computer of six cells, two free registers and 6-bit   *)
(* words, in all three-command programs that start with a set-up command.   *)
EXTENDS KarmaMachine, Bitwise

Cmd(op, reg, src, arg) == [op |-> op, reg |-> reg, src |-> src, arg |-> arg]
R(op, reg, arg) == Cmd(op, reg, 0, arg)

\* Word 0 ends the programs that run into the empty memory.
CommandTable == <<
    R("EXIT", 0, 0), R("HALT", 0, 0), R("SCANINT", 0, 0), R("SCANDOUBLE", 0, 0),
    R("PRINTINT", 2, 0), R("PRINTDOUBLE", 1, 0), R("GETCHAR", 4, 0),
    R("PUTCHAR", 0, 0), R("BADSYSCALL", 0, 0), R("UNKNOWN", 0, 0),
    Cmd("ADD", 0, 1, 1), Cmd("SUB", 3, 0, 1), Cmd("AND", 0, 3, 0),
    Cmd("OR", 1, 3, 0), Cmd("XOR", 4, 0, 7), R("ADDI", 3, 62),
    R("SUBI", 0, 1), R("ANDI", 0, 3), R("ORI", 1, 5), R("XORI", 2, 6),
    Cmd("SHL", 0, 0, 1), Cmd("SHR", 0, 0, 0), R("SHLI", 0, 3), R("SHRI", 0, 6),
    Cmd("MUL", 0, 0, 0), R("MULI", 1, 63), Cmd("DIV", 0, 1, 0), R("DIVI", 0, 2),
    R("NOT", 1, 0), Cmd("CMP", 0, 1, 0), R("CMPI", 0, 3),
    Cmd("ITOD", 0, 1, 0), Cmd("DTOI", 0, 0, 0), Cmd("ADDD", 0, 0, 0),
    Cmd("SUBD", 1, 0, 0), Cmd("MULD", 3, 0, 0), Cmd("DIVD", 0, 0, 0),
    Cmd("CMPD", 0, 0, 0), R("JMP", 0, 2), R("JNE", 0, 3), R("JEQ", 0, 3),
    R("JLE", 0, 3), R("JL", 0, 3), R("JGE", 0, 3), R("JG", 0, 0),
    R("PUSH", 0, 1), R("PUSH", 4, 0), R("POP", 1, 1), R("POP", 4, 0),
    R("PRC", 0, 0), R("CALLI", 0, 2), Cmd("CALL", 1, 0, 1), R("RET", 0, 0),
    R("LA", 0, 2), R("LC", 0, 4), Cmd("MOV", 0, 3, 63), R("LOAD", 0, 1),
    R("LOAD2", 0, 3), R("STORE", 0, 3), R("STORE2", 1, 5), Cmd("LOADR", 1, 0, 0),
    Cmd("LOADR2", 1, 0, 0), Cmd("STORER", 0, 0, 1), Cmd("STORER2", 0, 3, 63) >>

MCDecode == [w \in Words |-> CommandTable[w + 1]]
MCBitOp  == [op \in WordRROps \cup ShiftRROps |->
                [p \in Words \X Words |->
                    CASE op = "AND" -> p[1] & p[2]
                      [] op = "OR"  -> p[1] | p[2]
                      [] op = "XOR" -> p[1] ^^ p[2]
                      [] op = "SHL" /\ p[2] < WordBits -> (p[1] * 2 ^ p[2]) % WordCount
                      [] op = "SHR" /\ p[2] < WordBits -> p[1] \div 2 ^ p[2]
                      [] OTHER -> 0]]

SetUp == {w \in Words : Decode[w].op \in {"LC", "PRC", "NOT", "CMPI", "PUSH"}}

Prog(code) == [code |-> code, constants |-> <<12>>, entrypoint |-> 0,
               initialStack |-> MemorySize - 1]
Alone == {<<Prog(<<a, b, c>>)>> : a \in SetUp, b \in Words, c \in Words}
MCConfigs  == {DefaultConfig, StrictConfig,
               [ExtraStrictConfig EXCEPT !.maxStack = 1]}
\* programs of different lengths for one Executor that runs two of them
Few == {w \in Words : Decode[w].op \in {"LC", "PUSH", "STORER", "LOADR", "RET"}}
Short == {Prog(s) : s \in {<<a>> : a \in Few} \cup {<<a, b>> : a, b \in Few}}
MCJobs == Alone \cup {<<p, q>> : p, q \in Short}

\* the block of the constants alone, and the preset with all three registers
ConstantsBlocked == {[DefaultConfig EXCEPT !.write.constants = TRUE]}
AllBlocked       == {ExtraStrictConfig}

MCInputs   == {3, 63}
MCDoubles  == {<<0, 5>>}
=============================================================================
