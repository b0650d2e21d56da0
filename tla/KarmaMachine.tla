---------------------------- MODULE KarmaMachine ----------------------------
(***************************************************************************)
(* karma::Executor: loading programs and executing the commands of the     *)
(* four formats (src/karma/include/executor).  One Executor object runs    *)
(* any number of programs one after another over the same storage.         *)
(*                                                                         *)
(* A step is one turn of the loop of ExecuteImpl: fetch, advance r15,      *)
(* decode, run the command to its end or to the error it throws.           *)
(***************************************************************************)
EXTENDS KarmaStorage

CONSTANTS
    WordBits,       \* the width of arch::Word
    Decode,         \* the command a word stands for: GetCode and parse::*
    BitOp,          \* the bitwise operators of the host on words
    Inputs,         \* the words an input or a double conversion may give
    Doubles,        \* the word pairs a double operation may give
    Configs,        \* the configurations of the computer and of an execution
    Jobs            \* the programs an Executor is given, one after another

WordRROps  == {"ADD", "SUB", "AND", "OR", "XOR"}
ShiftRROps == {"SHL", "SHR"}
\* the command with an immediate operand |-> the operation it performs
WordRIOps  == [ADDI |-> "ADD", SUBI |-> "SUB", ANDI |-> "AND",
               ORI |-> "OR", XORI |-> "XOR"]
ShiftRIOps == [SHLI |-> "SHL", SHRI |-> "SHR"]
DoubleOps  == {"ADDD", "SUBD", "MULD"}
JumpFlag   == [JNE |-> "NOT_EQUAL", JEQ |-> "EQUAL", JLE |-> "LESS_OR_EQUAL",
               JL |-> "LESS", JGE |-> "GREATER_OR_EQUAL", JG |-> "GREATER"]

\* SYSCALL is one command per code, BADSYSCALL for every code not in the enum
Syscalls == {"EXIT", "SCANINT", "SCANDOUBLE", "PRINTINT", "PRINTDOUBLE",
             "GETCHAR", "PUTCHAR", "BADSYSCALL"}

\* the commands whose operand is a memory address
AddressOps == {"LA", "LOAD", "LOAD2", "STORE", "STORE2", "JMP", "CALLI"}
                \cup DOMAIN JumpFlag

Ops == WordRROps \cup ShiftRROps \cup DOMAIN WordRIOps \cup DOMAIN ShiftRIOps
         \cup DoubleOps \cup Syscalls \cup AddressOps
         \cup {"HALT", "MUL", "MULI", "DIV", "DIVI", "NOT", "ITOD", "DTOI",
               "DIVD", "CMP", "CMPI", "CMPD", "PUSH", "POP", "LC", "MOV",
               "LOADR", "LOADR2", "STORER", "STORER2", "PRC", "CALL", "RET",
               "UNKNOWN"}

\* A decoded command: reg is the register or the receiver, src the source
\* register, arg the address, the immediate or the modifier, the latter two
\* cast to arch::Word.  A field the format does not have is never read.
Commands == [op : Ops, reg : Registers, src : Registers, arg : Words]

ASSUME DecodeAssumption ==
    /\ Decode \in [Words -> Commands]
    /\ \A w \in Words : Decode[w].op \in AddressOps => Decode[w].arg \in Addresses
ASSUME BitOpAssumption ==
    /\ WordBits \in Nat
    /\ BitOp \in [WordRROps \cup ShiftRROps -> [Words \X Words -> Words]]
ASSUME OutsideAssumption ==
    /\ Inputs \subseteq Words
    /\ Doubles \subseteq Words \X Words

\* what Exec::Read returns for an executable file
Programs == {p \in ProgramType : Len(p.code) + Len(p.constants) <= MemorySize}

ASSUME JobsAssumption == Jobs \subseteq Seq(Programs)
ASSUME ConfigsAssumption == Configs \subseteq ConfigType

VARIABLES
    status,     \* what the Executor is doing
    error,      \* the class of the error the last execution ended with
    queue,      \* the client: the programs still to be executed
    given       \* the client: the configuration it passed to the last Execute

vars == <<registers, memory, flags, base, config, program, status, error,
          queue, given>>

TypeOK ==
    /\ StorageTypeOK
    /\ status \in {"idle", "running", "halted", "exited", "failed"}
    /\ error \in Errors
    /\ queue \in Seq(Programs)
    /\ given \in Configs

NoProgram == [code |-> <<>>, constants |-> <<>>, entrypoint |-> 0,
              initialStack |-> 0]

\* Storage's constructor
Init ==
    /\ registers = [r \in Registers |-> 0]
    /\ memory = [a \in Addresses |-> 0]
    /\ flags = {}
    /\ base \in Configs
    /\ config = base
    /\ program = NoProgram
    /\ status = "idle" /\ error = "none"
    /\ queue \in Jobs
    /\ given = base    \* nothing was executed yet
-----------------------------------------------------------------------------
\* Mutant: the configuration of the last execution is tightened further.
PrepareOnTopOfLast(p, c) ==
    /\ config' = Meet(config, c)
    /\ program' = p
    /\ LET image == p.code \o p.constants
       IN  memory' = [a \in Addresses |-> IF a < Len(image) THEN image[a + 1]
                                                            ELSE memory[a]]
    /\ registers' = [registers EXCEPT ![CallFrame]   = p.initialStack,
                                      ![Stack]       = p.initialStack,
                                      ![Instruction] = p.entrypoint]
    /\ UNCHANGED <<flags, base>>

\* PrepareForExecution.  Registers, flags and memory the program does not
\* load stay as the previous execution left them.
PrepareForExecution(p, c) ==
    /\ config' = Meet(base, c)
    /\ program' = p
    /\ LET image == p.code \o p.constants
       IN  memory' = [a \in Addresses |-> IF a < Len(image) THEN image[a + 1]
                                                            ELSE memory[a]]
    /\ registers' = [registers EXCEPT ![CallFrame]   = p.initialStack,
                                      ![Stack]       = p.initialStack,
                                      ![Instruction] = p.entrypoint]
    /\ UNCHANGED <<flags, base>>

Execute ==
    /\ status \in {"idle", "exited", "failed"}
    /\ queue # <<>>
    /\ \E c \in Configs : given' = c /\ PrepareForExecution(Head(queue), c)
    /\ status' = "running" /\ error' = "none"
    /\ queue' = Tail(queue)

\* r15 left the memory
ExecPointerOutOfMemory ==
    /\ status = "running"
    /\ registers[Instruction] >= MemorySize
    /\ status' = "failed" /\ error' = "address"
    /\ UNCHANGED <<storageVars, queue, given>>

Command == Decode[memory[registers[Instruction]]]

\* the machine as the command finds it: r15 is already the next instruction
Fetched ==
    [regs  |-> [registers EXCEPT ![Instruction] = Plus(@, 1)],
     mem   |-> memory, flags |-> flags, val |-> 0, err |-> "none"]

Runs(op) ==
    /\ status = "running"
    /\ registers[Instruction] < MemorySize
    /\ Command.op = op

\* the command has left the machine m; next is the status if nothing was thrown
Finish(m, next) ==
    /\ registers' = m.regs /\ memory' = m.mem /\ flags' = m.flags
    /\ error' = m.err
    /\ status' = IF m.err = "none" THEN next ELSE "failed"
    /\ UNCHANGED <<base, config, program, queue, given>>

Commit(m) == Finish(m, "running")
Throw(kind) == Commit([Fetched EXCEPT !.err = kind])

LHSWord(m, c) == RReg(m, c.reg, FALSE)
RHSWord(m, c) ==
    LET x == RReg(m, c.src, FALSE) IN [x EXCEPT !.val = Plus(@, c.arg)]
LHSDouble(m, c) == GetTwoRegisters(m, c.reg)
RHSDouble(m, c) == GetTwoRegisters(m, c.src)

\* lhs op rhs for the operations of one word
Word(op, lhs, rhs) ==
    IF op = "ADD" THEN Plus(lhs, rhs)
    ELSE IF op = "SUB" THEN Minus(lhs, rhs)
    ELSE BitOp[op][lhs, rhs]

UnknownCommand == Runs("UNKNOWN") /\ Throw("command")
-----------------------------------------------------------------------------
(***************************************************************************)
(* System commands (ri_executor.cpp).                                      *)
(***************************************************************************)
\* sigwait: the execution goes on when some signal arrives
HALT == Runs("HALT") /\ Finish(Fetched, "halted")

SignalArrives ==
    /\ status = "halted"
    /\ status' = "running"
    /\ UNCHANGED <<storageVars, error, queue, given>>

EXIT == Runs("EXIT") /\ Finish(LHSWord(Fetched, Command), "exited")

\* SCANINT and GETCHAR read std::cin before they access the register
ScanWord ==
    \E op \in {"SCANINT", "GETCHAR"}, value \in Inputs :
        Runs(op) /\ Commit(WReg(Fetched, Command.reg, value, FALSE))

SCANDOUBLE ==
    \E value \in Doubles :
        /\ Runs("SCANDOUBLE")
        /\ Commit(PutTwoRegisters(Fetched, Command.reg, value[1], value[2]))

PRINTINT == Runs("PRINTINT") /\ Commit(LHSWord(Fetched, Command))

PRINTDOUBLE == Runs("PRINTDOUBLE") /\ Commit(LHSDouble(Fetched, Command))

\* kMaxChar: a byte; a quarter of the width of the word
PUTCHAR ==
    /\ Runs("PUTCHAR")
    /\ LET x == LHSWord(Fetched, Command)
       IN  Commit(Require(x, x.val < 2 ^ (WordBits \div 4), "value"))

BadSyscall == Runs("BADSYSCALL") /\ Throw("command")
-----------------------------------------------------------------------------
(***************************************************************************)
(* Integer arithmetic, bitwise operations and comparisons.  The right-hand *)
(* side is evaluated, and can throw, before the receiver is accessed.      *)
(***************************************************************************)
WordRR ==
    \E op \in WordRROps :
        /\ Runs(op)
        /\ LET c == Command
               x == RHSWord(Fetched, c)
           IN  Commit(WReg(x, c.reg, Word(op, x.regs[c.reg], x.val), FALSE))

WordRI ==
    \E op \in DOMAIN WordRIOps :
        /\ Runs(op)
        /\ LET c == Command
               m == Fetched
           IN  Commit(WReg(m, c.reg,
                           Word(WordRIOps[op], m.regs[c.reg], c.arg), FALSE))

ShiftRR ==
    \E op \in ShiftRROps :
        /\ Runs(op)
        /\ LET c == Command
               x == RHSWord(Fetched, c)
               y == Require(x, x.val < WordBits, "arithmetic")
           IN  Commit(WReg(y, c.reg, Word(op, y.regs[c.reg], y.val), FALSE))

ShiftRI ==
    \E op \in DOMAIN ShiftRIOps :
        /\ Runs(op)
        /\ LET c == Command
               y == Require(Fetched, c.arg < WordBits, "arithmetic")
           IN  Commit(WReg(y, c.reg,
                           Word(ShiftRIOps[op], y.regs[c.reg], c.arg), FALSE))

PutProduct(m, lhs, rhs, recv) ==
    PutTwoRegisters(m, recv, (lhs * rhs) % WordCount, (lhs * rhs) \div WordCount)

MUL ==
    /\ Runs("MUL")
    /\ LET c == Command
           x == RHSWord(LHSWord(Fetched, c), c)
       IN  Commit(PutProduct(x, x.regs[c.reg], x.val, c.reg))

MULI ==
    /\ Runs("MULI")
    /\ LET c == Command
           x == LHSWord(Fetched, c)
       IN  Commit(PutProduct(x, x.val, c.arg, c.reg))

\* Join of the register and the next one
TwoWords(m, low) == m.regs[low] + WordCount * m.regs[low + 1]

DivideRegisters(m, c, rhs) ==
    IF m.err = "none" THEN Divide(m, TwoWords(m, c.reg), rhs, c.reg) ELSE m

DIV ==
    /\ Runs("DIV")
    /\ LET c == Command
           x == RHSWord(GetTwoRegisters(Fetched, c.reg), c)
       IN  Commit(DivideRegisters(x, c, x.val))

DIVI ==
    /\ Runs("DIVI")
    /\ LET c == Command
       IN  Commit(DivideRegisters(GetTwoRegisters(Fetched, c.reg), c, c.arg))

NOT ==
    /\ Runs("NOT")
    /\ LET x == LHSWord(Fetched, Command)
       IN  Commit(WReg(x, Command.reg, MaxWord - x.val, FALSE))

CMP ==
    /\ Runs("CMP")
    /\ LET c == Command
           x == RHSWord(LHSWord(Fetched, c), c)
       IN  Commit(WriteComparisonToFlags(x, x.regs[c.reg], x.val))

CMPI ==
    /\ Runs("CMPI")
    /\ LET x == LHSWord(Fetched, Command)
       IN  Commit(WriteComparisonToFlags(x, x.val, Command.arg))
-----------------------------------------------------------------------------
(***************************************************************************)
(* Real-valued arithmetic.  The values are left open: an operation gives   *)
(* any pair of words of Doubles, a comparison any outcome (an unordered    *)
(* one counts as equal), a conversion to a word any word of Inputs.        *)
(***************************************************************************)
ITOD ==
    \E value \in Doubles :
        /\ Runs("ITOD")
        /\ Commit(PutTwoRegisters(RHSWord(Fetched, Command), Command.reg,
                                  value[1], value[2]))

DTOI ==
    \E overflow \in BOOLEAN, value \in Inputs :
        /\ Runs("DTOI")
        /\ Commit(WReg(Require(RHSDouble(Fetched, Command), ~overflow, "value"),
                       Command.reg, value, FALSE))

BothDoubles(c) == RHSDouble(LHSDouble(Fetched, c), c)

DoubleRR ==
    \E op \in DoubleOps, value \in Doubles :
        /\ Runs(op)
        /\ Commit(PutTwoRegisters(BothDoubles(Command), Command.reg,
                                  value[1], value[2]))

DIVD ==
    \E zero \in BOOLEAN, value \in Doubles :
        /\ Runs("DIVD")
        /\ Commit(PutTwoRegisters(
                      Require(BothDoubles(Command), ~zero, "arithmetic"),
                      Command.reg, value[1], value[2]))

CMPD ==
    \E result \in {kLess, kGreater, kEqual} :
        Runs("CMPD") /\ Commit(SetFlags(BothDoubles(Command), result))
-----------------------------------------------------------------------------
(***************************************************************************)
(* Jumps, the stack and function calls.                                    *)
(***************************************************************************)
JMP ==
    Runs("JMP") /\ Commit(WReg(Fetched, Instruction, Command.arg, TRUE))

JumpIf ==
    \E op \in DOMAIN JumpFlag :
        /\ Runs(op)
        /\ Commit(IF JumpFlag[op] \in flags
                  THEN WReg(Fetched, Instruction, Command.arg, TRUE)
                  ELSE Fetched)

PUSH ==
    /\ Runs("PUSH")
    /\ LET x == LHSWord(Fetched, Command)
       IN  Commit(Push(x, Plus(x.val, Command.arg)))

POP == Runs("POP") /\ Commit(Pop(Fetched, Command.reg, Command.arg, FALSE))

PRC == Runs("PRC") /\ Commit(PrepareCall(Fetched))

CALLI == Runs("CALLI") /\ Commit(Call(Fetched, Command.arg))

CALL ==
    /\ Runs("CALL")
    /\ LET x == RHSWord(Fetched, Command)
       IN  Commit(WReg(Call(x, x.val), Command.reg, x.regs[Instruction], FALSE))

RET == Runs("RET") /\ Commit(Return(Fetched))
-----------------------------------------------------------------------------
(***************************************************************************)
(* Data transfer.                                                          *)
(***************************************************************************)
\* LA has an address as its operand, LC an immediate
LoadConstant ==
    \E op \in {"LA", "LC"} :
        Runs(op) /\ Commit(WReg(Fetched, Command.reg, Command.arg, FALSE))

MOV ==
    /\ Runs("MOV")
    /\ LET x == RHSWord(Fetched, Command)
       IN  Commit(WReg(x, Command.reg, x.val, FALSE))

LoadWord(m, reg, address) ==
    LET x == RMem(m, address) IN WReg(x, reg, x.val, FALSE)

StoreWord(m, reg, address) ==
    LET x == RReg(m, reg, FALSE) IN WMem(x, address, x.val)

LOAD == Runs("LOAD") /\ Commit(LoadWord(Fetched, Command.reg, Command.arg))

LOAD2 ==
    /\ Runs("LOAD2")
    /\ LET c == Command
       IN  Commit(LoadWord(LoadWord(Fetched, c.reg, c.arg),
                           c.reg + 1, Plus(c.arg, 1)))

STORE == Runs("STORE") /\ Commit(StoreWord(Fetched, Command.reg, Command.arg))

STORE2 ==
    /\ Runs("STORE2")
    /\ LET c == Command
       IN  Commit(StoreWord(StoreWord(Fetched, c.reg, c.arg),
                            c.reg + 1, Plus(c.arg, 1)))

LOADR ==
    /\ Runs("LOADR")
    /\ LET x == RHSWord(Fetched, Command)
       IN  Commit(LoadWord(x, Command.reg, x.val))

LOADR2 ==
    /\ Runs("LOADR2")
    /\ LET c == Command
           x == RHSWord(Fetched, c)
       IN  Commit(LoadWord(LoadWord(x, c.reg, x.val), c.reg + 1, Plus(x.val, 1)))

\* The right-hand side is the register, read before the address is computed.
STORER ==
    /\ Runs("STORER")
    /\ LET c == Command
           x == RHSWord(LHSWord(Fetched, c), c)
       IN  Commit(WMem(x, x.val, x.regs[c.reg]))

STORER2 ==
    /\ Runs("STORER2")
    /\ LET c == Command
           x == RHSWord(Fetched, c)
       IN  Commit(StoreWord(StoreWord(x, c.reg, x.val), c.reg + 1, Plus(x.val, 1)))
-----------------------------------------------------------------------------
SystemCommand == \/ UnknownCommand \/ HALT \/ EXIT \/ ScanWord \/ SCANDOUBLE
                 \/ PRINTINT \/ PRINTDOUBLE \/ PUTCHAR \/ BadSyscall
WordCommand   == \/ WordRR \/ WordRI \/ ShiftRR \/ ShiftRI \/ MUL \/ MULI
                 \/ DIV \/ DIVI \/ NOT \/ CMP \/ CMPI
DoubleCommand == ITOD \/ DTOI \/ DoubleRR \/ DIVD \/ CMPD
JumpCommand   == JMP \/ JumpIf
StackCommand  == PUSH \/ POP \/ PRC \/ CALLI \/ CALL \/ RET
DataCommand   == \/ LoadConstant \/ MOV \/ LOAD \/ LOAD2 \/ STORE \/ STORE2
                 \/ LOADR \/ LOADR2 \/ STORER \/ STORER2

\* one turn of the loop of ExecuteImpl
Step == \/ ExecPointerOutOfMemory
        \/ SystemCommand \/ WordCommand \/ DoubleCommand
        \/ JumpCommand \/ StackCommand \/ DataCommand

Next == \/ Execute
        \/ Step
        \/ SignalArrives

Spec == Init /\ [][Next]_vars
-----------------------------------------------------------------------------
(***************************************************************************)
(* Properties.                                                             *)
(***************************************************************************)
\* While the code is blocked for writing, the memory an execution loaded is
\* the program it was given, whatever the program stores or pushes: WMem
\* refuses every one of the accesses that could reach it.
ProgramIntact ==
    LET image == program.code \o program.constants
    IN  CodeIsWriteBlocked =>
            \A a \in Addresses : a < ConstantsEnd => memory[a] = image[a + 1]

\* An execution enforces what the computer's configuration or the one the client
\* passed with this program asks for, and nothing else: a register, the code, the
\* constants or a cell of the stack is blocked now if and only if one of the two
\* blocks it.  No block and no bound of an earlier execution on the same Executor
\* is left in force, and none of this one is forgotten.
ConfigIsOfThisExecution ==
    LET asked == {base, given}
    IN  status # "idle" =>
            /\ ReadBlockedRegisters = UNION {c.readWrite.regs : c \in asked}
            /\ WriteBlockedRegisters =
                   UNION {c.write.regs \cup c.readWrite.regs : c \in asked}
            /\ config.readWrite.code <=> \E c \in asked : c.readWrite.code
            /\ CodeIsWriteBlocked <=>
                   \E c \in asked : c.write.code \/ c.readWrite.code
            /\ config.readWrite.constants <=> \E c \in asked : c.readWrite.constants
            /\ config.write.constants <=> \E c \in asked : c.write.constants
            /\ \A a \in Addresses : a < MinStackAddress <=>
                   \E c \in asked : a < MemorySize - c.maxStack

\* The registers a command may change although they are blocked.
InternalUse(op) ==
    CASE op = "JMP" \/ op \in DOMAIN JumpFlag -> {Instruction}
      [] op \in {"PUSH", "POP"}               -> {Stack}
      [] op = "PRC"                           -> {CallFrame, Stack}
      [] op \in {"CALL", "CALLI", "RET"}      -> {CallFrame, Stack, Instruction}
      [] OTHER                                -> {}

\* No command changes a register blocked for writing, except the jumps, the
\* stack and the call commands the ones they use internally; this holds for
\* the part of a command done before an error too (two-register writes).
BlockedRegistersKept ==
    [][ \A op \in Ops : Runs(op) =>
            \A r \in WriteBlockedRegisters \ InternalUse(op) :
                registers'[r] = Fetched.regs[r] ]_vars

\* A command that pushes writes to no cell below the bound of the stack, not
\* with the second push of a call either, and leaves the stack at most full.
PushesStayInBounds ==
    [][ \A op \in {"PUSH", "PRC", "CALL", "CALLI"} : Runs(op) =>
            /\ \A a \in Addresses : memory'[a] # memory[a] => a >= MinStackAddress
            /\ (status' = "running" /\ op # "CALL")
                   => registers'[Stack] >= MinStackAddress - 1 ]_vars

\* 04_configuration.tex: a write block of the constants raises an error when
\* the program tries to modify them.
ConstantsBlockRespected ==
    [][ status = "running" /\ config.write.constants =>
            \A a \in Addresses : InConstants(a) => memory'[a] = memory[a] ]_vars

\* 04_configuration.tex: whatever is blocked, r13-r15 are available to the
\* jumps and the call commands.
InternalUseAvailable ==
    [][ \A op \in {"JMP", "PRC", "CALLI", "RET"} :
            Runs(op) => error' # "register" ]_vars
=============================================================================
