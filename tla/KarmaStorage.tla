---------------------------- MODULE KarmaStorage ----------------------------
(***************************************************************************)
(* The storage of the Karma computer (Executor::Storage), the access       *)
(* configuration it enforces (Executor::Config) and the operations all     *)
(* commands are built from (Executor::CommonExecutor).                     *)
(*                                                                         *)
(* A command is a chain of register and memory accesses any of which may   *)
(* throw; what the earlier ones of the chain changed stays changed.  The   *)
(* chain is written as operators on a machine record with the fields regs, *)
(* mem, flags, val and err: an access applied to a record that has already *)
(* failed returns it as it is, and a read leaves what it read in val.      *)
(***************************************************************************)
EXTENDS Integers, Sequences

CONSTANTS
    WordCount,      \* number of values of arch::Word
    MemorySize,     \* kMemorySize
    NRegisters      \* kNRegisters

Words     == 0 .. WordCount - 1
MaxWord   == WordCount - 1
Addresses == 0 .. MemorySize - 1
Registers == 0 .. NRegisters - 1

\* r13, r14 and r15
CallFrame   == NRegisters - 3
Stack       == NRegisters - 2
Instruction == NRegisters - 1

\* the bits of the flags register and what a comparison leaves in it
kEqual   == {"EQUAL", "GREATER_OR_EQUAL", "LESS_OR_EQUAL"}
kGreater == {"NOT_EQUAL", "GREATER", "GREATER_OR_EQUAL"}
kLess    == {"NOT_EQUAL", "LESS", "LESS_OR_EQUAL"}
FlagBits == kEqual \cup kGreater \cup kLess

AccessConfig == [regs : SUBSET Registers, code : BOOLEAN, constants : BOOLEAN]
\* maxStack = MemorySize stands for the empty optional, as MaxStackSize does
ConfigType == [write : AccessConfig, readWrite : AccessConfig,
               maxStack : 0 .. MemorySize]
ProgramType == [code : Seq(Words), constants : Seq(Words),
                entrypoint : Words, initialStack : Words]

ASSUME SizesAssumption ==
    /\ WordCount \in Nat /\ WordCount > 1
    /\ MemorySize \in Nat \ {0} /\ MemorySize < WordCount
    /\ NRegisters \in Nat /\ NRegisters > 3

VARIABLES
    registers,  \* registers_
    memory,     \* memory_
    flags,      \* flags_, as the set of its bits
    base,       \* base_config_
    config,     \* curr_config_
    program     \* the exec data loaded last; gives curr_code_end_

storageVars == <<registers, memory, flags, base, config, program>>

\* the classes of ExecutionError
Errors == {"none", "register", "address", "segment", "stack", "arithmetic",
           "command", "value"}

StorageTypeOK ==
    /\ registers \in [Registers -> Words]
    /\ memory \in [Addresses -> Words]
    /\ flags \in SUBSET FlagBits
    /\ base \in ConfigType /\ config \in ConfigType
    /\ program \in ProgramType
    /\ Len(program.code) + Len(program.constants) <= MemorySize
-----------------------------------------------------------------------------
(***************************************************************************)
(* The configuration.                                                      *)
(***************************************************************************)
MeetAccess(a, b) == [regs      |-> a.regs \cup b.regs,
                     code      |-> a.code \/ b.code,
                     constants |-> a.constants \/ b.constants]

\* Config::operator&: the strictest combination
Meet(a, b) == [write     |-> MeetAccess(a.write, b.write),
               readWrite |-> MeetAccess(a.readWrite, b.readWrite),
               maxStack  |-> IF a.maxStack <= b.maxStack THEN a.maxStack
                                                         ELSE b.maxStack]

Unblocked == [regs |-> {}, code |-> FALSE, constants |-> FALSE]

DefaultConfig == [write |-> Unblocked, readWrite |-> Unblocked,
                  maxStack |-> MemorySize]

StrictConfig ==
    [write     |-> [regs |-> {Stack}, code |-> FALSE, constants |-> TRUE],
     readWrite |-> [regs |-> {CallFrame, Instruction}, code |-> TRUE,
                    constants |-> FALSE],
     maxStack  |-> MemorySize]

ExtraStrictConfig ==
    [write     |-> Unblocked,
     readWrite |-> [regs |-> {CallFrame, Stack, Instruction}, code |-> TRUE,
                    constants |-> TRUE],
     maxStack  |-> MemorySize]

ReadBlockedRegisters  == config.readWrite.regs
WriteBlockedRegisters == config.write.regs \cup config.readWrite.regs
CodeIsWriteBlocked    == config.write.code \/ config.readWrite.code

MinStackAddress == MemorySize - config.maxStack

CodeEnd      == Len(program.code)
ConstantsEnd == CodeEnd + Len(program.constants)
InCode(address)      == address < CodeEnd
InConstants(address) == address >= CodeEnd /\ address < ConstantsEnd
-----------------------------------------------------------------------------
(***************************************************************************)
(* The accesses of Storage.  internal is the flag internal_usage.          *)
(***************************************************************************)
Require(m, condition, kind) ==
    IF m.err = "none" /\ ~condition THEN [m EXCEPT !.err = kind] ELSE m

RReg(m, reg, internal) ==
    LET c == Require(Require(m, reg \in Registers, "register"),
                     internal \/ reg \notin ReadBlockedRegisters, "register")
    IN  IF c.err = "none" THEN [c EXCEPT !.val = c.regs[reg]] ELSE c

\* Mutant: a register is written under the checks of a read.
WRegAsRead(m, reg, value, internal) ==
    LET c == RReg(m, reg, internal)
    IN  IF c.err = "none" THEN [c EXCEPT !.regs[reg] = value] ELSE c

WReg(m, reg, value, internal) ==
    LET c == Require(Require(m, reg \in Registers, "register"),
                     internal \/ reg \notin WriteBlockedRegisters, "register")
    IN  IF c.err = "none" THEN [c EXCEPT !.regs[reg] = value] ELSE c

RMem(m, address) ==
    LET a == Require(m, address < MemorySize, "address")
        b == Require(a, ~(config.readWrite.code /\ InCode(address)), "segment")
        c == Require(b, ~(config.readWrite.constants /\ InConstants(address)),
                     "segment")
    IN  IF c.err = "none" THEN [c EXCEPT !.val = c.mem[address]] ELSE c

\* Mutant: a read-write block of the code does not block writing.
WMemReadWriteIgnored(m, address, value) ==
    LET a == Require(m, address < MemorySize, "address")
        b == Require(a, ~(config.write.code /\ address < ConstantsEnd), "segment")
    IN  IF b.err = "none" THEN [b EXCEPT !.mem[address] = value] ELSE b

\* The constants are guarded by the block of the code, as the code does.
WMem(m, address, value) ==
    LET a == Require(m, address < MemorySize, "address")
        b == Require(a, ~(CodeIsWriteBlocked /\ InCode(address)), "segment")
        c == Require(b, ~(CodeIsWriteBlocked /\ InConstants(address)),
                     "segment")
    IN  IF c.err = "none" THEN [c EXCEPT !.mem[address] = value] ELSE c

SetFlags(m, f) == IF m.err = "none" THEN [m EXCEPT !.flags = f] ELSE m
-----------------------------------------------------------------------------
(***************************************************************************)
(* CommonExecutor.                                                         *)
(***************************************************************************)
\* Mutant: the sum of two words does not wrap.
PlusUnwrapped(a, b) == a + b

\* unsigned arithmetic of arch::Word
Plus(a, b)  == IF a + b < WordCount THEN a + b ELSE a + b - WordCount
Minus(a, b) == IF a >= b THEN a - b ELSE a - b + WordCount

\* Only the registers' readability is decided here: the values are in regs.
GetTwoRegisters(m, low) == RReg(RReg(m, low, FALSE), low + 1, FALSE)

PutTwoRegisters(m, lower, low, high) ==
    WReg(WReg(m, lower, low, FALSE), lower + 1, high, FALSE)

Divide(m, lhs, rhs, recv) ==
    LET quotient  == lhs \div rhs
        remainder == lhs % rhs
        z         == Require(m, rhs # 0, "arithmetic")
    IN  IF z.err # "none" THEN z
        ELSE PutTwoRegisters(Require(z, quotient <= MaxWord, "arithmetic"),
                             recv, quotient, remainder)

WriteComparisonToFlags(m, lhs, rhs) ==
    SetFlags(m, IF lhs < rhs THEN kLess ELSE IF lhs > rhs THEN kGreater
                                                          ELSE kEqual)

\* Mutant: one cell more than the bound of the stack.
CheckPushOneMore(m) ==
    Require(m, m.regs[Stack] >= MinStackAddress - 1, "stack")

CheckPushAllowed(m) ==
    Require(Require(m, m.regs[Stack] <= MemorySize, "address"),
            m.regs[Stack] >= MinStackAddress, "stack")

Push(m, value) ==
    LET c == CheckPushAllowed(m)
    IN  WMem(WReg(c, Stack, Minus(c.regs[Stack], 1), TRUE), c.regs[Stack], value)

Pop(m, recv, mod, internal) ==
    LET up == WReg(m, Stack, Plus(m.regs[Stack], 1), TRUE)
        x  == RMem(up, up.regs[Stack])
    IN  WReg(x, recv, Plus(x.val, mod), internal)

\* Mutant: r13 takes the stack pointer of before the push.
PrepareCallEarly(m) ==
    Push(WReg(m, CallFrame, m.regs[Stack], TRUE), m.regs[CallFrame])

PrepareCall(m) ==
    LET p == Push(m, m.regs[CallFrame])
    IN  WReg(p, CallFrame, p.regs[Stack], TRUE)

\* The stack register is read without internal_usage.
Call(m, callee) ==
    LET ret    == Push(m, m.regs[Instruction])
        framed == RReg(Push(ret, ret.regs[CallFrame]), Stack, FALSE)
    IN  WReg(WReg(framed, CallFrame, framed.val, TRUE), Instruction, callee, TRUE)

\* Mutant: the return address and the frame are popped in the wrong order.
ReturnSwapped(m) ==
    LET locals == WReg(m, Stack, m.regs[CallFrame], TRUE)
        back   == Pop(locals, Instruction, 0, TRUE)
        frame  == Pop(back, CallFrame, 0, TRUE)
        args   == WReg(frame, Stack, frame.regs[CallFrame], TRUE)
    IN  Pop(args, CallFrame, 0, TRUE)

Return(m) ==
    LET locals == WReg(m, Stack, m.regs[CallFrame], TRUE)
        frame  == Pop(locals, CallFrame, 0, TRUE)
        back   == Pop(frame, Instruction, 0, TRUE)
        args   == WReg(back, Stack, back.regs[CallFrame], TRUE)
    IN  Pop(args, CallFrame, 0, TRUE)
=============================================================================
