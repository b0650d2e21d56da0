----------------------------- MODULE KarmaProofs -----------------------------
(***************************************************************************)
(* Proofs about the Karma computer, for every size of the word and of the  *)
(* memory, every set of programs and configurations: the types, and that   *)
(* no command damages a program whose code is blocked for writing.         *)
(*                                                                         *)
(* A command is a chain of operators on a machine record.  Sound is kept   *)
(* by every link of the chain, whether or not it fails, so it holds of the *)
(* machine any command leaves; one step per action then says which chain   *)
(* the action is.                                                          *)
(***************************************************************************)
EXTENDS KarmaMachine, TLAPS

Machines == [regs : [Registers -> Words], mem : [Addresses -> Words],
             flags : SUBSET FlagBits, val : Words, err : Errors]

Intact(mem) ==
    CodeIsWriteBlocked =>
        \A a \in Addresses :
            a < ConstantsEnd => mem[a] = (program.code \o program.constants)[a + 1]

Sound(m) == m \in Machines /\ Intact(m.mem)

IInv == TypeOK /\ ProgramIntact
-----------------------------------------------------------------------------
(***************************************************************************)
(* Words.                                                                  *)
(***************************************************************************)
\* The arithmetic of arch::Word stays within the words.
LEMMA PlusIsWord ==
    ASSUME NEW a \in Words, NEW b \in Words
    PROVE  Plus(a, b) \in Words
BY SizesAssumption DEF Plus, Words

\* A difference wraps into the words.
LEMMA MinusIsWord ==
    ASSUME NEW a \in Words, NEW b \in Words
    PROVE  Minus(a, b) \in Words
BY SizesAssumption DEF Minus, Words

\* The words every command needs whatever the width is.
LEMMA SmallWords == 0 \in Words /\ 1 \in Words
BY SizesAssumption DEF Words

\* r13, r14 and r15 are registers.
LEMMA Utility ==
    CallFrame \in Registers /\ Stack \in Registers /\ Instruction \in Registers
BY SizesAssumption DEF CallFrame, Stack, Instruction, Registers

\* What an integer or bitwise command writes is a word.
LEMMA WordIsWord ==
    ASSUME NEW op \in WordRROps \cup ShiftRROps, NEW a \in Words, NEW b \in Words
    PROVE  Word(op, a, b) \in Words
<1>1. CASE op = "ADD"
  BY <1>1, PlusIsWord DEF Word
<1>2. CASE op = "SUB"
  BY <1>2, MinusIsWord DEF Word
<1>3. CASE op # "ADD" /\ op # "SUB"
  <2>1. Word(op, a, b) = BitOp[op][a, b]
    BY <1>3, ZenonT(40) DEF Word
  <2>2. BitOp[op] \in [Words \X Words -> Words]
    BY BitOpAssumption
  <2>3. <<a, b>> \in Words \X Words
    OBVIOUS
  <2> QED
    BY <2>1, <2>2, <2>3
<1> QED
  BY <1>1, <1>2, <1>3

\* The two halves of a product.
LEMMA ProductIsTwoWords ==
    ASSUME NEW a \in Words, NEW b \in Words
    PROVE  (a * b) % WordCount \in Words /\ (a * b) \div WordCount \in Words
<1> DEFINE p == a * b
<1>1. WordCount \in Nat /\ WordCount > 1 /\ a \in Nat /\ b \in Nat
      /\ a < WordCount /\ b < WordCount
  BY SizesAssumption DEF Words
<1>2. p \in Nat /\ p < WordCount * WordCount
  BY <1>1
<1>3. p % WordCount \in Words
  BY <1>1, <1>2 DEF Words
<1> HIDE DEF p
<1>4a. p \div WordCount \in Int
  BY <1>1, <1>2
<1>4b. p % WordCount >= 0
  BY <1>1, <1>2
<1>4c. p = WordCount * (p \div WordCount) + (p % WordCount)
  BY <1>1, <1>2
<1>4. /\ p \div WordCount \in Int /\ p % WordCount >= 0
      /\ p = WordCount * (p \div WordCount) + (p % WordCount)
  BY <1>4a, <1>4b, <1>4c
<1>5. p \div WordCount >= 0
  BY <1>1, <1>2, <1>4
<1>6. p \div WordCount < WordCount
  <2> DEFINE q == p \div WordCount
  <2>1. q \in Int /\ WordCount * q <= p
    BY <1>1, <1>2, <1>4
  <2>2. WordCount * q < WordCount * WordCount
    BY <2>1, <1>1, <1>2
  <2> QED
    BY <2>1, <2>2, <1>1
<1>7. p \div WordCount \in Words
  BY <1>1, <1>4, <1>5, <1>6 DEF Words
<1> QED
  BY <1>3, <1>7 DEF p
-----------------------------------------------------------------------------
(***************************************************************************)
(* The accesses of Storage keep a machine sound.                           *)
(***************************************************************************)
\* A check keeps the machine and passes only if its condition holds.
LEMMA RequireSound ==
    ASSUME NEW m, Sound(m), NEW condition \in BOOLEAN,
           NEW kind \in Errors \ {"none"}
    PROVE  /\ Sound(Require(m, condition, kind))
           /\ Require(m, condition, kind).err = "none" => condition
           /\ Require(m, condition, kind).err = "none" => m.err = "none"
<1>1. CASE condition
  <2>1. Require(m, condition, kind) = m
    BY <1>1 DEF Require
  <2> QED
    BY <2>1, <1>1
<1>2. CASE ~condition /\ m.err = "none"
  <2>1. Require(m, condition, kind) = [m EXCEPT !.err = kind]
    BY <1>2, Zenon DEF Require
  <2> QED
    BY <2>1, <1>2 DEF Sound, Machines, Intact
<1>3. CASE m.err # "none"
  <2>1. Require(m, condition, kind) = m
    BY <1>3 DEF Require
  <2> QED
    BY <2>1, <1>3
<1> QED
  BY <1>1, <1>2, <1>3

\* The kinds of errors the checks raise.
LEMMA ErrorsKinds ==
    /\ "none" \in Errors /\ "register" \in Errors /\ "address" \in Errors
    /\ "segment" \in Errors /\ "stack" \in Errors /\ "arithmetic" \in Errors
    /\ "command" \in Errors /\ "value" \in Errors
BY DEF Errors

\* Reading a register: what was read is a word, and only a register of a machine
\* that has not failed is read.
LEMMA RRegSound ==
    ASSUME NEW m, Sound(m), NEW reg, NEW internal
    PROVE  /\ Sound(RReg(m, reg, internal))
           /\ RReg(m, reg, internal).err = "none" => reg \in Registers
           /\ RReg(m, reg, internal).err = "none" => m.err = "none"
<1> DEFINE r == Require(m, reg \in Registers, "register")
           c == Require(r, internal \/ reg \notin ReadBlockedRegisters, "register")
<1>1. Sound(r) /\ (r.err = "none" => reg \in Registers /\ m.err = "none")
  <2>1. (reg \in Registers) \in BOOLEAN /\ "register" \in Errors \ {"none"}
    BY DEF Errors
  <2>2. Sound(Require(m, reg \in Registers, "register"))
    BY <2>1, RequireSound
  <2> QED
    BY <2>1, <2>2, RequireSound
<1>2. Sound(c) /\ (c.err = "none" => r.err = "none")
  <2> HIDE DEF r
  <2> QED
    BY <1>1, RequireSound, ErrorsKinds
<1> HIDE DEF c
<1>3. c.err = "none" => c.regs[reg] \in Words
  BY <1>1, <1>2 DEF Sound, Machines
<1>4. RReg(m, reg, internal)
        = IF c.err = "none" THEN [c EXCEPT !.val = c.regs[reg]] ELSE c
  BY DEF RReg, c
<1>5. CASE c.err = "none"
  BY <1>1, <1>2, <1>3, <1>4, <1>5 DEF Sound, Machines
<1>6. CASE c.err # "none"
  BY <1>2, <1>4, <1>6
<1> QED
  BY <1>5, <1>6

\* Writing a word to a register, or failing to.
LEMMA WRegSound ==
    ASSUME NEW m, Sound(m), NEW reg, NEW value, NEW internal,
           m.err = "none" => value \in Words
    PROVE  /\ Sound(WReg(m, reg, value, internal))
           /\ WReg(m, reg, value, internal).err = "none" => m.err = "none"
<1> DEFINE r == Require(m, reg \in Registers, "register")
           c == Require(r, internal \/ reg \notin WriteBlockedRegisters, "register")
<1>1. /\ Sound(r)
      /\ r.err = "none" => reg \in Registers /\ m.err = "none"
  <2>1. (reg \in Registers) \in BOOLEAN /\ "register" \in Errors \ {"none"}
    BY DEF Errors
  <2>2. Sound(Require(m, reg \in Registers, "register"))
    BY <2>1, RequireSound
  <2> QED
    BY <2>1, <2>2, RequireSound
<1>2. Sound(c) /\ (c.err = "none" => r.err = "none")
  <2> HIDE DEF r
  <2> QED
    BY <1>1, RequireSound, ErrorsKinds
<1> HIDE DEF c
<1>3. WReg(m, reg, value, internal)
        = IF c.err = "none" THEN [c EXCEPT !.regs[reg] = value] ELSE c
  BY DEF WReg, c
<1>4. CASE c.err = "none"
  <2>1. reg \in Registers /\ value \in Words
    BY <1>1, <1>2, <1>4
  <2>2. [c.regs EXCEPT ![reg] = value] \in [Registers -> Words]
    BY <2>1, <1>2 DEF Sound, Machines
  <2> QED
    BY <1>1, <1>2, <1>3, <1>4, <2>2 DEF Sound, Machines
<1>5. CASE c.err # "none"
  BY <1>1, <1>2, <1>3, <1>5
<1> QED
  BY <1>4, <1>5

\* Reading a cell: an address that passes the checks is in the memory.
LEMMA RMemSound ==
    ASSUME NEW m, Sound(m), NEW address \in Words
    PROVE  Sound(RMem(m, address))
<1> DEFINE a == Require(m, address < MemorySize, "address")
           b == Require(a, ~(config.readWrite.code /\ InCode(address)), "segment")
           c == Require(b, ~(config.readWrite.constants /\ InConstants(address)),
                        "segment")
<1>1. Sound(a) /\ (a.err = "none" => address < MemorySize)
  <2>1. (address < MemorySize) \in BOOLEAN /\ "address" \in Errors \ {"none"}
    BY DEF Errors
  <2>2. Sound(Require(m, address < MemorySize, "address"))
    BY <2>1, RequireSound
  <2> QED
    BY <2>1, <2>2, RequireSound
<1>2. Sound(b) /\ (b.err = "none" => a.err = "none")
  <2> HIDE DEF a
  <2> QED
    BY <1>1, RequireSound, ErrorsKinds
<1>3. Sound(c) /\ (c.err = "none" => b.err = "none")
  <2> HIDE DEF b
  <2> QED
    BY <1>2, RequireSound, ErrorsKinds
<1>4. RMem(m, address)
        = IF c.err = "none" THEN [c EXCEPT !.val = c.mem[address]] ELSE c
  BY DEF RMem, a, b, c
<1> HIDE DEF c
<1>5. c.err = "none" => c.mem[address] \in Words
  <2> SUFFICES ASSUME c.err = "none" PROVE c.mem[address] \in Words
    OBVIOUS
  <2>1. address \in Addresses
    BY <1>1, <1>2, <1>3, SizesAssumption DEF Addresses, Words
  <2> QED
    BY <2>1, <1>3 DEF Sound, Machines
<1> QED
  BY <1>3, <1>4, <1>5 DEF Sound, Machines

\* A write to memory cannot reach a program whose code is blocked for writing.
LEMMA WMemSound ==
    ASSUME NEW m, Sound(m), NEW address \in Words, NEW value \in Words,
           program \in ProgramType
    PROVE  Sound(WMem(m, address, value))
<1> DEFINE a == Require(m, address < MemorySize, "address")
           b == Require(a, ~(CodeIsWriteBlocked /\ InCode(address)), "segment")
           c == Require(b, ~(CodeIsWriteBlocked /\ InConstants(address)),
                        "segment")
<1>1. Sound(a) /\ (a.err = "none" => address < MemorySize)
  <2>1. (address < MemorySize) \in BOOLEAN /\ "address" \in Errors \ {"none"}
    BY DEF Errors
  <2>2. Sound(Require(m, address < MemorySize, "address"))
    BY <2>1, RequireSound
  <2> QED
    BY <2>1, <2>2, RequireSound
<1>2. /\ Sound(b)
      /\ b.err = "none" => a.err = "none" /\ ~(CodeIsWriteBlocked /\ InCode(address))
  <2> HIDE DEF a
  <2> QED
    BY <1>1, RequireSound, ErrorsKinds
<1>3. /\ Sound(c)
      /\ c.err = "none"
           => b.err = "none" /\ ~(CodeIsWriteBlocked /\ InConstants(address))
  <2> HIDE DEF b
  <2> QED
    BY <1>2, RequireSound, ErrorsKinds
<1>4. WMem(m, address, value)
        = IF c.err = "none" THEN [c EXCEPT !.mem[address] = value] ELSE c
  BY DEF WMem, a, b, c
<1> HIDE DEF a, b, c
<1>5. CASE c.err = "none"
  <2>1. address \in Addresses
    BY <1>1, <1>2, <1>3, <1>5, SizesAssumption DEF Addresses, Words
  <2>2. CodeIsWriteBlocked => ~(address < ConstantsEnd)
    <3>1. CodeEnd \in Nat
      BY DEF CodeEnd, ProgramType
    <3> QED
      BY <3>1, <1>2, <1>3, <1>5, <2>1 DEF InCode, InConstants, Addresses
  <2> DEFINE mem == [c.mem EXCEPT ![address] = value]
  <2>3. mem \in [Addresses -> Words]
    BY <2>1, <1>3 DEF Sound, Machines
  <2>4. Intact(mem)
    <3>1. Intact(c.mem) /\ c.mem \in [Addresses -> Words]
      BY <1>3 DEF Sound, Machines
    <3> QED
      BY <3>1, <2>1, <2>2 DEF Intact
  <2>5. WMem(m, address, value) = [c EXCEPT !.mem = mem]
    BY <1>3, <1>4, <1>5 DEF Sound, Machines
  <2> QED
    BY <2>3, <2>4, <2>5, <1>3 DEF Sound, Machines
<1>6. CASE c.err # "none"
  BY <1>3, <1>4, <1>6
<1> QED
  BY <1>5, <1>6

\* Writing the flags.
LEMMA SetFlagsSound ==
    ASSUME NEW m, Sound(m), NEW f \in SUBSET FlagBits
    PROVE  Sound(SetFlags(m, f))
BY DEF SetFlags, Sound, Machines

\* What the fields of a sound machine are.
LEMMA SoundFields ==
    ASSUME NEW m, Sound(m)
    PROVE  /\ m.val \in Words
           /\ \A r \in Registers : m.regs[r] \in Words
           /\ m.regs \in [Registers -> Words] /\ m.mem \in [Addresses -> Words]
           /\ m.flags \in SUBSET FlagBits /\ m.err \in Errors
BY DEF Sound, Machines
-----------------------------------------------------------------------------
(***************************************************************************)
(* The operations of CommonExecutor keep a machine sound.                  *)
(***************************************************************************)
\* A pair is read only if both halves are registers.
LEMMA GetTwoRegistersSound ==
    ASSUME NEW m, Sound(m), NEW low
    PROVE  /\ Sound(GetTwoRegisters(m, low))
           /\ GetTwoRegisters(m, low).err = "none"
                => low \in Registers /\ low + 1 \in Registers
<1> DEFINE r == RReg(m, low, FALSE)
<1>1. Sound(r) /\ (r.err = "none" => low \in Registers)
  BY RRegSound
<1> HIDE DEF r
<1>2. /\ Sound(RReg(r, low + 1, FALSE))
      /\ RReg(r, low + 1, FALSE).err = "none"
           => low + 1 \in Registers /\ r.err = "none"
  BY <1>1, RRegSound
<1> QED
  BY <1>1, <1>2 DEF GetTwoRegisters, r

\* A pair is written half by half.
LEMMA PutTwoRegistersSound ==
    ASSUME NEW m, Sound(m), NEW lower, NEW low, NEW high,
           m.err = "none" => low \in Words /\ high \in Words
    PROVE  Sound(PutTwoRegisters(m, lower, low, high))
<1>1. /\ Sound(WReg(m, lower, low, FALSE))
      /\ WReg(m, lower, low, FALSE).err = "none" => m.err = "none"
  BY WRegSound
<1>2. Sound(WReg(WReg(m, lower, low, FALSE), lower + 1, high, FALSE))
  BY <1>1, WRegSound
<1> QED
  BY <1>2 DEF PutTwoRegisters

\* A quotient that is written fits in a word, and so does the remainder.
LEMMA DivideSound ==
    ASSUME NEW m, Sound(m), NEW lhs \in Nat, NEW rhs \in Words, NEW recv
    PROVE  Sound(Divide(m, lhs, rhs, recv))
<1> DEFINE q == lhs \div rhs
           r == lhs % rhs
           z == Require(m, rhs # 0, "arithmetic")
           y == Require(z, q <= MaxWord, "arithmetic")
<1>1. Sound(z) /\ (z.err = "none" => rhs # 0)
  BY RequireSound, ErrorsKinds
<1>2. Divide(m, lhs, rhs, recv)
        = IF z.err # "none" THEN z ELSE PutTwoRegisters(y, recv, q, r)
  BY DEF Divide
<1>3. CASE z.err # "none"
  BY <1>1, <1>2, <1>3
<1>4. CASE z.err = "none"
  <2>1. rhs \in Nat /\ rhs > 0 /\ rhs <= MaxWord
    BY <1>1, <1>4, SizesAssumption DEF Words, MaxWord
  <2>2. q \in Int /\ r \in Int /\ r >= 0 /\ r < rhs /\ lhs = rhs * q + r
    BY <2>1
  <2>3. q >= 0
    BY <2>1, <2>2
  <2>4. r \in Words
    BY <2>1, <2>2, SizesAssumption DEF Words, MaxWord
  <2> HIDE DEF z, q, r
  <2>5. Sound(y) /\ (y.err = "none" => q <= MaxWord)
    <3>1. (q <= MaxWord) \in BOOLEAN /\ "arithmetic" \in Errors \ {"none"}
      BY DEF Errors
    <3>2. Sound(Require(z, q <= MaxWord, "arithmetic"))
      BY <3>1, <1>1, RequireSound
    <3> QED
      BY <3>1, <3>2, <1>1, RequireSound
  <2>6. y.err = "none" => q \in Words /\ r \in Words
    BY <2>2, <2>3, <2>4, <2>5, SizesAssumption DEF Words, MaxWord
  <2> HIDE DEF y
  <2>7. Sound(PutTwoRegisters(y, recv, q, r))
    BY <2>5, <2>6, PutTwoRegistersSound
  <2> QED
    BY <2>7, <1>2, <1>4
<1> QED
  BY <1>3, <1>4

\* A comparison leaves one of the three sets of flags.
LEMMA ComparisonSound ==
    ASSUME NEW m, Sound(m), NEW lhs, NEW rhs
    PROVE  Sound(WriteComparisonToFlags(m, lhs, rhs))
<1>1. kLess \in SUBSET FlagBits /\ kGreater \in SUBSET FlagBits
      /\ kEqual \in SUBSET FlagBits
  BY DEF FlagBits
<1> QED
  BY <1>1, SetFlagsSound, Zenon DEF WriteComparisonToFlags

\* The bound of the stack is checked before a push.
LEMMA CheckPushSound ==
    ASSUME NEW m, Sound(m)
    PROVE  Sound(CheckPushAllowed(m))
<1>1. /\ (m.regs[Stack] <= MemorySize) \in BOOLEAN
      /\ (m.regs[Stack] >= MinStackAddress) \in BOOLEAN
      /\ "address" \in Errors \ {"none"} /\ "stack" \in Errors \ {"none"}
  BY DEF Errors
<1>2. Sound(Require(m, m.regs[Stack] <= MemorySize, "address"))
  BY <1>1, RequireSound
<1>3. Sound(Require(Require(m, m.regs[Stack] <= MemorySize, "address"),
                    m.regs[Stack] >= MinStackAddress, "stack"))
  BY <1>1, <1>2, RequireSound
<1> QED
  BY <1>3 DEF CheckPushAllowed

\* A push writes a register and a cell.
LEMMA PushSound ==
    ASSUME NEW m, Sound(m), NEW value \in Words, TypeOK
    PROVE  Sound(Push(m, value))
<1> DEFINE c == CheckPushAllowed(m)
           d == WReg(c, Stack, Minus(c.regs[Stack], 1), TRUE)
<1>1. Sound(c) /\ c.regs[Stack] \in Words
  BY CheckPushSound, SoundFields, Utility
<1>2. Push(m, value) = WMem(d, c.regs[Stack], value)
  BY DEF Push
<1> HIDE DEF c
<1>3. Minus(c.regs[Stack], 1) \in Words
  BY <1>1, MinusIsWord, SmallWords
<1>4. Sound(d)
  BY <1>1, <1>3, WRegSound
<1> HIDE DEF d
<1> QED
  BY <1>1, <1>2, <1>4, WMemSound DEF TypeOK, StorageTypeOK

\* A pop writes the stack register and the receiver.
LEMMA PopSound ==
    ASSUME NEW m, Sound(m), NEW recv, NEW mod \in Words, NEW internal
    PROVE  Sound(Pop(m, recv, mod, internal))
<1> DEFINE up == WReg(m, Stack, Plus(m.regs[Stack], 1), TRUE)
           x  == RMem(up, up.regs[Stack])
<1>1. Plus(m.regs[Stack], 1) \in Words
  BY SoundFields, Utility, PlusIsWord, SmallWords
<1>2. Sound(up)
  BY <1>1, WRegSound
<1>3. Pop(m, recv, mod, internal) = WReg(x, recv, Plus(x.val, mod), internal)
  BY DEF Pop
<1> HIDE DEF up
<1>4. Sound(x)
  BY <1>2, SoundFields, Utility, RMemSound
<1> HIDE DEF x
<1>5. Plus(x.val, mod) \in Words
  BY <1>4, SoundFields, PlusIsWord
<1> QED
  BY <1>3, <1>4, <1>5, WRegSound

\* prc pushes and moves r13.
LEMMA PrepareCallSound ==
    ASSUME NEW m, Sound(m), TypeOK
    PROVE  Sound(PrepareCall(m))
<1> DEFINE p == Push(m, m.regs[CallFrame])
<1>1. Sound(p)
  BY PushSound, SoundFields, Utility
<1>2. PrepareCall(m) = WReg(p, CallFrame, p.regs[Stack], TRUE)
  BY DEF PrepareCall
<1> HIDE DEF p
<1> QED
  BY <1>1, <1>2, SoundFields, Utility, WRegSound

\* A call pushes twice, moves r13 and jumps.
LEMMA CallSound ==
    ASSUME NEW m, Sound(m), NEW callee \in Words, TypeOK
    PROVE  Sound(Call(m, callee))
<1> DEFINE ret    == Push(m, m.regs[Instruction])
           pushed == Push(ret, ret.regs[CallFrame])
           framed == RReg(pushed, Stack, FALSE)
           moved  == WReg(framed, CallFrame, framed.val, TRUE)
<1>1. Call(m, callee) = WReg(moved, Instruction, callee, TRUE)
  BY DEF Call
<1>2. Sound(ret)
  BY PushSound, SoundFields, Utility
<1> HIDE DEF ret
<1>3. Sound(pushed)
  BY <1>2, PushSound, SoundFields, Utility
<1> HIDE DEF pushed
<1>4. Sound(framed)
  BY <1>3, RRegSound
<1> HIDE DEF framed
<1>5. Sound(moved)
  BY <1>4, SoundFields, WRegSound
<1> HIDE DEF moved
<1> QED
  BY <1>1, <1>5, WRegSound

\* ret moves r14 twice and pops three times.
LEMMA ReturnSound ==
    ASSUME NEW m, Sound(m)
    PROVE  Sound(Return(m))
<1> DEFINE locals == WReg(m, Stack, m.regs[CallFrame], TRUE)
           frame  == Pop(locals, CallFrame, 0, TRUE)
           back   == Pop(frame, Instruction, 0, TRUE)
           args   == WReg(back, Stack, back.regs[CallFrame], TRUE)
<1>1. Return(m) = Pop(args, CallFrame, 0, TRUE)
  BY DEF Return
<1>2. Sound(locals)
  BY SoundFields, Utility, WRegSound
<1> HIDE DEF locals
<1>3. Sound(frame)
  BY <1>2, PopSound, SmallWords
<1> HIDE DEF frame
<1>4. Sound(back)
  BY <1>3, PopSound, SmallWords
<1> HIDE DEF back
<1>5. Sound(args)
  BY <1>4, SoundFields, Utility, WRegSound
<1> HIDE DEF args
<1> QED
  BY <1>1, <1>5, PopSound, SmallWords
-----------------------------------------------------------------------------
(***************************************************************************)
(* The operands of a command and its accesses keep a machine sound.        *)
(***************************************************************************)
\* The left-hand side of a command with a receiver.
LEMMA LHSWordSound ==
    ASSUME NEW m, Sound(m), NEW c \in Commands
    PROVE  Sound(LHSWord(m, c))
BY RRegSound DEF LHSWord

\* The source register plus the modifier.
LEMMA RHSWordSound ==
    ASSUME NEW m, Sound(m), NEW c \in Commands
    PROVE  /\ Sound(RHSWord(m, c))
           /\ RHSWord(m, c).err = "none" => m.err = "none"
<1> DEFINE x == RReg(m, c.src, FALSE)
<1>1. Sound(x) /\ (x.err = "none" => m.err = "none")
  BY RRegSound
<1>2. RHSWord(m, c) = [x EXCEPT !.val = Plus(x.val, c.arg)]
  BY DEF RHSWord
<1> HIDE DEF x
<1>3. Plus(x.val, c.arg) \in Words
  BY <1>1, SoundFields, PlusIsWord DEF Commands
<1> QED
  BY <1>1, <1>2, <1>3 DEF Sound, Machines

\* Operands that take two registers.
LEMMA DoublesSound ==
    ASSUME NEW m, Sound(m), NEW c \in Commands
    PROVE  Sound(LHSDouble(m, c)) /\ Sound(RHSDouble(m, c))
BY GetTwoRegistersSound DEF LHSDouble, RHSDouble

\* One word loaded from memory.
LEMMA LoadWordSound ==
    ASSUME NEW m, Sound(m), NEW reg, NEW address \in Words
    PROVE  Sound(LoadWord(m, reg, address))
<1> DEFINE x == RMem(m, address)
<1>1. Sound(x)
  BY RMemSound
<1>2. LoadWord(m, reg, address) = WReg(x, reg, x.val, FALSE)
  BY DEF LoadWord
<1> HIDE DEF x
<1> QED
  BY <1>1, <1>2, SoundFields, WRegSound

\* One word stored to memory.
LEMMA StoreWordSound ==
    ASSUME NEW m, Sound(m), NEW reg, NEW address \in Words, TypeOK
    PROVE  Sound(StoreWord(m, reg, address))
<1> DEFINE x == RReg(m, reg, FALSE)
<1>1. Sound(x)
  BY RRegSound
<1>2. StoreWord(m, reg, address) = WMem(x, address, x.val)
  BY DEF StoreWord
<1> HIDE DEF x
<1> QED
  BY <1>1, <1>2, SoundFields, WMemSound DEF TypeOK, StorageTypeOK

\* Both words of a product are written.
LEMMA PutProductSound ==
    ASSUME NEW m, Sound(m), NEW lhs \in Words, NEW rhs \in Words, NEW recv
    PROVE  Sound(PutProduct(m, lhs, rhs, recv))
BY ProductIsTwoWords, PutTwoRegistersSound DEF PutProduct

\* The dividend is joined from two registers that were read.
LEMMA DivideRegistersSound ==
    ASSUME NEW m, Sound(m), NEW c, NEW rhs \in Words,
           m.err = "none" => c.reg \in Registers /\ c.reg + 1 \in Registers
    PROVE  Sound(DivideRegisters(m, c, rhs))
<1>1. CASE m.err = "none"
  <2>1. m.regs[c.reg] \in Nat /\ m.regs[c.reg + 1] \in Nat
    BY <1>1, SoundFields DEF Words
  <2>2. TwoWords(m, c.reg) \in Nat
    BY <2>1, SizesAssumption DEF TwoWords
  <2> QED
    BY <1>1, <2>2, DivideSound DEF DivideRegisters
<1>2. CASE m.err # "none"
  BY <1>2 DEF DivideRegisters
<1> QED
  BY <1>1, <1>2
-----------------------------------------------------------------------------
(***************************************************************************)
(* A turn of the loop: what is fetched is sound, and what a command leaves *)
(* sound satisfies the invariant when it is committed.                     *)
(***************************************************************************)
\* A command is decoded from a word of the memory.
LEMMA RunsFacts ==
    ASSUME TypeOK, NEW op, Runs(op)
    PROVE  /\ Command \in Commands /\ Command.op = op
           /\ Command.arg \in Words
           /\ Command.reg \in Registers /\ Command.src \in Registers
<1>1. registers[Instruction] \in Addresses
  BY Utility, SizesAssumption DEF Runs, TypeOK, StorageTypeOK, Addresses, Words
<1>2. memory[registers[Instruction]] \in Words
  BY <1>1 DEF TypeOK, StorageTypeOK
<1>3. Command \in Commands
  BY <1>2, DecodeAssumption DEF Command
<1> QED
  BY <1>3 DEF Runs, Commands

\* The machine a command finds, r15 advanced, is sound.
LEMMA FetchedSound ==
    ASSUME IInv
    PROVE  Sound(Fetched)
<1>1. Plus(registers[Instruction], 1) \in Words
  BY Utility, SmallWords, PlusIsWord DEF IInv, TypeOK, StorageTypeOK
<1>2. Fetched \in Machines
  BY <1>1, SmallWords, ErrorsKinds
  DEF Fetched, Machines, IInv, TypeOK, StorageTypeOK
<1>3. Intact(Fetched.mem)
  BY DEF Fetched, Intact, IInv, ProgramIntact
<1> QED
  BY <1>2, <1>3 DEF Sound

\* A sound machine that is committed satisfies the invariant.
LEMMA FinishSound ==
    ASSUME IInv, NEW m, Sound(m), NEW next \in {"running", "halted", "exited"},
           Finish(m, next)
    PROVE  IInv'
<1>1. StorageTypeOK'
  BY SoundFields DEF Finish, IInv, TypeOK, StorageTypeOK, CodeEnd
<1>2. /\ status' \in {"idle", "running", "halted", "exited", "failed"}
      /\ error' \in Errors /\ queue' \in Seq(Programs) /\ given' \in Configs
  BY SoundFields DEF Finish, IInv, TypeOK
<1>3. ProgramIntact'
  BY DEF Finish, Sound, Intact, ProgramIntact, CodeIsWriteBlocked, ConstantsEnd,
         CodeEnd
<1> QED
  BY <1>1, <1>2, <1>3 DEF IInv, TypeOK

\* The same for the commands after which the loop goes on.
LEMMA CommitSound ==
    ASSUME IInv, NEW m, Sound(m), Commit(m)
    PROVE  IInv'
BY FinishSound DEF Commit

\* A command that only throws changes r15 alone.
LEMMA ThrowSound ==
    ASSUME IInv, NEW kind \in Errors, Throw(kind)
    PROVE  IInv'
<1>1. Sound([Fetched EXCEPT !.err = kind])
  BY FetchedSound DEF Sound, Machines
<1> QED
  BY <1>1, CommitSound DEF Throw
-----------------------------------------------------------------------------
(***************************************************************************)
(* The initial state and the start of an execution.                        *)
(***************************************************************************)
\* Before the first execution there is an empty program.
LEMMA NoProgramType == NoProgram \in ProgramType
BY SmallWords DEF NoProgram, ProgramType

\* A new Executor satisfies the invariant.
LEMMA InitInv == Init => IInv
<1> SUFFICES ASSUME Init PROVE IInv
  OBVIOUS
<1>1. StorageTypeOK
  <2>1. registers \in [Registers -> Words] /\ memory \in [Addresses -> Words]
    BY SmallWords DEF Init
  <2>2. base \in ConfigType /\ config \in ConfigType
    BY ConfigsAssumption DEF Init
  <2>3. /\ program \in ProgramType
        /\ Len(program.code) + Len(program.constants) <= MemorySize
    <3>1. Len(program.code) = 0 /\ Len(program.constants) = 0
      BY DEF Init, NoProgram
    <3> QED
      BY <3>1, NoProgramType, SizesAssumption DEF Init
  <2> QED
    BY <2>1, <2>2, <2>3 DEF Init, StorageTypeOK
<1>2. TypeOK
  BY <1>1, ErrorsKinds, JobsAssumption DEF Init, TypeOK
<1>3. ProgramIntact
  <2>1. ConstantsEnd = 0
    BY DEF Init, NoProgram, ConstantsEnd, CodeEnd
  <2> QED
    BY <2>1 DEF ProgramIntact, Addresses
<1> QED
  BY <1>2, <1>3 DEF IInv

\* The strictest combination of two configurations is a configuration.
LEMMA MeetType ==
    ASSUME NEW a \in ConfigType, NEW b \in ConfigType
    PROVE  Meet(a, b) \in ConfigType
BY DEF Meet, MeetAccess, ConfigType, AccessConfig

\* What is copied to a cell from an image is a word.
LEMMA ElementIsWord ==
    ASSUME NEW s \in Seq(Words), NEW a \in Addresses, a < Len(s)
    PROVE  s[a + 1] \in Words
<1>1. Len(s) \in Nat /\ a \in Nat
  BY SizesAssumption DEF Addresses
<1>2. a + 1 \in 1 .. Len(s)
  BY <1>1
<1> QED
  BY <1>2

\* Loading a program puts its image where the new configuration protects it.
LEMMA PrepareSound ==
    ASSUME IInv, NEW p \in Programs, NEW c \in Configs, PrepareForExecution(p, c)
    PROVE  StorageTypeOK' /\ ProgramIntact'
<1> DEFINE image == p.code \o p.constants
<1>1. /\ p \in ProgramType /\ Len(p.code) + Len(p.constants) <= MemorySize
      /\ p.code \in Seq(Words) /\ p.constants \in Seq(Words)
      /\ p.initialStack \in Words /\ p.entrypoint \in Words
  BY DEF Programs, ProgramType
<1>2. image \in Seq(Words) /\ Len(image) = Len(p.code) + Len(p.constants)
  BY <1>1
<1>3. \A a \in Addresses : a < Len(image) => image[a + 1] \in Words
  BY <1>2, ElementIsWord
<1>4. memory' = [a \in Addresses |-> IF a < Len(image) THEN image[a + 1]
                                                      ELSE memory[a]]
  BY DEF PrepareForExecution
<1> HIDE DEF image
<1>5. memory' \in [Addresses -> Words]
  BY <1>3, <1>4 DEF IInv, TypeOK, StorageTypeOK
<1>6. registers' \in [Registers -> Words]
  BY <1>1, Utility DEF PrepareForExecution, IInv, TypeOK, StorageTypeOK
<1>7. config' \in ConfigType /\ base' \in ConfigType
  BY MeetType, ConfigsAssumption DEF PrepareForExecution, IInv, TypeOK, StorageTypeOK
<1>8. StorageTypeOK'
  BY <1>1, <1>5, <1>6, <1>7 DEF PrepareForExecution, IInv, TypeOK, StorageTypeOK
<1>9. ProgramIntact'
  <2>1. /\ ConstantsEnd' = Len(image)
        /\ (program.code \o program.constants)' = image
    BY <1>2 DEF PrepareForExecution, ConstantsEnd, CodeEnd, image
  <2> QED
    BY <2>1, <1>4 DEF ProgramIntact
<1> QED
  BY <1>8, <1>9

\* Starting an execution keeps the invariant.
LEMMA ExecuteInv ==
    ASSUME IInv, Execute
    PROVE  IInv'
<1>1. Head(queue) \in Programs /\ queue' \in Seq(Programs)
  BY DEF Execute, IInv, TypeOK
<1>2. PICK c \in Configs : PrepareForExecution(Head(queue), c)
  BY DEF Execute
<1>3. StorageTypeOK' /\ ProgramIntact'
  BY <1>1, <1>2, PrepareSound
<1> QED
  BY <1>1, <1>3, ErrorsKinds DEF Execute, IInv, TypeOK

\* What leaves the storage as it is keeps the invariant if it keeps the types.
LEMMA StorageUnchanged ==
    ASSUME IInv, UNCHANGED storageVars
    PROVE  StorageTypeOK' /\ ProgramIntact'
BY DEF IInv, TypeOK, StorageTypeOK, storageVars, ProgramIntact,
       CodeIsWriteBlocked, ConstantsEnd, CodeEnd

\* Leaving the memory ends the execution and changes no storage.
LEMMA OutOfMemoryInv ==
    ASSUME IInv, ExecPointerOutOfMemory
    PROVE  IInv'
BY StorageUnchanged, ErrorsKinds DEF ExecPointerOutOfMemory, IInv, TypeOK

\* A signal resumes a halted execution.
LEMMA SignalInv ==
    ASSUME IInv, SignalArrives
    PROVE  IInv'
BY StorageUnchanged DEF SignalArrives, IInv, TypeOK
-----------------------------------------------------------------------------
(***************************************************************************)
(* One lemma per group of commands, one step per command.                  *)
(***************************************************************************)
\* The system commands.
LEMMA SystemCommandInv ==
    ASSUME IInv, SystemCommand
    PROVE  IInv'
<1> USE DEF IInv
<1>1. Sound(Fetched)
  BY FetchedSound
<1>2. CASE UnknownCommand
  BY <1>2, ThrowSound, ErrorsKinds DEF UnknownCommand
<1>3. CASE HALT
  BY <1>1, <1>3, FinishSound DEF HALT
<1>4. CASE EXIT
  <2>1. Sound(LHSWord(Fetched, Command))
    BY <1>1, <1>4, RunsFacts, LHSWordSound DEF EXIT
  <2> QED
    BY <1>4, <2>1, FinishSound DEF EXIT
<1>5. CASE ScanWord
  <2>1. PICK op \in {"SCANINT", "GETCHAR"}, value \in Inputs :
            Runs(op) /\ Commit(WReg(Fetched, Command.reg, value, FALSE))
    BY <1>5 DEF ScanWord
  <2>2. Sound(WReg(Fetched, Command.reg, value, FALSE))
    BY <1>1, OutsideAssumption, WRegSound
  <2> QED
    BY <2>1, <2>2, CommitSound
<1>6. CASE SCANDOUBLE
  <2>1. PICK value \in Doubles :
            Commit(PutTwoRegisters(Fetched, Command.reg, value[1], value[2]))
    BY <1>6 DEF SCANDOUBLE
  <2>2. value[1] \in Words /\ value[2] \in Words
    BY OutsideAssumption
  <2>3. Sound(PutTwoRegisters(Fetched, Command.reg, value[1], value[2]))
    BY <1>1, <2>2, PutTwoRegistersSound
  <2> QED
    BY <2>1, <2>3, CommitSound
<1>7. CASE PRINTINT
  <2>1. Sound(LHSWord(Fetched, Command))
    BY <1>1, <1>7, RunsFacts, LHSWordSound DEF PRINTINT
  <2> QED
    BY <1>7, <2>1, CommitSound DEF PRINTINT
<1>8. CASE PRINTDOUBLE
  <2>1. Sound(LHSDouble(Fetched, Command))
    BY <1>1, <1>8, RunsFacts, DoublesSound DEF PRINTDOUBLE
  <2> QED
    BY <1>8, <2>1, CommitSound DEF PRINTDOUBLE
<1>9. CASE PUTCHAR
  <2> DEFINE x == LHSWord(Fetched, Command)
  <2>1. Sound(x)
    BY <1>1, <1>9, RunsFacts, LHSWordSound DEF PUTCHAR
  <2>2. Commit(Require(x, x.val < 2 ^ (WordBits \div 4), "value"))
    BY <1>9 DEF PUTCHAR
  <2> HIDE DEF x
  <2>3. /\ (x.val < 2 ^ (WordBits \div 4)) \in BOOLEAN
        /\ "value" \in Errors \ {"none"}
    BY DEF Errors
  <2>4. Sound(Require(x, x.val < 2 ^ (WordBits \div 4), "value"))
    BY <2>1, <2>3, RequireSound
  <2> QED
    BY <2>2, <2>4, CommitSound
<1>10. CASE BadSyscall
  BY <1>10, ThrowSound, ErrorsKinds DEF BadSyscall
<1> QED
  BY <1>2, <1>3, <1>4, <1>5, <1>6, <1>7, <1>8, <1>9, <1>10 DEF SystemCommand

\* The commands on doubles.
LEMMA DoubleCommandInv ==
    ASSUME IInv, DoubleCommand
    PROVE  IInv'
<1> USE DEF IInv
<1>1. Sound(Fetched)
  BY FetchedSound
<1>2. \A value \in Doubles : value[1] \in Words /\ value[2] \in Words
  BY OutsideAssumption
<1>3. ASSUME NEW op, Runs(op) PROVE Sound(BothDoubles(Command))
  BY <1>1, <1>3, RunsFacts, DoublesSound DEF BothDoubles
<1>4. CASE ITOD
  <2> DEFINE x == RHSWord(Fetched, Command)
  <2>1. PICK value \in Doubles :
            Commit(PutTwoRegisters(x, Command.reg, value[1], value[2]))
    BY <1>4 DEF ITOD
  <2>2. Sound(x)
    BY <1>1, <1>4, RunsFacts, RHSWordSound DEF ITOD
  <2> HIDE DEF x
  <2>3. Sound(PutTwoRegisters(x, Command.reg, value[1], value[2]))
    BY <1>2, <2>2, PutTwoRegistersSound
  <2> QED
    BY <2>1, <2>3, CommitSound
<1>5. CASE DTOI
  <2> DEFINE x == RHSDouble(Fetched, Command)
  <2>1. PICK overflow \in BOOLEAN, value \in Inputs :
            Commit(WReg(Require(x, ~overflow, "value"), Command.reg, value, FALSE))
    BY <1>5 DEF DTOI
  <2>2. Sound(x)
    BY <1>1, <1>5, RunsFacts, DoublesSound DEF DTOI
  <2> HIDE DEF x
  <2>3. Sound(Require(x, ~overflow, "value"))
    BY <2>2, RequireSound, ErrorsKinds
  <2>4. Sound(WReg(Require(x, ~overflow, "value"), Command.reg, value, FALSE))
    BY <2>3, OutsideAssumption, WRegSound
  <2> QED
    BY <2>1, <2>4, CommitSound
<1>6. CASE DoubleRR
  <2> DEFINE x == BothDoubles(Command)
  <2>1. PICK op \in DoubleOps, value \in Doubles :
            /\ Runs(op)
            /\ Commit(PutTwoRegisters(x, Command.reg, value[1], value[2]))
    BY <1>6 DEF DoubleRR
  <2>2. Sound(x)
    BY <1>3, <2>1
  <2> HIDE DEF x
  <2>3. Sound(PutTwoRegisters(x, Command.reg, value[1], value[2]))
    BY <1>2, <2>2, PutTwoRegistersSound
  <2> QED
    BY <2>1, <2>3, CommitSound
<1>7. CASE DIVD
  <2> DEFINE x == BothDoubles(Command)
  <2>1. PICK zero \in BOOLEAN, value \in Doubles :
            /\ Runs("DIVD")
            /\ Commit(PutTwoRegisters(Require(x, ~zero, "arithmetic"),
                                      Command.reg, value[1], value[2]))
    BY <1>7 DEF DIVD
  <2>2. Sound(x)
    BY <1>3, <2>1
  <2> HIDE DEF x
  <2> DEFINE y == Require(x, ~zero, "arithmetic")
  <2>3. Sound(y)
    BY <2>2, RequireSound, ErrorsKinds
  <2>4. Commit(PutTwoRegisters(y, Command.reg, value[1], value[2]))
    BY <2>1
  <2> HIDE DEF y
  <2>5. Sound(PutTwoRegisters(y, Command.reg, value[1], value[2]))
    BY <1>2, <2>3, PutTwoRegistersSound
  <2> QED
    BY <2>4, <2>5, CommitSound
<1>8. CASE CMPD
  <2>1. PICK result \in {kLess, kGreater, kEqual} :
            Runs("CMPD") /\ Commit(SetFlags(BothDoubles(Command), result))
    BY <1>8 DEF CMPD
  <2>2. result \in SUBSET FlagBits
    BY DEF FlagBits
  <2>3. Sound(SetFlags(BothDoubles(Command), result))
    BY <1>3, <2>1, <2>2, SetFlagsSound
  <2> QED
    BY <2>1, <2>3, CommitSound
<1> QED
  BY <1>4, <1>5, <1>6, <1>7, <1>8 DEF DoubleCommand

\* The jumps.
LEMMA JumpCommandInv ==
    ASSUME IInv, JumpCommand
    PROVE  IInv'
<1> USE DEF IInv
<1>1. Sound(Fetched)
  BY FetchedSound
<1>2. ASSUME NEW op, Runs(op)
      PROVE  Sound(WReg(Fetched, Instruction, Command.arg, TRUE))
  BY <1>1, <1>2, RunsFacts, WRegSound
<1>3. CASE JMP
  BY <1>2, <1>3, CommitSound DEF JMP
<1>4. CASE JumpIf
  <2>1. PICK op \in DOMAIN JumpFlag :
            /\ Runs(op)
            /\ Commit(IF JumpFlag[op] \in flags
                      THEN WReg(Fetched, Instruction, Command.arg, TRUE)
                      ELSE Fetched)
    BY <1>4 DEF JumpIf
  <2>2. CASE JumpFlag[op] \in flags
    BY <1>2, <2>1, <2>2, CommitSound
  <2>3. CASE JumpFlag[op] \notin flags
    BY <1>1, <2>1, <2>3, CommitSound
  <2> QED
    BY <2>2, <2>3
<1> QED
  BY <1>3, <1>4 DEF JumpCommand

\* The stack and the calls.
LEMMA StackCommandInv ==
    ASSUME IInv, StackCommand
    PROVE  IInv'
<1> USE DEF IInv
<1>1. Sound(Fetched)
  BY FetchedSound
<1>2. CASE PUSH
  <2> DEFINE x == LHSWord(Fetched, Command)
  <2>1. Sound(x) /\ Command.arg \in Words
    BY <1>1, <1>2, RunsFacts, LHSWordSound DEF PUSH
  <2>2. Commit(Push(x, Plus(x.val, Command.arg)))
    BY <1>2 DEF PUSH
  <2> HIDE DEF x
  <2>3. Plus(x.val, Command.arg) \in Words
    BY <2>1, SoundFields, PlusIsWord
  <2>4. Sound(Push(x, Plus(x.val, Command.arg)))
    BY <2>1, <2>3, PushSound
  <2> QED
    BY <2>2, <2>4, CommitSound
<1>3. CASE POP
  <2>1. Sound(Pop(Fetched, Command.reg, Command.arg, FALSE))
    BY <1>1, <1>3, RunsFacts, PopSound DEF POP
  <2> QED
    BY <1>3, <2>1, CommitSound DEF POP
<1>4. CASE PRC
  BY <1>1, <1>4, PrepareCallSound, CommitSound DEF PRC
<1>5. CASE CALLI
  <2>1. Sound(Call(Fetched, Command.arg))
    BY <1>1, <1>5, RunsFacts, CallSound DEF CALLI
  <2> QED
    BY <1>5, <2>1, CommitSound DEF CALLI
<1>6. CASE CALL
  <2> DEFINE x == RHSWord(Fetched, Command)
             y == Call(x, x.val)
  <2>1. Sound(x)
    BY <1>1, <1>6, RunsFacts, RHSWordSound DEF CALL
  <2>2. Commit(WReg(y, Command.reg, x.regs[Instruction], FALSE))
    BY <1>6 DEF CALL
  <2> HIDE DEF x
  <2>3. Sound(y) /\ x.regs[Instruction] \in Words
    BY <2>1, SoundFields, Utility, CallSound
  <2> HIDE DEF y
  <2>4. Sound(WReg(y, Command.reg, x.regs[Instruction], FALSE))
    BY <2>3, WRegSound
  <2> QED
    BY <2>2, <2>4, CommitSound
<1>7. CASE RET
  BY <1>1, <1>7, ReturnSound, CommitSound DEF RET
<1> QED
  BY <1>2, <1>3, <1>4, <1>5, <1>6, <1>7 DEF StackCommand

\* Integer arithmetic, bitwise operations and comparisons.
LEMMA WordCommandInv ==
    ASSUME IInv, WordCommand
    PROVE  IInv'
<1> USE DEF IInv
<1> DEFINE c == Command
<1>1. Sound(Fetched)
  BY FetchedSound
<1>2. ASSUME NEW op, Runs(op)
      PROVE  c \in Commands /\ c.arg \in Words /\ c.reg \in Registers
  BY <1>2, RunsFacts
<1>3. ASSUME NEW op, Runs(op)
      PROVE  Sound(LHSWord(Fetched, c)) /\ Sound(RHSWord(Fetched, c))
  BY <1>1, <1>2, <1>3, LHSWordSound, RHSWordSound
<1> HIDE DEF c
<1>4. CASE WordRR
  <2> DEFINE x == RHSWord(Fetched, c)
  <2>1. PICK op \in WordRROps :
            /\ Runs(op)
            /\ Commit(WReg(x, c.reg, Word(op, x.regs[c.reg], x.val), FALSE))
    BY <1>4 DEF WordRR, c
  <2>2. Sound(x) /\ c.reg \in Registers
    BY <1>2, <1>3, <2>1
  <2> HIDE DEF x
  <2>3. Word(op, x.regs[c.reg], x.val) \in Words
    BY <2>2, SoundFields, WordIsWord
  <2>4. Sound(WReg(x, c.reg, Word(op, x.regs[c.reg], x.val), FALSE))
    BY <2>2, <2>3, WRegSound
  <2> QED
    BY <2>1, <2>4, CommitSound
<1>5. CASE WordRI
  <2> DEFINE m == Fetched
  <2>1. PICK op \in DOMAIN WordRIOps :
            /\ Runs(op)
            /\ Commit(WReg(m, c.reg, Word(WordRIOps[op], m.regs[c.reg], c.arg),
                           FALSE))
    BY <1>5 DEF WordRI, c
  <2>2. Sound(m) /\ c.reg \in Registers /\ c.arg \in Words
    BY <1>1, <1>2, <2>1
  <2>3. WordRIOps[op] \in WordRROps
    BY DEF WordRIOps, WordRROps
  <2> HIDE DEF m
  <2>4. Word(WordRIOps[op], m.regs[c.reg], c.arg) \in Words
    BY <2>2, <2>3, SoundFields, WordIsWord
  <2>5. Sound(WReg(m, c.reg, Word(WordRIOps[op], m.regs[c.reg], c.arg), FALSE))
    BY <2>2, <2>4, WRegSound
  <2> QED
    BY <2>1, <2>5, CommitSound
<1>6. CASE ShiftRR
  <2> DEFINE x == RHSWord(Fetched, c)
             y == Require(x, x.val < WordBits, "arithmetic")
  <2>1. PICK op \in ShiftRROps :
            /\ Runs(op)
            /\ Commit(WReg(y, c.reg, Word(op, y.regs[c.reg], y.val), FALSE))
    BY <1>6 DEF ShiftRR, c
  <2>2. Sound(x) /\ c.reg \in Registers
    BY <1>2, <1>3, <2>1
  <2> HIDE DEF x
  <2>3. (x.val < WordBits) \in BOOLEAN /\ "arithmetic" \in Errors \ {"none"}
    BY DEF Errors
  <2>4. Sound(y)
    BY <2>2, <2>3, RequireSound
  <2> HIDE DEF y
  <2>5. Word(op, y.regs[c.reg], y.val) \in Words
    BY <2>2, <2>4, SoundFields, WordIsWord
  <2>6. Sound(WReg(y, c.reg, Word(op, y.regs[c.reg], y.val), FALSE))
    BY <2>4, <2>5, WRegSound
  <2> QED
    BY <2>1, <2>6, CommitSound
<1>7. CASE ShiftRI
  <2> DEFINE y == Require(Fetched, c.arg < WordBits, "arithmetic")
  <2>1. PICK op \in DOMAIN ShiftRIOps :
            /\ Runs(op)
            /\ Commit(WReg(y, c.reg, Word(ShiftRIOps[op], y.regs[c.reg], c.arg),
                           FALSE))
    BY <1>7 DEF ShiftRI, c
  <2>2. c.reg \in Registers /\ c.arg \in Words
    BY <1>2, <2>1
  <2>3. (c.arg < WordBits) \in BOOLEAN /\ "arithmetic" \in Errors \ {"none"}
    BY DEF Errors
  <2>4. Sound(y)
    BY <1>1, <2>3, RequireSound
  <2> HIDE DEF y
  <2>5. ShiftRIOps[op] \in ShiftRROps
    BY DEF ShiftRIOps, ShiftRROps
  <2>6. Word(ShiftRIOps[op], y.regs[c.reg], c.arg) \in Words
    BY <2>2, <2>4, <2>5, SoundFields, WordIsWord
  <2>7. Sound(WReg(y, c.reg, Word(ShiftRIOps[op], y.regs[c.reg], c.arg), FALSE))
    BY <2>4, <2>6, WRegSound
  <2> QED
    BY <2>1, <2>7, CommitSound
<1>8. ASSUME NEW op, Runs(op)
      PROVE  Sound(RHSWord(LHSWord(Fetched, c), c))
  BY <1>2, <1>3, <1>8, RHSWordSound
<1>9. CASE MUL
  <2> DEFINE x == RHSWord(LHSWord(Fetched, c), c)
  <2>1. Commit(PutProduct(x, x.regs[c.reg], x.val, c.reg))
    BY <1>9 DEF MUL, c
  <2>2. Sound(x) /\ c.reg \in Registers
    BY <1>2, <1>8, <1>9 DEF MUL
  <2> HIDE DEF x
  <2>3. Sound(PutProduct(x, x.regs[c.reg], x.val, c.reg))
    BY <2>2, SoundFields, PutProductSound
  <2> QED
    BY <2>1, <2>3, CommitSound
<1>10. CASE MULI
  <2> DEFINE x == LHSWord(Fetched, c)
  <2>1. Commit(PutProduct(x, x.val, c.arg, c.reg))
    BY <1>10 DEF MULI, c
  <2>2. Sound(x) /\ c.arg \in Words
    BY <1>2, <1>3, <1>10 DEF MULI
  <2> HIDE DEF x
  <2>3. Sound(PutProduct(x, x.val, c.arg, c.reg))
    BY <2>2, SoundFields, PutProductSound
  <2> QED
    BY <2>1, <2>3, CommitSound
<1>11. CASE DIV
  <2> DEFINE g == GetTwoRegisters(Fetched, c.reg)
             x == RHSWord(g, c)
  <2>1. Commit(DivideRegisters(x, c, x.val))
    BY <1>11 DEF DIV, c
  <2>2. c \in Commands
    BY <1>2, <1>11 DEF DIV
  <2>3. /\ Sound(g)
        /\ g.err = "none" => c.reg \in Registers /\ c.reg + 1 \in Registers
    BY <1>1, GetTwoRegistersSound
  <2> HIDE DEF g
  <2>4. Sound(x) /\ (x.err = "none" => g.err = "none")
    BY <2>2, <2>3, RHSWordSound
  <2> HIDE DEF x
  <2>5. Sound(DivideRegisters(x, c, x.val))
    BY <2>3, <2>4, SoundFields, DivideRegistersSound
  <2> QED
    BY <2>1, <2>5, CommitSound
<1>12. CASE DIVI
  <2> DEFINE g == GetTwoRegisters(Fetched, c.reg)
  <2>1. Commit(DivideRegisters(g, c, c.arg))
    BY <1>12 DEF DIVI, c
  <2>2. c.arg \in Words
    BY <1>2, <1>12 DEF DIVI
  <2>3. /\ Sound(g)
        /\ g.err = "none" => c.reg \in Registers /\ c.reg + 1 \in Registers
    BY <1>1, GetTwoRegistersSound
  <2> HIDE DEF g
  <2>4. Sound(DivideRegisters(g, c, c.arg))
    BY <2>2, <2>3, DivideRegistersSound
  <2> QED
    BY <2>1, <2>4, CommitSound
<1>13. CASE NOT
  <2> DEFINE x == LHSWord(Fetched, c)
  <2>1. Commit(WReg(x, c.reg, MaxWord - x.val, FALSE))
    BY <1>13 DEF NOT, c
  <2>2. Sound(x)
    BY <1>3, <1>13 DEF NOT
  <2> HIDE DEF x
  <2>3. MaxWord - x.val \in Words
    BY <2>2, SoundFields, SizesAssumption DEF Words, MaxWord
  <2>4. Sound(WReg(x, c.reg, MaxWord - x.val, FALSE))
    BY <2>2, <2>3, WRegSound
  <2> QED
    BY <2>1, <2>4, CommitSound
<1>14. CASE CMP
  <2> DEFINE x == RHSWord(LHSWord(Fetched, c), c)
  <2>1. Commit(WriteComparisonToFlags(x, x.regs[c.reg], x.val))
    BY <1>14 DEF CMP, c
  <2>2. Sound(x)
    BY <1>8, <1>14 DEF CMP
  <2> HIDE DEF x
  <2> QED
    BY <2>1, <2>2, ComparisonSound, CommitSound
<1>15. CASE CMPI
  <2> DEFINE x == LHSWord(Fetched, c)
  <2>1. Commit(WriteComparisonToFlags(x, x.val, c.arg))
    BY <1>15 DEF CMPI, c
  <2>2. Sound(x)
    BY <1>3, <1>15 DEF CMPI
  <2> HIDE DEF x
  <2> QED
    BY <2>1, <2>2, ComparisonSound, CommitSound
<1> QED
  BY <1>4, <1>5, <1>6, <1>7, <1>9, <1>10, <1>11, <1>12, <1>13, <1>14, <1>15
  DEF WordCommand

\* Loads, stores and moves.
LEMMA DataCommandInv ==
    ASSUME IInv, DataCommand
    PROVE  IInv'
<1> USE DEF IInv
<1> DEFINE c == Command
           m == Fetched
           r == RHSWord(Fetched, c)
<1>1. Sound(m)
  BY FetchedSound
<1>2. ASSUME NEW op, Runs(op)
      PROVE  /\ c \in Commands /\ c.arg \in Words /\ c.reg \in Registers
             /\ Plus(c.arg, 1) \in Words
  BY <1>2, RunsFacts, PlusIsWord, SmallWords
<1>3. ASSUME NEW op, Runs(op)
      PROVE  Sound(r) /\ r.val \in Words /\ Plus(r.val, 1) \in Words
  <2>1. Sound(r)
    BY <1>1, <1>2, <1>3, RHSWordSound
  <2> HIDE DEF r
  <2> QED
    BY <2>1, SoundFields, PlusIsWord, SmallWords
<1>4. CASE LoadConstant
  <2>1. PICK op \in {"LA", "LC"} :
            Runs(op) /\ Commit(WReg(m, c.reg, c.arg, FALSE))
    BY <1>4 DEF LoadConstant
  <2>2. Sound(WReg(m, c.reg, c.arg, FALSE))
    BY <1>1, <1>2, <2>1, WRegSound
  <2> QED
    BY <2>1, <2>2, CommitSound
<1>5. CASE MOV
  <2>1. Runs("MOV") /\ Commit(WReg(r, c.reg, r.val, FALSE))
    BY <1>5 DEF MOV
  <2>2. Sound(WReg(r, c.reg, r.val, FALSE))
    BY <1>3, <2>1, WRegSound
  <2> QED
    BY <2>1, <2>2, CommitSound
<1>6. CASE LOAD
  <2>1. Runs("LOAD") /\ Commit(LoadWord(m, c.reg, c.arg))
    BY <1>6 DEF LOAD
  <2>2. Sound(LoadWord(m, c.reg, c.arg))
    BY <1>1, <1>2, <2>1, LoadWordSound
  <2> QED
    BY <2>1, <2>2, CommitSound
<1>7. CASE LOAD2
  <2> DEFINE l == LoadWord(m, c.reg, c.arg)
  <2>1. Runs("LOAD2") /\ Commit(LoadWord(l, c.reg + 1, Plus(c.arg, 1)))
    BY <1>7 DEF LOAD2
  <2>2. Sound(l)
    BY <1>1, <1>2, <2>1, LoadWordSound
  <2> HIDE DEF l
  <2>3. Sound(LoadWord(l, c.reg + 1, Plus(c.arg, 1)))
    BY <1>2, <2>1, <2>2, LoadWordSound
  <2> QED
    BY <2>1, <2>3, CommitSound
<1>8. CASE STORE
  <2>1. Runs("STORE") /\ Commit(StoreWord(m, c.reg, c.arg))
    BY <1>8 DEF STORE
  <2>2. Sound(StoreWord(m, c.reg, c.arg))
    BY <1>1, <1>2, <2>1, StoreWordSound
  <2> QED
    BY <2>1, <2>2, CommitSound
<1>9. CASE STORE2
  <2> DEFINE l == StoreWord(m, c.reg, c.arg)
  <2>1. Runs("STORE2") /\ Commit(StoreWord(l, c.reg + 1, Plus(c.arg, 1)))
    BY <1>9 DEF STORE2
  <2>2. Sound(l)
    BY <1>1, <1>2, <2>1, StoreWordSound
  <2> HIDE DEF l
  <2>3. Sound(StoreWord(l, c.reg + 1, Plus(c.arg, 1)))
    BY <1>2, <2>1, <2>2, StoreWordSound
  <2> QED
    BY <2>1, <2>3, CommitSound
<1>10. CASE LOADR
  <2>1. Runs("LOADR") /\ Commit(LoadWord(r, c.reg, r.val))
    BY <1>10 DEF LOADR
  <2>2. Sound(LoadWord(r, c.reg, r.val))
    BY <1>3, <2>1, LoadWordSound
  <2> QED
    BY <2>1, <2>2, CommitSound
<1>11. CASE LOADR2
  <2> DEFINE l == LoadWord(r, c.reg, r.val)
  <2>1. Runs("LOADR2") /\ Commit(LoadWord(l, c.reg + 1, Plus(r.val, 1)))
    BY <1>11 DEF LOADR2
  <2>2. Sound(l)
    BY <1>3, <2>1, LoadWordSound
  <2> HIDE DEF l
  <2>3. Sound(LoadWord(l, c.reg + 1, Plus(r.val, 1)))
    BY <1>3, <2>1, <2>2, LoadWordSound
  <2> QED
    BY <2>1, <2>3, CommitSound
<1>12. CASE STORER
  <2> DEFINE x == RHSWord(LHSWord(Fetched, c), c)
  <2>1. Runs("STORER") /\ Commit(WMem(x, x.val, x.regs[c.reg]))
    BY <1>12 DEF STORER
  <2>2. Sound(x) /\ c.reg \in Registers
    BY <1>1, <1>2, <2>1, LHSWordSound, RHSWordSound
  <2> HIDE DEF x
  <2>3. Sound(WMem(x, x.val, x.regs[c.reg]))
    BY <2>2, SoundFields, WMemSound DEF TypeOK, StorageTypeOK
  <2> QED
    BY <2>1, <2>3, CommitSound
<1>13. CASE STORER2
  <2> DEFINE l == StoreWord(r, c.reg, r.val)
  <2>1. Runs("STORER2") /\ Commit(StoreWord(l, c.reg + 1, Plus(r.val, 1)))
    BY <1>13 DEF STORER2
  <2>2. Sound(l)
    BY <1>3, <2>1, StoreWordSound
  <2> HIDE DEF l
  <2>3. Sound(StoreWord(l, c.reg + 1, Plus(r.val, 1)))
    BY <1>3, <2>1, <2>2, StoreWordSound
  <2> QED
    BY <2>1, <2>3, CommitSound
<1> QED
  BY <1>4, <1>5, <1>6, <1>7, <1>8, <1>9, <1>10, <1>11, <1>12, <1>13
  DEF DataCommand
-----------------------------------------------------------------------------
(***************************************************************************)
(* The theorems.                                                           *)
(***************************************************************************)
\* Every step keeps the invariant.
LEMMA NextInv == IInv /\ [Next]_vars => IInv'
<1> SUFFICES ASSUME IInv, [Next]_vars PROVE IInv'
  OBVIOUS
<1>1. CASE Execute
  BY <1>1, ExecuteInv
<1>2. CASE Step
  BY <1>2, OutOfMemoryInv, SystemCommandInv, WordCommandInv, DoubleCommandInv,
     JumpCommandInv, StackCommandInv, DataCommandInv DEF Step
<1>3. CASE SignalArrives
  BY <1>3, SignalInv
<1>4. CASE UNCHANGED vars
  <2>1. UNCHANGED storageVars
    BY <1>4 DEF vars, storageVars
  <2> QED
    BY <1>4, <2>1, StorageUnchanged DEF vars, IInv, TypeOK
<1> QED
  BY <1>1, <1>2, <1>3, <1>4 DEF Next

\* Along every execution the storage has its types and a program whose code
\* is blocked for writing is as it was loaded.
THEOREM MachineInvariance == Spec => []IInv
BY InitInv, NextInv, PTL DEF Spec

\* Registers, memory and flags keep the width of the machine: no command,
\* complete or stopped by an error half way, and no loading of a program
\* leaves a value outside arch::Word or a configuration outside its type.
THEOREM MachineTypeCorrect == Spec => []TypeOK
<1>1. IInv => TypeOK
  BY DEF IInv
<1> QED
  BY <1>1, MachineInvariance, PTL

\* A program running with its code blocked for writing, by itself or for
\* reading and writing, is never modified, its constants included.
THEOREM ProgramStaysIntact == Spec => []ProgramIntact
<1>1. IInv => ProgramIntact
  BY DEF IInv
<1> QED
  BY <1>1, MachineInvariance, PTL
-----------------------------------------------------------------------------
(***************************************************************************)
(* Proofs about what the configuration of an execution guards on the Karma *)
(* computer: blocked registers, the bound of the stack, and that the       *)
(* configuration is the one of this execution.                             *)
(*                                                                         *)
(* As in KarmaProofs a command is a chain of operators on a machine        *)
(* record, and what the chain keeps is shown link by link.  Here a link    *)
(* needs no types of values: only that the record has its fields and its   *)
(* registers.                                                              *)

Record(m) == /\ DOMAIN m = {"regs", "mem", "flags", "val", "err"}
             /\ DOMAIN m.regs = Registers

\* The registers blocked for writing, apart from the free ones, are as the
\* command found them.
Kept(m, free) ==
    /\ Record(m)
    /\ \A r \in WriteBlockedRegisters \ free : m.regs[r] = Fetched.regs[r]
-----------------------------------------------------------------------------
(***************************************************************************)
(* The accesses of Storage keep blocked registers.                         *)
(***************************************************************************)
\* A check changes the error only, and passes only if its condition holds.
LEMMA RequireKept ==
    ASSUME NEW m, NEW free, Kept(m, free), NEW condition, NEW kind, kind # "none"
    PROVE  /\ Kept(Require(m, condition, kind), free)
           /\ Require(m, condition, kind).err = "none" => m.err = "none" /\ condition
<1>1. CASE m.err = "none" /\ ~condition
  <2>1. Require(m, condition, kind) = [m EXCEPT !.err = kind]
    BY <1>1 DEF Require
  <2>2. /\ [m EXCEPT !.err = kind].regs = m.regs
        /\ DOMAIN [m EXCEPT !.err = kind] = DOMAIN m
        /\ [m EXCEPT !.err = kind].err = kind
    BY DEF Kept, Record
  <2> QED
    BY <2>1, <2>2 DEF Kept, Record
<1>2. CASE ~(m.err = "none" /\ ~condition)
  <2>1. Require(m, condition, kind) = m
    BY <1>2, Zenon DEF Require
  <2> QED
    BY <2>1, <1>2
<1> QED
  BY <1>1, <1>2

\* Reading a register writes none.
LEMMA RRegKept ==
    ASSUME NEW m, NEW free, Kept(m, free), NEW reg, NEW internal
    PROVE  /\ Kept(RReg(m, reg, internal), free)
           /\ RReg(m, reg, internal).regs = m.regs
<1> DEFINE r == Require(m, reg \in Registers, "register")
           c == Require(r, internal \/ reg \notin ReadBlockedRegisters, "register")
<1>1. Kept(r, free) /\ r.regs = m.regs
  BY RequireKept DEF Require, Kept, Record
<1> HIDE DEF r
<1>2. Kept(c, free) /\ c.regs = r.regs
  BY <1>1, RequireKept DEF Require, Kept, Record
<1> HIDE DEF c
<1>3. RReg(m, reg, internal)
        = IF c.err = "none" THEN [c EXCEPT !.val = c.regs[reg]] ELSE c
  BY DEF RReg, c, r
<1> QED
  BY <1>1, <1>2, <1>3 DEF Kept, Record

\* A register is written only if it is free or not blocked.
LEMMA WRegKept ==
    ASSUME NEW m, NEW free, Kept(m, free), NEW reg, NEW value, NEW internal,
           internal => reg \in free
    PROVE  Kept(WReg(m, reg, value, internal), free)
<1> DEFINE r == Require(m, reg \in Registers, "register")
           c == Require(r, internal \/ reg \notin WriteBlockedRegisters, "register")
<1>1. Kept(r, free)
  BY RequireKept
<1> HIDE DEF r
<1>2. Kept(c, free) /\ (c.err = "none" => internal \/ reg \notin WriteBlockedRegisters)
  BY <1>1, RequireKept
<1> HIDE DEF c
<1>3. WReg(m, reg, value, internal)
        = IF c.err = "none" THEN [c EXCEPT !.regs[reg] = value] ELSE c
  BY DEF WReg, c, r
<1>4. CASE c.err = "none"
  <2>1. reg \notin WriteBlockedRegisters \ free
    BY <1>2, <1>4
  <2> QED
    BY <2>1, <1>2, <1>3, <1>4 DEF Kept, Record
<1>5. CASE c.err # "none"
  BY <1>2, <1>3, <1>5
<1> QED
  BY <1>4, <1>5

\* Reading a cell writes no register.
LEMMA RMemKept ==
    ASSUME NEW m, NEW free, Kept(m, free), NEW address
    PROVE  Kept(RMem(m, address), free)
<1> DEFINE a == Require(m, address < MemorySize, "address")
           b == Require(a, ~(config.readWrite.code /\ InCode(address)), "segment")
           c == Require(b, ~(config.readWrite.constants /\ InConstants(address)),
                        "segment")
<1>1. Kept(a, free)
  BY RequireKept
<1> HIDE DEF a
<1>2. Kept(b, free)
  BY <1>1, RequireKept
<1> HIDE DEF b
<1>3. Kept(c, free)
  BY <1>2, RequireKept
<1> HIDE DEF c
<1>4. RMem(m, address)
        = IF c.err = "none" THEN [c EXCEPT !.val = c.mem[address]] ELSE c
  BY DEF RMem, a, b, c
<1> QED
  BY <1>3, <1>4 DEF Kept, Record

\* Writing a cell writes no register.
LEMMA WMemKept ==
    ASSUME NEW m, NEW free, Kept(m, free), NEW address, NEW value
    PROVE  Kept(WMem(m, address, value), free)
<1> DEFINE a == Require(m, address < MemorySize, "address")
           b == Require(a, ~(CodeIsWriteBlocked /\ InCode(address)), "segment")
           c == Require(b, ~(CodeIsWriteBlocked /\ InConstants(address)),
                        "segment")
<1>1. Kept(a, free)
  BY RequireKept
<1> HIDE DEF a
<1>2. Kept(b, free)
  BY <1>1, RequireKept
<1> HIDE DEF b
<1>3. Kept(c, free)
  BY <1>2, RequireKept
<1> HIDE DEF c
<1>4. WMem(m, address, value)
        = IF c.err = "none" THEN [c EXCEPT !.mem[address] = value] ELSE c
  BY DEF WMem, a, b, c
<1> QED
  BY <1>3, <1>4 DEF Kept, Record

\* Nor does writing the flags.
LEMMA SetFlagsKept ==
    ASSUME NEW m, NEW free, Kept(m, free), NEW f
    PROVE  Kept(SetFlags(m, f), free)
BY DEF SetFlags, Kept, Record
-----------------------------------------------------------------------------
(***************************************************************************)
(* The operations of CommonExecutor and of the commands.                   *)
(***************************************************************************)
\* A pair of registers is read.
LEMMA GetTwoRegistersKept ==
    ASSUME NEW m, NEW free, Kept(m, free), NEW low
    PROVE  Kept(GetTwoRegisters(m, low), free)
BY RRegKept DEF GetTwoRegisters

\* The first half of a pair may be written before the second is refused.
LEMMA PutTwoRegistersKept ==
    ASSUME NEW m, NEW free, Kept(m, free), NEW lower, NEW low, NEW high
    PROVE  Kept(PutTwoRegisters(m, lower, low, high), free)
<1>1. Kept(WReg(m, lower, low, FALSE), free)
  BY WRegKept
<1>2. Kept(WReg(WReg(m, lower, low, FALSE), lower + 1, high, FALSE), free)
  BY <1>1, WRegKept
<1> QED
  BY <1>2 DEF PutTwoRegisters

\* The quotient and the remainder are written as a pair.
LEMMA DivideKept ==
    ASSUME NEW m, NEW free, Kept(m, free), NEW lhs, NEW rhs, NEW recv
    PROVE  Kept(Divide(m, lhs, rhs, recv), free)
<1> DEFINE z == Require(m, rhs # 0, "arithmetic")
           y == Require(z, lhs \div rhs <= MaxWord, "arithmetic")
<1>1. Kept(z, free)
  BY RequireKept
<1> HIDE DEF z
<1>2. Kept(y, free)
  BY <1>1, RequireKept
<1> HIDE DEF y
<1>3. Kept(PutTwoRegisters(y, recv, lhs \div rhs, lhs % rhs), free)
  BY <1>2, PutTwoRegistersKept
<1> QED
  BY <1>1, <1>3 DEF Divide, y, z

\* A comparison writes the flags.
LEMMA ComparisonKept ==
    ASSUME NEW m, NEW free, Kept(m, free), NEW lhs, NEW rhs
    PROVE  Kept(WriteComparisonToFlags(m, lhs, rhs), free)
BY SetFlagsKept DEF WriteComparisonToFlags

\* The stack pointer moves, by internal use.
LEMMA PushKept ==
    ASSUME NEW m, NEW free, Kept(m, free), Stack \in free, NEW value
    PROVE  Kept(Push(m, value), free)
<1> DEFINE a == Require(m, m.regs[Stack] <= MemorySize, "address")
           c == Require(a, m.regs[Stack] >= MinStackAddress, "stack")
           w == WReg(c, Stack, Minus(c.regs[Stack], 1), TRUE)
<1>1. Kept(a, free)
  BY RequireKept
<1> HIDE DEF a
<1>2. Kept(c, free)
  BY <1>1, RequireKept
<1> HIDE DEF c
<1>3. Kept(w, free)
  BY <1>2, WRegKept
<1> HIDE DEF w
<1>4. Kept(WMem(w, c.regs[Stack], value), free)
  BY <1>3, WMemKept
<1> QED
  BY <1>4 DEF Push, CheckPushAllowed, a, c, w

\* The receiver of a pop is free if it is written by internal use.
LEMMA PopKept ==
    ASSUME NEW m, NEW free, Kept(m, free), Stack \in free,
           NEW recv, NEW mod, NEW internal, internal => recv \in free
    PROVE  Kept(Pop(m, recv, mod, internal), free)
<1> DEFINE up == WReg(m, Stack, Plus(m.regs[Stack], 1), TRUE)
           x  == RMem(up, up.regs[Stack])
<1>1. Kept(up, free)
  BY WRegKept
<1> HIDE DEF up
<1>2. Kept(x, free)
  BY <1>1, RMemKept
<1> HIDE DEF x
<1>3. Kept(WReg(x, recv, Plus(x.val, mod), internal), free)
  BY <1>2, WRegKept
<1> QED
  BY <1>3 DEF Pop, up, x

\* The frame and the stack pointer move, by internal use.
LEMMA PrepareCallKept ==
    ASSUME NEW m, NEW free, Kept(m, free), {CallFrame, Stack} \subseteq free
    PROVE  Kept(PrepareCall(m), free)
<1>1. Kept(Push(m, m.regs[CallFrame]), free)
  BY PushKept
<1> QED
  BY <1>1, WRegKept DEF PrepareCall

\* r13, r14 and r15 move, by internal use.
LEMMA CallKept ==
    ASSUME NEW m, NEW free, Kept(m, free),
           {CallFrame, Stack, Instruction} \subseteq free, NEW callee
    PROVE  Kept(Call(m, callee), free)
<1> DEFINE ret    == Push(m, m.regs[Instruction])
           saved  == Push(ret, ret.regs[CallFrame])
           framed == RReg(saved, Stack, FALSE)
           frame  == WReg(framed, CallFrame, framed.val, TRUE)
<1>1. Kept(ret, free)
  BY PushKept
<1> HIDE DEF ret
<1>2. Kept(saved, free)
  BY <1>1, PushKept
<1> HIDE DEF saved
<1>3. Kept(framed, free)
  BY <1>2, RRegKept
<1> HIDE DEF framed
<1>4. Kept(frame, free)
  BY <1>3, WRegKept
<1> HIDE DEF frame
<1>5. Kept(WReg(frame, Instruction, callee, TRUE), free)
  BY <1>4, WRegKept
<1> QED
  BY <1>5 DEF Call, ret, saved, framed, frame

\* So they do when a call is left.
LEMMA ReturnKept ==
    ASSUME NEW m, NEW free, Kept(m, free),
           {CallFrame, Stack, Instruction} \subseteq free
    PROVE  Kept(Return(m), free)
<1> DEFINE locals == WReg(m, Stack, m.regs[CallFrame], TRUE)
           frame  == Pop(locals, CallFrame, 0, TRUE)
           back   == Pop(frame, Instruction, 0, TRUE)
           args   == WReg(back, Stack, back.regs[CallFrame], TRUE)
<1>1. Kept(locals, free)
  BY WRegKept
<1> HIDE DEF locals
<1>2. Kept(frame, free)
  BY <1>1, PopKept
<1> HIDE DEF frame
<1>3. Kept(back, free)
  BY <1>2, PopKept
<1> HIDE DEF back
<1>4. Kept(args, free)
  BY <1>3, WRegKept
<1> HIDE DEF args
<1>5. Kept(Pop(args, CallFrame, 0, TRUE), free)
  BY <1>4, PopKept
<1> QED
  BY <1>5 DEF Return, locals, frame, back, args

\* The operands of a command are read.
LEMMA OperandsKept ==
    ASSUME NEW m, NEW free, Kept(m, free), NEW c
    PROVE  /\ Kept(LHSWord(m, c), free) /\ Kept(RHSWord(m, c), free)
           /\ Kept(LHSDouble(m, c), free) /\ Kept(RHSDouble(m, c), free)
<1> DEFINE x == RReg(m, c.src, FALSE)
<1>1. Kept(x, free) /\ Kept(LHSWord(m, c), free)
  BY RRegKept DEF LHSWord
<1> HIDE DEF x
<1>2. RHSWord(m, c) = [x EXCEPT !.val = Plus(@, c.arg)]
  BY DEF RHSWord, x
<1>3. Kept(RHSWord(m, c), free)
  BY <1>1, <1>2 DEF Kept, Record
<1> QED
  BY <1>1, <1>3, GetTwoRegistersKept DEF LHSDouble, RHSDouble

\* A word is moved between a register and a cell.
LEMMA TransferKept ==
    ASSUME NEW m, NEW free, Kept(m, free), NEW reg, NEW address
    PROVE  /\ Kept(LoadWord(m, reg, address), free)
           /\ Kept(StoreWord(m, reg, address), free)
<1>1. Kept(RMem(m, address), free)
  BY RMemKept
<1>2. Kept(LoadWord(m, reg, address), free)
  BY <1>1, WRegKept DEF LoadWord
<1>3. Kept(RReg(m, reg, FALSE), free)
  BY RRegKept
<1> QED
  BY <1>2, <1>3, WMemKept DEF StoreWord
-----------------------------------------------------------------------------
(***************************************************************************)
(* The commands.                                                           *)
(***************************************************************************)
\* The registers the command uses internally.
Free == InternalUse(Command.op)

\* What a command keeps of the blocked registers.
CommandKeeps ==
    \A r \in WriteBlockedRegisters \ Free : registers'[r] = Fetched.regs[r]

\* The command finds every register as it is.
LEMMA FetchedKept ==
    ASSUME TypeOK, NEW free
    PROVE  Kept(Fetched, free)
BY DEF TypeOK, StorageTypeOK, Kept, Record, Fetched

\* The machine a command leaves is the next state.
LEMMA FinishKept ==
    ASSUME NEW m, Kept(m, Free), NEW next, Finish(m, next)
    PROVE  CommandKeeps
BY DEF CommandKeeps, Kept, Finish

\* So it is for a command that goes on.
LEMMA CommitKept ==
    ASSUME NEW m, Kept(m, Free), Commit(m)
    PROVE  CommandKeeps
BY FinishKept DEF Commit

\* A command refused at once changes no register.
LEMMA ThrowKept ==
    ASSUME NEW kind, Throw(kind)
    PROVE  CommandKeeps
BY DEF Throw, Commit, Finish, CommandKeeps, Fetched

\* The registers a command of each kind uses internally.
LEMMA FreeOf ==
    ASSUME NEW op, Runs(op)
    PROVE  /\ op = "JMP" \/ op \in DOMAIN JumpFlag => Instruction \in Free
           /\ op \in {"PUSH", "POP", "PRC", "CALL", "CALLI", "RET"} => Stack \in Free
           /\ op \in {"PRC", "CALL", "CALLI", "RET"} => CallFrame \in Free
           /\ op \in {"CALL", "CALLI", "RET"} => Instruction \in Free
<1>1. op = Command.op
  BY DEF Runs
<1> HIDE DEF Command
<1>2. CASE op = "JMP" \/ op \in DOMAIN JumpFlag
  BY <1>1, <1>2 DEF Free, InternalUse, JumpFlag
<1>3. CASE op \in {"PUSH", "POP"}
  BY <1>1, <1>3 DEF Free, InternalUse, JumpFlag
<1>4. CASE op = "PRC"
  BY <1>1, <1>4 DEF Free, InternalUse, JumpFlag
<1>5. CASE op \in {"CALL", "CALLI", "RET"}
  BY <1>1, <1>5 DEF Free, InternalUse, JumpFlag
<1> QED
  BY <1>2, <1>3, <1>4, <1>5 DEF JumpFlag

\* The system commands write registers only under the checks.
LEMMA SystemCommandKept ==
    ASSUME TypeOK, SystemCommand
    PROVE  CommandKeeps
<1>1. Kept(Fetched, Free)
  BY FetchedKept
<1>2. Kept(LHSWord(Fetched, Command), Free) /\ Kept(LHSDouble(Fetched, Command), Free)
  BY <1>1, OperandsKept
<1>3. CASE UnknownCommand \/ BadSyscall
  BY <1>3, ThrowKept DEF UnknownCommand, BadSyscall
<1>4. CASE HALT \/ EXIT
  BY <1>1, <1>2, <1>4, FinishKept DEF HALT, EXIT
<1>5. CASE PRINTINT \/ PRINTDOUBLE
  BY <1>2, <1>5, CommitKept DEF PRINTINT, PRINTDOUBLE
<1>6. CASE ScanWord
  <2>1. PICK value \in Inputs : Commit(WReg(Fetched, Command.reg, value, FALSE))
    BY <1>6 DEF ScanWord
  <2> QED
    BY <1>1, <2>1, WRegKept, CommitKept
<1>7. CASE SCANDOUBLE
  <2>1. PICK value \in Doubles :
            Commit(PutTwoRegisters(Fetched, Command.reg, value[1], value[2]))
    BY <1>7 DEF SCANDOUBLE
  <2> QED
    BY <1>1, <2>1, PutTwoRegistersKept, CommitKept
<1>8. CASE PUTCHAR
  <2> DEFINE x == LHSWord(Fetched, Command)
  <2>1. Commit(Require(x, x.val < 2 ^ (WordBits \div 4), "value"))
    BY <1>8 DEF PUTCHAR
  <2> HIDE DEF x
  <2> QED
    BY <1>2, <2>1, RequireKept, CommitKept DEF x
<1> QED
  BY <1>3, <1>4, <1>5, <1>6, <1>7, <1>8 DEF SystemCommand

\* The integer commands write their receiver, or the pair of it and the next
\* register, under the checks.
LEMMA WordCommandKept ==
    ASSUME TypeOK, WordCommand
    PROVE  CommandKeeps
<1> DEFINE c == Command
           f == Fetched
           l == LHSWord(f, c)
           r == RHSWord(f, c)
           b == RHSWord(l, c)
           g == GetTwoRegisters(f, c.reg)
<1>1. Kept(f, Free)
  BY FetchedKept
<1>2. Kept(l, Free) /\ Kept(r, Free) /\ Kept(g, Free)
  BY <1>1, OperandsKept, GetTwoRegistersKept
<1> HIDE DEF l, g
<1>3. Kept(b, Free)
  BY <1>2, OperandsKept
<1>4. CASE WordRR
  <2>1. PICK op \in WordRROps :
            Commit(WReg(r, c.reg, Word(op, r.regs[c.reg], r.val), FALSE))
    BY <1>4 DEF WordRR
  <2> QED
    BY <1>2, <2>1, WRegKept, CommitKept
<1>5. CASE WordRI
  <2>1. PICK op \in DOMAIN WordRIOps :
            Commit(WReg(f, c.reg, Word(WordRIOps[op], f.regs[c.reg], c.arg), FALSE))
    BY <1>5 DEF WordRI
  <2> QED
    BY <1>1, <2>1, WRegKept, CommitKept
<1>6. CASE ShiftRR
  <2> DEFINE y == Require(r, r.val < WordBits, "arithmetic")
  <2>1. PICK op \in ShiftRROps :
            Commit(WReg(y, c.reg, Word(op, y.regs[c.reg], y.val), FALSE))
    BY <1>6 DEF ShiftRR
  <2>2. Kept(y, Free)
    BY <1>2, RequireKept
  <2> HIDE DEF y
  <2> QED
    BY <2>1, <2>2, WRegKept, CommitKept
<1>7. CASE ShiftRI
  <2> DEFINE y == Require(f, c.arg < WordBits, "arithmetic")
  <2>1. PICK op \in DOMAIN ShiftRIOps :
            Commit(WReg(y, c.reg, Word(ShiftRIOps[op], y.regs[c.reg], c.arg), FALSE))
    BY <1>7 DEF ShiftRI
  <2>2. Kept(y, Free)
    BY <1>1, RequireKept
  <2> HIDE DEF y
  <2> QED
    BY <2>1, <2>2, WRegKept, CommitKept
<1>8. CASE MUL
  <2>1. Commit(PutProduct(b, b.regs[c.reg], b.val, c.reg))
    BY <1>8 DEF MUL, l
  <2> QED
    BY <1>3, <2>1, PutTwoRegistersKept, CommitKept DEF PutProduct
<1>9. CASE MULI
  <2>1. Commit(PutProduct(l, l.val, c.arg, c.reg))
    BY <1>9 DEF MULI, l
  <2> QED
    BY <1>2, <2>1, PutTwoRegistersKept, CommitKept DEF PutProduct
<1>10. CASE DIV
  <2> DEFINE x == RHSWord(g, c)
  <2>1. Commit(DivideRegisters(x, c, x.val))
    BY <1>10 DEF DIV, g
  <2>2. Kept(x, Free)
    BY <1>2, OperandsKept
  <2> HIDE DEF x
  <2> QED
    BY <2>1, <2>2, DivideKept, CommitKept DEF DivideRegisters
<1>11. CASE DIVI
  <2>1. Commit(DivideRegisters(g, c, c.arg))
    BY <1>11 DEF DIVI, g
  <2> QED
    BY <1>2, <2>1, DivideKept, CommitKept DEF DivideRegisters
<1>12. CASE NOT
  <2>1. Commit(WReg(l, c.reg, MaxWord - l.val, FALSE))
    BY <1>12 DEF NOT, l
  <2> QED
    BY <1>2, <2>1, WRegKept, CommitKept
<1>13. CASE CMP
  <2>1. Commit(WriteComparisonToFlags(b, b.regs[c.reg], b.val))
    BY <1>13 DEF CMP, l
  <2> QED
    BY <1>3, <2>1, ComparisonKept, CommitKept
<1>14. CASE CMPI
  <2>1. Commit(WriteComparisonToFlags(l, l.val, c.arg))
    BY <1>14 DEF CMPI, l
  <2> QED
    BY <1>2, <2>1, ComparisonKept, CommitKept
<1> QED
  BY <1>4, <1>5, <1>6, <1>7, <1>8, <1>9, <1>10, <1>11, <1>12, <1>13, <1>14
  DEF WordCommand

\* So do the commands on doubles.
LEMMA DoubleCommandKept ==
    ASSUME TypeOK, DoubleCommand
    PROVE  CommandKeeps
<1> DEFINE c == Command
           r == RHSWord(Fetched, c)
           d == RHSDouble(Fetched, c)
           b == BothDoubles(c)
<1>1. Kept(Fetched, Free)
  BY FetchedKept
<1>2. Kept(r, Free) /\ Kept(d, Free)
  BY <1>1, OperandsKept
<1>3. Kept(b, Free)
  <2>1. Kept(LHSDouble(Fetched, c), Free)
    BY <1>1, OperandsKept
  <2> QED
    BY <2>1, OperandsKept DEF BothDoubles
<1>4. CASE ITOD
  <2>1. PICK value \in Doubles :
            Commit(PutTwoRegisters(r, c.reg, value[1], value[2]))
    BY <1>4 DEF ITOD
  <2> QED
    BY <1>2, <2>1, PutTwoRegistersKept, CommitKept
<1>5. CASE DTOI
  <2>1. PICK overflow \in BOOLEAN, value \in Inputs :
            Commit(WReg(Require(d, ~overflow, "value"), c.reg, value, FALSE))
    BY <1>5 DEF DTOI
  <2>2. Kept(Require(d, ~overflow, "value"), Free)
    BY <1>2, RequireKept
  <2> QED
    BY <2>1, <2>2, WRegKept, CommitKept
<1>6. CASE DoubleRR
  <2>1. PICK value \in Doubles :
            Commit(PutTwoRegisters(b, c.reg, value[1], value[2]))
    BY <1>6 DEF DoubleRR
  <2> QED
    BY <1>3, <2>1, PutTwoRegistersKept, CommitKept
<1>7. CASE DIVD
  <2>1. PICK zero \in BOOLEAN, value \in Doubles :
            Commit(PutTwoRegisters(Require(b, ~zero, "arithmetic"), c.reg,
                                   value[1], value[2]))
    BY <1>7 DEF DIVD
  <2>2. Kept(Require(b, ~zero, "arithmetic"), Free)
    BY <1>3, RequireKept
  <2> QED
    BY <2>1, <2>2, PutTwoRegistersKept, CommitKept
<1>8. CASE CMPD
  <2>1. PICK result \in {kLess, kGreater, kEqual} : Commit(SetFlags(b, result))
    BY <1>8 DEF CMPD
  <2> QED
    BY <1>3, <2>1, SetFlagsKept, CommitKept
<1> QED
  BY <1>4, <1>5, <1>6, <1>7, <1>8 DEF DoubleCommand

\* A jump writes r15 and nothing else.
LEMMA JumpCommandKept ==
    ASSUME TypeOK, JumpCommand
    PROVE  CommandKeeps
<1>1. Kept(Fetched, Free)
  BY FetchedKept
<1>2. ASSUME NEW op, Runs(op), op = "JMP" \/ op \in DOMAIN JumpFlag
      PROVE  Kept(WReg(Fetched, Instruction, Command.arg, TRUE), Free)
  <2>1. Instruction \in Free
    BY <1>2, FreeOf
  <2> QED
    BY <1>1, <2>1, WRegKept
<1>3. CASE JMP
  BY <1>2, <1>3, CommitKept DEF JMP
<1>4. CASE JumpIf
  <2>1. PICK op \in DOMAIN JumpFlag :
            /\ Runs(op)
            /\ Commit(IF JumpFlag[op] \in flags
                      THEN WReg(Fetched, Instruction, Command.arg, TRUE)
                      ELSE Fetched)
    BY <1>4 DEF JumpIf
  <2>2. CASE JumpFlag[op] \in flags
    BY <1>2, <2>1, <2>2, CommitKept
  <2>3. CASE JumpFlag[op] \notin flags
    BY <1>1, <2>1, <2>3, CommitKept
  <2> QED
    BY <2>2, <2>3
<1> QED
  BY <1>3, <1>4 DEF JumpCommand

\* The stack and the call commands write r13-r15 internally, their receiver
\* under the checks.
LEMMA StackCommandKept ==
    ASSUME TypeOK, StackCommand
    PROVE  CommandKeeps
<1> DEFINE c == Command
<1>1. Kept(Fetched, Free)
  BY FetchedKept
<1>2. CASE PUSH
  <2> DEFINE x == LHSWord(Fetched, c)
  <2>1. Stack \in Free /\ Commit(Push(x, Plus(x.val, c.arg)))
    BY <1>2, FreeOf DEF PUSH
  <2>2. Kept(x, Free)
    BY <1>1, OperandsKept
  <2> HIDE DEF x
  <2> QED
    BY <2>1, <2>2, PushKept, CommitKept
<1>3. CASE POP
  <2>1. Stack \in Free /\ Commit(Pop(Fetched, c.reg, c.arg, FALSE))
    BY <1>3, FreeOf DEF POP
  <2> QED
    BY <1>1, <2>1, PopKept, CommitKept
<1>4. CASE PRC
  <2>1. {CallFrame, Stack} \subseteq Free /\ Commit(PrepareCall(Fetched))
    BY <1>4, FreeOf DEF PRC
  <2> QED
    BY <1>1, <2>1, PrepareCallKept, CommitKept
<1>5. CASE CALLI
  <2>1. /\ {CallFrame, Stack, Instruction} \subseteq Free
        /\ Commit(Call(Fetched, c.arg))
    BY <1>5, FreeOf DEF CALLI
  <2> QED
    BY <1>1, <2>1, CallKept, CommitKept
<1>6. CASE CALL
  <2> DEFINE x == RHSWord(Fetched, c)
  <2>1. /\ {CallFrame, Stack, Instruction} \subseteq Free
        /\ Commit(WReg(Call(x, x.val), c.reg, x.regs[Instruction], FALSE))
    BY <1>6, FreeOf DEF CALL
  <2>2. Kept(x, Free)
    BY <1>1, OperandsKept
  <2> HIDE DEF x
  <2>3. Kept(Call(x, x.val), Free)
    BY <2>1, <2>2, CallKept
  <2> QED
    BY <2>1, <2>3, WRegKept, CommitKept
<1>7. CASE RET
  <2>1. /\ {CallFrame, Stack, Instruction} \subseteq Free
        /\ Commit(Return(Fetched))
    BY <1>7, FreeOf DEF RET
  <2> QED
    BY <1>1, <2>1, ReturnKept, CommitKept
<1> QED
  BY <1>2, <1>3, <1>4, <1>5, <1>6, <1>7 DEF StackCommand

\* Loads write their receiver under the checks, stores no register.
LEMMA DataCommandKept ==
    ASSUME TypeOK, DataCommand
    PROVE  CommandKeeps
<1> DEFINE c == Command
           f == Fetched
           r == RHSWord(f, c)
           b == RHSWord(LHSWord(f, c), c)
<1>1. Kept(f, Free)
  BY FetchedKept
<1>2. Kept(r, Free) /\ Kept(LHSWord(f, c), Free)
  BY <1>1, OperandsKept
<1>3. Kept(b, Free)
  BY <1>2, OperandsKept
<1>4. ASSUME NEW reg, NEW address, NEW next, NEW after
      PROVE  /\ Kept(LoadWord(LoadWord(f, reg, address), next, after), Free)
             /\ Kept(StoreWord(StoreWord(f, reg, address), next, after), Free)
             /\ Kept(LoadWord(LoadWord(r, reg, address), next, after), Free)
             /\ Kept(StoreWord(StoreWord(r, reg, address), next, after), Free)
  <2>1. Kept(LoadWord(f, reg, address), Free) /\ Kept(StoreWord(f, reg, address), Free)
    BY <1>1, TransferKept
  <2>2. Kept(LoadWord(r, reg, address), Free) /\ Kept(StoreWord(r, reg, address), Free)
    BY <1>2, TransferKept
  <2> QED
    BY <2>1, <2>2, TransferKept
<1>5. CASE LoadConstant \/ MOV
  BY <1>1, <1>2, <1>5, WRegKept, CommitKept DEF LoadConstant, MOV
<1>6. CASE LOAD \/ STORE \/ LOADR
  BY <1>1, <1>2, <1>6, TransferKept, CommitKept DEF LOAD, STORE, LOADR
<1>7. CASE STORER
  <2>1. Commit(WMem(b, b.val, b.regs[c.reg]))
    BY <1>7 DEF STORER
  <2> QED
    BY <1>3, <2>1, WMemKept, CommitKept
<1>8. CASE LOAD2 \/ STORE2
  BY <1>4, <1>8, CommitKept DEF LOAD2, STORE2
<1>9. CASE LOADR2 \/ STORER2
  BY <1>4, <1>9, CommitKept DEF LOADR2, STORER2
<1> QED
  BY <1>5, <1>6, <1>7, <1>8, <1>9 DEF DataCommand
\* Every turn of the loop that fetches a command leaves some machine; every turn is
\* one of a running execution.
LEMMA StepFinishes ==
    ASSUME Step
    PROVE  /\ status = "running"
           /\ ExecPointerOutOfMemory \/ \E m, next : Finish(m, next)
<1>1. CASE SystemCommand
  BY <1>1 DEF SystemCommand, UnknownCommand, HALT, EXIT, ScanWord, SCANDOUBLE,
     PRINTINT, PRINTDOUBLE, PUTCHAR, BadSyscall, Throw, Commit, Runs
<1>2. CASE WordCommand
  BY <1>2 DEF WordCommand, WordRR, WordRI, ShiftRR, ShiftRI, MUL, MULI, DIV,
     DIVI, NOT, CMP, CMPI, Commit, Runs
<1>3. CASE DoubleCommand
  BY <1>3 DEF DoubleCommand, ITOD, DTOI, DoubleRR, DIVD, CMPD, Commit, Runs
<1>4. CASE JumpCommand
  BY <1>4 DEF JumpCommand, JMP, JumpIf, Commit, Runs
<1>5. CASE StackCommand
  BY <1>5 DEF StackCommand, PUSH, POP, PRC, CALLI, CALL, RET, Commit, Runs
<1>6. CASE DataCommand
  BY <1>6 DEF DataCommand, LoadConstant, MOV, LOAD, LOAD2, STORE, STORE2,
     LOADR, LOADR2, STORER, STORER2, Commit, Runs
<1> QED
  BY <1>1, <1>2, <1>3, <1>4, <1>5, <1>6 DEF Step, ExecPointerOutOfMemory
-----------------------------------------------------------------------------
(***************************************************************************)
(* The bound of the stack.                                                 *)
(***************************************************************************)
\* Nothing was written below the bound of the stack since the fetch.
InBounds(m) ==
    /\ Sound(m)
    /\ \A a \in Addresses : m.mem[a] # memory[a] => a >= MinStackAddress

\* The stack is at most full, unless the command has failed.
AtMostFull(m) == m.err = "none" => m.regs[Stack] >= MinStackAddress - 1

\* What a check leaves alone, and what it lets through.
LEMMA RequireSame ==
    ASSUME NEW m, Sound(m), NEW condition \in BOOLEAN,
           NEW kind \in Errors \ {"none"}
    PROVE  /\ Sound(Require(m, condition, kind))
           /\ Require(m, condition, kind).regs = m.regs
           /\ Require(m, condition, kind).mem = m.mem
           /\ Require(m, condition, kind).err = "none" => m.err = "none" /\ condition
<1>1. Sound(Require(m, condition, kind))
  BY RequireSound
<1>2. /\ Require(m, condition, kind).regs = m.regs
      /\ Require(m, condition, kind).mem = m.mem
  BY DEF Require, Sound, Machines
<1> QED
  BY <1>1, <1>2, RequireSound

\* Reading a register changes neither the registers nor the memory.
LEMMA RRegSame ==
    ASSUME NEW m, Sound(m), NEW reg, NEW internal
    PROVE  /\ RReg(m, reg, internal).regs = m.regs
           /\ RReg(m, reg, internal).mem = m.mem
<1> DEFINE r == Require(m, reg \in Registers, "register")
           c == Require(r, internal \/ reg \notin ReadBlockedRegisters, "register")
<1>1. Sound(r) /\ r.regs = m.regs /\ r.mem = m.mem
  <2>1. (reg \in Registers) \in BOOLEAN /\ "register" \in Errors \ {"none"}
    BY DEF Errors
  <2> QED
    BY <2>1, RequireSame
<1> HIDE DEF r
<1>2. Sound(c) /\ c.regs = m.regs /\ c.mem = m.mem
  BY <1>1, RequireSame, ErrorsKinds
<1> HIDE DEF c
<1>3. RReg(m, reg, internal)
        = IF c.err = "none" THEN [c EXCEPT !.val = c.regs[reg]] ELSE c
  BY DEF RReg, c, r
<1> QED
  BY <1>2, <1>3 DEF Sound, Machines

\* Writing a register changes no cell and no other register.
LEMMA WRegSame ==
    ASSUME NEW m, Sound(m), NEW reg, NEW value, NEW internal
    PROVE  /\ WReg(m, reg, value, internal).mem = m.mem
           /\ \A other \in Registers : other # reg
                => WReg(m, reg, value, internal).regs[other] = m.regs[other]
           /\ WReg(m, reg, value, internal).err = "none"
                => WReg(m, reg, value, internal).regs[reg] = value
<1> DEFINE r == Require(m, reg \in Registers, "register")
           c == Require(r, internal \/ reg \notin WriteBlockedRegisters, "register")
<1>1. /\ Sound(r) /\ r.regs = m.regs /\ r.mem = m.mem
      /\ r.err = "none" => reg \in Registers
  <2>1. (reg \in Registers) \in BOOLEAN /\ "register" \in Errors \ {"none"}
    BY DEF Errors
  <2> QED
    BY <2>1, RequireSame
<1> HIDE DEF r
<1>2. /\ Sound(c) /\ c.regs = m.regs /\ c.mem = m.mem
      /\ c.err = "none" => reg \in Registers
  BY <1>1, RequireSame, ErrorsKinds
<1> HIDE DEF c
<1>3. WReg(m, reg, value, internal)
        = IF c.err = "none" THEN [c EXCEPT !.regs[reg] = value] ELSE c
  BY DEF WReg, c, r
<1>4. c.regs \in [Registers -> Words]
  BY <1>2 DEF Sound, Machines
<1>5. CASE c.err = "none"
  <2>1. WReg(m, reg, value, internal)
          = [c EXCEPT !.regs = [c.regs EXCEPT ![reg] = value]]
    BY <1>2, <1>3, <1>5 DEF Sound, Machines
  <2> QED
    BY <2>1, <1>2, <1>4, <1>5 DEF Sound, Machines
<1> QED
  BY <1>2, <1>3, <1>5

\* Writing a cell changes no register and no other cell.
LEMMA WMemSame ==
    ASSUME NEW m, Sound(m), NEW address, NEW value
    PROVE  /\ WMem(m, address, value).regs = m.regs
           /\ WMem(m, address, value).err = "none" => m.err = "none"
           /\ \A a \in Addresses : WMem(m, address, value).mem[a] # m.mem[a]
                => a = address /\ m.err = "none"
<1> DEFINE a == Require(m, address < MemorySize, "address")
           b == Require(a, ~(CodeIsWriteBlocked /\ InCode(address)), "segment")
           c == Require(b, ~(CodeIsWriteBlocked /\ InConstants(address)),
                        "segment")
<1>1. /\ Sound(a) /\ a.regs = m.regs /\ a.mem = m.mem
      /\ a.err = "none" => m.err = "none"
  <2>1. (address < MemorySize) \in BOOLEAN /\ "address" \in Errors \ {"none"}
    BY DEF Errors
  <2> QED
    BY <2>1, RequireSame
<1> HIDE DEF a
<1>2. /\ Sound(b) /\ b.regs = m.regs /\ b.mem = m.mem
      /\ b.err = "none" => m.err = "none"
  BY <1>1, RequireSame, ErrorsKinds
<1> HIDE DEF b
<1>3. /\ Sound(c) /\ c.regs = m.regs /\ c.mem = m.mem
      /\ c.err = "none" => m.err = "none"
  BY <1>2, RequireSame, ErrorsKinds
<1> HIDE DEF c
<1>4. WMem(m, address, value)
        = IF c.err = "none" THEN [c EXCEPT !.mem[address] = value] ELSE c
  BY DEF WMem, a, b, c
<1>5. CASE c.err = "none"
  <2>1. WMem(m, address, value)
          = [c EXCEPT !.mem = [c.mem EXCEPT ![address] = value]]
    BY <1>3, <1>4, <1>5 DEF Sound, Machines
  <2> QED
    BY <2>1, <1>3, <1>5 DEF Sound, Machines
<1> QED
  BY <1>3, <1>4, <1>5

\* The check of a push lets through a stack that is not below its bound.
LEMMA CheckPushSame ==
    ASSUME NEW m, Sound(m)
    PROVE  /\ Sound(CheckPushAllowed(m))
           /\ CheckPushAllowed(m).regs = m.regs /\ CheckPushAllowed(m).mem = m.mem
           /\ CheckPushAllowed(m).err = "none" => m.regs[Stack] >= MinStackAddress
<1> DEFINE a == Require(m, m.regs[Stack] <= MemorySize, "address")
<1>1. /\ (m.regs[Stack] <= MemorySize) \in BOOLEAN
      /\ (m.regs[Stack] >= MinStackAddress) \in BOOLEAN
      /\ "address" \in Errors \ {"none"} /\ "stack" \in Errors \ {"none"}
  BY DEF Errors
<1>2. Sound(a) /\ a.regs = m.regs /\ a.mem = m.mem
  BY <1>1, RequireSame
<1>3. CheckPushAllowed(m) = Require(a, m.regs[Stack] >= MinStackAddress, "stack")
  BY DEF CheckPushAllowed
<1> HIDE DEF a
<1> DEFINE enough == m.regs[Stack] >= MinStackAddress
           b      == Require(a, enough, "stack")
<1> HIDE DEF enough
<1>4. enough \in BOOLEAN /\ CheckPushAllowed(m) = b
  BY <1>1, <1>3 DEF enough
<1>5. Sound(b) /\ b.regs = a.regs /\ b.mem = a.mem /\ (b.err = "none" => enough)
  BY <1>1, <1>2, <1>4, RequireSame
<1> HIDE DEF b
<1> QED
  BY <1>2, <1>4, <1>5 DEF enough

\* A push is refused below the bound and writes one cell above it; what it
\* leaves is at most one short of the bound.
LEMMA PushInBounds ==
    ASSUME TypeOK, NEW m, InBounds(m), NEW value \in Words
    PROVE  InBounds(Push(m, value)) /\ AtMostFull(Push(m, value))
<1> DEFINE s == m.regs[Stack]
           c == CheckPushAllowed(m)
           d == Minus(s, 1)
           internal == TRUE
           w == WReg(c, Stack, d, internal)
           x == WMem(w, s, value)
<1>1. s \in Words /\ MinStackAddress \in Int
  BY SoundFields, Utility, SizesAssumption
  DEF InBounds, MinStackAddress, TypeOK, StorageTypeOK, ConfigType
<1>2. /\ Sound(c) /\ c.regs = m.regs /\ c.mem = m.mem
      /\ c.err = "none" => s >= MinStackAddress
  BY CheckPushSame DEF InBounds
<1>3. Push(m, value) = x
  BY <1>2 DEF Push
<1> HIDE DEF c, s
<1>4. d \in Words /\ (s >= MinStackAddress => d >= MinStackAddress - 1)
  <2>1. d \in Words
    BY <1>1, MinusIsWord, SmallWords
  <2> QED
    BY <1>1, <2>1, SizesAssumption DEF Minus, Words
<1> HIDE DEF d, internal
<1>5. Sound(w) /\ (w.err = "none" => c.err = "none")
  BY <1>2, <1>4, WRegSound
<1>6. w.mem = m.mem /\ (w.err = "none" => w.regs[Stack] = d)
  BY <1>2, WRegSame
<1> HIDE DEF w
<1>7. /\ Sound(x)
      /\ x.regs = w.regs /\ (x.err = "none" => w.err = "none")
      /\ \A i \in Addresses : x.mem[i] # w.mem[i] => i = s /\ w.err = "none"
  <2>1. Sound(x)
    BY <1>1, <1>5, WMemSound DEF TypeOK, StorageTypeOK
  <2> QED
    BY <1>5, <2>1, WMemSame
<1> HIDE DEF x
<1>8. InBounds(x)
  BY <1>2, <1>5, <1>6, <1>7 DEF InBounds
<1>9. AtMostFull(x)
  BY <1>1, <1>2, <1>4, <1>5, <1>6, <1>7 DEF AtMostFull
<1> QED
  BY <1>3, <1>8, <1>9

\* Moving another register leaves the stack where it is.
LEMMA WRegInBounds ==
    ASSUME NEW m, InBounds(m), NEW reg, NEW value \in Words, NEW internal
    PROVE  /\ InBounds(WReg(m, reg, value, internal))
           /\ AtMostFull(m) /\ reg # Stack => AtMostFull(WReg(m, reg, value, internal))
BY WRegSound, WRegSame, Utility DEF InBounds, AtMostFull

\* prc pushes once.
LEMMA PrepareCallInBounds ==
    ASSUME TypeOK, NEW m, InBounds(m)
    PROVE  InBounds(PrepareCall(m)) /\ AtMostFull(PrepareCall(m))
<1> DEFINE p == Push(m, m.regs[CallFrame])
<1>1. InBounds(p) /\ AtMostFull(p)
  BY PushInBounds, SoundFields, Utility DEF InBounds
<1>2. CallFrame # Stack
  BY SizesAssumption DEF CallFrame, Stack
<1>3. PrepareCall(m) = WReg(p, CallFrame, p.regs[Stack], TRUE)
  BY DEF PrepareCall
<1> HIDE DEF p
<1>4. p.regs[Stack] \in Words
  BY <1>1, SoundFields, Utility DEF InBounds
<1> QED
  BY <1>1, <1>2, <1>3, <1>4, WRegInBounds

\* The second push of a call meets the same bound as the first.
LEMMA CallInBounds ==
    ASSUME TypeOK, NEW m, InBounds(m), NEW callee \in Words
    PROVE  InBounds(Call(m, callee)) /\ AtMostFull(Call(m, callee))
<1> DEFINE ret    == Push(m, m.regs[Instruction])
           saved  == Push(ret, ret.regs[CallFrame])
           framed == RReg(saved, Stack, FALSE)
           frame  == WReg(framed, CallFrame, framed.val, TRUE)
<1>1. InBounds(ret)
  BY PushInBounds, SoundFields, Utility DEF InBounds
<1>2. Call(m, callee) = WReg(frame, Instruction, callee, TRUE)
  BY DEF Call
<1> HIDE DEF ret
<1>3. InBounds(saved) /\ AtMostFull(saved)
  BY <1>1, PushInBounds, SoundFields, Utility DEF InBounds
<1> HIDE DEF saved
<1>4. InBounds(framed) /\ AtMostFull(framed)
  BY <1>3, RRegSound, RRegSame DEF InBounds, AtMostFull
<1> HIDE DEF framed
<1>5. CallFrame # Stack /\ Instruction # Stack /\ framed.val \in Words
  BY <1>4, SizesAssumption, SoundFields DEF CallFrame, Stack, Instruction, InBounds
<1>6. InBounds(frame) /\ AtMostFull(frame)
  BY <1>4, <1>5, WRegInBounds
<1> HIDE DEF frame
<1> QED
  BY <1>2, <1>5, <1>6, WRegInBounds
\* The command finds the memory as it is.
LEMMA FetchedInBounds ==
    ASSUME IInv
    PROVE  InBounds(Fetched)
<1>1. Fetched.mem = memory /\ Sound(Fetched)
  BY FetchedSound DEF Fetched
<1> QED
  BY <1>1 DEF InBounds

\* What PushesStayInBounds asks of a command.
PushBounds(op) ==
    /\ \A a \in Addresses : memory'[a] # memory[a] => a >= MinStackAddress
    /\ (status' = "running" /\ op # "CALL")
           => registers'[Stack] >= MinStackAddress - 1

\* A machine that was pushed to is committed.
LEMMA CommitInBounds ==
    ASSUME NEW m, InBounds(m), Commit(m), NEW op,
           op = "CALL" \/ AtMostFull(m)
    PROVE  PushBounds(op)
<1>1. registers' = m.regs /\ memory' = m.mem
      /\ (status' = "running" => m.err = "none")
  BY DEF Commit, Finish
<1> QED
  BY <1>1 DEF PushBounds, InBounds, AtMostFull

\* Each of the commands that push.
LEMMA StackCommandInBounds ==
    ASSUME IInv, StackCommand, NEW op \in {"PUSH", "PRC", "CALL", "CALLI"}, Runs(op)
    PROVE  PushBounds(op)
<1> DEFINE c == Command
<1>1. InBounds(Fetched) /\ TypeOK
  BY FetchedInBounds DEF IInv
<1>2. c \in Commands /\ c.op = op /\ c.arg \in Words
  BY <1>1, RunsFacts
<1>3. \A other : Runs(other) => other = op
  BY DEF Runs
<1> HIDE DEF c
<1>4. CASE PUSH
  <2> DEFINE x == LHSWord(Fetched, c)
             v == Plus(x.val, c.arg)
  <2>1. Commit(Push(x, v))
    BY <1>4 DEF PUSH, c
  <2>2. InBounds(x)
    BY <1>1, RRegSound, RRegSame DEF LHSWord, InBounds
  <2> HIDE DEF x
  <2>3. v \in Words
    BY <1>2, <2>2, SoundFields, PlusIsWord DEF InBounds
  <2> HIDE DEF v
  <2>4. InBounds(Push(x, v)) /\ AtMostFull(Push(x, v))
    BY <1>1, <2>2, <2>3, PushInBounds
  <2> QED
    BY <2>1, <2>4, CommitInBounds
<1>5. CASE PRC
  <2>1. InBounds(PrepareCall(Fetched)) /\ AtMostFull(PrepareCall(Fetched))
    BY <1>1, PrepareCallInBounds
  <2> QED
    BY <1>5, <2>1, CommitInBounds DEF PRC
<1>6. CASE CALLI
  <2>1. InBounds(Call(Fetched, c.arg)) /\ AtMostFull(Call(Fetched, c.arg))
    BY <1>1, <1>2, CallInBounds
  <2> QED
    BY <1>6, <2>1, CommitInBounds DEF CALLI, c
<1>7. CASE CALL
  <2> DEFINE x == RHSWord(Fetched, c)
             y == Call(x, x.val)
             r == x.regs[Instruction]
  <2>1. op = "CALL" /\ Commit(WReg(y, c.reg, r, FALSE))
    BY <1>3, <1>7 DEF CALL, c
  <2>2. InBounds(x)
    <3> DEFINE s == RReg(Fetched, c.src, FALSE)
    <3>1. Sound(x)
      BY <1>1, <1>2, RHSWordSound DEF InBounds
    <3>2. Sound(s) /\ s.mem = Fetched.mem
      BY <1>1, RRegSound, RRegSame DEF InBounds
    <3>3. x = [s EXCEPT !.val = Plus(s.val, c.arg)]
      BY DEF RHSWord
    <3> HIDE DEF s, x
    <3>4. x.mem = s.mem
      BY <3>2, <3>3 DEF Sound, Machines
    <3> QED
      BY <1>1, <3>1, <3>2, <3>4 DEF InBounds
  <2> HIDE DEF x
  <2>3. r \in Words /\ x.val \in Words
    BY <2>2, SoundFields, Utility DEF InBounds
  <2>4. InBounds(y)
    BY <1>1, <2>2, <2>3, CallInBounds
  <2> HIDE DEF y, r
  <2>5. InBounds(WReg(y, c.reg, r, FALSE))
    BY <2>3, <2>4, WRegInBounds
  <2> QED
    BY <2>1, <2>5, CommitInBounds
<1>8. CASE POP \/ RET
  BY <1>3, <1>8 DEF POP, RET
<1> QED
  BY <1>4, <1>5, <1>6, <1>7, <1>8 DEF StackCommand

\* A step that runs a command is none of the other steps.
LEMMA RunsExcludes ==
    ASSUME IInv, NEW op, Runs(op)
    PROVE  ~Execute /\ ~SignalArrives /\ ~ExecPointerOutOfMemory
<1>1. registers[Instruction] \in Words
  BY Utility DEF IInv, TypeOK, StorageTypeOK
<1> QED
  BY <1>1, SizesAssumption
  DEF Runs, Execute, SignalArrives, ExecPointerOutOfMemory, Words

\* No other command has the code of one that pushes.
LEMMA OnlyStackCommandsPush ==
    ASSUME IInv, Next, NEW op \in {"PUSH", "PRC", "CALL", "CALLI"}, Runs(op)
    PROVE  StackCommand
<1>1. \A other : Runs(other) => other = op
  BY DEF Runs
<1>2. ~SystemCommand
  BY <1>1 DEF SystemCommand, UnknownCommand, HALT, EXIT, ScanWord, SCANDOUBLE,
     PRINTINT, PRINTDOUBLE, PUTCHAR, BadSyscall
<1>3. ~WordCommand
  BY <1>1 DEF WordCommand, WordRR, WordRI, ShiftRR, ShiftRI, MUL, MULI, DIV,
     DIVI, NOT, CMP, CMPI, WordRROps, WordRIOps, ShiftRROps, ShiftRIOps
<1>4. ~DoubleCommand
  BY <1>1 DEF DoubleCommand, ITOD, DTOI, DoubleRR, DIVD, CMPD, DoubleOps
<1>5. ~JumpCommand
  BY <1>1 DEF JumpCommand, JMP, JumpIf, JumpFlag
<1>6. ~DataCommand
  BY <1>1 DEF DataCommand, LoadConstant, MOV, LOAD, LOAD2, STORE, STORE2,
     LOADR, LOADR2, STORER, STORER2
<1>7. ~Execute /\ ~SignalArrives /\ ~ExecPointerOutOfMemory
  BY RunsExcludes
<1> QED
  BY <1>2, <1>3, <1>4, <1>5, <1>6, <1>7 DEF Next, Step
-----------------------------------------------------------------------------
(***************************************************************************)
(* The theorems.                                                           *)
(***************************************************************************)
\* A step that runs a command keeps what is blocked for writing.
LEMMA StepKeepsBlocked ==
    ASSUME IInv, [Next]_vars, NEW op \in Ops, Runs(op)
    PROVE  UNCHANGED vars
             \/ \A r \in WriteBlockedRegisters \ InternalUse(op) :
                    registers'[r] = Fetched.regs[r]
<1>1. InternalUse(op) = Free /\ TypeOK
  BY DEF Runs, Free, IInv
<1>2. ~Execute /\ ~SignalArrives /\ ~ExecPointerOutOfMemory
  BY RunsExcludes
<1>3. CASE UNCHANGED vars
  BY <1>3
<1>4. CASE Step
  <2>1. CommandKeeps
    BY <1>1, <1>2, <1>4, SystemCommandKept, WordCommandKept, DoubleCommandKept,
       JumpCommandKept, StackCommandKept, DataCommandKept DEF Step
  <2> QED
    BY <1>1, <2>1 DEF CommandKeeps
<1> QED
  BY <1>2, <1>3, <1>4 DEF Next

\* No command changes a register blocked for writing, except those the jumps,
\* the stack and the call commands use internally, whether the command is done
\* or an error stopped it half way.
THEOREM BlockedRegistersStay == Spec => BlockedRegistersKept
<1>1. IInv /\ [Next]_vars
        => [ \A op \in Ops : Runs(op) =>
               \A r \in WriteBlockedRegisters \ InternalUse(op) :
                   registers'[r] = Fetched.regs[r] ]_vars
  BY StepKeepsBlocked
<1> QED
  BY <1>1, MachineInvariance, PTL DEF Spec, BlockedRegistersKept

\* No push, the second one of a call included, writes below the bound of the
\* stack, whatever the stack pointer was set to before.
THEOREM PushesBounded == Spec => PushesStayInBounds
<1>1. IInv /\ [Next]_vars
        => [ \A op \in {"PUSH", "PRC", "CALL", "CALLI"} : Runs(op) =>
               /\ \A a \in Addresses : memory'[a] # memory[a] => a >= MinStackAddress
               /\ (status' = "running" /\ op # "CALL")
                      => registers'[Stack] >= MinStackAddress - 1 ]_vars
  BY OnlyStackCommandsPush, StackCommandInBounds DEF PushBounds
<1> QED
  BY <1>1, MachineInvariance, PTL DEF Spec, PushesStayInBounds

\* The strictest combination of two configurations blocks a register, the code,
\* the constants or a cell of the stack if and only if one of the two does.
LEMMA MeetBlocksWhatEitherBlocks ==
    ASSUME TypeOK, config = Meet(base, given)
    PROVE  ConfigIsOfThisExecution
<1> DEFINE asked == {base, given}
<1>1. base \in ConfigType /\ given \in ConfigType /\ MemorySize \in Nat
  BY ConfigsAssumption, SizesAssumption DEF TypeOK, StorageTypeOK
<1>2. /\ config.readWrite = MeetAccess(base.readWrite, given.readWrite)
      /\ config.write = MeetAccess(base.write, given.write)
      /\ config.maxStack = IF base.maxStack <= given.maxStack THEN base.maxStack
                                                              ELSE given.maxStack
  BY DEF Meet
<1>3. ReadBlockedRegisters = UNION {c.readWrite.regs : c \in asked}
  BY <1>2 DEF ReadBlockedRegisters, MeetAccess
<1>4. WriteBlockedRegisters = UNION {c.write.regs \cup c.readWrite.regs : c \in asked}
  BY <1>2 DEF WriteBlockedRegisters, MeetAccess
<1>5. /\ config.readWrite.code <=> \E c \in asked : c.readWrite.code
      /\ CodeIsWriteBlocked <=> \E c \in asked : c.write.code \/ c.readWrite.code
      /\ config.readWrite.constants <=> \E c \in asked : c.readWrite.constants
      /\ config.write.constants <=> \E c \in asked : c.write.constants
  <2>1. /\ config.readWrite.code = (base.readWrite.code \/ given.readWrite.code)
        /\ config.write.code = (base.write.code \/ given.write.code)
        /\ config.readWrite.constants
             = (base.readWrite.constants \/ given.readWrite.constants)
        /\ config.write.constants = (base.write.constants \/ given.write.constants)
    BY <1>2 DEF MeetAccess
  <2> QED
    BY <2>1, Zenon DEF CodeIsWriteBlocked
<1>6. ASSUME NEW a \in Addresses
      PROVE  a < MinStackAddress <=> \E c \in asked : a < MemorySize - c.maxStack
  <2>1. base.maxStack \in Nat /\ given.maxStack \in Nat /\ a \in Nat
    BY <1>1 DEF ConfigType, Addresses
  <2> QED
    BY <1>1, <1>2, <2>1 DEF MinStackAddress
<1> QED
  BY <1>3, <1>4, <1>5, <1>6 DEF ConfigIsOfThisExecution

\* From the first execution on, the configuration in force is the strictest
\* combination of the computer's and the one the client passed last.
Combined == status # "idle" => config = Meet(base, given)

\* No step but the start of an execution touches any of the three.
LEMMA CombinedNext ==
    ASSUME Combined, [Next]_vars
    PROVE  Combined'
<1>1. CASE Execute
  <2>1. PICK c \in Configs : given' = c /\ PrepareForExecution(Head(queue), c)
    BY <1>1 DEF Execute
  <2> QED
    BY <2>1 DEF PrepareForExecution, Combined
<1>2. CASE Step
  <2>1. /\ base' = base /\ config' = config /\ given' = given
        /\ status # "idle"
    BY <1>2, StepFinishes DEF ExecPointerOutOfMemory, Finish, storageVars
  <2> QED
    BY <2>1 DEF Combined
<1>3. CASE SignalArrives
  BY <1>3 DEF SignalArrives, storageVars, Combined
<1>4. CASE UNCHANGED vars
  BY <1>4 DEF vars, Combined
<1> QED
  BY <1>1, <1>2, <1>3, <1>4 DEF Next

\* However many programs an Executor runs, each is held to what its computer's
\* configuration or the one passed with it blocks, to all of that and to nothing
\* else: what an earlier execution was given is not in force any more.
THEOREM ConfigOfThisExecution == Spec => []ConfigIsOfThisExecution
<1>1. Init => Combined
  BY DEF Init, Combined
<1>2. Combined /\ [Next]_vars => Combined'
  BY CombinedNext
<1>3. IInv /\ Combined => ConfigIsOfThisExecution
  <2>1. CASE status = "idle"
    BY <2>1 DEF ConfigIsOfThisExecution
  <2>2. ASSUME IInv, Combined, status # "idle"
        PROVE  ConfigIsOfThisExecution
    BY <2>2, MeetBlocksWhatEitherBlocks DEF IInv, Combined
  <2> QED
    BY <2>1, <2>2
<1> QED
  BY <1>1, <1>2, <1>3, MachineInvariance, PTL DEF Spec
=============================================================================
