-------------------------- MODULE KarmaCallsProofs --------------------------
(***************************************************************************)
(* Proofs about the calling convention, for every size of the word and of  *)
(* the memory and every program that keeps it: the frames lie one below    *)
(* the other, and what a program sees of them is the stack of separate     *)
(* frames of CallStack.                                                    *)
(*                                                                         *)
(* First, what a push, a pop, a call and a return that succeed have done   *)
(* to the registers and the memory; then the chain of the frames through   *)
(* the saved values of r13, step by step.                                  *)
(***************************************************************************)
EXTENDS KarmaCalls, KarmaProofs, SequenceTheorems, WellFoundedInduction

\* the cell above, and the cell below, in the arithmetic of words
Above(address) == Plus(address, 1)
Below(address) == Minus(address, 1)
-----------------------------------------------------------------------------
(***************************************************************************)
(* What an access that succeeds has done.                                  *)
(***************************************************************************)
\* A check that passes changes nothing.
LEMMA RequirePasses ==
    ASSUME NEW m, NEW condition, NEW kind, kind # "none",
           m \in Machines, Require(m, condition, kind).err = "none"
    PROVE  m.err = "none" /\ condition /\ Require(m, condition, kind) = m
BY DEF Require, Machines

\* A register that is read.
LEMMA RRegDone ==
    ASSUME NEW m \in Machines, NEW reg, NEW internal,
           RReg(m, reg, internal).err = "none"
    PROVE  /\ m.err = "none" /\ reg \in Registers
           /\ RReg(m, reg, internal) = [m EXCEPT !.val = m.regs[reg]]
<1> DEFINE r == Require(m, reg \in Registers, "register")
           c == Require(r, internal \/ reg \notin ReadBlockedRegisters, "register")
<1>1. RReg(m, reg, internal)
        = IF c.err = "none" THEN [c EXCEPT !.val = c.regs[reg]] ELSE c
  BY DEF RReg
<1>2. r \in Machines
  BY ErrorsKinds DEF Require, Machines
<1> HIDE DEF r
<1>3. c.err = "none" => r.err = "none" /\ c = r
  BY <1>2, RequirePasses
<1>4. c.err = "none"
  <2> HIDE DEF c
  <2> QED
    BY <1>1
<1>5. r.err = "none" => m.err = "none" /\ reg \in Registers /\ r = m
  BY RequirePasses DEF r
<1> HIDE DEF c
<1> QED
  BY <1>1, <1>3, <1>4, <1>5

\* A register that is written.
LEMMA WRegDone ==
    ASSUME NEW m \in Machines, NEW reg, NEW value, NEW internal,
           WReg(m, reg, value, internal).err = "none"
    PROVE  /\ m.err = "none" /\ reg \in Registers
           /\ WReg(m, reg, value, internal) = [m EXCEPT !.regs[reg] = value]
<1> DEFINE r == Require(m, reg \in Registers, "register")
           c == Require(r, internal \/ reg \notin WriteBlockedRegisters, "register")
<1>1. WReg(m, reg, value, internal)
        = IF c.err = "none" THEN [c EXCEPT !.regs[reg] = value] ELSE c
  BY DEF WReg
<1>2. r \in Machines
  BY ErrorsKinds DEF Require, Machines
<1> HIDE DEF r
<1>3. c.err = "none" => r.err = "none" /\ c = r
  BY <1>2, RequirePasses
<1>4. c.err = "none"
  <2> HIDE DEF c
  <2> QED
    BY <1>1
<1>5. r.err = "none" => m.err = "none" /\ reg \in Registers /\ r = m
  BY RequirePasses DEF r
<1> HIDE DEF c
<1> QED
  BY <1>1, <1>3, <1>4, <1>5

\* A register that is written by internal use.
LEMMA InternalWRegDone ==
    ASSUME NEW m \in Machines, NEW reg, NEW value,
           WReg(m, reg, value, TRUE).err = "none"
    PROVE  /\ m.err = "none" /\ reg \in Registers
           /\ WReg(m, reg, value, TRUE) = [m EXCEPT !.regs[reg] = value]
<1> DEFINE internal == TRUE
<1>1. WReg(m, reg, value, internal).err = "none"
  OBVIOUS
<1> HIDE DEF internal
<1>2. /\ m.err = "none" /\ reg \in Registers
      /\ WReg(m, reg, value, internal) = [m EXCEPT !.regs[reg] = value]
  BY <1>1, WRegDone
<1> QED
  BY <1>2 DEF internal

\* A cell that is read.
LEMMA RMemDone ==
    ASSUME NEW m \in Machines, NEW address, RMem(m, address).err = "none"
    PROVE  /\ m.err = "none" /\ address < MemorySize
           /\ RMem(m, address) = [m EXCEPT !.val = m.mem[address]]
<1> DEFINE a == Require(m, address < MemorySize, "address")
           b == Require(a, ~(config.readWrite.code /\ InCode(address)), "segment")
           c == Require(b, ~(config.readWrite.constants /\ InConstants(address)),
                        "segment")
<1>1. RMem(m, address)
        = IF c.err = "none" THEN [c EXCEPT !.val = c.mem[address]] ELSE c
  BY DEF RMem
<1>2. a \in Machines
  BY ErrorsKinds DEF Require, Machines
<1>3. a.err = "none" => m.err = "none" /\ address < MemorySize /\ a = m
  BY RequirePasses
<1> HIDE DEF a
<1>4. b \in Machines
  BY <1>2, ErrorsKinds DEF Require, Machines
<1>5. b.err = "none" => a.err = "none" /\ b = a
  BY <1>2, RequirePasses
<1> HIDE DEF b
<1>6. c.err = "none" => b.err = "none" /\ c = b
  BY <1>4, RequirePasses
<1> HIDE DEF c
<1>7. c.err = "none"
  BY <1>1
<1> QED
  BY <1>1, <1>3, <1>5, <1>6, <1>7

\* A cell that is written is not one of a program blocked for writing.
LEMMA WMemDone ==
    ASSUME NEW m \in Machines, NEW address \in Int, NEW value,
           StorageTypeOK, WMem(m, address, value).err = "none"
    PROVE  /\ m.err = "none" /\ address < MemorySize
           /\ CodeIsWriteBlocked => address >= ConstantsEnd
           /\ WMem(m, address, value) = [m EXCEPT !.mem[address] = value]
<1> DEFINE a == Require(m, address < MemorySize, "address")
           b == Require(a, ~(CodeIsWriteBlocked /\ InCode(address)), "segment")
           c == Require(b, ~(CodeIsWriteBlocked /\ InConstants(address)),
                        "segment")
<1>1. WMem(m, address, value)
        = IF c.err = "none" THEN [c EXCEPT !.mem[address] = value] ELSE c
  BY DEF WMem
<1>2. a \in Machines
  BY ErrorsKinds DEF Require, Machines
<1>3. a.err = "none" => m.err = "none" /\ address < MemorySize /\ a = m
  BY RequirePasses
<1> HIDE DEF a
<1>4. b \in Machines
  BY <1>2, ErrorsKinds DEF Require, Machines
<1>5. b.err = "none" => /\ a.err = "none" /\ b = a
                        /\ ~(CodeIsWriteBlocked /\ InCode(address))
  BY <1>2, RequirePasses
<1> HIDE DEF b
<1>6. c.err = "none" => /\ b.err = "none" /\ c = b
                        /\ ~(CodeIsWriteBlocked /\ InConstants(address))
  BY <1>4, RequirePasses
<1> HIDE DEF c
<1>7. c.err = "none"
  BY <1>1
<1>8. CodeIsWriteBlocked => address >= ConstantsEnd
  <2>1. CodeEnd \in Nat /\ ConstantsEnd \in Nat
    BY DEF StorageTypeOK, ProgramType, CodeEnd, ConstantsEnd
  <2> QED
    BY <1>5, <1>6, <1>7, <2>1 DEF InCode, InConstants
<1> QED
  BY <1>1, <1>3, <1>5, <1>6, <1>7, <1>8
-----------------------------------------------------------------------------
(***************************************************************************)
(* What an operation that succeeds has done.                               *)
(***************************************************************************)
\* A push: the value is in the cell r14 pointed to, which the configuration
\* lets the stack have.
LEMMA PushDone ==
    ASSUME NEW m, Sound(m), NEW value \in Words, TypeOK,
           Push(m, value).err = "none"
    PROVE  LET s == m.regs[Stack] IN
           /\ m.err = "none"
           /\ s \in Addresses
           /\ CodeIsWriteBlocked => s >= ConstantsEnd
           /\ Push(m, value) = [m EXCEPT !.regs[Stack] = Below(s),
                                         !.mem[s] = value]
<1> DEFINE s == m.regs[Stack]
           a == Require(m, s <= MemorySize, "address")
           c == CheckPushAllowed(m)
           t == Below(c.regs[Stack])
           d == WReg(c, Stack, t, TRUE)
<1>1. Push(m, value) = WMem(d, c.regs[Stack], value)
  BY DEF Push, Below
<1>2. m \in Machines /\ s \in Words
  BY SoundFields, Utility DEF Sound
<1>3. Sound(c) /\ c.regs[Stack] \in Words
  BY CheckPushSound, SoundFields, Utility
<1>4. c.err = "none" => m.err = "none" /\ c = m
  <2>1. a \in Machines
    BY <1>2, ErrorsKinds DEF Require, Machines
  <2>2. a.err = "none" => m.err = "none" /\ a = m
    BY <1>2, RequirePasses
  <2> HIDE DEF a
  <2>3. c = Require(a, s >= MinStackAddress, "stack")
    BY DEF CheckPushAllowed, a
  <2>4. Require(a, s >= MinStackAddress, "stack").err = "none"
          => a.err = "none" /\ Require(a, s >= MinStackAddress, "stack") = a
    BY <2>1, RequirePasses
  <2> QED
    BY <2>2, <2>3, <2>4
<1> HIDE DEF c
<1>5. t \in Words
  BY <1>3, MinusIsWord, SmallWords DEF Below
<1> HIDE DEF t
<1>6. Sound(d) /\ (d.err = "none" => c.err = "none")
  BY <1>3, <1>5, WRegSound
<1>7. d.err = "none" => d = [c EXCEPT !.regs[Stack] = t]
  BY <1>3, InternalWRegDone, ZenonT(40) DEF Sound
<1> HIDE DEF d
<1>8. c.regs[Stack] \in Int
  BY <1>3 DEF Words
<1>9. /\ d.err = "none" /\ c.regs[Stack] < MemorySize
      /\ CodeIsWriteBlocked => c.regs[Stack] >= ConstantsEnd
      /\ WMem(d, c.regs[Stack], value) = [d EXCEPT !.mem[c.regs[Stack]] = value]
  BY <1>1, <1>6, <1>8, WMemDone DEF Sound, TypeOK
<1>10. c = m
  BY <1>4, <1>6, <1>9
<1>11. s \in Addresses
  BY <1>2, <1>9, <1>10, SizesAssumption DEF Words, Addresses
<1> QED
  BY <1>1, <1>2, <1>4, <1>6, <1>7, <1>9, <1>10, <1>11 DEF Machines, t

\* the machine after a pop to recv
Popped(m, recv, mod) ==
    [m EXCEPT !.regs = [[m.regs EXCEPT ![Stack] = Above(m.regs[Stack])]
                          EXCEPT ![recv] = Plus(m.mem[Above(m.regs[Stack])], mod)],
              !.val = m.mem[Above(m.regs[Stack])]]

\* A pop: the receiver holds the value of the cell above the one r14 pointed
\* to, and r14 points to that cell unless it is the receiver.
LEMMA PopDone ==
    ASSUME NEW m, Sound(m), NEW recv, NEW mod \in Words, NEW internal
    PROVE  Pop(m, recv, mod, internal).err = "none"
             => /\ m.err = "none"
                /\ Above(m.regs[Stack]) \in Addresses /\ recv \in Registers
                /\ Pop(m, recv, mod, internal) = Popped(m, recv, mod)
<1> SUFFICES ASSUME Pop(m, recv, mod, internal).err = "none"
             PROVE  /\ m.err = "none"
                    /\ Above(m.regs[Stack]) \in Addresses /\ recv \in Registers
                    /\ Pop(m, recv, mod, internal) = Popped(m, recv, mod)
  OBVIOUS
<1> DEFINE u  == Above(m.regs[Stack])
           up == WReg(m, Stack, u, TRUE)
           x  == RMem(up, up.regs[Stack])
<1>1. u \in Words /\ m \in Machines
  BY SoundFields, Utility, PlusIsWord, SmallWords DEF Sound, Above
<1>2. Pop(m, recv, mod, internal) = WReg(x, recv, Plus(x.val, mod), internal)
  BY DEF Pop, Above
<1> HIDE DEF u
<1>3. Sound(up) /\ (up.err = "none" => m.err = "none")
  BY <1>1, WRegSound
<1>4. up.err = "none" => up = [m EXCEPT !.regs[Stack] = u]
  BY <1>1, InternalWRegDone, ZenonT(40)
<1> HIDE DEF up
<1>5. Sound(x)
  BY <1>3, SoundFields, Utility, RMemSound
<1>6. x.err = "none" => /\ up.err = "none" /\ up.regs[Stack] < MemorySize
                        /\ x = [up EXCEPT !.val = up.mem[up.regs[Stack]]]
  BY <1>3, RMemDone DEF Sound
<1> HIDE DEF x
<1>7. /\ x.err = "none" /\ recv \in Registers
      /\ WReg(x, recv, Plus(x.val, mod), internal)
           = [x EXCEPT !.regs[recv] = Plus(x.val, mod)]
  <2>1. x \in Machines /\ WReg(x, recv, Plus(x.val, mod), internal).err = "none"
    BY <1>2, <1>5 DEF Sound
  <2> QED
    BY <2>1, WRegDone
<1>8. up.regs[Stack] = u
  BY <1>1, <1>4, <1>6, <1>7, Utility DEF Machines
<1>9. u \in Addresses
  BY <1>1, <1>6, <1>7, <1>8, SizesAssumption DEF Words, Addresses
<1>10. /\ up = [m EXCEPT !.regs[Stack] = u] /\ m.err = "none"
       /\ x = [up EXCEPT !.val = up.mem[u]]
  BY <1>3, <1>4, <1>6, <1>7, <1>8
<1>11. x = [m EXCEPT !.regs = [m.regs EXCEPT ![Stack] = u], !.val = m.mem[u]]
  BY <1>1, <1>10 DEF Machines
<1>12. x.val = m.mem[u] /\ x.regs = [m.regs EXCEPT ![Stack] = u]
  BY <1>1, <1>11 DEF Machines
<1>13. [x EXCEPT !.regs[recv] = Plus(x.val, mod)]
         = [m EXCEPT !.regs = [[m.regs EXCEPT ![Stack] = u]
                                 EXCEPT ![recv] = Plus(m.mem[u], mod)],
                     !.val = m.mem[u]]
  BY <1>1, <1>11, <1>12 DEF Machines
<1> QED
  BY <1>2, <1>7, <1>9, <1>10, <1>13 DEF u, Popped

\* A pop for internal use that adds nothing.
LEMMA InternalPopDone ==
    ASSUME NEW m, Sound(m), NEW recv
    PROVE  /\ Sound(Pop(m, recv, 0, TRUE))
           /\ Pop(m, recv, 0, TRUE).err = "none"
                => /\ m.err = "none" /\ Above(m.regs[Stack]) \in Addresses
                   /\ Pop(m, recv, 0, TRUE) = Popped(m, recv, 0)
<1> DEFINE yes == TRUE
           zero == 0
<1>1. zero \in Words
  BY SmallWords
<1> HIDE DEF yes, zero
<1>2. /\ Sound(Pop(m, recv, zero, yes))
      /\ Pop(m, recv, zero, yes).err = "none"
           => /\ m.err = "none" /\ Above(m.regs[Stack]) \in Addresses
              /\ Pop(m, recv, zero, yes) = Popped(m, recv, zero)
  BY <1>1, PopSound, PopDone
<1> QED
  BY <1>2 DEF yes, zero

\* The fields of the machine after a pop to a register.
LEMMA PoppedFields ==
    ASSUME NEW m, Sound(m), NEW recv
    PROVE  /\ Popped(m, recv, 0).mem = m.mem
           /\ Popped(m, recv, 0).regs
                = [[m.regs EXCEPT ![Stack] = Above(m.regs[Stack])]
                     EXCEPT ![recv] = Plus(m.mem[Above(m.regs[Stack])], 0)]
BY DEF Popped, Sound, Machines

\* Two registers are one register apart, and neither is r15.
LEMMA SpecialRegisters ==
    /\ CallFrame \in Registers /\ Stack \in Registers /\ Instruction \in Registers
    /\ CallFrame # Stack /\ CallFrame # Instruction /\ Stack # Instruction
BY SizesAssumption DEF CallFrame, Stack, Instruction, Registers

\* A call pushes the return address and r13, and opens its frame below them.
LEMMA CallDone ==
    ASSUME NEW m, Sound(m), NEW callee \in Words, TypeOK,
           Call(m, callee).err = "none"
    PROVE  LET s == m.regs[Stack]
               t == Below(s)
               b == Below(t)
           IN  /\ m.err = "none"
               /\ s \in Addresses /\ t \in Addresses
               /\ CodeIsWriteBlocked => s >= ConstantsEnd /\ t >= ConstantsEnd
               /\ Call(m, callee).mem = [m.mem EXCEPT ![s] = m.regs[Instruction],
                                                      ![t] = m.regs[CallFrame]]
               /\ Call(m, callee).regs = [m.regs EXCEPT ![Stack] = b, ![CallFrame] = b,
                                                        ![Instruction] = callee]
<1> DEFINE s == m.regs[Stack]
           t == Below(s)
           b == Below(t)
           back == m.regs[Instruction]
           ret    == Push(m, back)
           saved  == ret.regs[CallFrame]
           pushed == Push(ret, saved)
           framed == RReg(pushed, Stack, FALSE)
           top    == framed.val
           moved  == WReg(framed, CallFrame, top, TRUE)
<1>1. Call(m, callee) = WReg(moved, Instruction, callee, TRUE)
  BY DEF Call
<1>2. m \in Machines /\ m.regs \in [Registers -> Words] /\ s \in Words /\ back \in Words
  BY SoundFields, Utility DEF Sound
<1> HIDE DEF back
<1>3. Sound(ret)
  BY <1>2, PushSound
<1>4. ret.err = "none" => /\ m.err = "none" /\ s \in Addresses
                          /\ CodeIsWriteBlocked => s >= ConstantsEnd
                          /\ ret = [m EXCEPT !.regs[Stack] = t, !.mem[s] = back]
  BY <1>2, PushDone
<1> HIDE DEF ret
<1>5. saved \in Words
  BY <1>3, SoundFields, Utility
<1> HIDE DEF saved
<1>6. Sound(pushed)
  BY <1>3, <1>5, PushSound
<1>7. pushed.err = "none"
        => /\ ret.err = "none" /\ ret.regs[Stack] \in Addresses
           /\ CodeIsWriteBlocked => ret.regs[Stack] >= ConstantsEnd
           /\ pushed = [ret EXCEPT !.regs[Stack] = Below(ret.regs[Stack]),
                                   !.mem[ret.regs[Stack]] = saved]
  BY <1>3, <1>5, PushDone
<1> HIDE DEF pushed
<1>8. Sound(framed)
  BY <1>6, RRegSound
<1>9. framed.err = "none" => /\ pushed.err = "none"
                             /\ framed = [pushed EXCEPT !.val = pushed.regs[Stack]]
  <2> DEFINE no == FALSE
  <2>1. framed = RReg(pushed, Stack, no)
    OBVIOUS
  <2> HIDE DEF no, framed
  <2> QED
    BY <1>6, <2>1, RRegDone DEF Sound
<1> HIDE DEF framed
<1>10. Sound(moved)
  BY <1>8, SoundFields, WRegSound
<1> HIDE DEF top
<1>11. moved.err = "none" => /\ framed.err = "none"
                             /\ moved = [framed EXCEPT !.regs[CallFrame] = top]
  BY <1>8, InternalWRegDone, ZenonT(40) DEF Sound
<1> HIDE DEF moved
<1>12. /\ moved.err = "none"
       /\ Call(m, callee) = [moved EXCEPT !.regs[Instruction] = callee]
  <2>1. moved \in Machines /\ WReg(moved, Instruction, callee, TRUE).err = "none"
    BY <1>1, <1>10 DEF Sound
  <2> QED
    BY <1>1, <2>1, InternalWRegDone, ZenonT(40)
<1>13. /\ ret.err = "none" /\ pushed.err = "none" /\ framed.err = "none"
  BY <1>7, <1>9, <1>11, <1>12
<1>14. /\ ret.regs = [m.regs EXCEPT ![Stack] = t]
       /\ ret.mem = [m.mem EXCEPT ![s] = back]
  BY <1>2, <1>4, <1>13 DEF Machines
<1>15. ret.regs[Stack] = t /\ saved = m.regs[CallFrame]
  BY <1>2, <1>14, SpecialRegisters DEF saved
<1>16. /\ pushed.regs = [ret.regs EXCEPT ![Stack] = b]
       /\ pushed.mem = [ret.mem EXCEPT ![t] = saved]
       /\ t \in Addresses /\ (CodeIsWriteBlocked => t >= ConstantsEnd)
  <2> HIDE DEF t
  <2>1. ret \in Machines
    BY <1>3 DEF Sound
  <2> QED
    BY <2>1, <1>7, <1>13, <1>15 DEF Machines
<1>17. pushed.regs[Stack] = b
  <2> HIDE DEF b
  <2> QED
    BY <1>3, <1>16, SpecialRegisters, SoundFields
<1>18. /\ framed.regs = pushed.regs /\ framed.mem = pushed.mem /\ top = b
  <2> HIDE DEF b
  <2> QED
    BY <1>6, <1>9, <1>13, <1>17 DEF Sound, Machines, top
<1>19. /\ moved.regs = [pushed.regs EXCEPT ![CallFrame] = b] /\ moved.mem = pushed.mem
  <2> HIDE DEF b
  <2> QED
    BY <1>8, <1>11, <1>12, <1>18 DEF Sound, Machines
<1>20. /\ Call(m, callee).regs = [moved.regs EXCEPT ![Instruction] = callee]
       /\ Call(m, callee).mem = moved.mem
  BY <1>10, <1>12 DEF Sound, Machines
<1>21. Call(m, callee).mem = [m.mem EXCEPT ![s] = back, ![t] = m.regs[CallFrame]]
  <2> HIDE DEF t, s
  <2> QED
    BY <1>14, <1>15, <1>16, <1>19, <1>20
<1>22. Call(m, callee).regs = [m.regs EXCEPT ![Stack] = b, ![CallFrame] = b,
                                           ![Instruction] = callee]
  <2> HIDE DEF b, t
  <2>1. pushed.regs = [m.regs EXCEPT ![Stack] = b]
    BY <1>2, <1>14, <1>16, SpecialRegisters
  <2> QED
    BY <2>1, <1>19, <1>20
<1> QED
  BY <1>4, <1>13, <1>16, <1>21, <1>22 DEF back

\* A return drops the locals, restores r13 and r15, drops the arguments and
\* restores the r13 the call was prepared with.
LEMMA ReturnDone ==
    ASSUME NEW m, Sound(m), Return(m).err = "none"
    PROVE  LET u == Above(m.regs[CallFrame])
               v == Above(u)
               g == Plus(m.mem[u], 0)
               w == Above(g)
           IN  /\ m.err = "none"
               /\ u \in Addresses /\ v \in Addresses /\ w \in Addresses
               /\ Return(m).mem = m.mem
               /\ Return(m).regs = [m.regs EXCEPT ![Stack] = w,
                                                  ![CallFrame] = Plus(m.mem[w], 0),
                                                  ![Instruction] = Plus(m.mem[v], 0)]
<1> DEFINE f == m.regs[CallFrame]
           u == Above(f)
           v == Above(u)
           g == Plus(m.mem[u], 0)
           w == Above(g)
           locals == WReg(m, Stack, f, TRUE)
           frame  == Pop(locals, CallFrame, 0, TRUE)
           back   == Pop(frame, Instruction, 0, TRUE)
           args   == WReg(back, Stack, back.regs[CallFrame], TRUE)
<1>1. Return(m) = Pop(args, CallFrame, 0, TRUE)
  BY DEF Return
<1>2. m \in Machines /\ m.regs \in [Registers -> Words] /\ f \in Words
  BY SoundFields, Utility DEF Sound
<1>3. Sound(locals)
  BY <1>2, WRegSound
<1>4. locals.err = "none" => m.err = "none" /\ locals = [m EXCEPT !.regs[Stack] = f]
  <2> HIDE DEF f
  <2> QED
    BY <1>2, InternalWRegDone, ZenonT(40)
<1> HIDE DEF locals
<1>5. /\ Sound(frame)
      /\ frame.err = "none" => /\ locals.err = "none"
                               /\ Above(locals.regs[Stack]) \in Addresses
                               /\ frame = Popped(locals, CallFrame, 0)
  BY <1>3, InternalPopDone
<1> HIDE DEF frame
<1>6. /\ Sound(back)
      /\ back.err = "none" => /\ frame.err = "none"
                              /\ Above(frame.regs[Stack]) \in Addresses
                              /\ back = Popped(frame, Instruction, 0)
  BY <1>5, InternalPopDone
<1> HIDE DEF back
<1> DEFINE h == back.regs[CallFrame]
<1>7. h \in Words
  BY <1>6, SoundFields, SpecialRegisters
<1> HIDE DEF h
<1>8. Sound(args)
  <2>1. args = WReg(back, Stack, h, TRUE)
    BY DEF h
  <2> QED
    BY <1>6, <1>7, <2>1, WRegSound
<1>9. args.err = "none" => back.err = "none" /\ args = [back EXCEPT !.regs[Stack] = h]
  <2>1. args = WReg(back, Stack, h, TRUE) /\ back \in Machines
    BY <1>6 DEF h, Sound
  <2> HIDE DEF args
  <2> QED
    BY <2>1, InternalWRegDone, ZenonT(40)
<1> HIDE DEF args
<1>10. /\ args.err = "none"
       /\ Above(args.regs[Stack]) \in Addresses
       /\ Return(m) = Popped(args, CallFrame, 0)
  BY <1>1, <1>8, InternalPopDone
<1>11. /\ m.err = "none" /\ locals.err = "none" /\ frame.err = "none"
       /\ back.err = "none"
  BY <1>4, <1>5, <1>6, <1>9, <1>10
<1>12. locals.regs = [m.regs EXCEPT ![Stack] = f] /\ locals.mem = m.mem
  BY <1>2, <1>4, <1>11 DEF Machines
<1>13. u = Above(locals.regs[Stack])
  <2> HIDE DEF f
  <2> QED
    BY <1>2, <1>12, SpecialRegisters
<1>14. /\ frame.mem = m.mem
       /\ frame.regs = [locals.regs EXCEPT ![Stack] = u, ![CallFrame] = g]
  <2> HIDE DEF u
  <2> QED
    <3>1. frame = Popped(locals, CallFrame, 0)
      BY <1>5, <1>11
    <3>2. /\ Popped(locals, CallFrame, 0).mem = locals.mem
          /\ Popped(locals, CallFrame, 0).regs
               = [[locals.regs EXCEPT ![Stack] = Above(locals.regs[Stack])]
                   EXCEPT ![CallFrame] = Plus(locals.mem[Above(locals.regs[Stack])], 0)]
      BY <1>3, PoppedFields
    <3> QED
      BY <3>1, <3>2, <1>12, <1>13
<1>15. frame.regs = [m.regs EXCEPT ![Stack] = u, ![CallFrame] = g]
  <2> HIDE DEF u, g, f
  <2> QED
    BY <1>2, <1>12, <1>14, SpecialRegisters
<1>16. v = Above(frame.regs[Stack])
  <2> HIDE DEF u, g
  <2> QED
    BY <1>2, <1>15, SpecialRegisters
<1>17. /\ back.mem = m.mem
       /\ back.regs = [frame.regs EXCEPT ![Stack] = v, ![Instruction] = Plus(m.mem[v], 0)]
  <2> HIDE DEF v
  <2> QED
    <3>1. back = Popped(frame, Instruction, 0)
      BY <1>6, <1>11
    <3>2. /\ Popped(frame, Instruction, 0).mem = frame.mem
          /\ Popped(frame, Instruction, 0).regs
               = [[frame.regs EXCEPT ![Stack] = Above(frame.regs[Stack])]
                   EXCEPT ![Instruction] = Plus(frame.mem[Above(frame.regs[Stack])], 0)]
      BY <1>5, PoppedFields
    <3> QED
      BY <3>1, <3>2, <1>14, <1>16
<1>18. back.regs = [m.regs EXCEPT ![Stack] = v, ![CallFrame] = g,
                                  ![Instruction] = Plus(m.mem[v], 0)]
  <2> HIDE DEF u, g, v
  <2> QED
    BY <1>2, <1>15, <1>17, SpecialRegisters
<1>19. h = g
  <2> HIDE DEF g, v
  <2> QED
    BY <1>2, <1>18, SpecialRegisters DEF h
<1>20. /\ args.mem = m.mem /\ args.regs = [back.regs EXCEPT ![Stack] = g]
  <2> HIDE DEF g
  <2> QED
    BY <1>6, <1>9, <1>10, <1>17, <1>19 DEF Sound, Machines
<1>21. w = Above(args.regs[Stack])
  <2> HIDE DEF g
  <2>1. back.regs \in [Registers -> Words]
    BY <1>6, SoundFields
  <2> QED
    BY <2>1, <1>20, SpecialRegisters
<1>22. /\ Return(m).mem = m.mem
       /\ Return(m).regs = [args.regs EXCEPT ![Stack] = w,
                                             ![CallFrame] = Plus(m.mem[w], 0)]
  <2> HIDE DEF w
  <2> QED
    <3>1. /\ Popped(args, CallFrame, 0).mem = args.mem
          /\ Popped(args, CallFrame, 0).regs
               = [[args.regs EXCEPT ![Stack] = Above(args.regs[Stack])]
                   EXCEPT ![CallFrame] = Plus(args.mem[Above(args.regs[Stack])], 0)]
      BY <1>8, PoppedFields
    <3> QED
      BY <3>1, <1>10, <1>20, <1>21
<1>23. Return(m).regs = [m.regs EXCEPT ![Stack] = w, ![CallFrame] = Plus(m.mem[w], 0),
                                       ![Instruction] = Plus(m.mem[v], 0)]
  <2> HIDE DEF g, v, w
  <2> QED
    BY <1>2, <1>18, <1>20, <1>22, SpecialRegisters
<1>24. u \in Addresses /\ v \in Addresses /\ w \in Addresses
  BY <1>5, <1>6, <1>10, <1>11, <1>13, <1>16, <1>21
<1> QED
  BY <1>11, <1>22, <1>23, <1>24
-----------------------------------------------------------------------------
(***************************************************************************)
(* What a command that succeeds has done.                                  *)
(***************************************************************************)
\* Only r15 was changed before the command.
LEMMA FetchedFields ==
    ASSUME IInv
    PROVE  /\ Sound(Fetched) /\ Fetched.mem = memory
           /\ Fetched.regs = [registers EXCEPT ![Instruction] =
                                 Above(registers[Instruction])]
           /\ Fetched.regs[Stack] = registers[Stack]
           /\ Fetched.regs[CallFrame] = registers[CallFrame]
           /\ Fetched.regs[Instruction] = Above(registers[Instruction])
           /\ Above(registers[Instruction]) \in Words
<1>1. Sound(Fetched)
  BY FetchedSound
<1>2. /\ Fetched.mem = memory
      /\ Fetched.regs = [registers EXCEPT ![Instruction] = Above(registers[Instruction])]
  BY DEF Fetched, Above
<1>3. registers \in [Registers -> Words]
  BY DEF IInv, TypeOK, StorageTypeOK
<1>4. /\ Fetched.regs[Stack] = registers[Stack]
      /\ Fetched.regs[CallFrame] = registers[CallFrame]
      /\ Fetched.regs[Instruction] = Above(registers[Instruction])
  BY <1>2, <1>3, SpecialRegisters
<1>5. Fetched.regs[Instruction] \in Words
  BY <1>1, SoundFields, SpecialRegisters
<1> QED
  BY <1>1, <1>2, <1>4, <1>5

\* A command that goes on has not failed.
LEMMA CommitDone ==
    ASSUME NEW m, Commit(m), status' = "running"
    PROVE  /\ m.err = "none" /\ registers' = m.regs /\ memory' = m.mem
           /\ UNCHANGED <<base, config, program, queue>>
BY DEF Commit, Finish

\* reading an operand changes nothing but the value read
LEMMA OperandDone ==
    ASSUME NEW m, Sound(m), NEW c \in Commands
    PROVE  /\ Sound(LHSWord(m, c)) /\ Sound(RHSWord(m, c))
           /\ LHSWord(m, c).err = "none"
                => LHSWord(m, c).regs = m.regs /\ LHSWord(m, c).mem = m.mem
           /\ RHSWord(m, c).err = "none"
                => RHSWord(m, c).regs = m.regs /\ RHSWord(m, c).mem = m.mem
<1>1. Sound(LHSWord(m, c)) /\ Sound(RHSWord(m, c))
  BY LHSWordSound, RHSWordSound
<1> DEFINE no == FALSE
           x  == RReg(m, c.src, no)
           y  == RReg(m, c.reg, no)
<1>2. LHSWord(m, c) = y /\ RHSWord(m, c) = [x EXCEPT !.val = Plus(@, c.arg)]
  BY DEF LHSWord, RHSWord
<1>3. Sound(x) /\ Sound(y)
  <2> HIDE DEF no
  <2> QED
    BY RRegSound
<1> HIDE DEF no
<1>4. /\ x.err = "none" => x = [m EXCEPT !.val = m.regs[c.src]]
      /\ y.err = "none" => y = [m EXCEPT !.val = m.regs[c.reg]]
  BY RRegDone DEF Sound
<1> HIDE DEF x, y
<1> QED
  BY <1>1, <1>2, <1>3, <1>4 DEF Sound, Machines

\* push
LEMMA PushCommand ==
    ASSUME IInv, PUSH, status' = "running"
    PROVE  /\ registers[Stack] \in Addresses
           /\ CodeIsWriteBlocked => registers[Stack] >= ConstantsEnd
           /\ \E value \in Words : memory' = [memory EXCEPT ![registers[Stack]] = value]
           /\ registers' = [registers EXCEPT
                              ![Instruction] = Above(registers[Instruction]),
                              ![Stack] = Below(registers[Stack])]
           /\ UNCHANGED <<base, config, program, queue>>
<1> DEFINE x == LHSWord(Fetched, Command)
           v == Plus(x.val, Command.arg)
<1>1. Command \in Commands /\ Command.arg \in Words
  BY RunsFacts DEF PUSH, IInv
<1>2. /\ Sound(x)
      /\ x.err = "none" => x.regs = Fetched.regs /\ x.mem = Fetched.mem
  BY <1>1, OperandDone, FetchedFields
<1>3. Commit(Push(x, v))
  BY DEF PUSH
<1> HIDE DEF x
<1>4. v \in Words
  BY <1>1, <1>2, SoundFields, PlusIsWord
<1> HIDE DEF v
<1> DEFINE p == Push(x, v)
<1>5. /\ p.err = "none" /\ registers' = p.regs /\ memory' = p.mem
      /\ UNCHANGED <<base, config, program, queue>>
  <2> HIDE DEF p
  <2>1. Commit(p)
    BY <1>3 DEF p
  <2> QED
    BY <2>1, CommitDone
<1>6. /\ x.err = "none" /\ x.regs[Stack] \in Addresses
      /\ CodeIsWriteBlocked => x.regs[Stack] >= ConstantsEnd
      /\ p = [x EXCEPT !.regs[Stack] = Below(x.regs[Stack]), !.mem[x.regs[Stack]] = v]
  BY <1>2, <1>4, <1>5, PushDone DEF IInv
<1> HIDE DEF p
<1>7. x.regs = Fetched.regs /\ x.mem = memory /\ x.regs[Stack] = registers[Stack]
  BY <1>2, <1>6, FetchedFields
<1>8. /\ p.regs = [x.regs EXCEPT ![Stack] = Below(registers[Stack])]
      /\ p.mem = [memory EXCEPT ![registers[Stack]] = v]
  BY <1>2, <1>6, <1>7 DEF Sound, Machines
<1>9. registers' = [registers EXCEPT ![Instruction] = Above(registers[Instruction]),
                                     ![Stack] = Below(registers[Stack])]
  BY <1>5, <1>7, <1>8, FetchedFields
<1> QED
  BY <1>4, <1>5, <1>6, <1>7, <1>8, <1>9

\* pop to a register of the program's own
LEMMA PopCommand ==
    ASSUME IInv, POP, ReceivesElsewhere, status' = "running"
    PROVE  /\ Above(registers[Stack]) \in Addresses
           /\ memory' = memory
           /\ registers'[Stack] = Above(registers[Stack])
           /\ registers'[CallFrame] = registers[CallFrame]
           /\ registers'[Instruction] = Above(registers[Instruction])
           /\ UNCHANGED <<base, config, program, queue>>
<1> DEFINE recv == Command.reg
           mod == Command.arg
           no == FALSE
           p == Pop(Fetched, recv, mod, no)
<1>1. mod \in Words /\ recv \in Registers
  BY RunsFacts DEF POP, IInv
<1>2. Commit(p)
  BY DEF POP
<1> HIDE DEF no, mod, recv
<1>3. /\ p.err = "none" /\ registers' = p.regs /\ memory' = p.mem
      /\ UNCHANGED <<base, config, program, queue>>
  <2> HIDE DEF p
  <2> QED
    BY <1>2, CommitDone
<1>4. /\ Above(Fetched.regs[Stack]) \in Addresses
      /\ p = Popped(Fetched, recv, mod)
  BY <1>1, <1>3, PopDone, FetchedFields
<1> HIDE DEF p
<1>5. /\ p.mem = memory
      /\ p.regs = [[Fetched.regs EXCEPT ![Stack] = Above(registers[Stack])]
                     EXCEPT ![recv] = Plus(memory[Above(registers[Stack])], mod)]
  BY <1>4, FetchedFields DEF Popped, Sound, Machines
<1>6. recv # Stack /\ recv # CallFrame /\ recv # Instruction
  BY DEF ReceivesElsewhere, recv
<1>7. Fetched.regs \in [Registers -> Words]
  BY FetchedFields, SoundFields
<1> QED
  BY <1>3, <1>4, <1>5, <1>6, <1>7, FetchedFields, SpecialRegisters

\* prc
LEMMA PrepareCommand ==
    ASSUME IInv, PRC, status' = "running"
    PROVE  /\ registers[Stack] \in Addresses
           /\ CodeIsWriteBlocked => registers[Stack] >= ConstantsEnd
           /\ memory' = [memory EXCEPT ![registers[Stack]] = registers[CallFrame]]
           /\ registers'[Stack] = Below(registers[Stack])
           /\ registers'[CallFrame] = Below(registers[Stack])
           /\ registers'[Instruction] = Above(registers[Instruction])
           /\ UNCHANGED <<base, config, program, queue>>
<1> DEFINE v == Fetched.regs[CallFrame]
           p == Push(Fetched, v)
           top == p.regs[Stack]
           c == WReg(p, CallFrame, top, TRUE)
<1>1. v \in Words /\ v = registers[CallFrame] /\ Sound(Fetched)
  BY FetchedFields, SoundFields, SpecialRegisters
<1>2. Commit(c)
  BY DEF PRC, PrepareCall
<1> HIDE DEF v
<1>3. Sound(p)
  BY <1>1, PushSound DEF IInv
<1>4. p.err = "none"
        => /\ Fetched.regs[Stack] \in Addresses
           /\ CodeIsWriteBlocked => Fetched.regs[Stack] >= ConstantsEnd
           /\ p = [Fetched EXCEPT !.regs[Stack] = Below(Fetched.regs[Stack]),
                                  !.mem[Fetched.regs[Stack]] = v]
  BY <1>1, PushDone DEF IInv
<1> HIDE DEF p, top
<1>5. c.err = "none" => p.err = "none" /\ c = [p EXCEPT !.regs[CallFrame] = top]
  BY <1>3, InternalWRegDone, ZenonT(40) DEF Sound
<1> HIDE DEF c
<1>6. /\ c.err = "none" /\ registers' = c.regs /\ memory' = c.mem
      /\ UNCHANGED <<base, config, program, queue>>
  BY <1>2, CommitDone
<1>7. /\ p.regs = [Fetched.regs EXCEPT ![Stack] = Below(registers[Stack])]
      /\ p.mem = [memory EXCEPT ![registers[Stack]] = registers[CallFrame]]
  BY <1>1, <1>4, <1>5, <1>6, FetchedFields DEF Sound, Machines
<1>8. Fetched.regs \in [Registers -> Words] /\ p.regs \in [Registers -> Words]
  BY <1>1, <1>3, SoundFields
<1>9. top = Below(registers[Stack])
  BY <1>7, <1>8, SpecialRegisters DEF top
<1>10. /\ c.regs = [p.regs EXCEPT ![CallFrame] = top] /\ c.mem = p.mem
  BY <1>3, <1>5, <1>6 DEF Sound, Machines
<1> QED
  BY <1>4, <1>5, <1>6, <1>7, <1>8, <1>9, <1>10, FetchedFields, SpecialRegisters

\* call or calli, the former to a register of the program's own
LEMMA CallCommand ==
    ASSUME IInv, (CALL /\ ReceivesElsewhere) \/ CALLI, status' = "running"
    PROVE  LET s == registers[Stack]
               t == Below(s)
               b == Below(t)
           IN  /\ s \in Addresses /\ t \in Addresses
               /\ CodeIsWriteBlocked => s >= ConstantsEnd /\ t >= ConstantsEnd
               /\ memory' = [memory EXCEPT ![s] = Above(registers[Instruction]),
                                           ![t] = registers[CallFrame]]
               /\ registers'[Stack] = b /\ registers'[CallFrame] = b
               /\ UNCHANGED <<base, config, program, queue>>
<1> DEFINE s == registers[Stack]
           t == Below(s)
           b == Below(t)
           f == registers[CallFrame]
           i == Above(registers[Instruction])
           Called(x, callee) ==
               /\ x.err = "none" /\ s \in Addresses /\ t \in Addresses
               /\ CodeIsWriteBlocked => s >= ConstantsEnd /\ t >= ConstantsEnd
               /\ Call(x, callee).mem = [memory EXCEPT ![s] = i, ![t] = f]
               /\ Call(x, callee).regs = [Fetched.regs EXCEPT ![Stack] = b,
                                            ![CallFrame] = b, ![Instruction] = callee]
<1>1. ASSUME NEW x, Sound(x), NEW callee \in Words,
             x.err = "none" => x.regs = Fetched.regs /\ x.mem = Fetched.mem,
             Call(x, callee).err = "none"
      PROVE  Called(x, callee)
  <2>1. /\ x.err = "none"
        /\ x.regs[Stack] \in Addresses /\ Below(x.regs[Stack]) \in Addresses
        /\ CodeIsWriteBlocked => /\ x.regs[Stack] >= ConstantsEnd
                                 /\ Below(x.regs[Stack]) >= ConstantsEnd
        /\ Call(x, callee).mem = [x.mem EXCEPT ![x.regs[Stack]] = x.regs[Instruction],
                                    ![Below(x.regs[Stack])] = x.regs[CallFrame]]
        /\ Call(x, callee).regs = [x.regs EXCEPT
                                     ![Stack] = Below(Below(x.regs[Stack])),
                                     ![CallFrame] = Below(Below(x.regs[Stack])),
                                     ![Instruction] = callee]
    BY <1>1, CallDone DEF IInv
  <2>2. /\ x.regs = Fetched.regs /\ x.mem = memory /\ x.regs[Stack] = s
        /\ x.regs[CallFrame] = f /\ x.regs[Instruction] = i
    BY <1>1, <2>1, FetchedFields
  <2> QED
    BY <2>1, <2>2
<1>2. Fetched.regs \in [Registers -> Words]
  BY FetchedFields, SoundFields
<1>3. CASE CALLI
  <2> DEFINE callee == Command.arg
             c == Call(Fetched, callee)
  <2>1. callee \in Words
    BY <1>3, RunsFacts DEF CALLI, IInv
  <2>2. Commit(c)
    BY <1>3 DEF CALLI
  <2> HIDE DEF callee
  <2>3. /\ c.err = "none" /\ registers' = c.regs /\ memory' = c.mem
        /\ UNCHANGED <<base, config, program, queue>>
    <3> HIDE DEF c
    <3> QED
      BY <2>2, CommitDone
  <2>4. Called(Fetched, callee)
    <3> HIDE DEF Called
    <3> QED
      BY <1>1, <2>1, <2>3, FetchedFields
  <2> HIDE DEF c, b, t
  <2>5. c.regs[Stack] = b /\ c.regs[CallFrame] = b
    BY <1>2, <2>4, SpecialRegisters DEF c
  <2> QED
    BY <2>3, <2>4, <2>5 DEF c, b, t
<1>4. CASE CALL /\ ReceivesElsewhere
  <2> DEFINE x == RHSWord(Fetched, Command)
             callee == x.val
             c == Call(x, callee)
             recv == Command.reg
             ret == x.regs[Instruction]
             no == FALSE
             w == WReg(c, recv, ret, no)
  <2>1. Command \in Commands
    BY <1>4, RunsFacts DEF CALL, IInv
  <2>2. /\ Sound(x)
        /\ x.err = "none" => x.regs = Fetched.regs /\ x.mem = Fetched.mem
    BY <2>1, OperandDone, FetchedFields
  <2>3. Commit(w)
    BY <1>4 DEF CALL
  <2> HIDE DEF x
  <2>4. callee \in Words /\ ret \in Words
    BY <2>2, SoundFields, SpecialRegisters
  <2> HIDE DEF callee, ret
  <2>5. Sound(c)
    BY <2>2, <2>4, CallSound DEF IInv
  <2> HIDE DEF recv, no, c
  <2>6. w.err = "none" => c.err = "none" /\ w = [c EXCEPT !.regs[recv] = ret]
    BY <2>5, WRegDone DEF Sound
  <2> HIDE DEF w
  <2>7. /\ w.err = "none" /\ registers' = w.regs /\ memory' = w.mem
        /\ UNCHANGED <<base, config, program, queue>>
    BY <2>3, CommitDone
  <2>8. Called(x, callee)
    <3>1. Call(x, callee).err = "none"
      BY <2>6, <2>7 DEF c
    <3> HIDE DEF Called
    <3> QED
      BY <1>1, <2>2, <2>4, <3>1
  <2>9. /\ w.regs = [c.regs EXCEPT ![recv] = ret] /\ w.mem = c.mem
    BY <2>5, <2>6, <2>7 DEF Sound, Machines
  <2>10. recv # Stack /\ recv # CallFrame
    BY <1>4 DEF ReceivesElsewhere, recv
  <2> HIDE DEF b, t
  <2>11. c.regs[Stack] = b /\ c.regs[CallFrame] = b
    BY <1>2, <2>8, SpecialRegisters DEF c
  <2>12. w.regs[Stack] = b /\ w.regs[CallFrame] = b
    <3>1. c.regs \in [Registers -> Words]
      BY <2>5, SoundFields
    <3> QED
      BY <3>1, <2>9, <2>10, <2>11, SpecialRegisters
  <2> QED
    BY <2>7, <2>8, <2>9, <2>12 DEF c, b, t
<1> QED
  BY <1>3, <1>4

\* A word stays as it is when nothing is added.
LEMMA PlusZero == \A w \in Words : Plus(w, 0) = w
BY SizesAssumption DEF Plus, Words

\* ret
LEMMA ReturnCommand ==
    ASSUME IInv, RET, status' = "running"
    PROVE  LET u == Above(registers[CallFrame])
               v == Above(u)
               w == Above(memory[u])
           IN  /\ u \in Addresses /\ v \in Addresses /\ w \in Addresses
               /\ memory' = memory
               /\ registers'[Stack] = w
               /\ registers'[CallFrame] = memory[w]
               /\ registers'[Instruction] = memory[v]
               /\ UNCHANGED <<base, config, program, queue>>
<1> DEFINE u == Above(registers[CallFrame])
           v == Above(u)
           g == Plus(memory[u], 0)
           w == Above(g)
           r == Return(Fetched)
<1>1. Commit(r)
  BY DEF RET
<1>2. /\ r.err = "none" /\ registers' = r.regs /\ memory' = r.mem
      /\ UNCHANGED <<base, config, program, queue>>
  <2> HIDE DEF r
  <2> QED
    BY <1>1, CommitDone
<1>3. Fetched.regs[CallFrame] = registers[CallFrame] /\ Fetched.mem = memory
  BY FetchedFields
<1>4. /\ u \in Addresses /\ v \in Addresses /\ w \in Addresses
      /\ r.mem = memory
      /\ r.regs = [Fetched.regs EXCEPT ![Stack] = w, ![CallFrame] = Plus(memory[w], 0),
                                       ![Instruction] = Plus(memory[v], 0)]
  BY <1>2, <1>3, ReturnDone, FetchedFields
<1>5. memory \in [Addresses -> Words]
  BY DEF IInv, TypeOK, StorageTypeOK
<1> HIDE DEF r, u, v
<1>6. /\ g = memory[u] /\ Plus(memory[v], 0) = memory[v]
      /\ Plus(memory[w], 0) = memory[w]
  <2> HIDE DEF w
  <2>1. memory[u] \in Words /\ memory[v] \in Words /\ memory[w] \in Words
    BY <1>4, <1>5
  <2> QED
    BY <2>1, PlusZero
<1>7. Fetched.regs \in [Registers -> Words]
  BY FetchedFields, SoundFields
<1>8. /\ registers'[Stack] = w /\ registers'[CallFrame] = memory[w]
      /\ registers'[Instruction] = memory[v]
  <2> HIDE DEF w
  <2> QED
    BY <1>2, <1>4, <1>6, <1>7, SpecialRegisters
<1> HIDE DEF g
<1>9. w = Above(memory[u])
  BY <1>6
<1> QED
  BY <1>2, <1>4, <1>8, <1>9 DEF u, v
-----------------------------------------------------------------------------
(***************************************************************************)
(* The chain of the frames.                                                *)
(***************************************************************************)
\* what lies between the values of a frame and those of the one it opened
Offset(i) == IF kinds[i] = "body" THEN 3 ELSE 2

\* b is where the frames start: the newest one at r13, and every frame saved
\* the r13 of the one before it; the values of each end above the next one.
Chain(b) ==
    LET n == Len(kinds)
    IN  /\ b \in [1 .. n -> Addresses]
        /\ b[n] = registers[CallFrame] /\ registers[Stack] <= b[n]
        /\ \A i, j \in 1 .. n : i <= j => b[j] <= b[i]
        /\ \A i \in 1 .. n - 1 :
              /\ b[i + 1] + Offset(i + 1) <= b[i] + 1
              /\ memory[b[i + 1] + 1] = b[i]

\* A callee has its arguments below it, and the main program is at the bottom.
KindsInv ==
    /\ kinds # <<>> /\ kinds[1] = "main"
    /\ \A i \in 2 .. Len(kinds) : kinds[i] = "body" => kinds[i - 1] = "args"

CallsInv ==
    /\ kinds \in Seq({"main", "args", "body"})
    /\ Live => /\ KindsInv
               /\ \E b : Chain(b)
               /\ CodeIsWriteBlocked => registers[Stack] + 1 >= ConstantsEnd

\* A set of natural numbers has a least one.
LEMMA Least ==
    ASSUME NEW S \in SUBSET Nat, S # {}
    PROVE  \E x \in S : \A y \in S : x <= y
<1> DEFINE less == {p \in Nat \X Nat : p[1] < p[2]}
<1>1. IsWellFoundedOn(less, Nat)
  BY NatLessThanWellFounded DEF OpToRel
<1>2. S \subseteq Nat
  OBVIOUS
<1> HIDE DEF less
<1>3. PICK x \in S : \A y \in S : ~(<<y, x>> \in less)
  BY <1>1, <1>2, WFMin, Zenon
<1>4. \A y \in S : x <= y
  <2> SUFFICES ASSUME NEW y \in S, y < x PROVE FALSE
    BY <1>2
  <2>1. <<y, x>> \in Nat \X Nat /\ <<y, x>>[1] < <<y, x>>[2]
    BY <1>2
  <2>2. <<y, x>> \in less
    BY <2>1 DEF less
  <2> QED
    BY <1>3, <2>2
<1> QED
  BY <1>4

\* Where the frames start, as the chain of the saved values of r13 gives it.
Follow(b) == [i \in 1 .. Len(kinds) |->
                 IF i = Len(kinds) THEN registers[CallFrame]
                                   ELSE Cell(b[i + 1] + 1)]

\* A chain is read back from the newest frame to the oldest in one way only.
LEMMA FollowsOnce ==
    ASSUME NEW b, NEW c, b = Follow(b), c = Follow(c), Len(kinds) \in Nat
    PROVE  b = c
<1> DEFINE n == Len(kinds)
           S == {k \in Nat : k < n /\ b[n - k] # c[n - k]}
<1>1. /\ DOMAIN b = 1 .. n /\ DOMAIN c = 1 .. n
      /\ b = [i \in 1 .. n |-> b[i]] /\ c = [i \in 1 .. n |-> c[i]]
  BY DEF Follow
<1>2. /\ n \in 1 .. n => b[n] = registers[CallFrame] /\ c[n] = registers[CallFrame]
      /\ \A i \in 1 .. n : i # n => /\ b[i] = Cell(b[i + 1] + 1)
                                    /\ c[i] = Cell(c[i + 1] + 1)
  BY DEF Follow
<1>3. S = {}
  <2> SUFFICES ASSUME S # {} PROVE FALSE
    OBVIOUS
  <2>1. PICK k \in S : \A y \in S : k <= y
    BY Least
  <2>2. k \in Nat /\ k < n /\ b[n - k] # c[n - k]
    BY <2>1
  <2>3. k # 0
    BY <1>2, <2>2
  <2>4. k - 1 \in Nat /\ k - 1 \notin S
    BY <2>1, <2>2, <2>3
  <2>5. b[n - (k - 1)] = c[n - (k - 1)]
    BY <2>2, <2>4
  <2>6. n - (k - 1) = (n - k) + 1 /\ n - k \in 1 .. n /\ n - k # n
    BY <2>2, <2>3
  <2> QED
    BY <1>2, <2>2, <2>5, <2>6
<1>4. \A i \in 1 .. n : b[i] = c[i]
  <2> SUFFICES ASSUME NEW i \in 1 .. n PROVE b[i] = c[i]
    OBVIOUS
  <2>1. n - i \in Nat /\ n - i < n /\ n - (n - i) = i
    OBVIOUS
  <2> QED
    BY <1>3, <2>1
<1> QED
  BY <1>1, <1>4

\* A chain follows the saved values.
LEMMA ChainFollows ==
    ASSUME NEW b, Chain(b), Len(kinds) \in Nat \ {0}
    PROVE  b = Follow(b)
<1> DEFINE n == Len(kinds)
<1>1. b \in [1 .. n -> Addresses] /\ b[n] = registers[CallFrame]
  BY DEF Chain
<1>2. \A i \in 1 .. n - 1 : /\ b[i + 1] + Offset(i + 1) <= b[i] + 1
                            /\ memory[b[i + 1] + 1] = b[i]
  BY DEF Chain
<1>3. ASSUME NEW i \in 1 .. n, i # n
      PROVE  b[i] = Cell(b[i + 1] + 1)
  <2>1. i \in 1 .. n - 1 /\ i + 1 \in 1 .. n
    BY <1>3
  <2>2. Offset(i + 1) \in {2, 3}
    BY DEF Offset
  <2>3. b[i] \in Addresses /\ b[i + 1] \in Addresses
    BY <1>1, <2>1
  <2>4. PICK x, y, o : x = b[i + 1] /\ y = b[i] /\ o = Offset(i + 1)
    OBVIOUS
  <2>5. x + o <= y + 1 /\ o \in {2, 3} /\ x \in Addresses /\ y \in Addresses
    BY <1>2, <2>1, <2>2, <2>3, <2>4
  <2>6. x + 1 \in Addresses
    BY <2>5, SizesAssumption DEF Addresses
  <2>7. b[i + 1] + 1 \in Addresses
    BY <2>4, <2>6
  <2> QED
    BY <1>2, <2>1, <2>7 DEF Cell
<1> QED
  BY <1>1, <1>3 DEF Follow

\* So the chain is where the frames start.
LEMMA BaseIsChain ==
    \A b : Chain(b) /\ Len(kinds) \in Nat \ {0} => FrameBase = b
<1> SUFFICES ASSUME NEW b, Chain(b), Len(kinds) \in Nat \ {0}
             PROVE  FrameBase = b
  OBVIOUS
<1>1. b = Follow(b)
  BY ChainFollows
<1>2. FrameBase = CHOOSE c : c = Follow(c)
  BY DEF FrameBase, Follow
<1>3. FrameBase = Follow(FrameBase)
  BY <1>1, <1>2
<1> QED
  BY <1>1, <1>3, FollowsOnce
-----------------------------------------------------------------------------
(***************************************************************************)
(* Every command of the convention keeps the chain.                        *)
(***************************************************************************)
\* Next to a cell is a cell, apart from below the first one.
LEMMA Neighbours ==
    /\ \A a \in Addresses : Below(a) < a \/ Below(a) \in Addresses
                              => a - 1 \in Addresses /\ Below(a) = a - 1
    /\ \A a \in Addresses : Above(a) = a + 1
BY SizesAssumption DEF Above, Below, Plus, Minus, Addresses

\* what the steps use of the frames that are open
FramesOpen(b) ==
    /\ kinds \in Seq({"main", "args", "body"}) /\ Len(kinds) \in Nat \ {0}
    /\ KindsInv /\ Chain(b)
    /\ b[Len(kinds)] \in Addresses
    /\ CodeIsWriteBlocked => registers[Stack] + 1 >= ConstantsEnd

\* The invariant, with the chain named.
LEMMA OpenFrames ==
    ASSUME CallsInv, Live
    PROVE  \E b : FramesOpen(b)
<1>1. PICK b : Chain(b)
  BY DEF CallsInv
<1>2. kinds \in Seq({"main", "args", "body"}) /\ KindsInv
  BY DEF CallsInv
<1>3. Len(kinds) \in Nat \ {0}
  BY <1>2 DEF KindsInv
<1>4. b[Len(kinds)] \in Addresses
  BY <1>1, <1>3 DEF Chain
<1> QED
  BY <1>1, <1>2, <1>3, <1>4 DEF FramesOpen, CallsInv

\* The words in the registers and the memory.
LEMMA Contents ==
    ASSUME IInv
    PROVE  /\ registers \in [Registers -> Words] /\ memory \in [Addresses -> Words]
           /\ registers[Stack] \in Nat /\ registers[CallFrame] \in Nat
           /\ ConstantsEnd \in Nat
<1>1. /\ registers \in [Registers -> Words] /\ memory \in [Addresses -> Words]
      /\ ConstantsEnd \in Nat
  BY DEF IInv, TypeOK, StorageTypeOK, ProgramType, ConstantsEnd, CodeEnd
<1>2. registers[Stack] \in Words /\ registers[CallFrame] \in Words
  BY <1>1, SpecialRegisters
<1> QED
  BY <1>1, <1>2, SizesAssumption DEF Words

\* What the configuration blocks is the same unless a program is loaded.
LEMMA SameProgram ==
    ASSUME UNCHANGED <<base, config, program, queue>>
    PROVE  ConstantsEnd' = ConstantsEnd /\ CodeIsWriteBlocked' = CodeIsWriteBlocked
BY DEF ConstantsEnd, CodeEnd, CodeIsWriteBlocked

\* A step that leaves r13 and the cells above r14 alone, and does not move r14
\* out of the newest frame, keeps the chain.
LEMMA SameFrames ==
    ASSUME IInv, NEW b, FramesOpen(b), UNCHANGED kinds,
           registers'[CallFrame] = registers[CallFrame],
           registers'[Stack] <= b[Len(kinds)],
           \A a \in Addresses : a > registers[Stack] => memory'[a] = memory[a]
    PROVE  KindsInv' /\ Chain(b)'
<1> DEFINE n == Len(kinds)
<1>1. /\ b \in [1 .. n -> Addresses]
      /\ b[n] = registers[CallFrame] /\ registers[Stack] <= b[n]
      /\ \A i, j \in 1 .. n : i <= j => b[j] <= b[i]
      /\ n \in Nat \ {0}
  BY DEF FramesOpen, Chain
<1>2. \A i \in 1 .. n - 1 :
          b[i + 1] + Offset(i + 1) <= b[i] + 1 /\ memory[b[i + 1] + 1] = b[i]
  BY DEF FramesOpen, Chain
<1>3. Len(kinds') = n /\ KindsInv' /\ \A i : Offset(i)' = Offset(i)
  BY DEF FramesOpen, KindsInv, Offset
<1>4. ASSUME NEW i \in 1 .. n - 1
      PROVE  memory'[b[i + 1] + 1] = b[i]
  <2>1. i \in 1 .. n /\ i + 1 \in 1 .. n /\ Offset(i + 1) \in {2, 3}
    BY <1>1 DEF Offset
  <2>2. b[i] \in Addresses /\ b[i + 1] \in Addresses /\ b[n] <= b[i + 1]
    BY <1>1, <2>1
  <2>3. registers[Stack] \in Nat
    BY Contents
  <2>4. b[i + 1] + 1 \in Addresses /\ b[i + 1] + 1 > registers[Stack]
    <3>1. b[n] \in Addresses
      BY <1>1
    <3>2. PICK x, y, o, r : /\ x = b[i + 1] /\ y = b[i] /\ o = Offset(i + 1)
                            /\ r = registers[Stack]
      OBVIOUS
    <3>3. /\ x + o <= y + 1 /\ r <= b[n] /\ b[n] <= x /\ r \in Nat /\ b[n] \in Addresses
          /\ o \in {2, 3} /\ x \in Addresses /\ y \in Addresses
      BY <1>1, <1>2, <2>1, <2>2, <2>3, <3>1, <3>2
    <3>4. x + 1 \in Addresses /\ x + 1 > r
      BY <3>3, SizesAssumption DEF Addresses
    <3> QED
      BY <3>2, <3>4
  <2> QED
    BY <1>2, <2>4
<1> QED
  BY <1>1, <1>2, <1>3, <1>4 DEF Chain

\* push: r14 moves down, and the cell it leaves belongs to no other frame.
LEMMA PushChain ==
    ASSUME IInv, NEW b, FramesOpen(b), PushValue, status' = "running"
    PROVE  /\ KindsInv' /\ Chain(b)'
           /\ registers[Stack] \in Addresses
           /\ registers'[Stack] = registers[Stack] - 1
           /\ CodeIsWriteBlocked' => registers'[Stack] + 1 >= ConstantsEnd'
<1> DEFINE s == registers[Stack]
<1>1. /\ s \in Addresses /\ (CodeIsWriteBlocked => s >= ConstantsEnd)
      /\ UNCHANGED <<base, config, program, queue>>
      /\ registers' = [registers EXCEPT
                         ![Instruction] = Above(registers[Instruction]),
                         ![Stack] = Below(registers[Stack])]
      /\ \E value \in Words : memory' = [memory EXCEPT ![s] = value]
  BY PushCommand DEF PushValue
<1>2. registers'[Stack] = Below(s) /\ registers'[CallFrame] = registers[CallFrame]
  BY <1>1, Contents, SpecialRegisters
<1>3. registers'[Stack] = s - 1
  BY <1>1, <1>2, Neighbours DEF PushValue, HasRoom
<1>4. \A a \in Addresses : a > s => memory'[a] = memory[a]
  BY <1>1, Contents DEF Addresses
<1>5. s <= b[Len(kinds)] /\ b[Len(kinds)] \in Addresses
  BY DEF FramesOpen, Chain
<1>6. s - 1 <= b[Len(kinds)]
  BY <1>1, <1>5, SizesAssumption DEF Addresses
<1>7. KindsInv' /\ Chain(b)'
  BY <1>2, <1>3, <1>4, <1>6, SameFrames DEF PushValue
<1>8. s - 1 + 1 = s
  BY Contents
<1> QED
  BY <1>1, <1>3, <1>7, <1>8, SameProgram

\* pop: r14 moves up, within the newest frame.
LEMMA PopChain ==
    ASSUME IInv, NEW b, FramesOpen(b), PopValue, status' = "running"
    PROVE  /\ KindsInv' /\ Chain(b)'
           /\ registers'[Stack] = registers[Stack] + 1 /\ memory' = memory
           /\ CodeIsWriteBlocked' => registers'[Stack] + 1 >= ConstantsEnd'
<1> DEFINE s == registers[Stack]
           n == Len(kinds)
<1>1. /\ memory' = memory /\ UNCHANGED <<base, config, program, queue>>
      /\ registers'[Stack] = Above(s) /\ registers'[CallFrame] = registers[CallFrame]
  BY PopCommand DEF PopValue
<1>2. s < b[n] /\ b[n] \in Addresses /\ s \in Nat
  BY Contents DEF PopValue, FramesOpen, Chain
<1>3. s \in Addresses
  BY <1>2, SizesAssumption DEF Addresses
<1>4. registers'[Stack] = s + 1
  BY <1>1, <1>3, Neighbours
<1>5. s + 1 <= b[n]
  BY <1>2, SizesAssumption DEF Addresses
<1>6. KindsInv' /\ Chain(b)'
  BY <1>1, <1>4, <1>5, SameFrames DEF PopValue
<1>7. CodeIsWriteBlocked => s + 1 + 1 >= ConstantsEnd
  BY <1>2, Contents DEF FramesOpen
<1> QED
  BY <1>1, <1>4, <1>6, <1>7, SameProgram

\* A frame is opened below the others: its first cell is c, and the one above
\* it holds the r13 of the frame before.
LEMMA NewFrame ==
    ASSUME IInv, NEW b, FramesOpen(b), NEW kind \in {"args", "body"},
           NEW c \in Addresses, kinds' = Append(kinds, kind),
           kind = "body" => kinds[Len(kinds)] = "args",
           registers'[CallFrame] = c, registers'[Stack] = c,
           c + (IF kind = "body" THEN 2 ELSE 1) = registers[Stack],
           memory'[c + 1] = registers[CallFrame],
           \A a \in Addresses : a > registers[Stack] => memory'[a] = memory[a]
    PROVE  KindsInv' /\ Chain(Append(b, c))'
<1> DEFINE n == Len(kinds)
           d == Append(b, c)
<1>1. /\ b \in [1 .. n -> Addresses]
      /\ b[n] = registers[CallFrame] /\ registers[Stack] <= b[n]
      /\ \A i, j \in 1 .. n : i <= j => b[j] <= b[i]
      /\ n \in Nat \ {0} /\ b[n] \in Addresses
  BY DEF FramesOpen, Chain
<1>2. \A i \in 1 .. n - 1 :
          b[i + 1] + Offset(i + 1) <= b[i] + 1 /\ memory[b[i + 1] + 1] = b[i]
  BY DEF FramesOpen, Chain
<1>3. /\ kinds \in Seq({"main", "args", "body"}) /\ KindsInv
      /\ Len(kinds') = n + 1
      /\ \A i \in 1 .. n : kinds'[i] = kinds[i]
      /\ kinds'[n + 1] = kind
  BY DEF FramesOpen
<1>4. /\ b \in Seq(Addresses) /\ Len(b) = n
      /\ d \in [1 .. n + 1 -> Addresses] /\ d[n + 1] = c
      /\ \A i \in 1 .. n : d[i] = b[i]
  <2>1. b \in Seq(Addresses) /\ Len(b) = n
    BY <1>1
  <2>2. d \in Seq(Addresses) /\ Len(d) = n + 1 /\ d[n + 1] = c
    BY <2>1, AppendProperties
  <2>3. \A i \in 1 .. n : d[i] = b[i]
    BY <2>1, AppendProperties
  <2> HIDE DEF d
  <2>4. d \in [1 .. n + 1 -> Addresses]
    BY <2>2, LenProperties
  <2> QED
    BY <2>1, <2>2, <2>3, <2>4
<1> HIDE DEF d
<1>5. KindsInv'
  <2>1. kinds'[1] = "main" /\ kinds' # <<>>
    BY <1>1, <1>3 DEF KindsInv
  <2>2. ASSUME NEW i \in 2 .. n + 1, kinds'[i] = "body"
        PROVE  kinds'[i - 1] = "args"
    <3>1. i - 1 \in 1 .. n /\ (i \in 2 .. n \/ i = n + 1) /\ (n + 1) - 1 = n
      BY <1>1
    <3> QED
      BY <1>3, <2>2, <3>1 DEF KindsInv
  <2> QED
    BY <1>3, <2>1, <2>2 DEF KindsInv
<1>6. c <= b[n] /\ c <= registers[Stack] /\ registers[Stack] \in Nat
  BY <1>1, Contents, SizesAssumption DEF Addresses
<1>7. \A i, j \in 1 .. n + 1 : i <= j => d[j] <= d[i]
  <2> SUFFICES ASSUME NEW i \in 1 .. n + 1, NEW j \in 1 .. n + 1, i <= j
               PROVE  d[j] <= d[i]
    OBVIOUS
  <2>1. CASE j \in 1 .. n
    <3>1. i \in 1 .. n
      BY <1>1, <2>1
    <3> QED
      BY <1>1, <1>4, <2>1, <3>1
  <2>2. CASE j = n + 1 /\ i = n + 1
    BY <1>4, <2>2, SizesAssumption DEF Addresses
  <2>3. CASE j = n + 1 /\ i \in 1 .. n
    <3>1. b[i] \in Addresses /\ b[n] <= b[i]
      BY <1>1, <2>3
    <3> QED
      BY <1>1, <1>4, <1>6, <2>3, <3>1, SizesAssumption DEF Addresses
  <2> QED
    BY <1>1, <2>1, <2>2, <2>3
<1>8. \A i \in 1 .. n + 1 : Offset(i)' = IF kinds'[i] = "body" THEN 3 ELSE 2
  BY DEF Offset
<1>9. ASSUME NEW i \in 1 .. n
      PROVE  d[i + 1] + Offset(i + 1)' <= d[i] + 1 /\ memory'[d[i + 1] + 1] = d[i]
  <2>1. CASE i = n
    <3>1. d[i + 1] = c /\ d[i] = b[n] /\ kinds'[i + 1] = kind
      BY <1>1, <1>3, <1>4, <2>1
    <3>2. i + 1 \in 1 .. n + 1
      BY <1>1, <2>1
    <3>3. c + (IF kind = "body" THEN 3 ELSE 2) <= b[n] + 1
      BY <1>1, <1>6, SizesAssumption DEF Addresses
    <3> QED
      BY <1>1, <1>8, <3>1, <3>2, <3>3
  <2>2. CASE i # n
    <3>1. i \in 1 .. n - 1 /\ i + 1 \in 1 .. n /\ i + 1 \in 1 .. n + 1
      BY <1>1, <2>2
    <3>2. Offset(i + 1)' = Offset(i + 1) /\ Offset(i + 1) \in {2, 3}
      BY <1>3, <1>8, <3>1 DEF Offset
    <3>3. b[i] \in Addresses /\ b[i + 1] \in Addresses /\ b[n] <= b[i + 1]
      BY <1>1, <3>1
    <3>4. b[i + 1] + 1 \in Addresses /\ b[i + 1] + 1 > registers[Stack]
      <4>1. b[i + 1] + Offset(i + 1) <= b[i] + 1
        BY <1>2, <3>1
      <4>2. b[n] \in Addresses /\ registers[Stack] <= b[n]
        BY <1>1
      <4>3. b[i + 1] + 1 \in Addresses
        <5> DEFINE x == b[i + 1]
                   y == b[i]
                   o == Offset(i + 1)
        <5>1. x \in Addresses /\ y \in Addresses /\ o \in {2, 3} /\ x + o <= y + 1
          BY <3>2, <3>3, <4>1
        <5> HIDE DEF x, y, o
        <5>2. x + 1 \in Addresses
          BY <5>1, SizesAssumption DEF Addresses
        <5> QED
          BY <5>2 DEF x
      <4>4. b[i + 1] + 1 > registers[Stack]
        <5> DEFINE x == b[i + 1]
                   y == b[n]
        <5>1. x \in Int /\ y \in Int /\ y <= x /\ registers[Stack] <= y
          BY <3>3, <4>2 DEF Addresses
        <5> HIDE DEF x, y
        <5>2. x + 1 > registers[Stack]
          BY <1>6, <5>1
        <5> QED
          BY <5>2 DEF x
      <4> QED
        BY <4>3, <4>4
    <3> QED
      BY <1>2, <1>4, <3>1, <3>2, <3>3, <3>4
  <2> QED
    BY <2>1, <2>2
<1>10. c <= c
  BY SizesAssumption DEF Addresses
<1>11. (n + 1) - 1 = n
  BY <1>1
<1> QED
  BY <1>3, <1>4, <1>5, <1>7, <1>9, <1>10, <1>11 DEF Chain, d

\* prc
LEMMA PrepareChain ==
    ASSUME IInv, NEW b, FramesOpen(b), Prepare, status' = "running"
    PROVE  /\ KindsInv' /\ registers[Stack] \in Addresses
           /\ \E c \in Addresses : c = registers[Stack] - 1 /\ Chain(Append(b, c))'
           /\ \A a \in Addresses : a > registers[Stack] => memory'[a] = memory[a]
           /\ kinds' = Append(kinds, "args")
           /\ registers'[Stack] = registers[Stack] - 1
           /\ CodeIsWriteBlocked' => registers'[Stack] + 1 >= ConstantsEnd'
<1> DEFINE s == registers[Stack]
<1>1. /\ s \in Addresses /\ (CodeIsWriteBlocked => s >= ConstantsEnd)
      /\ UNCHANGED <<base, config, program, queue>>
      /\ memory' = [memory EXCEPT ![s] = registers[CallFrame]]
      /\ registers'[Stack] = Below(s) /\ registers'[CallFrame] = Below(s)
  BY PrepareCommand DEF Prepare
<1>2. s - 1 \in Addresses /\ Below(s) = s - 1
  BY <1>1, Neighbours DEF Prepare, HasRoom
<1>c. PICK c \in Addresses : c = s - 1
  BY <1>2
<1>3. kinds' = Append(kinds, "args")
  BY DEF Prepare, Open, FramesOpen
<1>4. c + 1 = s
  BY <1>1, <1>c, SizesAssumption DEF Addresses
<1>5. \A a \in Addresses : a > s => memory'[a] = memory[a]
  BY <1>1, Contents DEF Addresses
<1>6. memory'[s] = registers[CallFrame]
  BY <1>1, Contents
<1>7. KindsInv' /\ Chain(Append(b, c))'
  <2> DEFINE kind == "args"
  <2>1. kind \in {"args", "body"} /\ kind # "body" /\ kinds' = Append(kinds, kind)
    BY <1>3
  <2>2. c + (IF kind = "body" THEN 2 ELSE 1) = s
    BY <1>4, <2>1
  <2> HIDE DEF kind
  <2>3. registers'[CallFrame] = c /\ registers'[Stack] = c
    BY <1>1, <1>2, <1>c
  <2>4. memory'[c + 1] = registers[CallFrame]
    BY <1>4, <1>6
  <2> QED
    BY <1>5, <2>1, <2>2, <2>3, <2>4, NewFrame
<1> QED
  BY <1>1, <1>2, <1>c, <1>3, <1>4, <1>5, <1>7, SameProgram

\* call
LEMMA EnterChain ==
    ASSUME IInv, NEW b, FramesOpen(b), Enter, status' = "running"
    PROVE  /\ KindsInv' /\ registers[Stack] \in Addresses
           /\ \E c \in Addresses : c = registers[Stack] - 2 /\ Chain(Append(b, c))'
           /\ kinds' = Append(kinds, "body")
           /\ registers'[Stack] = registers[Stack] - 2
           /\ memory'[registers[Stack]] = Above(registers[Instruction])
           /\ \A a \in Addresses : a > registers[Stack] => memory'[a] = memory[a]
           /\ CodeIsWriteBlocked' => registers'[Stack] + 1 >= ConstantsEnd'
<1> DEFINE s == registers[Stack]
           t == Below(s)
<1>1. /\ s \in Addresses /\ t \in Addresses
      /\ CodeIsWriteBlocked => t >= ConstantsEnd
      /\ UNCHANGED <<base, config, program, queue>>
      /\ memory' = [memory EXCEPT ![s] = Above(registers[Instruction]),
                                  ![t] = registers[CallFrame]]
      /\ registers'[Stack] = Below(t) /\ registers'[CallFrame] = Below(t)
  BY CallCommand DEF Enter
<1>2. t = s - 1
  BY <1>1, Neighbours
<1>3. s - 2 \in Addresses /\ Below(t) = s - 2
  <2>1. HasRoom
    BY DEF Enter
  <2>2. Below(t) < s
    BY <1>1, <2>1 DEF HasRoom
  <2>3. Below(t) \in Words
    <3>1. t \in Words
      BY <1>1, SizesAssumption DEF Words, Addresses
    <3> HIDE DEF t
    <3> QED
      BY <3>1, MinusIsWord, SmallWords DEF Below
  <2>4. Below(t) \in Addresses
    <3> HIDE DEF t
    <3> QED
      BY <1>1, <2>2, <2>3, SizesAssumption DEF Words, Addresses
  <2>5. t - 1 = s - 2
    BY <1>1, <1>2, SizesAssumption DEF Addresses
  <2> QED
    BY <1>1, <2>4, <2>5, Neighbours
<1>c. PICK c \in Addresses : c = s - 2
  BY <1>3
<1>4. kinds' = Append(kinds, "body") /\ kinds[Len(kinds)] = "args"
  BY DEF Enter, Open, FramesOpen, Last
<1>5. c + 2 = s /\ c + 1 = t
  BY <1>1, <1>2, <1>c, SizesAssumption DEF Addresses
<1>6. \A a \in Addresses : a > s => memory'[a] = memory[a]
  <2>1. s \in Int /\ t \in Int /\ t < s
    BY <1>1, <1>2 DEF Addresses
  <2>2. \A a \in Addresses : a > s => a # s /\ a # t
    BY <2>1 DEF Addresses
  <2> HIDE DEF t
  <2> QED
    BY <1>1, <2>2, Contents
<1>7. memory'[t] = registers[CallFrame] /\ memory'[s] = Above(registers[Instruction])
  BY <1>1, <1>2, Contents, SizesAssumption DEF Addresses
<1>8. KindsInv' /\ Chain(Append(b, c))'
  <2> DEFINE kind == "body"
  <2>1. kind \in {"args", "body"} /\ kind = "body" /\ kinds' = Append(kinds, kind)
    BY <1>4
  <2>2. c + (IF kind = "body" THEN 2 ELSE 1) = s
    BY <1>5, <2>1
  <2> HIDE DEF kind, t
  <2>3. registers'[CallFrame] = c /\ registers'[Stack] = c
    BY <1>1, <1>3, <1>c
  <2>4. memory'[c + 1] = registers[CallFrame]
    BY <1>5, <1>7
  <2> QED
    BY <1>4, <1>6, <2>1, <2>2, <2>3, <2>4, NewFrame
<1>9. CodeIsWriteBlocked => s - 2 + 1 >= ConstantsEnd
  BY <1>1, <1>2, SizesAssumption DEF Addresses
<1>10. registers'[Stack] = s - 2
  BY <1>1, <1>3
<1>11. CodeIsWriteBlocked' => registers'[Stack] + 1 >= ConstantsEnd'
  BY <1>1, <1>9, <1>10, SameProgram
<1> HIDE DEF t
<1> QED
  BY <1>1, <1>c, <1>4, <1>6, <1>7, <1>8, <1>10, <1>11

\* Frames are closed: those before the last two stay.
LEMMA OldFrames ==
    ASSUME IInv, NEW b, FramesOpen(b), Len(kinds) > 2,
           kinds' = SubSeq(kinds, 1, Len(kinds) - 2),
           registers'[CallFrame] = b[Len(kinds) - 2],
           registers'[Stack] = b[Len(kinds) - 1] + 1, memory' = memory
    PROVE  KindsInv' /\ \E c : Chain(c)' /\ c = SubSeq(b, 1, Len(kinds) - 2)
<1> DEFINE n == Len(kinds)
           m == n - 2
<1>1. /\ b \in [1 .. n -> Addresses]
      /\ \A i, j \in 1 .. n : i <= j => b[j] <= b[i]
      /\ \A i \in 1 .. n - 1 :
            b[i + 1] + Offset(i + 1) <= b[i] + 1 /\ memory[b[i + 1] + 1] = b[i]
      /\ n \in Nat \ {0} /\ n > 2
      /\ kinds \in Seq({"main", "args", "body"}) /\ KindsInv
  BY DEF FramesOpen, Chain
<1>n. n \in Nat \ {0} /\ n > 2 /\ kinds \in Seq({"main", "args", "body"})
  BY <1>1
<1>2. /\ m \in Nat \ {0} /\ m + 1 = n - 1 /\ m < n
      /\ \A i \in 1 .. m : i \in 1 .. n
  <2> HIDE DEF n
  <2> QED
    BY <1>n
<1>3. /\ Len(kinds') = m /\ kinds' # <<>>
      /\ \A i \in 1 .. m : kinds'[i] = kinds[i]
  <2>1. kinds' = SubSeq(kinds, 1, m)
    OBVIOUS
  <2> HIDE DEF m
  <2>2. Len(kinds') = m /\ \A i \in 1 .. m : kinds'[i] = kinds[i]
    BY <1>2, <1>n, <2>1, SubSeqProperties
  <2> QED
    BY <1>2, <2>2
<1> HIDE DEF m
<1>4. PICK c : c = SubSeq(b, 1, m)
  OBVIOUS
<1>5. c \in [1 .. m -> Addresses] /\ \A i \in 1 .. m : c[i] = b[i]
  <2>1. b \in Seq(Addresses) /\ Len(b) = n
    <3> HIDE DEF n
    <3>1. b \in [1 .. n -> Addresses] /\ n \in Nat
      BY <1>1, <1>n
    <3> QED
      BY <3>1
  <2>2. c \in Seq(Addresses) /\ Len(c) = m /\ \A i \in 1 .. m : c[i] = b[i]
    BY <1>2, <1>4, <2>1, SubSeqProperties
  <2> QED
    BY <2>2, LenProperties
<1>6. KindsInv'
  <2>1. kinds'[1] = "main"
    BY <1>1, <1>2, <1>3 DEF KindsInv
  <2>2. ASSUME NEW i \in 2 .. m, kinds'[i] = "body"
        PROVE  kinds'[i - 1] = "args"
    <3>1. i \in 1 .. m /\ i - 1 \in 1 .. m /\ i \in 2 .. n
      BY <1>1, <1>2
    <3> QED
      BY <1>1, <1>3, <2>2, <3>1 DEF KindsInv
  <2> QED
    BY <1>3, <2>1, <2>2 DEF KindsInv
<1>7. c[m] = registers'[CallFrame] /\ registers'[Stack] <= c[m]
  <2>1. m \in 1 .. m /\ m \in 1 .. n /\ m \in 1 .. n - 1 /\ m + 1 \in 1 .. n
    BY <1>1, <1>2
  <2>2. Offset(m + 1) \in {2, 3} /\ b[m + 1] + Offset(m + 1) <= b[m] + 1
    BY <1>1, <2>1 DEF Offset
  <2>3. b[m] \in Addresses /\ b[m + 1] \in Addresses
    BY <1>1, <2>1
  <2>4. registers'[Stack] = b[m + 1] + 1 /\ registers'[CallFrame] = b[m]
    BY <1>2 DEF m
  <2> HIDE DEF n
  <2>5. b[m + 1] + 1 <= b[m]
    BY <2>2, <2>3, SizesAssumption DEF Addresses
  <2> QED
    BY <1>5, <2>1, <2>4, <2>5
<1>8. \A i, j \in 1 .. m : i <= j => c[j] <= c[i]
  BY <1>1, <1>2, <1>5
<1>9. ASSUME NEW i \in 1 .. m - 1
      PROVE  c[i + 1] + Offset(i + 1)' <= c[i] + 1 /\ memory'[c[i + 1] + 1] = c[i]
  <2>1. i \in 1 .. m /\ i + 1 \in 1 .. m /\ i \in 1 .. n - 1
    BY <1>1, <1>2
  <2>2. Offset(i + 1)' = Offset(i + 1)
    BY <1>3, <2>1 DEF Offset
  <2> QED
    BY <1>1, <1>5, <2>1, <2>2
<1>10. Chain(c)'
  BY <1>3, <1>5, <1>7, <1>8, <1>9 DEF Chain
<1> QED
  BY <1>4, <1>6, <1>10 DEF m

\* ret
LEMMA LeaveChain ==
    ASSUME IInv, NEW b, FramesOpen(b), Leave, status' = "running"
    PROVE  /\ KindsInv' /\ \E c : Chain(c)' /\ c = SubSeq(b, 1, Len(kinds) - 2)
           /\ Len(kinds) > 2 /\ kinds[Len(kinds)] = "body"
           /\ kinds[Len(kinds) - 1] = "args"
           /\ kinds' = SubSeq(kinds, 1, Len(kinds) - 2)
           /\ registers'[Stack] = b[Len(kinds) - 1] + 1 /\ memory' = memory
           /\ b[Len(kinds)] + 2 \in Addresses
           /\ registers'[Instruction] = memory[b[Len(kinds)] + 2]
           /\ CodeIsWriteBlocked' => registers'[Stack] + 1 >= ConstantsEnd'
<1> DEFINE n == Len(kinds)
<1>1. /\ b \in [1 .. n -> Addresses]
      /\ b[n] = registers[CallFrame] /\ registers[Stack] <= b[n]
      /\ \A i \in 1 .. n - 1 :
            b[i + 1] + Offset(i + 1) <= b[i] + 1 /\ memory[b[i + 1] + 1] = b[i]
      /\ n \in Nat \ {0}
      /\ kinds \in Seq({"main", "args", "body"}) /\ KindsInv
  BY DEF FramesOpen, Chain
<1>2. kinds[n] = "body" /\ kinds' = SubSeq(kinds, 1, n - 2) /\ RET
  BY DEF Leave, Last
<1>3. n > 2 /\ kinds[n - 1] = "args"
  <2>1. /\ n \in Nat \ {0} /\ kinds[1] = "main"
        /\ \A i \in 2 .. n : kinds[i] = "body" => kinds[i - 1] = "args"
    BY <1>1 DEF KindsInv
  <2> HIDE DEF n
  <2>2. n # 1
    BY <1>2, <2>1
  <2>3. n \in 2 .. n
    BY <2>1, <2>2
  <2>4. kinds[n - 1] = "args"
    BY <1>2, <2>1, <2>3
  <2>5. n # 2
    BY <2>1, <2>4
  <2> QED
    BY <2>1, <2>2, <2>4, <2>5
<1> DEFINE x == b[n]
           y == b[n - 1]
           z == b[n - 2]
<1>4. /\ x \in Addresses /\ y \in Addresses /\ z \in Addresses
      /\ x + 3 <= y + 1 /\ memory[x + 1] = y
      /\ y + 2 <= z + 1 /\ memory[y + 1] = z
  <2>1. /\ n \in 1 .. n /\ n - 1 \in 1 .. n /\ n - 2 \in 1 .. n
        /\ n - 1 \in 1 .. n - 1 /\ n - 2 \in 1 .. n - 1
        /\ (n - 1) + 1 = n /\ (n - 2) + 1 = n - 1
    BY <1>1, <1>3
  <2>2. Offset(n) = 3 /\ Offset(n - 1) = 2
    BY <1>2, <1>3 DEF Offset
  <2> QED
    BY <1>1, <2>1, <2>2
<1>5. x = registers[CallFrame] /\ registers[Stack] <= x
  BY <1>1
<1> HIDE DEF x, y, z
<1> DEFINE u == Above(registers[CallFrame])
           v == Above(u)
           w == Above(memory[u])
<1>6. /\ memory' = memory /\ registers'[Stack] = w
      /\ registers'[CallFrame] = memory[w] /\ registers'[Instruction] = memory[v]
      /\ UNCHANGED <<base, config, program, queue>>
  BY <1>2, ReturnCommand
<1>7. u = x + 1 /\ x + 1 \in Addresses /\ x + 2 \in Addresses
  BY <1>4, <1>5, Neighbours, SizesAssumption DEF Addresses
<1>8. v = x + 2
  <2>1. Above(x + 1) = (x + 1) + 1
    BY <1>7, Neighbours
  <2>2. (x + 1) + 1 = x + 2
    BY <1>4 DEF Addresses
  <2> QED
    BY <1>7, <2>1, <2>2
<1>9. w = y + 1
  BY <1>4, <1>7, Neighbours
<1>10. registers'[CallFrame] = z /\ registers'[Stack] = y + 1
  BY <1>4, <1>6, <1>9
<1>11. registers'[Instruction] = memory[x + 2]
  BY <1>6, <1>8
<1> HIDE DEF u, v, w
<1>12. KindsInv' /\ \E c : Chain(c)' /\ c = SubSeq(b, 1, n - 2)
  BY <1>2, <1>3, <1>6, <1>10, OldFrames DEF y, z
<1>13. CodeIsWriteBlocked => y + 1 + 1 >= ConstantsEnd
  <2>1. CodeIsWriteBlocked => registers[Stack] + 1 >= ConstantsEnd
    BY DEF FramesOpen
  <2> QED
    BY <1>4, <1>5, <2>1, Contents, SizesAssumption DEF Addresses
<1>14. CodeIsWriteBlocked' => registers'[Stack] + 1 >= ConstantsEnd'
  BY <1>6, <1>10, <1>13, SameProgram
<1> QED
  BY <1>2, <1>3, <1>6, <1>7, <1>10, <1>11, <1>12, <1>14 DEF x, y, z

\* The other commands load no program.
LEMMA LocalSteps ==
    ASSUME Local
    PROVE  /\ status \in {"running", "halted"}
           /\ UNCHANGED <<base, config, program>>
<1>1. CASE SignalArrives
  BY <1>1 DEF SignalArrives, storageVars
<1>2. CASE ~SignalArrives
  <2>1. Step
    BY <1>2 DEF Local, Step
  <2>2. status = "running" /\ (ExecPointerOutOfMemory \/ \E m, next : Finish(m, next))
    BY <2>1, StepFinishes
  <2> QED
    BY <2>2 DEF ExecPointerOutOfMemory, Finish, storageVars
<1> QED
  BY <1>1, <1>2

\* The other commands keep the chain.
LEMMA LocalChain ==
    ASSUME IInv, NEW b, FramesOpen(b), Local
    PROVE  /\ KindsInv' /\ Chain(b)'
           /\ CodeIsWriteBlocked' => registers'[Stack] + 1 >= ConstantsEnd'
<1>1. /\ UNCHANGED kinds /\ registers'[CallFrame] = registers[CallFrame]
      /\ registers'[Stack] = registers[Stack]
      /\ \A a \in Addresses : a > registers[Stack] => memory'[a] = memory[a]
  BY DEF Local
<1>2. registers[Stack] <= b[Len(kinds)]
  BY DEF FramesOpen, Chain
<1>3. KindsInv' /\ Chain(b)'
  BY <1>1, <1>2, SameFrames
<1>4. ConstantsEnd' = ConstantsEnd /\ CodeIsWriteBlocked' = CodeIsWriteBlocked
  BY LocalSteps DEF ConstantsEnd, CodeEnd, CodeIsWriteBlocked
<1> QED
  BY <1>1, <1>3, <1>4 DEF FramesOpen

\* The main program is the first frame.
LEMMA StartChain ==
    ASSUME IInv, StartMain
    PROVE  /\ KindsInv' /\ \E f \in Addresses : /\ Chain(<<f>>)'
                                              /\ f = registers'[CallFrame]
                                              /\ f = registers'[Stack]
           /\ kinds' = <<"main">> /\ status' = "running"
           /\ CodeIsWriteBlocked' => registers'[Stack] + 1 >= ConstantsEnd'
<1>1. /\ registers'[Stack] \in Addresses /\ registers'[Stack] + 1 >= ConstantsEnd'
      /\ kinds' = <<"main">> /\ Execute
  BY DEF StartMain
<1>2. registers'[CallFrame] = registers'[Stack] /\ status' = "running"
  BY <1>1, Contents, SpecialRegisters DEF Execute, PrepareForExecution
<1>3. PICK f \in Addresses : f = registers'[Stack]
  BY <1>1
<1>4. KindsInv'
  BY <1>1 DEF KindsInv
<1>5. Chain(<<f>>)'
  <2>1. Len(kinds') = 1
    BY <1>1
  <2>2. f <= f
    BY SizesAssumption DEF Addresses
  <2>3. <<f>> \in [1 .. 1 -> Addresses] /\ <<f>>[1] = f
    OBVIOUS
  <2>4. \A i \in 1 .. 1 : i = 1
    OBVIOUS
  <2>5. \A i \in 1 .. 1 - 1 : FALSE
    OBVIOUS
  <2> QED
    BY <1>2, <1>3, <2>1, <2>2, <2>3, <2>4, <2>5 DEF Chain
<1> QED
  BY <1>1, <1>2, <1>3, <1>4, <1>5
-----------------------------------------------------------------------------
(***************************************************************************)
(* The frames nest.                                                        *)
(***************************************************************************)
\* What a program that keeps the convention does is done by the machine.
LEMMA MachineSteps == [CallNext]_callVars => [Next]_vars
<1>1. CASE CallNext
  BY <1>1
  DEF CallNext, StartMain, PushValue, PopValue, Prepare, Enter, Leave, Local,
      Next, Step, StackCommand
<1>2. CASE UNCHANGED callVars
  BY <1>2 DEF callVars
<1> QED
  BY <1>1, <1>2

\* The machine's invariant holds for them.
LEMMA CallsMachine == CallSpec => []IInv
<1>1. CallInit => IInv
  BY InitInv DEF CallInit
<1>2. IInv /\ [CallNext]_callVars => IInv'
  BY MachineSteps, NextInv
<1> QED
  BY <1>1, <1>2, PTL DEF CallSpec

\* a command of the convention goes on or fails
StackStep == PushValue \/ PopValue \/ Prepare \/ Enter \/ Leave

\* Such a command runs, and ends the execution only by an error.
LEMMA StackSteps ==
    ASSUME StackStep
    PROVE  status = "running" /\ status' \in {"running", "failed"}
BY DEF StackStep, PushValue, PopValue, Prepare, Enter, Leave, PUSH, POP, PRC,
       CALL, CALLI, RET, Runs, Commit, Finish

\* The kinds stay kinds.
LEMMA KindsType ==
    ASSUME kinds \in Seq({"main", "args", "body"}), [CallNext]_callVars
    PROVE  kinds' \in Seq({"main", "args", "body"})
<1> DEFINE Kinds == {"main", "args", "body"}
<1>1. /\ <<"main">> \in Seq(Kinds) /\ Append(kinds, "args") \in Seq(Kinds)
      /\ Append(kinds, "body") \in Seq(Kinds)
      /\ kinds \o <<"args">> \in Seq(Kinds) /\ kinds \o <<"body">> \in Seq(Kinds)
  OBVIOUS
<1>2. CASE StartMain
  BY <1>1, <1>2 DEF StartMain
<1>3. CASE PushValue \/ PopValue \/ Local \/ UNCHANGED callVars
  BY <1>3 DEF PushValue, PopValue, Local, callVars
<1>4. CASE Prepare \/ Enter
  BY <1>1, <1>4 DEF Prepare, Enter, Open
<1>5. CASE Leave
  <2>1. Len(kinds) \in Nat /\ kinds # <<>> /\ Last(kinds) = "body"
    BY <1>5 DEF Leave
  <2>2. SubSeq(kinds, 1, Len(kinds) - 2) \in Seq(Kinds)
    <3>1. \A i \in 1 .. Len(kinds) - 2 : kinds[i] \in Kinds
      BY <2>1
    <3> DEFINE m == Len(kinds) - 2
    <3>2. m \in Int
      BY <2>1
    <3> QED
      BY <2>1
  <2> QED
    BY <1>5, <2>2 DEF Leave
<1> QED
  BY <1>2, <1>3, <1>4, <1>5 DEF CallNext

\* Every step keeps the invariant.
LEMMA CallsInvNext ==
    ASSUME IInv, CallsInv, [CallNext]_callVars
    PROVE  CallsInv'
<1>1. kinds' \in Seq({"main", "args", "body"})
  BY KindsType DEF CallsInv
<1> SUFFICES ASSUME Live'
             PROVE  /\ KindsInv' /\ \E b : Chain(b)'
                    /\ CodeIsWriteBlocked' => registers'[Stack] + 1 >= ConstantsEnd'
  BY <1>1 DEF CallsInv
<1>2. CASE StartMain
  BY <1>2, StartChain
<1>3. CASE StackStep
  <2>1. status' = "running" /\ Live
    BY <1>3, StackSteps DEF Live
  <2>2. PICK b : FramesOpen(b)
    BY <2>1, OpenFrames
  <2>3. CASE PushValue
    BY <2>1, <2>2, <2>3, PushChain
  <2>4. CASE PopValue
    BY <2>1, <2>2, <2>4, PopChain
  <2>5. CASE Prepare
    BY <2>1, <2>2, <2>5, PrepareChain
  <2>6. CASE Enter
    BY <2>1, <2>2, <2>6, EnterChain
  <2>7. CASE Leave
    BY <2>1, <2>2, <2>7, LeaveChain
  <2> QED
    BY <1>3, <2>3, <2>4, <2>5, <2>6, <2>7 DEF StackStep
<1>4. CASE Local
  <2>1. PICK b : FramesOpen(b)
    BY <1>4, LocalSteps, OpenFrames DEF Live
  <2> QED
    BY <1>4, <2>1, LocalChain
<1>5. CASE UNCHANGED callVars
  BY <1>5
  DEF callVars, vars, CallsInv, Live, KindsInv, Chain, Offset, CodeIsWriteBlocked,
      ConstantsEnd, CodeEnd
<1> QED
  BY <1>2, <1>3, <1>4, <1>5 DEF CallNext, StackStep

\* The frames are chained through the saved r13 in every state.
THEOREM CallsInvariance == CallSpec => [](IInv /\ CallsInv)
<1>1. CallInit => CallsInv
  <2> SUFFICES ASSUME CallInit PROVE CallsInv
    OBVIOUS
  <2>1. kinds = <<>> /\ status = "idle"
    BY DEF CallInit, Init
  <2> QED
    BY <2>1 DEF CallsInv, Live
<1>2. IInv /\ CallsInv /\ [CallNext]_callVars => CallsInv'
  BY CallsInvNext
<1> QED
  BY <1>1, <1>2, CallsMachine, PTL DEF CallSpec

\* No frame overlaps another one, the r13 and the return address saved between
\* them, or a program blocked for writing (PrepareCall, Call, Push, Return).
THEOREM FramesAreNested == CallSpec => []FramesNest
<1>1. IInv /\ CallsInv => FramesNest
  <2> SUFFICES ASSUME IInv, CallsInv, Live
               PROVE  /\ \A i \in 1 .. Len(kinds) : FrameEnd(i) <= FrameBase[i] + 1
                      /\ \A i \in 2 .. Len(kinds) : FrameBase[i] < FrameBase[i - 1]
                      /\ CodeIsWriteBlocked => registers[Stack] + 1 >= ConstantsEnd
    BY DEF FramesNest
  <2> DEFINE n == Len(kinds)
  <2>1. PICK b : FramesOpen(b)
    BY OpenFrames
  <2>2. FrameBase = b
    BY <2>1, BaseIsChain DEF FramesOpen
  <2>3. n \in Nat \ {0} /\ b \in [1 .. n -> Addresses]
    BY <2>1 DEF FramesOpen, Chain
  <2>4. ASSUME NEW i \in 1 .. n - 1
        PROVE  /\ b[i + 1] + Offset(i + 1) <= b[i] + 1
               /\ Offset(i + 1) \in {2, 3}
               /\ b[i] \in Int /\ b[i + 1] \in Int
    <3>1. i \in 1 .. n /\ i + 1 \in 1 .. n
      BY <2>3
    <3>2. b[i] \in Addresses /\ b[i + 1] \in Addresses
      BY <2>3, <3>1
    <3> QED
      BY <2>1, <3>2 DEF FramesOpen, Chain, Offset, Addresses
  <2>5. ASSUME NEW i \in 1 .. n
        PROVE  FrameEnd(i) <= b[i] + 1
    <3>1. CASE i = n
      <4>1. FrameEnd(i) = registers[Stack] + 1
        BY <3>1 DEF FrameEnd
      <4>2. registers[Stack] <= b[i] /\ b[i] \in Addresses
        BY <2>1, <2>3, <3>1 DEF FramesOpen, Chain
      <4> QED
        BY <4>1, <4>2, Contents DEF Addresses
    <3>2. CASE i # n
      <4>1. i \in 1 .. n - 1
        BY <2>3, <3>2
      <4> QED
        BY <2>2, <2>4, <3>2, <4>1 DEF FrameEnd, Offset
    <3> QED
      BY <3>1, <3>2
  <2>6. ASSUME NEW i \in 2 .. n
        PROVE  b[i] < b[i - 1]
    <3>1. i - 1 \in 1 .. n - 1 /\ (i - 1) + 1 = i
      BY <2>3
    <3>2. PICK j : j = i - 1
      OBVIOUS
    <3>3. j \in 1 .. n - 1 /\ j + 1 = i
      BY <3>1, <3>2
    <3>4. PICK x, y, o : x = b[j + 1] /\ y = b[j] /\ o = Offset(j + 1)
      OBVIOUS
    <3>5. x + o <= y + 1 /\ o \in {2, 3} /\ y \in Int /\ x \in Int
      BY <2>4, <3>3, <3>4
    <3>6. x < y
      BY <3>5
    <3> QED
      BY <3>2, <3>3, <3>4, <3>6
  <2> QED
    BY <2>1, <2>2, <2>5, <2>6 DEF FramesOpen
<1> QED
  BY <1>1, CallsInvariance, PTL
-----------------------------------------------------------------------------
(***************************************************************************)
(* The frames are a stack of separate frames.                              *)
(***************************************************************************)
\* the frames read back along the chain b
End(b, i) == IF i = Len(kinds) THEN registers[Stack] + 1
                               ELSE b[i + 1] + Offset(i + 1)

At(b, i) ==
    [kind   |-> kinds[i],
     ret    |-> IF kinds[i] = "body" THEN Cell(b[i] + 2) ELSE 0,
     values |-> [k \in 1 .. b[i] - End(b, i) + 1 |-> Cell(b[i] - k + 1)]]

FramesAlong(b) == [i \in 1 .. Len(kinds) |-> At(b, i)]

\* what is read back of every frame
ReadBack == [i \in 1 .. Len(kinds) |-> FrameOf(i)]

\* The frames read back are those along the chain.
LEMMA ReadAlong ==
    \A b : Chain(b) /\ Len(kinds) \in Nat \ {0} => ReadBack = FramesAlong(b)
<1> SUFFICES ASSUME NEW b, Chain(b), Len(kinds) \in Nat \ {0}
             PROVE  ReadBack = FramesAlong(b)
  OBVIOUS
<1>1. FrameBase = b
  BY BaseIsChain
<1>2. ASSUME NEW i \in 1 .. Len(kinds)
      PROVE  FrameOf(i) = At(b, i)
  <2>1. FrameEnd(i) = End(b, i)
    BY <1>1 DEF FrameEnd, End, Offset
  <2> QED
    BY <1>1, <2>1 DEF FrameOf, At
<1> QED
  BY <1>2 DEF ReadBack, FramesAlong

\* The same of the next state.
LEMMA ReadAlongNext ==
    (\A b : Chain(b) /\ Len(kinds) \in Nat \ {0} => ReadBack = FramesAlong(b))'
BY ReadAlong, PTL

\* The r15 a command finds is the next one, whatever the width of the word.
LEMMA NextInstruction == \A w \in Words : Above(w) = (w + 1) % WordCount
BY SizesAssumption DEF Above, Plus, Words

\* Where a frame is: above r14, its values between its start and its end.
LEMMA FramePlace ==
    ASSUME IInv, NEW b, FramesOpen(b), NEW i \in 1 .. Len(kinds)
    PROVE  /\ b[i] \in Addresses /\ registers[Stack] <= b[i]
           /\ End(b, i) \in Nat /\ registers[Stack] < End(b, i)
           /\ End(b, i) <= b[i] + 1
           /\ kinds[i] = "body" => b[i] + 2 \in Addresses
<1> DEFINE n == Len(kinds)
           s == registers[Stack]
<1>1. /\ b \in [1 .. n -> Addresses] /\ s <= b[n]
      /\ \A j, k \in 1 .. n : j <= k => b[k] <= b[j]
      /\ \A j \in 1 .. n - 1 : b[j + 1] + Offset(j + 1) <= b[j] + 1
  BY DEF FramesOpen, Chain
<1>2. n \in Nat \ {0} /\ s \in Nat /\ n \in 1 .. n
  BY Contents DEF FramesOpen
<1>3. b[i] \in Addresses /\ b[n] \in Addresses /\ b[n] <= b[i]
  BY <1>1, <1>2
<1>4. s <= b[i]
  BY <1>1, <1>2, <1>3 DEF Addresses
<1>5. End(b, i) \in Nat /\ s < End(b, i) /\ End(b, i) <= b[i] + 1
  <2>1. CASE i = n
    <3>1. End(b, i) = s + 1
      BY <2>1 DEF End
    <3> QED
      BY <1>2, <1>3, <1>4, <3>1 DEF Addresses
  <2>2. CASE i # n
    <3>1. i \in 1 .. n - 1 /\ i + 1 \in 1 .. n
      BY <1>2, <2>2
    <3>2. b[i + 1] \in Addresses /\ b[n] <= b[i + 1]
      BY <1>1, <1>2, <3>1
    <3>3. Offset(i + 1) \in {2, 3} /\ b[i + 1] + Offset(i + 1) <= b[i] + 1
      BY <1>1, <3>1 DEF Offset
    <3>4. End(b, i) = b[i + 1] + Offset(i + 1)
      BY <2>2 DEF End
    <3>5. s <= b[n]
      BY <1>1
    <3> DEFINE x == b[i + 1]
               y == b[n]
               o == Offset(i + 1)
    <3>6. x \in Nat /\ y \in Nat /\ o \in {2, 3} /\ y <= x /\ s <= y
      BY <1>3, <3>2, <3>3, <3>5 DEF Addresses
    <3> HIDE DEF x, y, o
    <3>7. s < x + o /\ x + o \in Nat
      BY <1>2, <3>6
    <3> QED
      BY <3>3, <3>4, <3>7 DEF x, o
  <2> QED
    BY <2>1, <2>2
<1>6. ASSUME kinds[i] = "body" PROVE b[i] + 2 \in Addresses
  <2>1. i # 1
    BY <1>6 DEF FramesOpen, KindsInv
  <2>2. i - 1 \in 1 .. n - 1 /\ i - 1 \in 1 .. n /\ (i - 1) + 1 = i
    BY <1>2, <2>1
  <2>3. b[i] + Offset(i) <= b[i - 1] + 1 /\ Offset(i) = 3 /\ b[i - 1] \in Addresses
    BY <1>1, <1>6, <2>2 DEF Offset
  <2> QED
    BY <1>3, <2>3, SizesAssumption DEF Addresses
<1> QED
  BY <1>3, <1>4, <1>5, <1>6

\* The values of a frame are words.
LEMMA FrameValues ==
    ASSUME IInv, NEW b, FramesOpen(b), NEW i \in 1 .. Len(kinds)
    PROVE  /\ At(b, i).values \in Seq(Words)
           /\ Len(At(b, i).values) = b[i] - End(b, i) + 1
           /\ b[i] - End(b, i) + 1 \in Nat
           /\ \A k \in 1 .. b[i] - End(b, i) + 1 :
                 At(b, i).values[k] = Cell(b[i] - k + 1)
           /\ \A k \in 1 .. b[i] - End(b, i) + 1 :
                 b[i] - k + 1 \in Addresses /\ b[i] - k + 1 > registers[Stack]
<1> DEFINE m == b[i] - End(b, i) + 1
           v == At(b, i).values
<1>1. /\ b[i] \in Addresses /\ End(b, i) \in Nat
      /\ registers[Stack] < End(b, i) /\ End(b, i) <= b[i] + 1
      /\ registers[Stack] \in Nat
  BY FramePlace, Contents
<1>2. m \in Nat
  BY <1>1 DEF Addresses
<1>3. v = [k \in 1 .. m |-> Cell(b[i] - k + 1)]
  BY DEF At
<1>4. \A k \in 1 .. m : b[i] - k + 1 \in Addresses /\ b[i] - k + 1 > registers[Stack]
  <2> DEFINE x == b[i]
             e == End(b, i)
             r == registers[Stack]
  <2>1. x \in Addresses /\ e \in Nat /\ r \in Nat /\ r < e /\ e <= x + 1
    BY <1>1
  <2> HIDE DEF x, e, r
  <2>2. \A k \in 1 .. x - e + 1 : x - k + 1 \in Addresses /\ x - k + 1 > r
    BY <2>1, SizesAssumption DEF Addresses
  <2> QED
    BY <2>2 DEF x, e, r
<1>5. \A k \in 1 .. m : Cell(b[i] - k + 1) \in Words
  BY <1>4, Contents DEF Cell
<1> HIDE DEF m, v
<1>6. v \in Seq(Words) /\ Len(v) = m
  BY <1>2, <1>3, <1>5
<1>7. \A k \in 1 .. m : v[k] = Cell(b[i] - k + 1)
  BY <1>3
<1> QED
  BY <1>2, <1>4, <1>6, <1>7 DEF m, v

\* A frame whose start and end stay where they are is the same, as long as
\* nothing above r14 is written.
LEMMA KeptFrame ==
    ASSUME IInv, NEW b, FramesOpen(b), NEW c, NEW i \in 1 .. Len(kinds),
           kinds'[i] = kinds[i], c[i] = b[i], End(c, i)' = End(b, i),
           \A a \in Addresses : a > registers[Stack] => memory'[a] = memory[a]
    PROVE  At(c, i)' = At(b, i)
<1> DEFINE m == b[i] - End(b, i) + 1
<1>1. \A k \in 1 .. m : Cell(b[i] - k + 1)' = Cell(b[i] - k + 1)
  <2> SUFFICES ASSUME NEW k \in 1 .. m
               PROVE  Cell(b[i] - k + 1)' = Cell(b[i] - k + 1)
    OBVIOUS
  <2>1. b[i] - k + 1 \in Addresses /\ b[i] - k + 1 > registers[Stack]
    BY FrameValues
  <2> QED
    BY <2>1 DEF Cell
<1>2. kinds[i] = "body" => Cell(b[i] + 2)' = Cell(b[i] + 2)
  <2> SUFFICES ASSUME kinds[i] = "body" PROVE Cell(b[i] + 2)' = Cell(b[i] + 2)
    OBVIOUS
  <2>1. b[i] + 2 \in Addresses /\ registers[Stack] <= b[i] /\ b[i] \in Addresses
    BY FramePlace
  <2>2. b[i] + 2 > registers[Stack]
    BY <2>1, Contents DEF Addresses
  <2> QED
    BY <2>1, <2>2 DEF Cell
<1>3. At(c, i)' = [kind   |-> kinds'[i],
                   ret    |-> IF kinds'[i] = "body" THEN Cell(c[i] + 2)' ELSE 0,
                   values |-> [k \in 1 .. c[i] - End(c, i)' + 1 |->
                                  Cell(c[i] - k + 1)']]
  BY DEF At
<1> QED
  BY <1>1, <1>2, <1>3 DEF At

\* The frames below the newest one are out of reach of a step that writes
\* nothing above r14; of the newest one only the values may grow or shrink.
LEMMA OuterFrames ==
    ASSUME IInv, NEW b, FramesOpen(b), UNCHANGED kinds,
           \A a \in Addresses : a > registers[Stack] => memory'[a] = memory[a]
    PROVE  /\ \A i \in 1 .. Len(kinds) : i # Len(kinds) => At(b, i)' = At(b, i)
           /\ At(b, Len(kinds))'
                = [kind   |-> At(b, Len(kinds)).kind,
                   ret    |-> At(b, Len(kinds)).ret,
                   values |-> [k \in 1 .. b[Len(kinds)] - (registers'[Stack] + 1) + 1 |->
                                  Cell(b[Len(kinds)] - k + 1)']]
<1> DEFINE n == Len(kinds)
<1>1. ASSUME NEW i \in 1 .. n, i # n
      PROVE  At(b, i)' = At(b, i)
  <2>1. End(b, i)' = End(b, i)
    BY <1>1 DEF End, Offset
  <2> QED
    BY <2>1, KeptFrame
<1>2. n \in 1 .. n
  BY DEF FramesOpen
<1>3. kinds[n] = "body" => Cell(b[n] + 2)' = Cell(b[n] + 2)
  <2> SUFFICES ASSUME kinds[n] = "body" PROVE Cell(b[n] + 2)' = Cell(b[n] + 2)
    OBVIOUS
  <2>1. b[n] + 2 \in Addresses /\ registers[Stack] <= b[n] /\ b[n] \in Addresses
    BY <1>2, FramePlace
  <2>2. b[n] + 2 > registers[Stack]
    BY <2>1, Contents DEF Addresses
  <2> QED
    BY <2>1, <2>2 DEF Cell
<1>4. End(b, n)' = registers'[Stack] + 1
  BY DEF End
<1> QED
  BY <1>1, <1>3, <1>4 DEF At

\* a frame with other values
LEMMA OtherValues ==
    ASSUME NEW o, NEW p, NEW kind, NEW ret, NEW old, NEW new,
           o = [kind |-> kind, ret |-> ret, values |-> old],
           p = [kind |-> kind, ret |-> ret, values |-> new]
    PROVE  p = [o EXCEPT !.values = new]
OBVIOUS

\* Only the values of the last frame differ.
LEMMA TopReplaced ==
    ASSUME NEW n \in Nat \ {0}, NEW f, NEW g, NEW x,
           f = [i \in 1 .. n |-> f[i]], g = [i \in 1 .. n |-> g[i]],
           \A i \in 1 .. n : i # n => g[i] = f[i],
           g[n] = [f[n] EXCEPT !.values = x]
    PROVE  g = [f EXCEPT ![n].values = x]
<1> DEFINE y == [f[n] EXCEPT !.values = x]
<1>1. [f EXCEPT ![n].values = x] = [f EXCEPT ![n] = y]
  OBVIOUS
<1> HIDE DEF y
<1>2. [f EXCEPT ![n] = y] = [i \in 1 .. n |-> IF i = n THEN y ELSE f[i]]
  OBVIOUS
<1>3. \A i \in 1 .. n : g[i] = IF i = n THEN y ELSE f[i]
  BY DEF y
<1> QED
  BY <1>1, <1>2, <1>3

\* the values of a frame n that is the newest one
Newest(b, n) ==
    [k \in 1 .. b[n] - (registers[Stack] + 1) + 1 |-> Cell(b[n] - k + 1)]

\* A step that leaves the kinds and everything above r14 alone gives the newest
\* frame other values.
LEMMA NewestValues ==
    ASSUME IInv, NEW b, FramesOpen(b), UNCHANGED kinds,
           \A a \in Addresses : a > registers[Stack] => memory'[a] = memory[a],
           NEW n, n = Len(kinds), NEW x, x = Newest(b, n)'
    PROVE  FramesAlong(b)' = [FramesAlong(b) EXCEPT ![n].values = x]
<1> DEFINE old == At(b, n)
           f == FramesAlong(b)
           g == FramesAlong(b)'
<1>1. n \in Nat \ {0} /\ n \in 1 .. n /\ n = Len(kinds')
  BY DEF FramesOpen
<1>2. /\ At(b, n)' = [kind |-> old.kind, ret |-> old.ret, values |-> x]
      /\ \A i \in 1 .. n : i # n => At(b, i)' = At(b, i)
  BY <1>1, OuterFrames DEF Newest
<1>3. /\ f = [i \in 1 .. n |-> At(b, i)] /\ g = [i \in 1 .. n |-> At(b, i)']
      /\ f[n] = old /\ g[n] = At(b, n)'
  BY <1>1 DEF FramesAlong
<1>4. \A i \in 1 .. n : i # n => g[i] = f[i]
  BY <1>2, <1>3
<1>5. PICK kind, ret, values :
          old = [kind |-> kind, ret |-> ret, values |-> values]
  BY DEF At
<1>6. At(b, n)' = [kind |-> kind, ret |-> ret, values |-> x]
  <2>1. old.kind = kind /\ old.ret = ret
    BY <1>5
  <2> HIDE DEF old
  <2> QED
    BY <1>2, <2>1
<1> HIDE DEF f, g, old
<1>7. g[n] = [f[n] EXCEPT !.values = x]
  <2>1. f[n] = [kind |-> kind, ret |-> ret, values |-> values]
    BY <1>3, <1>5
  <2>2. g[n] = [kind |-> kind, ret |-> ret, values |-> x]
    BY <1>3, <1>6
  <2> QED
    BY <2>1, <2>2, OtherValues
<1>8. f = [i \in 1 .. n |-> f[i]] /\ g = [i \in 1 .. n |-> g[i]]
  BY <1>3
<1>9. g = [f EXCEPT ![n].values = x]
  BY <1>1, <1>4, <1>7, <1>8, TopReplaced
<1> QED
  BY <1>9 DEF f, g

\* A push adds a value to the newest frame.
LEMMA PushFrames ==
    ASSUME IInv, NEW b, FramesOpen(b), PushValue, status' = "running"
    PROVE  \E v \in Words :
               FramesAlong(b)' = [FramesAlong(b) EXCEPT ![Len(kinds)].values =
                                                            Append(@, v)]
<1>n. PICK n : n = Len(kinds)
  OBVIOUS
<1>s. PICK s : s = registers[Stack]
  OBVIOUS
<1>m. PICK m : m = b[n] - End(b, n) + 1
  OBVIOUS
<1> DEFINE old == At(b, n)
<1>1. s \in Addresses /\ registers'[Stack] = s - 1 /\ UNCHANGED kinds
  BY <1>s, PushChain DEF PushValue
<1>2. PICK v \in Words : memory' = [memory EXCEPT ![s] = v]
  BY <1>s, PushCommand DEF PushValue
<1>3. \A a \in Addresses : a > s => memory'[a] = memory[a]
  BY <1>2, Contents DEF Addresses
<1>4. n \in 1 .. n /\ b[n] \in Addresses
  BY <1>n DEF FramesOpen
<1>5. /\ old.values \in Seq(Words) /\ Len(old.values) = m /\ m \in Nat
      /\ \A k \in 1 .. m : /\ old.values[k] = Cell(b[n] - k + 1)
                           /\ b[n] - k + 1 \in Addresses /\ b[n] - k + 1 > s
  BY <1>n, <1>s, <1>m, <1>4, FrameValues
<1>6. m = b[n] - s
  <2>1. End(b, n) = s + 1
    BY <1>n, <1>s DEF End
  <2> QED
    BY <1>m, <1>1, <1>4, <2>1 DEF Addresses
<1>7. b[n] - (registers'[Stack] + 1) + 1 = m + 1
  BY <1>1, <1>4, <1>6 DEF Addresses
<1> DEFINE new == [k \in 1 .. m + 1 |-> Cell(b[n] - k + 1)']
<1>8. new = Append(old.values, v)
  <2>1. \A k \in 1 .. m : Cell(b[n] - k + 1)' = old.values[k]
    BY <1>3, <1>5 DEF Cell
  <2>2. b[n] - (m + 1) + 1 = s /\ Cell(s)' = v
    <3>1. b[n] - (m + 1) + 1 = s
      <4>1. PICK x : x = b[n]
        OBVIOUS
      <4>2. m = x - s /\ x \in Addresses /\ s \in Addresses
        BY <1>1, <1>4, <1>6, <4>1
      <4>3. x - (m + 1) + 1 = s
        BY <4>2 DEF Addresses
      <4> QED
        BY <4>1, <4>3
    <3>2. Cell(s)' = v
      BY <1>1, <1>2, Contents DEF Cell
    <3> QED
      BY <3>1, <3>2
  <2>w. PICK w : w = old.values
    OBVIOUS
  <2> HIDE DEF old
  <2>3. /\ Append(w, v) \in Seq(Words) /\ Len(Append(w, v)) = m + 1
        /\ \A k \in 1 .. m : Append(w, v)[k] = w[k]
        /\ Append(w, v)[m + 1] = v
    BY <1>5, <2>w, AppendProperties
  <2>4. Append(w, v) = [k \in 1 .. m + 1 |-> Append(w, v)[k]]
    <3>1. PICK x : x = Append(w, v)
      OBVIOUS
    <3>2. x \in [1 .. m + 1 -> Words]
      BY <2>3, <3>1, LenProperties
    <3>3. x = [k \in 1 .. m + 1 |-> x[k]]
      BY <3>2
    <3> QED
      BY <3>1, <3>3
  <2>5. \A k \in 1 .. m + 1 : Cell(b[n] - k + 1)' = Append(w, v)[k]
    <3> SUFFICES ASSUME NEW k \in 1 .. m + 1
                 PROVE  Cell(b[n] - k + 1)' = Append(w, v)[k]
      OBVIOUS
    <3>1. CASE k = m + 1
      BY <2>2, <2>3, <3>1
    <3>2. CASE k # m + 1
      <4>1. k \in 1 .. m
        BY <1>5, <3>2
      <4> QED
        BY <2>1, <2>3, <2>w, <4>1
    <3> QED
      BY <3>1, <3>2
  <2>6. new = [k \in 1 .. m + 1 |-> Append(w, v)[k]]
    BY <2>5
  <2> QED
    BY <2>4, <2>6, <2>w
<1>9. PICK x : x = Append(old.values, v)
  OBVIOUS
<1>10. FramesAlong(b)' = [FramesAlong(b) EXCEPT ![n].values = x]
  <2>1. x = Newest(b, n)'
    BY <1>7, <1>8, <1>9 DEF Newest
  <2> QED
    BY <1>n, <1>s, <1>1, <1>3, <2>1, NewestValues
<1>11. FramesAlong(b)[n] = old
  BY <1>n, <1>4 DEF FramesAlong
<1> HIDE DEF old
<1> QED
  BY <1>n, <1>9, <1>10, <1>11

\* A pop drops the newest value of the newest frame.
LEMMA PopFrames ==
    ASSUME IInv, NEW b, FramesOpen(b), PopValue, status' = "running"
    PROVE  /\ At(b, Len(kinds)).values # <<>>
           /\ FramesAlong(b)' = [FramesAlong(b) EXCEPT ![Len(kinds)].values = Front(@)]
<1>n. PICK n : n = Len(kinds)
  OBVIOUS
<1>s. PICK s : s = registers[Stack]
  OBVIOUS
<1>m. PICK m : m = b[n] - End(b, n) + 1
  OBVIOUS
<1> DEFINE old == At(b, n)
<1>1. /\ s \in Nat /\ s < b[n] /\ b[n] \in Addresses /\ n \in 1 .. n
      /\ registers'[Stack] = s + 1 /\ memory' = memory /\ UNCHANGED kinds
  BY <1>n, <1>s, PopChain, Contents DEF PopValue, FramesOpen, Chain
<1>2. /\ old.values \in Seq(Words) /\ Len(old.values) = m /\ m \in Nat
      /\ \A k \in 1 .. m : old.values[k] = Cell(b[n] - k + 1)
  BY <1>n, <1>m, <1>1, FrameValues
<1>3. m = b[n] - s /\ m # 0
  <2>1. End(b, n) = s + 1
    BY <1>n, <1>s DEF End
  <2> QED
    BY <1>m, <1>1, <2>1 DEF Addresses
<1>4. b[n] - (registers'[Stack] + 1) + 1 = m - 1
  BY <1>1, <1>3 DEF Addresses
<1> DEFINE new == [k \in 1 .. m - 1 |-> Cell(b[n] - k + 1)']
<1>5. new = Front(old.values) /\ old.values # <<>>
  <2>w. PICK w : w = old.values
    OBVIOUS
  <2> HIDE DEF old
  <2>1. \A k \in 1 .. m - 1 : Cell(b[n] - k + 1)' = w[k]
    BY <1>1, <1>2, <2>w DEF Cell
  <2>2. w \in Seq(Words) /\ Len(w) = m /\ m - 1 \in Nat
    BY <1>2, <1>3, <2>w
  <2>3. w # <<>>
    BY <1>3, <2>2
  <2>4. Front(w) = [k \in 1 .. m - 1 |-> w[k]]
    BY <2>2 DEF Front
  <2> QED
    BY <2>1, <2>3, <2>4, <2>w
<1>6. PICK x : x = Front(old.values)
  OBVIOUS
<1>7. FramesAlong(b)' = [FramesAlong(b) EXCEPT ![n].values = x]
  <2>1. x = Newest(b, n)'
    BY <1>4, <1>5, <1>6 DEF Newest
  <2> QED
    BY <1>n, <1>s, <1>1, <2>1, NewestValues
<1>8. FramesAlong(b)[n] = old
  BY <1>n, <1>1 DEF FramesAlong
<1>9. At(b, Len(kinds)).values # <<>>
  BY <1>n, <1>5
<1> HIDE DEF old
<1> QED
  BY <1>n, <1>6, <1>7, <1>8, <1>9

\* What a sequence given cell by cell is with one more cell.
LEMMA AppendFunction ==
    ASSUME NEW n \in Nat, NEW f, f = [i \in 1 .. n |-> f[i]], NEW x
    PROVE  Append(f, x) = [i \in 1 .. n + 1 |-> IF i = n + 1 THEN x ELSE f[i]]
<1> DEFINE S == {f[i] : i \in 1 .. n} \cup {x}
<1>1. f \in Seq(S) /\ Len(f) = n /\ x \in S
  OBVIOUS
<1> HIDE DEF S
<1> DEFINE g == Append(f, x)
<1>2. /\ g \in Seq(S) /\ Len(g) = n + 1
      /\ \A i \in 1 .. n : g[i] = f[i]
      /\ g[n + 1] = x
  BY <1>1, AppendProperties
<1> HIDE DEF g
<1>3. g \in [1 .. n + 1 -> S]
  BY <1>2, LenProperties
<1>4. \A i \in 1 .. n + 1 : g[i] = IF i = n + 1 THEN x ELSE f[i]
  BY <1>2
<1>5. g = [i \in 1 .. n + 1 |-> IF i = n + 1 THEN x ELSE f[i]]
  BY <1>3, <1>4
<1> QED
  BY <1>5 DEF g

\* A frame is opened with no values, and the others stay as they are.
LEMMA OpenedFrame ==
    ASSUME IInv, NEW b, FramesOpen(b), NEW kind, NEW ret, NEW c \in Addresses,
           kinds' = Append(kinds, kind), registers'[Stack] = c,
           c + (IF kind = "body" THEN 3 ELSE 2) = registers[Stack] + 1,
           \A a \in Addresses : a > registers[Stack] => memory'[a] = memory[a],
           ret = IF kind = "body" THEN Cell(c + 2)' ELSE 0
    PROVE  FramesAlong(Append(b, c))'
             = Append(FramesAlong(b), [kind |-> kind, ret |-> ret, values |-> <<>>])
<1>n. PICK n : n = Len(kinds)
  OBVIOUS
<1>d. PICK d : d = Append(b, c)
  OBVIOUS
<1>1. /\ n \in Nat \ {0} /\ b \in [1 .. n -> Addresses]
      /\ kinds \in Seq({"main", "args", "body"})
  BY <1>n DEF FramesOpen, Chain
<1>2. /\ Len(kinds') = n + 1 /\ kinds'[n + 1] = kind
      /\ \A i \in 1 .. n : kinds'[i] = kinds[i]
  BY <1>n, <1>1
<1>3. d[n + 1] = c /\ \A i \in 1 .. n : d[i] = b[i]
  <2>1. b \in Seq(Addresses) /\ Len(b) = n
    BY <1>1
  <2> QED
    BY <1>d, <2>1, AppendProperties
<1>4. ASSUME NEW i \in 1 .. n
      PROVE  At(d, i)' = At(b, i)
  <2>1. i # n + 1 /\ i + 1 \in 1 .. n + 1
    BY <1>1
  <2>2. End(d, i)' = d[i + 1] + (IF kinds'[i + 1] = "body" THEN 3 ELSE 2)
    BY <1>2, <2>1 DEF End, Offset
  <2>3. CASE i = n
    <3>1. End(b, i) = registers[Stack] + 1
      BY <1>n, <2>3 DEF End
    <3>2. End(d, i)' = c + (IF kind = "body" THEN 3 ELSE 2)
      BY <1>2, <1>3, <2>2, <2>3
    <3>3. End(d, i)' = End(b, i)
      BY <3>1, <3>2
    <3> QED
      BY <1>n, <1>2, <1>3, <3>3, KeptFrame
  <2>4. CASE i # n
    <3>1. i + 1 \in 1 .. n
      BY <1>1, <2>4
    <3>2. End(b, i) = b[i + 1] + (IF kinds[i + 1] = "body" THEN 3 ELSE 2)
      BY <1>n, <2>4 DEF End, Offset
    <3>3. End(d, i)' = End(b, i)
      BY <1>2, <1>3, <2>2, <3>1, <3>2
    <3> QED
      BY <1>n, <1>2, <1>3, <3>3, KeptFrame
  <2> QED
    BY <2>3, <2>4
<1>5. At(d, n + 1)' = [kind |-> kind, ret |-> ret, values |-> <<>>]
  <2>1. End(d, n + 1)' = c + 1
    BY <1>2 DEF End
  <2>2. d[n + 1] - End(d, n + 1)' + 1 = 0
    BY <1>3, <2>1 DEF Addresses
  <2>3. [k \in 1 .. d[n + 1] - End(d, n + 1)' + 1 |-> Cell(d[n + 1] - k + 1)'] = <<>>
    BY <2>2
  <2> QED
    BY <1>2, <1>3, <2>3 DEF At
<1> DEFINE new == [kind |-> kind, ret |-> ret, values |-> <<>>]
<1>6. FramesAlong(d)' = [i \in 1 .. n + 1 |-> At(d, i)']
  BY <1>2 DEF FramesAlong
<1>7. FramesAlong(b) = [i \in 1 .. n |-> At(b, i)]
  BY <1>n DEF FramesAlong
<1>8. Append(FramesAlong(b), new)
        = [i \in 1 .. n + 1 |-> IF i = n + 1 THEN new ELSE FramesAlong(b)[i]]
  <2> DEFINE f == FramesAlong(b)
  <2>1. f = [i \in 1 .. n |-> f[i]]
    BY <1>7
  <2> HIDE DEF f, new
  <2>2. Append(f, new) = [i \in 1 .. n + 1 |-> IF i = n + 1 THEN new ELSE f[i]]
    BY <1>1, <2>1, AppendFunction
  <2> QED
    BY <2>2 DEF f
<1>9. \A i \in 1 .. n + 1 :
          At(d, i)' = IF i = n + 1 THEN new ELSE FramesAlong(b)[i]
  <2> SUFFICES ASSUME NEW i \in 1 .. n + 1
               PROVE  At(d, i)' = IF i = n + 1 THEN new ELSE FramesAlong(b)[i]
    OBVIOUS
  <2>1. i = n + 1 \/ i \in 1 .. n
    BY <1>1
  <2>2. i \in 1 .. n => i # n + 1 /\ FramesAlong(b)[i] = At(b, i)
    BY <1>1, <1>7
  <2> QED
    BY <1>4, <1>5, <2>1, <2>2
<1> HIDE DEF new
<1>10. FramesAlong(d)' = Append(FramesAlong(b), new)
  BY <1>6, <1>8, <1>9
<1> QED
  BY <1>d, <1>10 DEF new

\* prc opens a frame for the arguments.
LEMMA PrepareFrames ==
    ASSUME IInv, NEW b, FramesOpen(b), Prepare, status' = "running"
    PROVE  \E d : /\ Chain(d)'
                  /\ FramesAlong(d)' = Append(FramesAlong(b),
                        [kind |-> "args", ret |-> 0, values |-> <<>>])
<1>1. PICK c \in Addresses : c = registers[Stack] - 1 /\ Chain(Append(b, c))'
  BY PrepareChain
<1> DEFINE kind == "args"
           ret == 0
<1>2. /\ kinds' = Append(kinds, kind) /\ registers'[Stack] = c
      /\ \A a \in Addresses : a > registers[Stack] => memory'[a] = memory[a]
  BY <1>1, PrepareChain
<1>3. c + (IF kind = "body" THEN 3 ELSE 2) = registers[Stack] + 1
  BY <1>1, Contents
<1>4. ret = IF kind = "body" THEN Cell(c + 2)' ELSE 0
  OBVIOUS
<1> HIDE DEF kind, ret
<1>5. FramesAlong(Append(b, c))'
        = Append(FramesAlong(b), [kind |-> kind, ret |-> ret, values |-> <<>>])
  BY <1>2, <1>3, <1>4, OpenedFrame
<1> QED
  BY <1>1, <1>5 DEF kind, ret

\* A call opens a frame that remembers where it was made.
LEMMA EnterFrames ==
    ASSUME IInv, NEW b, FramesOpen(b), Enter, status' = "running"
    PROVE  \E d : /\ Chain(d)'
                  /\ FramesAlong(d)' = Append(FramesAlong(b),
                        [kind |-> "body", ret |-> Above(registers[Instruction]),
                         values |-> <<>>])
<1>1. PICK c \in Addresses : c = registers[Stack] - 2 /\ Chain(Append(b, c))'
  BY EnterChain
<1>r. PICK ret : ret = Above(registers[Instruction])
  OBVIOUS
<1> DEFINE kind == "body"
<1>2. /\ kinds' = Append(kinds, kind) /\ registers'[Stack] = c
      /\ registers[Stack] \in Addresses
      /\ \A a \in Addresses : a > registers[Stack] => memory'[a] = memory[a]
      /\ memory'[registers[Stack]] = ret
  BY <1>1, <1>r, EnterChain
<1>3. c + (IF kind = "body" THEN 3 ELSE 2) = registers[Stack] + 1
  BY <1>1, Contents
<1>4. ret = IF kind = "body" THEN Cell(c + 2)' ELSE 0
  <2>1. c + 2 = registers[Stack]
    BY <1>1, Contents
  <2>2. Cell(c + 2)' = memory'[c + 2]
    BY <1>2, <2>1 DEF Cell
  <2> QED
    BY <1>2, <2>1, <2>2
<1> HIDE DEF kind
<1>5. FramesAlong(Append(b, c))'
        = Append(FramesAlong(b), [kind |-> kind, ret |-> ret, values |-> <<>>])
  BY <1>2, <1>3, <1>4, OpenedFrame
<1> QED
  BY <1>1, <1>5, <1>r DEF kind

\* A return closes the callee's frame and that of its arguments, and resumes
\* where the call was made.
LEMMA LeaveFrames ==
    ASSUME IInv, NEW b, FramesOpen(b), Leave, status' = "running"
    PROVE  /\ kinds[Len(kinds)] = "body"
           /\ registers'[Instruction] = At(b, Len(kinds)).ret
           /\ \E d : /\ Chain(d)'
                     /\ FramesAlong(d)' = SubSeq(FramesAlong(b), 1, Len(kinds) - 2)
<1>n. PICK n : n = Len(kinds)
  OBVIOUS
<1>1. PICK d : Chain(d)' /\ d = SubSeq(b, 1, n - 2)
  BY <1>n, LeaveChain
<1>2. /\ n > 2 /\ kinds[n] = "body" /\ kinds[n - 1] = "args"
      /\ kinds' = SubSeq(kinds, 1, n - 2)
      /\ registers'[Stack] = b[n - 1] + 1 /\ memory' = memory
      /\ b[n] + 2 \in Addresses /\ registers'[Instruction] = memory[b[n] + 2]
  BY <1>n, LeaveChain
<1>3. /\ n \in Nat \ {0} /\ b \in [1 .. n -> Addresses]
      /\ kinds \in Seq({"main", "args", "body"})
  BY <1>n DEF FramesOpen, Chain
<1>4. registers'[Instruction] = At(b, n).ret
  BY <1>2 DEF At, Cell
<1>m. PICK m : m = n - 2
  OBVIOUS
<1>5. m \in Nat /\ m < n /\ m + 1 = n - 1 /\ \A i \in 1 .. m : i \in 1 .. n /\ i # n
  BY <1>2, <1>3, <1>m
<1>6. /\ Len(kinds') = m
      /\ \A i \in 1 .. m : kinds'[i] = kinds[i] /\ d[i] = b[i]
  <2>1. Len(kinds') = m /\ \A i \in 1 .. m : kinds'[i] = kinds[i]
    BY <1>n, <1>m, <1>2, <1>3, <1>5, SubSeqProperties
  <2>2. b \in Seq(Addresses) /\ Len(b) = n
    BY <1>3
  <2>3. \A i \in 1 .. m : d[i] = b[i]
    BY <1>m, <1>1, <1>5, <2>2, SubSeqProperties
  <2> QED
    BY <2>1, <2>3
<1>7. ASSUME NEW i \in 1 .. m
      PROVE  At(d, i)' = At(b, i)
  <2>1. CASE i = m
    <3>1. End(d, i)' = (b[n - 1] + 1) + 1
      BY <1>2, <1>6, <2>1 DEF End
    <3>2. End(b, i) = b[n - 1] + 2
      BY <1>n, <1>2, <1>5, <2>1 DEF End, Offset
    <3>3. b[n - 1] \in Addresses
      BY <1>2, <1>3
    <3>4. End(d, i)' = End(b, i)
      BY <3>1, <3>2, <3>3 DEF Addresses
    <3> QED
      BY <1>n, <1>2, <1>5, <1>6, <3>4, KeptFrame
  <2>2. CASE i # m
    <3>1. i + 1 \in 1 .. m
      BY <1>5, <2>2
    <3>2. End(d, i)' = d[i + 1] + (IF kinds'[i + 1] = "body" THEN 3 ELSE 2)
      BY <1>6, <2>2 DEF End, Offset
    <3>3. End(b, i) = b[i + 1] + (IF kinds[i + 1] = "body" THEN 3 ELSE 2)
      BY <1>n, <1>5 DEF End, Offset
    <3>4. End(d, i)' = End(b, i)
      BY <1>6, <3>1, <3>2, <3>3
    <3> QED
      BY <1>n, <1>2, <1>5, <1>6, <3>4, KeptFrame
  <2> QED
    BY <2>1, <2>2
<1>8. FramesAlong(d)' = [i \in 1 .. m |-> At(b, i)]
  <2>1. FramesAlong(d)' = [i \in 1 .. m |-> At(d, i)']
    BY <1>6 DEF FramesAlong
  <2> QED
    BY <1>7, <2>1
<1>9. SubSeq(FramesAlong(b), 1, m) = [i \in 1 .. m |-> At(b, i)]
  <2> DEFINE f == FramesAlong(b)
             S == {At(b, i) : i \in 1 .. n}
  <2>1. f = [i \in 1 .. n |-> At(b, i)]
    BY <1>n DEF FramesAlong
  <2>2. f \in Seq(S) /\ Len(f) = n
    BY <1>3, <2>1
  <2> HIDE DEF f, S
  <2>3. SubSeq(f, 1, m) = [i \in 1 .. m |-> f[i]]
    BY <1>5, <2>2
  <2>4. \A i \in 1 .. m : f[i] = At(b, i)
    BY <1>5, <2>1
  <2> QED
    BY <2>3, <2>4 DEF f
<1> QED
  BY <1>n, <1>m, <1>1, <1>2, <1>4, <1>8, <1>9

\* The other commands leave every frame alone.
LEMMA LocalFrames ==
    ASSUME IInv, NEW b, FramesOpen(b), Local
    PROVE  FramesAlong(b)' = FramesAlong(b)
<1>1. /\ UNCHANGED kinds /\ registers'[Stack] = registers[Stack]
      /\ \A a \in Addresses : a > registers[Stack] => memory'[a] = memory[a]
  BY DEF Local
<1>2. ASSUME NEW i \in 1 .. Len(kinds)
      PROVE  At(b, i)' = At(b, i)
  <2>1. End(b, i)' = End(b, i)
    BY <1>1 DEF End, Offset
  <2> QED
    BY <1>1, <2>1, KeptFrame
<1> QED
  BY <1>1, <1>2 DEF FramesAlong

\* The main program starts with no values.
LEMMA StartFrames ==
    ASSUME IInv, StartMain
    PROVE  \E d : /\ Chain(d)'
                  /\ FramesAlong(d)' = <<[kind |-> "main", ret |-> 0, values |-> <<>>]>>
<1>1. PICK f \in Addresses : Chain(<<f>>)' /\ f = registers'[Stack]
  BY StartChain
<1>2. kinds' = <<"main">> /\ Len(kinds') = 1 /\ kinds'[1] = "main"
  BY StartChain
<1>d. PICK d : d = <<f>>
  OBVIOUS
<1>3. d[1] = f
  BY <1>d
<1>4. At(d, 1)' = [kind |-> "main", ret |-> 0, values |-> <<>>]
  <2>1. End(d, 1)' = f + 1
    BY <1>1, <1>2 DEF End
  <2>2. d[1] - End(d, 1)' + 1 = 0
    BY <1>3, <2>1 DEF Addresses
  <2>3. [k \in 1 .. d[1] - End(d, 1)' + 1 |-> Cell(d[1] - k + 1)'] = <<>>
    BY <2>2
  <2> QED
    BY <1>2, <2>3 DEF At
<1>5. FramesAlong(d)' = [i \in 1 .. 1 |-> At(d, i)']
  BY <1>2 DEF FramesAlong
<1> DEFINE new == [kind |-> "main", ret |-> 0, values |-> <<>>]
<1> HIDE DEF new
<1>6. FramesAlong(d)' = <<new>>
  BY <1>4, <1>5 DEF new
<1> QED
  BY <1>1, <1>d, <1>6 DEF new

-----------------------------------------------------------------------------
(***************************************************************************)
(* The refinement.                                                         *)
(***************************************************************************)
\* what the mapping gives for the frames
Frames == IF Live THEN ReadBack ELSE <<>>

\* What each step of CallStack says of the frames the mapping gives: the main
\* program starts with one empty frame.
LEMMA StartStep ==
    Abstract!Start <=>
      /\ ~Live /\ Live' /\ registers'[Instruction] \in Words
      /\ Frames' = <<[kind |-> "main", ret |-> 0, values |-> <<>>]>>
BY DEF Frames, ReadBack, Abstract!Start, Abstract!Frame

\* A push.
LEMMA PushValueStep ==
    Abstract!PushValue <=>
      /\ Live /\ Live' = Live
      /\ registers'[Instruction] = (registers[Instruction] + 1) % WordCount
      /\ \E v \in Words :
            Frames' = [Frames EXCEPT ![Len(Frames)].values = Append(@, v)]
BY DEF Frames, ReadBack, Abstract!PushValue, Abstract!Advance

\* A pop.
LEMMA PopValueStep ==
    Abstract!PopValue <=>
      /\ Live /\ Live' = Live
      /\ registers'[Instruction] = (registers[Instruction] + 1) % WordCount
      /\ Last(Frames).values # <<>>
      /\ Frames' = [Frames EXCEPT ![Len(Frames)].values = Front(@)]
BY DEF Frames, ReadBack, Abstract!PopValue, Abstract!Advance, Abstract!Top,
   Abstract!Last, Abstract!Front, Last, Front

\* A call is prepared.
LEMMA PrepareStep ==
    Abstract!Prepare <=>
      /\ Live /\ Live' = Live
      /\ registers'[Instruction] = (registers[Instruction] + 1) % WordCount
      /\ Frames' = Append(Frames, [kind |-> "args", ret |-> 0, values |-> <<>>])
BY DEF Frames, ReadBack, Abstract!Prepare, Abstract!Advance, Abstract!Frame

\* A call.
LEMMA EnterStep ==
    Abstract!Enter <=>
      /\ Live /\ Live' = Live
      /\ registers'[Instruction] \in Words
      /\ Last(Frames).kind = "args"
      /\ Frames' = Append(Frames,
            [kind |-> "body", ret |-> (registers[Instruction] + 1) % WordCount,
             values |-> <<>>])
BY DEF Frames, ReadBack, Abstract!Enter, Abstract!Frame,
   Abstract!Top, Abstract!Last, Last

\* A return.
LEMMA LeaveStep ==
    Abstract!Leave <=>
      /\ Live /\ Live' = Live
      /\ registers'[Instruction] = Last(Frames).ret
      /\ Last(Frames).kind = "body"
      /\ Frames' = SubSeq(Frames, 1, Len(Frames) - 2)
BY DEF Frames, ReadBack, Abstract!Leave, Abstract!Top, Abstract!Last, Last

\* Another command.
LEMMA LocalStep ==
    Abstract!Local <=>
      /\ Live /\ Live' = Live
      /\ registers'[Instruction] \in Words
      /\ Frames' = Frames
BY DEF Frames, ReadBack, Abstract!Local

\* The program exits or fails.
LEMMA StopStep ==
    Abstract!Stop <=>
      /\ Live /\ ~Live' /\ Frames' = <<>>
      /\ registers'[Instruction] \in Words
BY DEF Frames, ReadBack, Abstract!Stop

\* The frames the mapping gives are those along any chain.
LEMMA FramesHere ==
    ASSUME NEW b, FramesOpen(b), Live
    PROVE  /\ Frames = FramesAlong(b) /\ Len(Frames) = Len(kinds)
           /\ Last(Frames) = At(b, Len(kinds))
<1>1. Frames = FramesAlong(b)
  BY ReadAlong DEF Frames, FramesOpen
<1>2. Len(kinds) \in Nat \ {0}
  BY DEF FramesOpen
<1>3. Len(Frames) = Len(kinds) /\ Frames[Len(kinds)] = At(b, Len(kinds))
  BY <1>1, <1>2 DEF FramesAlong
<1> QED
  BY <1>1, <1>3 DEF Last

\* The same after a step.
LEMMA FramesNext ==
    ASSUME CallsInv', NEW d, Chain(d)', Live'
    PROVE  Frames' = FramesAlong(d)'
<1>1. Len(kinds') \in Nat \ {0}
  BY DEF CallsInv, KindsInv
<1> QED
  BY <1>1, ReadAlongNext DEF Frames

\* Every step of a program that keeps the convention is one of CallStack.
LEMMA StepRefines ==
    ASSUME IInv, CallsInv, IInv', CallsInv', [CallNext]_callVars
    PROVE  Abstract!Next \/ (Frames' = Frames /\ Live' = Live
                               /\ registers'[Instruction] = registers[Instruction])
<1>1. registers[Instruction] \in Words /\ registers'[Instruction] \in Words
  BY SpecialRegisters DEF IInv, TypeOK, StorageTypeOK
<1>2. CASE StartMain
  <2>1. status' = "running" /\ ~Live /\ Live'
    BY <1>2 DEF StartMain, Execute, Live
  <2>2. PICK d : /\ Chain(d)'
                 /\ FramesAlong(d)' = <<[kind |-> "main", ret |-> 0, values |-> <<>>]>>
    BY <1>2, StartFrames
  <2>3. Frames' = <<[kind |-> "main", ret |-> 0, values |-> <<>>]>>
    BY <2>1, <2>2, FramesNext
  <2>4. Abstract!Start
    BY <1>1, <2>1, <2>3, StartStep
  <2> QED
    BY <2>4 DEF Abstract!Next
<1>3. CASE (StackStep \/ Local) /\ ~Live'
  <2>1. Live
    BY <1>3, StackSteps, LocalSteps DEF Live
  <2>2. Abstract!Stop
    BY <1>1, <1>3, <2>1, StopStep DEF Frames
  <2> QED
    BY <2>2 DEF Abstract!Next
<1>4. CASE StackStep /\ Live'
  <2>1. status' = "running" /\ Live /\ Live' = Live
    BY <1>4, StackSteps DEF Live
  <2>2. PICK b : FramesOpen(b)
    BY <2>1, OpenFrames
  <2>3. /\ Frames = FramesAlong(b) /\ Len(Frames) = Len(kinds)
        /\ Last(Frames) = At(b, Len(kinds))
    BY <2>1, <2>2, FramesHere
  <2>4. Above(registers[Instruction]) = (registers[Instruction] + 1) % WordCount
    BY <1>1, NextInstruction
  <2>5. CASE PushValue
    <3>1. PICK v \in Words :
              FramesAlong(b)' = [FramesAlong(b) EXCEPT ![Len(kinds)].values =
                                                           Append(@, v)]
      BY <2>1, <2>2, <2>5, PushFrames
    <3>2. Frames' = FramesAlong(b)'
      BY <2>1, <2>2, <2>5, PushChain, FramesNext
    <3>3. registers'[Instruction] = Above(registers[Instruction])
      <4>1. registers' = [registers EXCEPT
                            ![Instruction] = Above(registers[Instruction]),
                            ![Stack] = Below(registers[Stack])]
        BY <2>1, <2>5, PushCommand DEF PushValue
      <4> QED
        BY <4>1, Contents, SpecialRegisters
    <3>4. Abstract!PushValue
      BY <2>1, <2>3, <2>4, <3>1, <3>2, <3>3, PushValueStep
    <3> QED
      BY <3>4 DEF Abstract!Next
  <2>6. CASE PopValue
    <3>1. /\ At(b, Len(kinds)).values # <<>>
          /\ FramesAlong(b)' = [FramesAlong(b) EXCEPT ![Len(kinds)].values = Front(@)]
      BY <2>1, <2>2, <2>6, PopFrames
    <3>2. Frames' = FramesAlong(b)'
      BY <2>1, <2>2, <2>6, PopChain, FramesNext
    <3>3. registers'[Instruction] = Above(registers[Instruction])
      BY <2>1, <2>6, PopCommand DEF PopValue
    <3>4. Abstract!PopValue
      BY <2>1, <2>3, <2>4, <3>1, <3>2, <3>3, PopValueStep
    <3> QED
      BY <3>4 DEF Abstract!Next
  <2>7. CASE Prepare
    <3>1. PICK d : /\ Chain(d)'
                   /\ FramesAlong(d)' = Append(FramesAlong(b),
                         [kind |-> "args", ret |-> 0, values |-> <<>>])
      BY <2>1, <2>2, <2>7, PrepareFrames
    <3>2. Frames' = FramesAlong(d)'
      BY <2>1, <3>1, FramesNext
    <3>3. registers'[Instruction] = Above(registers[Instruction])
      BY <2>1, <2>7, PrepareCommand DEF Prepare
    <3>4. Abstract!Prepare
      BY <2>1, <2>3, <2>4, <3>1, <3>2, <3>3, PrepareStep
    <3> QED
      BY <3>4 DEF Abstract!Next
  <2>8. CASE Enter
    <3>1. PICK d : /\ Chain(d)'
                   /\ FramesAlong(d)' = Append(FramesAlong(b),
                         [kind |-> "body", ret |-> Above(registers[Instruction]),
                          values |-> <<>>])
      BY <2>1, <2>2, <2>8, EnterFrames
    <3>2. Frames' = FramesAlong(d)'
      BY <2>1, <3>1, FramesNext
    <3>3. Last(Frames).kind = "args"
      BY <2>3, <2>8 DEF Enter, At, Last
    <3>4. Abstract!Enter
      BY <1>1, <2>1, <2>3, <2>4, <3>1, <3>2, <3>3, EnterStep
    <3> QED
      BY <3>4 DEF Abstract!Next
  <2>9. CASE Leave
    <3>1. /\ kinds[Len(kinds)] = "body"
          /\ registers'[Instruction] = At(b, Len(kinds)).ret
      BY <2>1, <2>2, <2>9, LeaveFrames
    <3>2. PICK d : /\ Chain(d)'
                   /\ FramesAlong(d)' = SubSeq(FramesAlong(b), 1, Len(kinds) - 2)
      BY <2>1, <2>2, <2>9, LeaveFrames
    <3>3. Frames' = FramesAlong(d)'
      BY <2>1, <3>2, FramesNext
    <3>4. Last(Frames).kind = "body"
      BY <2>3, <3>1 DEF At
    <3>5. Abstract!Leave
      BY <2>1, <2>3, <3>1, <3>2, <3>3, <3>4, LeaveStep
    <3> QED
      BY <3>5 DEF Abstract!Next
  <2> QED
    BY <1>4, <2>5, <2>6, <2>7, <2>8, <2>9 DEF StackStep
<1>5. CASE Local /\ Live'
  <2>1. Live /\ Live' = Live
    BY <1>5, LocalSteps DEF Live
  <2>2. PICK b : FramesOpen(b)
    BY <2>1, OpenFrames
  <2>3. Frames = FramesAlong(b) /\ FramesAlong(b)' = FramesAlong(b)
    BY <1>5, <2>1, <2>2, FramesHere, LocalFrames
  <2>4. Frames' = FramesAlong(b)'
    BY <1>5, <2>2, LocalChain, FramesNext
  <2>5. Abstract!Local
    BY <1>1, <2>1, <2>3, <2>4, LocalStep
  <2> QED
    BY <2>5 DEF Abstract!Next
<1>6. CASE UNCHANGED callVars
  BY <1>6
  DEF callVars, vars, Frames, ReadBack, FrameOf, FrameEnd, FrameBase, Cell, Live
<1> QED
  BY <1>2, <1>3, <1>4, <1>5, <1>6 DEF CallNext, StackStep

\* A program that keeps the convention sees its frames as if they were kept
\* apart: no push, pop, call or return (CommonExecutor) damages the values of an
\* outer frame, and every return resumes after its own call, for every size of
\* the machine.
THEOREM CallsRefine == CallSpec => ImplementsCallStack
<1>1. CallInit => Abstract!Init
  <2> SUFFICES ASSUME CallInit PROVE Abstract!Init
    OBVIOUS
  <2>1. status = "idle" /\ registers = [r \in Registers |-> 0]
    BY DEF CallInit, Init
  <2>2. ~Live /\ registers[Instruction] = 0
    BY <2>1, SpecialRegisters DEF Live
  <2> QED
    BY <2>2 DEF Abstract!Init
<1> DEFINE mapped == <<IF Live THEN [i \in 1 .. Len(kinds) |-> FrameOf(i)] ELSE <<>>,
                       registers[Instruction], Live>>
<1>2. (IInv /\ CallsInv) /\ (IInv /\ CallsInv)' /\ [CallNext]_callVars
        => [Abstract!Next]_mapped
  BY StepRefines DEF Frames, ReadBack
<1> QED
  BY <1>1, <1>2, CallsInvariance, PTL DEF CallSpec, ImplementsCallStack, Abstract!Spec
=============================================================================
