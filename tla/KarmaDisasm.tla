---------------------------- MODULE KarmaDisasm ----------------------------
(***************************************************************************)
(* The disassembler: Disassembler::Impl and Labels                         *)
(* (src/karma/include/disassembler/{impl,labels}.cpp).                     *)
(*                                                                         *)
(* The listing is written line by line; whatever ends the disassembly      *)
(* leaves the lines written so far in the file.                            *)
(***************************************************************************)
EXTENDS KarmaLines

VARIABLES
    phase,          \* what the process is at
    error,          \* the class of the error thrown
    data,           \* the Exec::Data
    pos,            \* the words, or the commands, gone through
    constantLabels, commandLabels,      \* of Labels: an address |-> its label
    listing         \* the output

disasmVars == <<phase, error, data, pos, constantLabels, commandLabels, listing>>

DisasmErrors == {"UnknownConstantType", "ConstantNoValue",
                 "NoTrailingZeroInString", "UnknownCommand"}

Numbered(prefix, n) == <<prefix, n>>
MainLabel == Numbered("main", 0)

\* a number for every cell is enough
ASSUME LabelNamesAssumption ==
    /\ MainLabel \in Labels
    /\ \A n \in 1 .. MemorySize :
          Numbered("constant", n) \in Labels /\ Numbered("command", n) \in Labels

NoLabels == [a \in {} |-> NoLabel]

Fail(kind) == phase' = "failed" /\ error' = kind

\* DisassembleImpl for what Read has returned
StartDisassembly(read) ==
    /\ data' = read /\ pos' = 0 /\ listing' = <<>>
    /\ constantLabels' = NoLabels /\ commandLabels' = NoLabels
    /\ phase' = "constants" /\ UNCHANGED error
-----------------------------------------------------------------------------
(* DisassembleConstants. *)

Type == data.constants[pos + 1]
Start == pos + 1                    \* the word the value starts at

\* the words of the value: none if the segment ends first
Zeros == {n \in 1 .. Len(data.constants) - Start :
              data.constants[Start + n] = StringEnd}
Width == IF Type \in {Uint32Type, CharType} THEN 1
         ELSE IF Type \in {Uint64Type, DoubleType} THEN 2
         ELSE IF Zeros = {} THEN Len(data.constants) ELSE Min(Zeros)

Value == SubSeq(data.constants, Start + 1, Start + Width)

Digits(double) == IF double \in DOMAIN Rounded THEN Rounded[double] ELSE double

\* the words of a string without the one that ends it, or of a character
Text(words) == Escape([i \in DOMAIN words |-> WordToChar(words[i])])

ConstantLine(label) ==
    LET line == [Blank EXCEPT !.label = label, !.item = "constant", !.type = Type]
    IN  CASE Type = Uint32Type -> [line EXCEPT !.num = Value[1]]
          [] Type = Uint64Type -> [line EXCEPT !.num = Double(Value)]
          [] Type = DoubleType -> [line EXCEPT !.num = Digits(Double(Value))]
          [] Type = CharType   -> [line EXCEPT !.text = Quoted(Text(Value), CharQuote)]
          [] Type = StringType -> [line EXCEPT !.text =
                                   Quoted(Text(Front(Value)), StringQuote)]

NextConstantLabel ==
    Numbered("constant", Cardinality(DOMAIN constantLabels) + 1)

RecordConstantLabel ==
    LET address == Len(data.code) + Start
    IN  constantLabels' = [a \in DOMAIN constantLabels \cup {address} |->
                              IF a = address THEN NextConstantLabel
                                             ELSE constantLabels[a]]

AtConstant == phase = "constants" /\ pos < Len(data.constants)

UnknownConstantType ==
    /\ AtConstant /\ Type \notin Types
    /\ Fail("UnknownConstantType")
    /\ UNCHANGED <<data, pos, constantLabels, commandLabels, listing>>

\* the label is recorded before the value is looked at
TruncatedConstant ==
    /\ AtConstant /\ Type \in Types
    /\ Start + Width > Len(data.constants)
    /\ Fail(IF Type = StringType /\ Start < Len(data.constants)
            THEN "NoTrailingZeroInString" ELSE "ConstantNoValue")
    /\ RecordConstantLabel
    /\ UNCHANGED <<data, pos, commandLabels, listing>>

DisassembleConstant ==
    /\ AtConstant /\ Type \in Types
    /\ Start + Width <= Len(data.constants)
    /\ RecordConstantLabel
    /\ listing' = Append(listing, ConstantLine(NextConstantLabel))
    /\ pos' = Start + Width
    /\ UNCHANGED <<phase, error, data, commandLabels>>
-----------------------------------------------------------------------------
(* PrepareCommandLabels. *)

\* Mutant: an address that is ignored gets a label too.
ReferencedByAll ==
    {Address(w) : w \in {x \in ToSet(data.code) : GetCode(x) \in UsesAddress}}
        \cap 0 .. Len(data.code) - 1

\* the addresses in the code that some command refers to
Referenced ==
    {Address(w) : w \in {x \in ToSet(data.code) :
                             GetCode(x) \in UsesAddress \ IgnoresAddress}}
        \cap 0 .. Len(data.code) - 1

\* the entrypoint, wherever it is, then the other addresses in order
CommandLabels ==
    LET addresses == Referenced \ {data.entrypoint}
        number(a) == Cardinality({b \in addresses : b <= a})
    IN  [a \in addresses \cup {data.entrypoint} |->
            IF a = data.entrypoint THEN MainLabel ELSE Numbered("command", number(a))]

EndMain == [Blank EXCEPT !.item = "end", !.use = MainLabel]

\* Mutant: the entrypoint directive is written before the commands.
EndBeforeCommands ==
    /\ phase = "constants" /\ pos = Len(data.constants)
    /\ \A w \in ToSet(data.code) : Known(w)
    /\ commandLabels' = CommandLabels
    /\ phase' = "commands" /\ pos' = 0
    /\ listing' = Append(listing, EndMain)
    /\ UNCHANGED <<error, data, constantLabels>>

PrepareCommandLabels ==
    /\ phase = "constants" /\ pos = Len(data.constants)
    /\ \A w \in ToSet(data.code) : Known(w)
    /\ commandLabels' = CommandLabels
    /\ phase' = "commands" /\ pos' = 0
    /\ UNCHANGED <<error, data, constantLabels, listing>>

UnknownCommand ==
    /\ phase = "constants" /\ pos = Len(data.constants)
    /\ \E w \in ToSet(data.code) : ~Known(w)
    /\ Fail("UnknownCommand")
    /\ UNCHANGED <<data, pos, constantLabels, commandLabels, listing>>
-----------------------------------------------------------------------------
(* DisassembleCode. *)

TryGetLabel(address) ==
    IF address \in DOMAIN constantLabels THEN constantLabels[address]
    ELSE IF address \in DOMAIN commandLabels THEN commandLabels[address]
    ELSE NoLabel

LabelLine(address) ==
    IF TryGetLabel(address) = NoLabel THEN <<>>
    ELSE <<[Blank EXCEPT !.label = TryGetLabel(address)]>>

\* GetCommandString: every code was seen to be known
CommandString(word) ==
    LET c     == Meaning(word)
        label == TryGetLabel(c.arg)
    IN  IF c.code \in UsesAddress \ IgnoresAddress /\ label # NoLabel
        THEN CommandLine([c EXCEPT !.arg = 0], label)
        ELSE CommandLine(c, NoLabel)

DisassembleCommand ==
    /\ phase = "commands" /\ pos < Len(data.code)
    /\ listing' = listing \o LabelLine(pos)
                          \o <<CommandString(data.code[pos + 1])>>
    /\ pos' = pos + 1
    /\ UNCHANGED <<phase, error, data, constantLabels, commandLabels>>

EndListing ==
    /\ phase = "commands" /\ pos = Len(data.code)
    /\ listing' = Append(listing, EndMain)
    /\ phase' = "listed"
    /\ UNCHANGED <<error, data, pos, constantLabels, commandLabels>>

Disassemble ==
    \/ UnknownConstantType \/ TruncatedConstant \/ DisassembleConstant
    \/ PrepareCommandLabels \/ UnknownCommand
    \/ DisassembleCommand \/ EndListing
=============================================================================
