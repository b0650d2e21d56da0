--------------------------- MODULE KarmaToolchain ---------------------------
(***************************************************************************)
(* A program on its way through files: compiled to an executable file,     *)
(* read from there, disassembled, and the listing compiled again           *)
(* (Compiler::Impl, Exec, Disassembler::Impl).                             *)
(*                                                                         *)
(* The compiler is taken by what KarmaCompile is shown to implement: the   *)
(* abstract Assembler, given the parsed lines of the text as the only      *)
(* file.  Writing may stop anywhere: no write is checked, and the process  *)
(* may end.                                                                *)
(***************************************************************************)
EXTENDS KarmaDisasm

CONSTANTS
    Texts,          \* assembler programs
    ForeignFiles,   \* executable files from elsewhere
    MaxRounds       \* bound: files made, one from each listing

ASSUME ToolchainAssumption ==
    /\ Texts \subseteq Seq(Line)
    /\ ForeignFiles \subseteq ExecFile
    /\ MaxRounds \in Nat \ {0}

VARIABLES
    text,       \* the assembler file
    file,       \* the executable file
    round,      \* files written so far
    compiled,   \* what the last file was written from
    original    \* the listing compiled last, with what it was made of

vars == <<disasmVars, text, file, round, compiled, original>>

NoData == [entrypoint |-> 0, initialStack |-> 0, code |-> <<>>, constants |-> <<>>]
NoFile == CutAt(WholeFile(NoData), 0)
NoListing == [data |-> NoData, constantLabels |-> NoLabels, listing |-> <<>>]

FromText(t) == text = t /\ file = NoFile /\ phase = "compile"
FromFile(f) == text = <<>> /\ file = f /\ phase = "read"

Init ==
    /\ \/ \E t \in Texts : FromText(t)
       \/ \E f \in ForeignFiles : FromFile(f)
    /\ error = "none" /\ round = 0
    /\ data = NoData /\ pos = 0 /\ listing = <<>>
    /\ constantLabels = NoLabels /\ commandLabels = NoLabels
    /\ compiled = NoData /\ original = NoListing
-----------------------------------------------------------------------------
(* Compiling one file without include directives. *)

\* the line as far as the assembler tells lines apart
Parsed(line) ==
    [label |-> line.label, use |-> line.use,
     item  |-> IF LineIsValid(line) THEN line.item ELSE "bad",
     arg   |-> IF line.item = "constant" /\ LineIsValid(line)
               THEN Len(ValueWords(line))
               ELSE IF \/ line.item = "end"
                       \/ line.item = "command" /\ line.code \in UsesAddress
               THEN line.num ELSE 0]

Main == "main.krm"

\* the text as the only file of a program
SourceOf(t) ==
    [f \in {Main} |-> [readable |-> TRUE, includes |-> <<>>,
                       lines |-> [n \in DOMAIN t |-> Parsed(t[n])]]]

\* what is made of the text, and of the listing if it is compiled as it stands
Assembled ==
    INSTANCE Assembler WITH
        Files <- {Main}, Root <- Main, NoFile <- "none", Sources <- {},
        source <- SourceOf(text), outcome <- phase, image <- data
Relisted ==
    INSTANCE Assembler WITH
        Files <- {Main}, Root <- Main, NoFile <- "none", Sources <- {},
        source <- SourceOf(listing), outcome <- phase, image <- data

\* the only file holds a line, the `end` that makes it valid
Accepted == Assembled!Valid

\* the words for the cells of the image: an origin is a file, a line, and the
\* position of the word in the item
AssembledData ==
    LET image == Assembled!Image
        command(cell) ==
            LET line == text[cell.origin[2]]
            IN  CommandWord(line, IF line.code \in UsesAddress THEN cell.addr
                                                               ELSE line.num)
        word(cell) ==
            LET line == text[cell.origin[2]]
            IN  (<<line.type>> \o ValueWords(line))[cell.origin[3] + 1]
    IN  [entrypoint   |-> image.entrypoint,
         initialStack |-> MemorySize - 1,
         code         |-> [i \in DOMAIN image.code |-> command(image.code[i])],
         constants    |-> [i \in DOMAIN image.constants |->
                                word(image.constants[i])]]

Compile ==
    /\ phase = "compile" /\ Accepted
    /\ data' = AssembledData /\ phase' = "write"
    /\ UNCHANGED <<error, pos, constantLabels, commandLabels, listing,
                   text, file, round, compiled, original>>

RefuseText ==
    /\ phase = "compile" /\ ~Accepted
    /\ phase' = "refused"
    /\ UNCHANGED <<error, data, pos, constantLabels, commandLabels, listing,
                   text, file, round, compiled, original>>
-----------------------------------------------------------------------------
(* The executable file. *)

Write ==
    /\ phase = "write"
    /\ \E bytes \in 0 .. WholeFile(data).bytes :
          file' = CutAt(WholeFile(data), bytes)
    /\ compiled' = data /\ round' = round + 1
    /\ phase' = "read"
    /\ UNCHANGED <<error, data, pos, constantLabels, commandLabels, listing,
                   text, original>>

Read ==
    /\ phase = "read" /\ ReadError(file) = "none"
    /\ StartDisassembly(ReadData(file))
    /\ UNCHANGED <<text, file, round, compiled, original>>

RefuseFile ==
    /\ phase = "read" /\ ReadError(file) # "none"
    /\ Fail(ReadError(file))
    /\ UNCHANGED <<data, pos, constantLabels, commandLabels, listing,
                   text, file, round, compiled, original>>

CompileListing ==
    /\ phase = "listed" /\ round < MaxRounds
    /\ text' = listing /\ phase' = "compile"
    /\ original' = [data |-> data, constantLabels |-> constantLabels,
                    listing |-> listing]
    /\ UNCHANGED <<error, data, pos, constantLabels, commandLabels, listing,
                   file, round, compiled>>

Next ==
    \/ Compile \/ RefuseText
    \/ Write \/ Read \/ RefuseFile \/ CompileListing
    \/ Disassemble /\ UNCHANGED <<text, file, round, compiled, original>>

Spec == Init /\ [][Next]_vars
-----------------------------------------------------------------------------
(***************************************************************************)
(* Properties.                                                             *)
(***************************************************************************)
Reading == {"constants", "commands", "listed"}

\* The types: no word that is built, read or extended from a char is wider
\* than a word, and the labels of the disassembler are labels.
TypeOK ==
    /\ phase \in {"compile", "refused", "write", "read", "failed"} \cup Reading
    /\ error \in {"none"} \cup ExecErrors \cup DisasmErrors
    /\ data \in Data /\ compiled \in Data
    /\ file \in ExecFile
    /\ text \in Seq(Line) /\ listing \in Seq(Line)
    /\ pos \in Nat /\ round \in 0 .. MaxRounds
    /\ original.data \in Data /\ original.listing \in Seq(Line)
    /\ DOMAIN constantLabels \subseteq Nat /\ Range(constantLabels) \subseteq Labels
    /\ DOMAIN commandLabels \subseteq Nat /\ Range(commandLabels) \subseteq Labels

\* A file whose writing stopped half way, in the header or after any byte of a
\* segment, is never taken for a program: what is read is what was compiled.
OnlyWholeFilesAreRead ==
    phase \in Reading /\ round > 0 => data = compiled

\* Whatever the file holds, a program that is read fits the memory it is loaded
\* to: PrepareForExecution copies it without a check.
LoadedProgramFits ==
    phase \in Reading => Len(data.code) + Len(data.constants) <= MemorySize

\* A disassembly that stops before its end leaves a listing the compiler does
\* not take for a program.
PartialListingRefused ==
    phase \in {"constants", "commands"} \/ error \in DisasmErrors
        => ~Relisted!Valid

\* a command as the executor should see it, with the addresses of the labels
AsWritten(line) ==
    [code |-> line.code,
     reg  |-> IF Format[line.code] = "J" THEN 0 ELSE line.reg,
     src  |-> IF Format[line.code] = "RR" THEN line.src ELSE 0,
     arg  |-> IF line.code \in IgnoresAddress THEN 0
              ELSE IF line.use # NoLabel THEN Assembled!LabelAddress(line.use)
              ELSE line.num]

\* the lines with a command, up to each line
CommandLines ==
    LET upTo[n \in 0 .. Len(text)] ==
            IF n = 0 THEN <<>>
            ELSE IF text[n].item = "command" THEN Append(upTo[n - 1], text[n])
            ELSE upTo[n - 1]
    IN  upTo

\* the commands with these numbers, as they were compiled, are the ones written
EncodedAs(numbers) ==
    phase = "write" =>
        LET lines == CommandLines[Len(text)]
        IN  /\ Len(data.code) = Len(lines)
            /\ \A i \in DOMAIN lines :
                  lines[i].num \in numbers =>
                      Meaning(data.code[i]) = AsWritten(lines[i])

\* The word of every accepted command says what was written: the signs of
\* immediates and modifiers, the registers, and the address a label is given
\* once all the code is known; only the address MemorySize is excepted.
EncodedAsWritten == EncodedAs(Int \ {MemorySize})

Recompiled == original.listing # <<>>
HasDouble(lines, set) ==
    \E n \in DOMAIN lines : lines[n].type = DoubleType /\ lines[n].num \in set

\* no string has a zero character inside, which ends it when it is compiled
CharactersAreWhole(lines) ==
    \A n \in DOMAIN lines :
        lines[n].type = StringType => StringEnd \notin ToSet(lines[n].text)

\* where the values of the constants of the original start, and their types
OriginalStarts ==
    {a - Len(original.data.code) + 1 : a \in DOMAIN original.constantLabels}
OriginalStart(i) == Max({s \in OriginalStarts : s <= i})
OriginalType(i) ==
    LET label == original.constantLabels[Len(original.data.code) + OriginalStart(i) - 1]
    IN  original.listing[label[2]].type

\* word i of a double, as the digits of this double say
PrintedWord(i) ==
    LET start == OriginalStart(i)
        words == original.data.constants
    IN  Split(Digits(Double(<<words[start], words[start + 1]>>)))[i - start + 1]

\* Word i of the constants is the one of the original: a double as its own digits
\* tell, a character as the char it is cut to.  CharToWord extends the sign of a
\* char as the code does (file_compiler.cpp:202), so the same word is not the number
\* from 0 to 255 of docs/src/sections/standard/05_constants.tex:57.
SameConstantWord(i) ==
    LET new == data.constants[i]
        old == original.data.constants[i]
    IN  IF i + 1 \in OriginalStarts THEN new = old
        ELSE CASE OriginalType(i) = DoubleType -> new = PrintedWord(i)
               [] OriginalType(i) \in {CharType, StringType} ->
                     new = CharToWord(WordToChar(old), WordCount)
               [] OTHER -> new = old

\* The listing of a program is compiled to the same program: the executor sees
\* the same commands at the same addresses and the same constants behind them.
\* It is refused only if the program starts outside its code, so that `main`
\* stands nowhere, or has a double that its own digits overflow.
RecompilesToTheSame ==
    Recompiled =>
        LET first == original.data
            startsInCode == first.entrypoint < Len(first.code)
        IN  /\ phase = "refused" =>
                  ~startsInCode \/ HasDouble(original.listing, Unreadable)
            /\ phase = "write" =>
                  /\ startsInCode /\ data.entrypoint = first.entrypoint
                  /\ Len(data.code) = Len(first.code)
                  /\ \A i \in DOMAIN first.code :
                        Meaning(data.code[i]) = Meaning(first.code[i])
                  /\ Len(data.constants) = Len(first.constants)
                  /\ \A i \in DOMAIN first.constants : SameConstantWord(i)

\* Disassembling what a listing was compiled to gives the listing again, with
\* the same labels at the same places.
ListingIsStable ==
    phase = "listed" /\ Recompiled /\ CharactersAreWhole(original.listing)
        => listing = original.listing

\* file_compiler.cpp:376: a valid address is a 20-bit unsigned value, so that
\* every address that is accepted fits the field of the command.
AddressesFitTheField == EncodedAs(Int)
=============================================================================
