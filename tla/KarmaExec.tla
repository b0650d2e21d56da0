----------------------------- MODULE KarmaExec -----------------------------
(***************************************************************************)
(* The executable file: Exec::Write and Exec::Read                         *)
(* (src/karma/include/exec/exec.cpp).                                      *)
(*                                                                         *)
(* A file is its header, the words after the header that are complete, and *)
(* its length in bytes; a file shorter than the header has no field worth  *)
(* reading.                                                                *)
(***************************************************************************)
EXTENDS KarmaCommands, Sequences

CONSTANTS
    WordSize,       \* bytes in a word
    HeaderSize,     \* bytes in the header
    ProcessorID

\* Exec::Data
Data == [entrypoint : Words, initialStack : Words,
         code : Seq(Words), constants : Seq(Words)]

\* "unterminated" is an introduction without the zero at its end
Intros == {"ThisIsKarmaExec", "unterminated", "other"}

ExecFile == [intro : Intros, codeSize : Words, constantsSize : Words,
             entrypoint : Words, initialStack : Words, processor : Words,
             words : Seq(Words), bytes : Nat]

ExecErrors == {"TooSmallForHeader", "TooBigForMemory", "NoTrailingZeroInIntro",
               "InvalidIntroString", "InvalidExecSize", "InvalidProcessorID"}

\* the size of the memory in bytes is a word
ASSUME ExecAssumption ==
    /\ WordSize \in Nat \ {0} /\ HeaderSize \in Nat \ {0} /\ ProcessorID \in Words
    /\ WordSize * MemorySize < WordCount
-----------------------------------------------------------------------------
\* the length of a file with so many words after its header
Length(words) == HeaderSize + WordSize * words

\* The initial stack of the data is not written: it is the end of the memory.
WholeFile(data) ==
    LET words == data.code \o data.constants
    IN  [intro         |-> "ThisIsKarmaExec",
         codeSize      |-> (WordSize * Len(data.code)) % WordCount,
         constantsSize |-> (WordSize * Len(data.constants)) % WordCount,
         entrypoint    |-> data.entrypoint,
         initialStack  |-> MemorySize - 1,
         processor     |-> ProcessorID,
         words         |-> words,
         bytes         |-> Length(Len(words))]

\* the file when writing stopped after so many bytes
CutAt(file, bytes) ==
    [file EXCEPT !.bytes = bytes,
                 !.words = IF bytes < HeaderSize THEN <<>>
                           ELSE SubSeq(@, 1, (bytes - HeaderSize) \div WordSize)]

\* Mutant: the length of the file is not compared with the header.
ReadErrorNoSize(file) ==
    IF file.bytes < HeaderSize THEN "TooSmallForHeader"
    ELSE IF file.bytes - HeaderSize > MemorySize THEN "TooBigForMemory"
    ELSE IF file.intro = "unterminated" THEN "NoTrailingZeroInIntro"
    ELSE IF file.intro = "other" THEN "InvalidIntroString"
    ELSE IF file.processor # ProcessorID THEN "InvalidProcessorID"
    ELSE "none"

\* Mutant: the length of the file is not compared with the memory.
ReadErrorNoMemory(file) ==
    IF file.bytes < HeaderSize THEN "TooSmallForHeader"
    ELSE IF file.intro = "unterminated" THEN "NoTrailingZeroInIntro"
    ELSE IF file.intro = "other" THEN "InvalidIntroString"
    ELSE IF file.bytes # HeaderSize + file.codeSize + file.constantsSize
    THEN "InvalidExecSize"
    ELSE IF file.processor # ProcessorID THEN "InvalidProcessorID"
    ELSE "none"

\* The checks of Read, in order.  The length in bytes is compared with the
\* number of words of the memory.
ReadError(file) ==
    IF file.bytes < HeaderSize THEN "TooSmallForHeader"
    ELSE IF file.bytes - HeaderSize > MemorySize THEN "TooBigForMemory"
    ELSE IF file.intro = "unterminated" THEN "NoTrailingZeroInIntro"
    ELSE IF file.intro = "other" THEN "InvalidIntroString"
    ELSE IF file.bytes # HeaderSize + file.codeSize + file.constantsSize
    THEN "InvalidExecSize"
    ELSE IF file.processor # ProcessorID THEN "InvalidProcessorID"
    ELSE "none"

\* read_segment twice; a word past the end of the file is left zero
ReadData(file) ==
    LET code      == file.codeSize \div WordSize
        constants == file.constantsSize \div WordSize
        word(i)   == IF i <= Len(file.words) THEN file.words[i] ELSE 0
    IN  [entrypoint   |-> file.entrypoint,
         initialStack |-> file.initialStack,
         code         |-> [i \in 1 .. code |-> word(i)],
         constants    |-> [i \in 1 .. constants |-> word(code + i)]]
=============================================================================
