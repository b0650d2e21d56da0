----------------------------- MODULE KarmaLines -----------------------------
(***************************************************************************)
(* The lines of an assembler file with their operands, and what            *)
(* FileCompiler makes of one line: the words, or an error                  *)
(* (src/karma/include/compiler/file_compiler.cpp).                         *)
(*                                                                         *)
(* A number is what its text denotes.  A double is the integer with the    *)
(* same two words; its text is the double that stod makes of the text.     *)
(***************************************************************************)
EXTENDS KarmaExec, KarmaStrings

CONSTANTS
    Labels, NoLabel,
    Rounded,        \* the doubles that 15 digits change |-> what is printed
    Unreadable      \* the printed doubles that stod throws out_of_range for

Uint32Type == 0
Uint64Type == 1
DoubleType == 2
CharType   == 3
StringType == 4
Types      == Uint32Type .. StringType

TwoWords == 0 .. WordCount ^ 2 - 1

MaybeLabel == Labels \cup {NoLabel}

\* use is the label given as an address, num the number given instead or the
\* value of a numeric constant, text the characters of the other constants
Line == [label : MaybeLabel, item : {"none", "command", "constant", "end"},
         code : Codes, reg : Registers, src : Registers, use : MaybeLabel,
         num : Int, type : Types, text : Seq(Chars)]

ASSUME LinesAssumption ==
    /\ NoLabel \notin Labels
    /\ 0 \in Codes
    /\ Rounded \in [DOMAIN Rounded -> TwoWords \ DOMAIN Rounded]
    /\ DOMAIN Rounded \cup Unreadable \subseteq TwoWords

\* a char fits a word; the law of powers for the values of two words
ASSUME WordsAssumption ==
    /\ CharBits <= CodeBits + RegisterBits + AddressBits
    /\ WordCount ^ 2 = WordCount * WordCount

\* a line with nothing on it, or, with a label, a lone label
Blank == [label |-> NoLabel, item |-> "none", code |-> 0, reg |-> 0, src |-> 0,
          use |-> NoLabel, num |-> 0, type |-> Uint32Type, text |-> <<>>]

CommandLine(c, use) ==
    [Blank EXCEPT !.item = "command", !.code = c.code, !.reg = c.reg,
                  !.src = c.src, !.num = c.arg, !.use = use]

\* utils::types::Split and Join
Split(value)   == <<value % WordCount, value \div WordCount>>
Double(words)  == words[1] + WordCount * words[2]
-----------------------------------------------------------------------------
(* One line of the source. *)

\* GetImmediate and GetAddress; an address may be the size of the memory
ImmediateFits(num, size) == num \in -(2 ^ (size - 1)) .. 2 ^ (size - 1) - 1
AddressFits(num) == num \in 0 .. MemorySize

\* a label is an address, and no immediate
CommandIsValid(line) ==
    IF line.use # NoLabel THEN line.code \in UsesAddress
    ELSE CASE Format[line.code] = "RR" -> ImmediateFits(line.num, ModBits)
           [] Format[line.code] = "RI" -> ImmediateFits(line.num, AddressBits)
           [] OTHER -> AddressFits(line.num)

\* the text of a character or of a string as GetLine gives it
Written(line) == TrimSpaces(TrimComment(line.text))

ConstantIsValid(line) ==
    CASE line.type \in {Uint32Type, Uint64Type} ->
            line.num \in -(WordCount ^ 2 - 1) .. WordCount ^ 2 - 1
      [] line.type = DoubleType -> line.num \notin Unreadable
      [] line.type = CharType -> /\ IsQuoted(Written(line), CharQuote)
                             /\ Len(Unescape(Inside(Written(line)))) = 1
      [] line.type = StringType -> IsQuoted(Written(line), StringQuote)

\* the words of a constant after the one for its type
ValueWords(line) ==
    LET chars    == Unescape(Inside(Written(line)))
        words    == [i \in DOMAIN chars |-> CharToWord(chars[i], WordCount)]
    IN  CASE line.type = Uint32Type -> <<line.num % WordCount>>
          [] line.type \in {Uint64Type, DoubleType} -> Split(line.num % WordCount ^ 2)
          [] line.type = CharType -> words
          [] line.type = StringType -> Append(words, StringEnd)

LineIsValid(line) ==
    CASE line.item = "command"  -> CommandIsValid(line)
      [] line.item = "constant" -> ConstantIsValid(line)
      [] line.item = "end"      -> line.use # NoLabel \/ AddressFits(line.num)
      [] OTHER                  -> TRUE

\* the word of a command whose operand is arg
CommandWord(line, arg) ==
    Build([code |-> line.code, reg |-> line.reg, src |-> line.src, arg |-> arg])
=============================================================================
