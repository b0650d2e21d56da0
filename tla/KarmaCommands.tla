--------------------------- MODULE KarmaCommands ---------------------------
(***************************************************************************)
(* The layout of a command in a word: cmd::build and cmd::parse, with the  *)
(* conversions between signed values and their bits                        *)
(* (src/karma/include/specs/commands.cpp, utils/types.hpp).                *)
(*                                                                         *)
(*    code | register | address or immediate         RM, RI, J             *)
(*    code | receiver | source | modifier            RR                    *)
(***************************************************************************)
EXTENDS Integers, Functions

CONSTANTS
    CodeBits, RegisterBits, ModBits,    \* widths of the fields
    Format,         \* the known codes and their formats
    IgnoresAddress  \* the J codes whose address nobody reads

AddressBits == RegisterBits + ModBits   \* kRecvShift, kImmSize
Codes       == DOMAIN Format
Registers   == 0 .. 2 ^ RegisterBits - 1
MemorySize  == 2 ^ AddressBits
WordCount   == 2 ^ (CodeBits + RegisterBits + AddressBits)
Words       == 0 .. WordCount - 1

ASSUME WidthsAssumption ==
    CodeBits \in Nat \ {0} /\ RegisterBits \in Nat \ {0} /\ ModBits \in Nat \ {0}
ASSUME FormatAssumption ==
    /\ Format \in [Codes -> {"RM", "RR", "RI", "J"}]
    /\ Codes \subseteq 0 .. 2 ^ CodeBits - 1
    /\ IgnoresAddress \subseteq {c \in Codes : Format[c] = "J"}

\* the laws of powers that hold for these widths, and for all others
ASSUME PowersAssumption ==
    /\ 2 ^ 1 = 2
    /\ \A m, n \in 0 .. CodeBits + RegisterBits + AddressBits :
          2 ^ m \in Nat \ {0} /\ 2 ^ (m + n) = 2 ^ m * 2 ^ n

\* the known codes whose operand may be a label
UsesAddress == {c \in Codes : Format[c] \in {"RM", "J"}}

\* A command as it is written: arg is the address, the immediate or the
\* modifier; a field the format does not have is 0.
Operands == [code : Codes, reg : Registers, src : Registers, arg : Int]
-----------------------------------------------------------------------------
\* the low bits as a two's complement number
GetSignedValue(bits, size) ==
    LET low == bits % 2 ^ size
    IN  IF low < 2 ^ (size - 1) THEN low ELSE low - 2 ^ size

\* Mutant: a negative number is written as its ones' complement.
OnesComplement(value, size) == IF value >= 0 THEN value ELSE 2 ^ size - 1 + value

\* the inverse for values of that size: a value that does not fit is not cut
GetUnsignedBits(value, size) == IF value >= 0 THEN value ELSE 2 ^ size + value

\* (high << size) | low for a low of at most size bits, or equal to 2 ^ size:
\* that one sets the lowest bit of high
Join(high, size, low) ==
    IF low < 2 ^ size \/ high % 2 = 0 THEN high * 2 ^ size + low
                                      ELSE high * 2 ^ size

GetCode(word) == word \div 2 ^ (RegisterBits + AddressBits)

Known(word) == GetCode(word) \in Codes

Receiver(word) == (word \div 2 ^ AddressBits) % 2 ^ RegisterBits
Source(word)   == (word \div 2 ^ ModBits) % 2 ^ RegisterBits
Address(word)  == word % 2 ^ AddressBits

Parse(word) ==
    LET code   == GetCode(word)
        format == Format[code]
    IN  [code |-> code,
         reg  |-> IF format = "J" THEN 0 ELSE Receiver(word),
         src  |-> IF format = "RR" THEN Source(word) ELSE 0,
         arg  |-> IF format = "RR" THEN GetSignedValue(word, ModBits)
                  ELSE IF format = "RI" THEN GetSignedValue(word, AddressBits)
                  ELSE Address(word)]

Build(c) ==
    LET format == Format[c.code]
        upper  == c.code * 2 ^ RegisterBits + (IF format = "J" THEN 0 ELSE c.reg)
    IN  IF format = "RR"
        THEN Join(upper * 2 ^ RegisterBits + c.src, ModBits,
                  GetUnsignedBits(c.arg, ModBits))
        ELSE IF format = "RI"
        THEN Join(upper, AddressBits, GetUnsignedBits(c.arg, AddressBits))
        ELSE Join(upper, AddressBits, c.arg)

\* what the executor sees of a command
Meaning(word) ==
    IF GetCode(word) \in IgnoresAddress THEN [Parse(word) EXCEPT !.arg = 0]
                                        ELSE Parse(word)
=============================================================================
