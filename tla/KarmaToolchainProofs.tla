------------------------ MODULE KarmaToolchainProofs ------------------------
(***************************************************************************)
(* Proofs about commands and constants on their way to words and back: the *)
(* fields of a word, the listing, and the characters of strings, which are *)
(* recursive functions on sequences.                                       *)
(*                                                                         *)
(* Then about a program on its way through files: the types, what is read  *)
(* from a file, and that the words compiled say what was written.  The     *)
(* types need most of the work: operator by operator, what the             *)
(* disassembler writes, what the assembler makes of it, and which words    *)
(* that gives.                                                             *)
(***************************************************************************)
EXTENDS KarmaToolchain, TLAPS, NaturalsInduction, WellFoundedInduction,
        FiniteSetTheorems
-----------------------------------------------------------------------------
(***************************************************************************)
(* Numbers of several digits: the fields of a word are its digits.         *)
(***************************************************************************)
\* The last digit, and what stands before it.
LEMMA LastDigit ==
    ASSUME NEW h \in Nat, NEW b \in Nat \ {0}, NEW l \in Nat, l < b
    PROVE  /\ h * b + l \in Nat
           /\ (h * b + l) \div b = h
           /\ (h * b + l) % b = l
<1> DEFINE w == h * b + l
           q == w \div b
           r == w % b
<1>1. h * b \in Nat /\ w \in Nat
  OBVIOUS
<1>2. w = b * h + l
  OBVIOUS
<1> HIDE DEF w
<1>3. q \in Int /\ r \in Int /\ 0 <= r /\ r < b /\ w = b * q + r
  <2>1. q \in Int
    BY <1>1
  <2>2. r \in 0 .. b - 1
    BY <1>1
  <2>3. w = b * q + r
    BY <1>1
  <2> QED
    BY <2>1, <2>2, <2>3
<1> HIDE DEF q, r
<1>4. b * (q - h) = l - r
  BY <1>2, <1>3
<1>5. q = h
  <2>1. CASE q - h >= 1
    <3>1. b * (q - h) >= b
      BY <1>3, <2>1
    <3> QED
      BY <1>3, <1>4, <3>1
  <2>2. CASE h - q >= 1
    <3>1. b * (h - q) >= b
      BY <1>3, <2>2
    <3>2. b * (q - h) = -(b * (h - q))
      BY <1>3
    <3>3. -(b * (h - q)) = l - r
      BY <1>4, <3>2
    <3> DEFINE x == b * (h - q)
    <3>4. x \in Int /\ x >= b /\ -x = l - r
      BY <1>3, <3>1, <3>3
    <3> HIDE DEF x
    <3> QED
      BY <1>3, <3>4
  <2> QED
    BY <1>3, <2>1, <2>2
<1>6. r = l
  BY <1>2, <1>3, <1>5
<1> QED
  BY <1>1, <1>5, <1>6 DEF w, q, r

\* A number with a digit below n in front of its last is below n times the base.
LEMMA TwoDigits ==
    ASSUME NEW n \in Nat, NEW h \in Nat, h < n,
           NEW b \in Nat \ {0}, NEW l \in Nat, l < b
    PROVE  h * b + l \in Nat /\ h * b + l < n * b
<1>1. h * b \in Nat /\ n * b \in Nat
  OBVIOUS
<1>2. (n - h) * b >= b
  <2>1. n - h >= 1
    OBVIOUS
  <2> QED
    BY <2>1
<1>3. (n - h) * b = n * b - h * b
  OBVIOUS
<1> DEFINE x == h * b
           y == n * b
<1>4. x \in Nat /\ y \in Nat /\ y - x >= b
  BY <1>1, <1>2, <1>3
<1> HIDE DEF x, y
<1>5. x + l \in Nat /\ x + l < y
  BY <1>4
<1> QED
  BY <1>5 DEF x, y

\* A number of three digits, the last two of them taken together.
LEMMA Digits3 ==
    ASSUME NEW h \in Nat, NEW c \in Nat, NEW d \in Nat, NEW b \in Nat, NEW l \in Nat
    PROVE  (h * c + d) * b + l = h * (c * b) + (d * b + l)
OBVIOUS
-----------------------------------------------------------------------------
(***************************************************************************)
(* A command in its word.                                                  *)
(***************************************************************************)
CodeCount     == 2 ^ CodeBits
RegisterCount == 2 ^ RegisterBits
ModCount      == 2 ^ ModBits
HalfMod       == 2 ^ (ModBits - 1)
HalfAddress   == 2 ^ (AddressBits - 1)

\* How many values the fields of a word have.
LEMMA FieldCounts ==
    /\ CodeCount \in Nat \ {0} /\ RegisterCount \in Nat \ {0} /\ ModCount \in Nat \ {0}
    /\ HalfMod \in Nat \ {0} /\ ModCount = 2 * HalfMod
    /\ HalfAddress \in Nat \ {0} /\ MemorySize = 2 * HalfAddress
    /\ MemorySize \in Nat \ {0} /\ MemorySize = RegisterCount * ModCount
    /\ 2 ^ (RegisterBits + AddressBits) = RegisterCount * MemorySize
    /\ WordCount \in Nat \ {0} /\ WordCount = CodeCount * (RegisterCount * MemorySize)
<1> DEFINE all == CodeBits + RegisterBits + AddressBits
           W   == 0 .. all
           P   == [n \in Nat |-> 2 ^ n]
<1>1. /\ CodeBits \in W /\ RegisterBits \in W /\ ModBits \in W /\ AddressBits \in W
      /\ 1 \in W /\ ModBits - 1 \in W /\ AddressBits - 1 \in W
      /\ RegisterBits + AddressBits \in W /\ all \in W
      /\ 1 + (ModBits - 1) = ModBits /\ 1 + (AddressBits - 1) = AddressBits
      /\ CodeBits + (RegisterBits + AddressBits) = all
      /\ AddressBits = RegisterBits + ModBits
  BY WidthsAssumption DEF AddressBits
<1>2. \A m, n \in W : /\ 2 ^ m \in Nat \ {0}
                      /\ 2 ^ (m + n) = 2 ^ m * 2 ^ n
  BY PowersAssumption
<1> HIDE DEF W, all
<1>3. /\ CodeCount \in Nat \ {0} /\ RegisterCount \in Nat \ {0}
      /\ ModCount \in Nat \ {0} /\ HalfMod \in Nat \ {0}
      /\ HalfAddress \in Nat \ {0} /\ MemorySize \in Nat \ {0}
  BY <1>1, <1>2 DEF CodeCount, RegisterCount, ModCount, HalfMod, HalfAddress, MemorySize
<1>4. WordCount \in Nat \ {0}
  BY <1>1, <1>2 DEF WordCount, all
<1>5. 2 ^ (1 + (ModBits - 1)) = 2 ^ 1 * 2 ^ (ModBits - 1)
  BY <1>1, <1>2
<1>6. 2 ^ (1 + (AddressBits - 1)) = 2 ^ 1 * 2 ^ (AddressBits - 1)
  BY <1>1, <1>2
<1>7. 2 ^ (RegisterBits + ModBits) = 2 ^ RegisterBits * 2 ^ ModBits
  BY <1>1, <1>2
<1>8. 2 ^ (RegisterBits + AddressBits) = 2 ^ RegisterBits * 2 ^ AddressBits
  BY <1>1, <1>2
<1>9. 2 ^ (CodeBits + (RegisterBits + AddressBits))
        = 2 ^ CodeBits * 2 ^ (RegisterBits + AddressBits)
  BY <1>1, <1>2
<1>10. ModCount = 2 * HalfMod
  BY <1>1, <1>5, PowersAssumption DEF ModCount, HalfMod
<1>11. MemorySize = 2 * HalfAddress
  BY <1>1, <1>6, PowersAssumption DEF MemorySize, HalfAddress
<1>12. MemorySize = RegisterCount * ModCount
  BY <1>1, <1>7 DEF MemorySize, RegisterCount, ModCount
<1>13. 2 ^ (RegisterBits + AddressBits) = RegisterCount * MemorySize
  BY <1>8 DEF RegisterCount, MemorySize
<1>14. WordCount = CodeCount * (RegisterCount * MemorySize)
  BY <1>1, <1>9, <1>13 DEF WordCount, CodeCount, all
<1> QED
  BY <1>3, <1>4, <1>10, <1>11, <1>12, <1>13, <1>14

\* The fields of a word whose low bits are one field.
LEMMA FieldsOfWord ==
    ASSUME NEW c \in Nat, c < CodeCount, NEW r \in Registers,
           NEW low \in Nat, low < MemorySize
    PROVE  LET w == (c * RegisterCount + r) * MemorySize + low
           IN  /\ w \in Words /\ GetCode(w) = c
               /\ Receiver(w) = r /\ Address(w) = low
<1> DEFINE w == (c * RegisterCount + r) * MemorySize + low
           u == c * RegisterCount + r
           t == r * MemorySize + low
           b == RegisterCount * MemorySize
<1>1. /\ RegisterCount \in Nat \ {0} /\ MemorySize \in Nat \ {0} /\ CodeCount \in Nat
      /\ r \in Nat /\ r < RegisterCount
  BY FieldCounts DEF Registers, RegisterCount
<1>2. u \in Nat /\ u \div RegisterCount = c /\ u % RegisterCount = r
  BY <1>1, LastDigit
<1>3. t \in Nat /\ t < b
  BY <1>1, TwoDigits
<1>4. w = c * b + t
  BY <1>1, Digits3
<1>5. b \in Nat \ {0}
  BY <1>1
<1>6. w \in Nat /\ w \div MemorySize = u /\ w % MemorySize = low
  <2> HIDE DEF u
  <2>1. u * MemorySize + low = w
    BY DEF u
  <2> HIDE DEF w
  <2>2. /\ u * MemorySize + low \in Nat /\ (u * MemorySize + low) \div MemorySize = u
        /\ (u * MemorySize + low) % MemorySize = low
    BY <1>1, <1>2, LastDigit
  <2> QED
    BY <2>1, <2>2
<1> HIDE DEF w, t, u, b
<1>7. w \div b = c
  <2>1. (c * b + t) \div b = c
    BY <1>3, <1>5, LastDigit
  <2> QED
    BY <1>4, <2>1
<1>8. w < CodeCount * b
  <2>1. c * b + t < CodeCount * b
    BY <1>1, <1>3, <1>5, TwoDigits
  <2> QED
    BY <1>4, <2>1
<1>9. GetCode(w) = c
  BY <1>7, FieldCounts DEF GetCode, b
<1>10. Receiver(w) = r /\ Address(w) = low
  BY <1>2, <1>6 DEF Receiver, Address, MemorySize, RegisterCount
<1>11. w \in Words
  BY <1>6, <1>8, FieldCounts DEF Words, b
<1> QED
  BY <1>9, <1>10, <1>11 DEF w

\* A value of a field of two's complement numbers is read back from its bits,
\* whatever stands before them.
LEMMA SignedIsReadBack ==
    ASSUME NEW size, NEW half \in Nat \ {0}, NEW value \in Int, NEW bits \in Nat,
           half = 2 ^ (size - 1), 2 ^ size = 2 * half,
           ImmediateFits(value, size), bits % 2 ^ size = GetUnsignedBits(value, size)
    PROVE  /\ GetUnsignedBits(value, size) \in Nat
           /\ GetUnsignedBits(value, size) < 2 ^ size
           /\ GetSignedValue(bits, size) = value
<1> DEFINE all == 2 ^ size
           low == bits % all
<1>1. -half <= value /\ value < half /\ all = 2 * half /\ all \in Nat
  BY DEF ImmediateFits
<1>2. low = IF value >= 0 THEN value ELSE all + value
  BY DEF GetUnsignedBits
<1>3. GetSignedValue(bits, size) = IF low < half THEN low ELSE low - all
  BY DEF GetSignedValue
<1>4. GetUnsignedBits(value, size) = low
  OBVIOUS
<1> HIDE DEF all, low
<1>5. low \in Nat /\ low < all
  BY <1>1, <1>2
<1>6. (IF low < half THEN low ELSE low - all) = value
  BY <1>1, <1>2
<1> QED
  BY <1>3, <1>4, <1>5, <1>6 DEF all

\* The bits of a value that fits are a digit of the word.
LEMMA SignedIsDigit ==
    ASSUME NEW size, NEW half \in Nat \ {0}, NEW value \in Int,
           half = 2 ^ (size - 1), 2 ^ size = 2 * half, ImmediateFits(value, size)
    PROVE  /\ GetUnsignedBits(value, size) \in Nat
           /\ GetUnsignedBits(value, size) < 2 ^ size
<1> DEFINE all == 2 ^ size
<1>1. -half <= value /\ value < half /\ all = 2 * half /\ all \in Nat
  BY DEF ImmediateFits
<1>2. GetUnsignedBits(value, size) = IF value >= 0 THEN value ELSE all + value
  BY DEF GetUnsignedBits
<1> HIDE DEF all
<1> QED
  BY <1>1, <1>2 DEF all

\* The operand is one its field holds.
OperandFits(code, arg) ==
    CASE Format[code] = "RR" -> ImmediateFits(arg, ModBits)
      [] Format[code] = "RI" -> ImmediateFits(arg, AddressBits)
      [] OTHER -> arg \in 0 .. MemorySize - 1

\* a command without what its format has no field for
Fields(c) == [code |-> c.code,
              reg  |-> IF Format[c.code] = "J" THEN 0 ELSE c.reg,
              src  |-> IF Format[c.code] = "RR" THEN c.src ELSE 0,
              arg  |-> c.arg]

\* cmd::parse undoes cmd::build for a command with a source register.
LEMMA ParsesRR ==
    ASSUME NEW c \in Operands, Format[c.code] = "RR", OperandFits(c.code, c.arg)
    PROVE  Build(c) \in Words /\ Parse(Build(c)) = Fields(c)
<1> DEFINE R == RegisterCount
           M == ModCount
           h == c.code
           m == GetUnsignedBits(c.arg, ModBits)
           low == c.src * M + m
           v == (h * R + c.reg) * R + c.src
           w == (h * R + c.reg) * MemorySize + low
<1>1. /\ h \in Codes /\ c.reg \in Registers /\ c.src \in Registers /\ c.arg \in Int
      /\ c = [code |-> h, reg |-> c.reg, src |-> c.src, arg |-> c.arg]
  BY DEF Operands
<1>2. h \in Nat /\ h < CodeCount
  BY <1>1, FormatAssumption, FieldCounts DEF CodeCount
<1>3. /\ R \in Nat \ {0} /\ M \in Nat \ {0} /\ M = 2 * HalfMod /\ HalfMod \in Nat \ {0}
      /\ MemorySize = R * M /\ c.src \in Nat /\ c.src < R /\ c.reg \in Nat
  BY <1>1, FieldCounts DEF Registers, RegisterCount
<1>4. ImmediateFits(c.arg, ModBits)
  BY DEF OperandFits
<1>5. m \in Nat /\ m < M
  BY <1>1, <1>3, <1>4, SignedIsDigit DEF ModCount, HalfMod
<1> HIDE DEF m
<1>6. low \in Nat /\ low < MemorySize
  BY <1>3, <1>5, TwoDigits
<1>7. /\ w \in Words /\ GetCode(w) = h
      /\ Receiver(w) = c.reg /\ Address(w) = low
  <2> HIDE DEF low, h, R
  <2>1. LET x == (h * RegisterCount + c.reg) * MemorySize + low
        IN  /\ x \in Words /\ GetCode(x) = h
            /\ Receiver(x) = c.reg /\ Address(x) = low
    BY <1>1, <1>2, <1>6, FieldsOfWord
  <2> QED
    BY <2>1 DEF R
<1>8. v \in Nat /\ v \div R = h * R + c.reg /\ v % R = c.src
  <2>1. h * R + c.reg \in Nat
    BY <1>2, <1>3
  <2> DEFINE u == h * R + c.reg
  <2> HIDE DEF u, R
  <2>2. u * R + c.src \in Nat /\ (u * R + c.src) \div R = u /\ (u * R + c.src) % R = c.src
    BY <1>3, <2>1, LastDigit DEF u
  <2> QED
    BY <2>2 DEF u
<1>9. w = v * M + m
  <2> DEFINE u == h * R + c.reg
  <2>1. u \in Nat
    BY <1>2, <1>3
  <2>2. w = u * (R * M) + (c.src * M + m)
    BY <1>3
  <2> DEFINE d == c.src
  <2> HIDE DEF u, R, M, w
  <2>3. (u * R + d) * M + m = u * (R * M) + (d * M + m)
    <3>1. d \in Nat /\ R \in Nat /\ M \in Nat
      BY <1>3
    <3> HIDE DEF d
    <3> QED
      BY <1>5, <2>1, <3>1, Digits3
  <2> QED
    BY <2>2, <2>3 DEF u
<1>10. w \div M = v /\ w % M = m
  <2> HIDE DEF v, M, w, m
  <2>1. (v * M + m) \div M = v /\ (v * M + m) % M = m
    <3>1. v \in Nat /\ M \in Nat \ {0} /\ m \in Nat /\ m < M
      BY <1>3, <1>5, <1>8
    <3> QED
      BY <3>1, LastDigit
  <2> QED
    BY <1>9, <2>1
<1>11. Build(c) = w
  <2>1. Build(c) = Join((h * R + c.reg) * R + c.src, ModBits, m)
    BY DEF Build, m, RegisterCount
  <2>2. Join(v, ModBits, m) = v * M + m
    BY <1>5 DEF Join, ModCount
  <2> QED
    BY <1>9, <2>1, <2>2
<1>12. Source(w) = c.src
  BY <1>8, <1>10 DEF Source, ModCount, RegisterCount
<1>13. GetSignedValue(w, ModBits) = c.arg
  <2>1. w \in Nat
    BY <1>7 DEF Words
  <2>2. w % 2 ^ ModBits = GetUnsignedBits(c.arg, ModBits)
    BY <1>10 DEF m, ModCount
  <2> HIDE DEF w
  <2> QED
    BY <1>1, <1>3, <1>4, <2>1, <2>2, SignedIsReadBack DEF ModCount, HalfMod
<1> HIDE DEF w
<1>14. Parse(w) = [code |-> h, reg |-> c.reg, src |-> c.src, arg |-> c.arg]
  BY <1>7, <1>12, <1>13 DEF Parse
<1> QED
  BY <1>7, <1>11, <1>14 DEF Fields

\* The same for a command with one field after its register.
LEMMA ParsesOthers ==
    ASSUME NEW c \in Operands, Format[c.code] # "RR", OperandFits(c.code, c.arg)
    PROVE  Build(c) \in Words /\ Parse(Build(c)) = Fields(c)
<1> DEFINE h == c.code
           format == Format[h]
           r == IF format = "J" THEN 0 ELSE c.reg
           low == IF format = "RI" THEN GetUnsignedBits(c.arg, AddressBits) ELSE c.arg
           w == (h * RegisterCount + r) * MemorySize + low
<1>1. /\ h \in Codes /\ c.reg \in Registers /\ c.arg \in Int
      /\ format \in {"RM", "RR", "RI", "J"} /\ format # "RR"
  BY FormatAssumption DEF Operands
<1>2. h \in Nat /\ h < CodeCount
  <2>1. h \in Codes
    BY <1>1
  <2> HIDE DEF h
  <2>2. h \in 0 .. CodeCount - 1
    BY <2>1, FormatAssumption DEF CodeCount
  <2> QED
    BY <2>2, FieldCounts
<1>3. r \in Registers
  BY <1>1, FieldCounts DEF Registers, RegisterCount
<1>4. CASE format = "RI"
  <2>1. ImmediateFits(c.arg, AddressBits) /\ low = GetUnsignedBits(c.arg, AddressBits)
    BY <1>4 DEF OperandFits
  <2>2. low \in Nat /\ low < MemorySize
    BY <1>1, <2>1, SignedIsDigit, FieldCounts DEF MemorySize, HalfAddress
  <2>3. /\ w \in Words /\ GetCode(w) = h
        /\ Receiver(w) = r /\ Address(w) = low
    <3> HIDE DEF low, h, r
    <3>1. LET x == (h * RegisterCount + r) * MemorySize + low
          IN  /\ x \in Words /\ GetCode(x) = h
              /\ Receiver(x) = r /\ Address(x) = low
      BY <1>2, <1>3, <2>2, FieldsOfWord
    <3> QED
      BY <3>1
  <2>4. Build(c) = w
    <3>1. Build(c) = Join(h * 2 ^ RegisterBits + r, AddressBits, low)
      BY <1>4 DEF Build
    <3> HIDE DEF low, r, h
    <3>2. Build(c) = Join(h * RegisterCount + r, AddressBits, low)
      BY <3>1 DEF RegisterCount
    <3> DEFINE u == h * RegisterCount + r
    <3> HIDE DEF u
    <3>3. Join(u, AddressBits, low) = u * MemorySize + low
      BY <2>2 DEF Join, MemorySize
    <3> QED
      BY <3>2, <3>3 DEF u
  <2>5. GetSignedValue(w, AddressBits) = c.arg
    <3>1. w \in Nat
      BY <2>3 DEF Words
    <3>2. w % 2 ^ AddressBits = GetUnsignedBits(c.arg, AddressBits)
      BY <2>1, <2>3 DEF Address
    <3> HIDE DEF w
    <3> QED
      BY <1>1, <2>1, <3>1, <3>2, SignedIsReadBack, FieldCounts DEF MemorySize, HalfAddress
  <2> HIDE DEF w
  <2>6. Parse(w) = [code |-> h, reg |-> c.reg, src |-> 0, arg |-> c.arg]
    BY <1>4, <2>3, <2>5 DEF Parse
  <2> QED
    BY <1>4, <2>3, <2>4, <2>6 DEF Fields
<1>5. CASE format # "RI"
  <2>1. c.arg \in 0 .. MemorySize - 1 /\ low = c.arg
    BY <1>1, <1>5 DEF OperandFits
  <2>2. low \in Nat /\ low < MemorySize
    BY <2>1, FieldCounts
  <2>3. /\ w \in Words /\ GetCode(w) = h
        /\ Receiver(w) = r /\ Address(w) = low
    <3> HIDE DEF low, h, r
    <3>1. LET x == (h * RegisterCount + r) * MemorySize + low
          IN  /\ x \in Words /\ GetCode(x) = h
              /\ Receiver(x) = r /\ Address(x) = low
      BY <1>2, <1>3, <2>2, FieldsOfWord
    <3> QED
      BY <3>1
  <2>4. Build(c) = w
    <3>1. Build(c) = Join(h * 2 ^ RegisterBits + r, AddressBits, low)
      BY <1>1, <1>5 DEF Build
    <3> HIDE DEF low, r, h
    <3>2. Build(c) = Join(h * RegisterCount + r, AddressBits, low)
      BY <3>1 DEF RegisterCount
    <3> DEFINE u == h * RegisterCount + r
    <3> HIDE DEF u
    <3>3. Join(u, AddressBits, low) = u * MemorySize + low
      BY <2>2 DEF Join, MemorySize
    <3> QED
      BY <3>2, <3>3 DEF u
  <2> HIDE DEF w
  <2>5. Parse(w) = [code |-> h, reg |-> r, src |-> 0, arg |-> c.arg]
    BY <1>1, <1>5, <2>1, <2>3 DEF Parse
  <2> QED
    BY <1>1, <1>5, <2>3, <2>4, <2>5 DEF Fields
<1> QED
  BY <1>4, <1>5

\* What the executor sees of a command whose operand fits its field is what
\* cmd::build was given: the code, the registers the format has, and the
\* operand with its sign, unless nobody reads it.
THEOREM CommandsAreReadAsBuilt ==
    ASSUME NEW c \in Operands, OperandFits(c.code, c.arg)
    PROVE  /\ Build(c) \in Words
           /\ Meaning(Build(c))
                = [Fields(c) EXCEPT !.arg = IF c.code \in IgnoresAddress THEN 0 ELSE c.arg]
<1>1. Build(c) \in Words /\ Parse(Build(c)) = Fields(c)
  BY ParsesRR, ParsesOthers
<1> DEFINE w == Build(c)
<1> HIDE DEF w
<1>2. GetCode(w) = c.code
  <2>1. Parse(w).code = c.code
    BY <1>1 DEF w, Fields
  <2> QED
    BY <2>1 DEF Parse
<1>3. CASE c.code \in IgnoresAddress
  <2>1. Meaning(w) = [Parse(w) EXCEPT !.arg = 0]
    BY <1>2, <1>3 DEF Meaning
  <2> QED
    BY <1>1, <1>3, <2>1 DEF w
<1>4. CASE c.code \notin IgnoresAddress
  <2>1. Meaning(w) = Parse(w)
    BY <1>2, <1>4 DEF Meaning
  <2>2. [Fields(c) EXCEPT !.arg = c.arg] = Fields(c)
    BY DEF Fields
  <2> QED
    BY <1>1, <1>4, <2>1, <2>2 DEF w
<1> QED
  BY <1>3, <1>4

\* A command of a valid line, whose label if it has one is an address of the
\* memory, is seen as it was written.  The address MemorySize is excepted: the
\* line is valid, but the address does not fit the field.
THEOREM CommandsAreReadAsWritten ==
    ASSUME NEW line \in Line, line.item = "command", LineIsValid(line), NEW arg,
           IF line.code \in UsesAddress THEN arg \in 0 .. MemorySize - 1
                                        ELSE arg = line.num
    PROVE  /\ CommandWord(line, arg) \in Words
           /\ Meaning(CommandWord(line, arg))
                = [code |-> line.code,
                   reg  |-> IF Format[line.code] = "J" THEN 0 ELSE line.reg,
                   src  |-> IF Format[line.code] = "RR" THEN line.src ELSE 0,
                   arg  |-> IF line.code \in IgnoresAddress THEN 0 ELSE arg]
<1> DEFINE c == [code |-> line.code, reg |-> line.reg, src |-> line.src, arg |-> arg]
<1>1. /\ line.code \in Codes /\ line.reg \in Registers /\ line.src \in Registers
      /\ line.num \in Int /\ Format[line.code] \in {"RM", "RR", "RI", "J"}
  BY FormatAssumption DEF Line
<1>2. arg \in Int /\ OperandFits(line.code, arg)
  <2>1. CASE Format[line.code] \in {"RM", "J"}
    <3>1. arg \in 0 .. MemorySize - 1
      BY <1>1, <2>1 DEF UsesAddress
    <3> QED
      BY <2>1, <3>1, FieldCounts DEF OperandFits
  <2>2. CASE Format[line.code] \in {"RR", "RI"}
    <3>1. arg = line.num
      BY <1>1, <2>2 DEF UsesAddress
    <3>2. CommandIsValid(line)
      BY DEF LineIsValid
    <3>3. line.code \notin UsesAddress
      BY <2>2 DEF UsesAddress
    <3>4. line.use = NoLabel
      BY <3>2, <3>3 DEF CommandIsValid
    <3> QED
      BY <1>1, <2>2, <3>1, <3>2, <3>4 DEF CommandIsValid, OperandFits
  <2> QED
    BY <1>1, <2>1, <2>2
<1>3. c \in Operands /\ OperandFits(c.code, c.arg)
  BY <1>1, <1>2 DEF Operands
<1>4. CommandWord(line, arg) = Build(c)
  BY DEF CommandWord
<1> HIDE DEF c
<1>5. /\ Build(c) \in Words
      /\ Meaning(Build(c))
           = [Fields(c) EXCEPT !.arg = IF c.code \in IgnoresAddress THEN 0 ELSE c.arg]
  BY <1>3, CommandsAreReadAsBuilt
<1> QED
  BY <1>4, <1>5 DEF Fields, c

\* What a field of signed numbers holds fits it.
LEMMA SignedFits ==
    ASSUME NEW size, NEW half \in Nat \ {0}, NEW bits \in Nat,
           half = 2 ^ (size - 1), 2 ^ size = 2 * half
    PROVE  /\ GetSignedValue(bits, size) \in Int
           /\ ImmediateFits(GetSignedValue(bits, size), size)
<1> DEFINE all == 2 ^ size
           low == bits % all
<1>1. all = 2 * half /\ all \in Nat /\ all > 0
  OBVIOUS
<1>2. GetSignedValue(bits, size) = IF low < half THEN low ELSE low - all
  BY DEF GetSignedValue
<1> HIDE DEF all
<1>3. low \in 0 .. all - 1
  BY <1>1
<1> HIDE DEF low
<1> DEFINE value == IF low < half THEN low ELSE low - all
<1>4. value \in Int /\ -half <= value /\ value <= half - 1
  BY <1>1, <1>3
<1>5. GetSignedValue(bits, size) = value
  BY <1>2
<1> HIDE DEF value
<1> QED
  BY <1>4, <1>5 DEF ImmediateFits

\* What the executor sees of a known word is a command whose operand fits.
LEMMA MeaningType ==
    ASSUME NEW w \in Words, Known(w)
    PROVE  LET c == Meaning(w)
           IN  /\ c \in Operands /\ c.code = GetCode(w)
               /\ OperandFits(c.code, c.arg) /\ Fields(c) = c
               /\ c.code \in IgnoresAddress => c.arg = 0
<1> DEFINE c == Meaning(w)
           h == GetCode(w)
           format == Format[h]
<1>1. w \in Nat
  BY FieldCounts DEF Words
<1>2. h \in Codes /\ format \in {"RM", "RR", "RI", "J"}
  BY FormatAssumption DEF Known
<1>3. /\ Receiver(w) \in Registers /\ Source(w) \in Registers /\ 0 \in Registers
      /\ Address(w) \in 0 .. MemorySize - 1 /\ 0 \in 0 .. MemorySize - 1
  <2>1. \A x \in Nat : x % RegisterCount \in 0 .. RegisterCount - 1
    BY FieldCounts
  <2>2. w \div MemorySize \in Nat /\ w \div ModCount \in Nat
    <3>1. \A b \in Nat \ {0} : w \div b \in Nat
      BY <1>1
    <3> QED
      BY <3>1, FieldCounts
  <2>3. Receiver(w) \in 0 .. RegisterCount - 1 /\ Source(w) \in 0 .. RegisterCount - 1
    BY <2>1, <2>2 DEF Receiver, Source, RegisterCount, ModCount, MemorySize
  <2>4. w % MemorySize \in 0 .. MemorySize - 1 /\ 0 \in 0 .. MemorySize - 1
    BY <1>1, FieldCounts
  <2>5. 0 \in 0 .. RegisterCount - 1
    BY FieldCounts
  <2> QED
    BY <2>3, <2>4, <2>5 DEF Registers, RegisterCount, Address, MemorySize
<1>4. /\ GetSignedValue(w, ModBits) \in Int
      /\ ImmediateFits(GetSignedValue(w, ModBits), ModBits)
  BY <1>1, SignedFits, FieldCounts DEF ModCount, HalfMod
<1>5. /\ GetSignedValue(w, AddressBits) \in Int
      /\ ImmediateFits(GetSignedValue(w, AddressBits), AddressBits)
  BY <1>1, SignedFits, FieldCounts DEF MemorySize, HalfAddress
<1>6. /\ Parse(w) \in Operands /\ OperandFits(h, Parse(w).arg)
      /\ Parse(w).code = h /\ Fields(Parse(w)) = Parse(w)
  <2> DEFINE p == Parse(w)
             arg == IF format = "RR" THEN GetSignedValue(w, ModBits)
                    ELSE IF format = "RI" THEN GetSignedValue(w, AddressBits)
                    ELSE Address(w)
  <2>1. p = [code |-> h, reg |-> IF format = "J" THEN 0 ELSE Receiver(w),
             src |-> IF format = "RR" THEN Source(w) ELSE 0, arg |-> arg]
    BY DEF Parse
  <2>2. arg \in Int /\ OperandFits(h, arg)
    BY <1>2, <1>3, <1>4, <1>5, FieldCounts DEF OperandFits
  <2> HIDE DEF arg, p, h
  <2> QED
    BY <1>2, <1>3, <2>1, <2>2 DEF Operands, Fields, p
<1>7. /\ c \in Operands /\ c.code = h /\ OperandFits(h, c.arg) /\ Fields(c) = c
      /\ h \in IgnoresAddress => c.arg = 0
  <2>1. CASE h \notin IgnoresAddress
    <3>1. c = Parse(w)
      BY <2>1 DEF Meaning
    <3> QED
      BY <1>6, <2>1, <3>1
  <2>2. CASE h \in IgnoresAddress
    <3>1. format = "J"
      BY <2>2, FormatAssumption
    <3>2. c = [Parse(w) EXCEPT !.arg = 0]
      BY <2>2 DEF Meaning
    <3>3. OperandFits(h, 0)
      BY <1>3, <3>1 DEF OperandFits
    <3> DEFINE p == Parse(w)
    <3> HIDE DEF p, c, h
    <3> QED
      BY <1>6, <3>2, <3>3 DEF Operands, Fields, p
  <2> QED
    BY <2>1, <2>2
<1> HIDE DEF c
<1> QED
  BY <1>7 DEF c

\* The command of a known word that the disassembler prints, compiled again,
\* means the same to the executor.
THEOREM RebuiltCommandsMeanTheSame ==
    ASSUME NEW w \in Words, Known(w)
    PROVE  /\ Build(Meaning(w)) \in Words
           /\ Meaning(Build(Meaning(w))) = Meaning(w)
<1> DEFINE c == Meaning(w)
<1>1. /\ c \in Operands /\ OperandFits(c.code, c.arg) /\ Fields(c) = c
      /\ c.code \in IgnoresAddress => c.arg = 0
  BY MeaningType, Zenon
<1> HIDE DEF c
<1>2. /\ Build(c) \in Words
      /\ Meaning(Build(c))
           = [Fields(c) EXCEPT !.arg = IF c.code \in IgnoresAddress THEN 0 ELSE c.arg]
  BY <1>1, CommandsAreReadAsBuilt
<1>3. [Fields(c) EXCEPT !.arg = IF c.code \in IgnoresAddress THEN 0 ELSE c.arg] = c
  BY <1>1 DEF Operands
<1> QED
  BY <1>2, <1>3 DEF c
-----------------------------------------------------------------------------
(***************************************************************************)
(* The listing.                                                            *)
(***************************************************************************)
Unfinished == phase \in {"constants", "commands"} \/ error \in DisasmErrors

\* The lines are of some set, without entrypoint directives until the listing
\* is finished, and an error ends the process.
ListingInv ==
    /\ phase # "failed" => error = "none"
    /\ \E S : /\ listing \in Seq(S)
              /\ Unfinished => \A x \in S : x.item # "end"

\* What the line of a constant, a lone label and a command are.
LEMMA LinesAreNotEnds ==
    /\ \A l : Type \in Types => ConstantLine(l).item = "constant"
    /\ \A w : CommandString(w).item = "command"
    /\ \A l : [Blank EXCEPT !.label = l].item = "none"
<1>1. ASSUME NEW l, Type \in Types
      PROVE  ConstantLine(l).item = "constant"
  <2> DEFINE line == [Blank EXCEPT !.label = l, !.item = "constant", !.type = Type]
  <2>1. line.item = "constant" /\ DOMAIN line = DOMAIN Blank
    BY DEF Blank
  <2>2. Type \in {0, 1, 2, 3, 4}
    BY <1>1 DEF Types, Uint32Type, StringType
  <2> HIDE DEF line
  <2>3. \A v : /\ [line EXCEPT !.num = v].item = "constant"
               /\ [line EXCEPT !.text = v].item = "constant"
    BY <2>1 DEF Blank
  <2>4. \/ \E v : ConstantLine(l) = [line EXCEPT !.num = v]
        \/ \E v : ConstantLine(l) = [line EXCEPT !.text = v]
    <3> USE DEF Uint32Type, Uint64Type, DoubleType, CharType, StringType
    <3>1. CASE Type = 0
      <4>1. ConstantLine(l) = [line EXCEPT !.num = Value[1]]
        BY <3>1 DEF ConstantLine, line
      <4> QED
        BY <4>1
    <3>2. CASE Type = 1
      <4>1. ConstantLine(l) = [line EXCEPT !.num = Double(Value)]
        BY <3>2 DEF ConstantLine, line
      <4> QED
        BY <4>1
    <3>3. CASE Type = 2
      <4>1. ConstantLine(l) = [line EXCEPT !.num = Digits(Double(Value))]
        BY <3>3 DEF ConstantLine, line
      <4> QED
        BY <4>1
    <3>4. CASE Type = 3
      <4>1. ConstantLine(l) = [line EXCEPT !.text = Quoted(Text(Value), CharQuote)]
        BY <3>4 DEF ConstantLine, line
      <4> QED
        BY <4>1
    <3>5. CASE Type = 4
      <4>1. ConstantLine(l)
              = [line EXCEPT !.text = Quoted(Text(Front(Value)), StringQuote)]
        BY <3>5 DEF ConstantLine, line
      <4> QED
        BY <4>1
    <3> QED
      BY <2>2, <3>1, <3>2, <3>3, <3>4, <3>5
  <2> QED
    BY <2>3, <2>4
<1>2. ASSUME NEW w
      PROVE  CommandString(w).item = "command"
  <2>1. \A c, u : CommandLine(c, u).item = "command"
    BY DEF CommandLine, Blank
  <2>2. \E c, u : CommandString(w) = CommandLine(c, u)
    BY DEF CommandString
  <2> QED
    BY <2>1, <2>2
<1>3. \A l : [Blank EXCEPT !.label = l].item = "none"
  BY DEF Blank
<1> QED
  BY <1>1, <1>2, <1>3

\* A file that is refused is refused for an error of Exec.
LEMMA ReadErrorIsOfExec ==
    ReadError(file) \notin DisasmErrors
BY DEF ReadError, DisasmErrors

\* A line that is no entrypoint directive may be added.
LEMMA LineAdded ==
    ASSUME NEW S, listing \in Seq(S), NEW x
    PROVE  Append(listing, x) \in Seq(S \cup {x})
<1>1. listing \in Seq(S \cup {x})
  OBVIOUS
<1> QED
  BY <1>1

\* ListingInv is kept by every step.
LEMMA ListingInvNext ==
    ASSUME ListingInv, [Next]_vars
    PROVE  ListingInv'
<1>1. PICK S : /\ listing \in Seq(S)
               /\ Unfinished => \A x \in S : x.item # "end"
  BY DEF ListingInv
<1>2. ASSUME UNCHANGED <<listing, error>>, phase' \notin {"constants", "commands"},
             phase' = "failed" \/ error = "none"
      PROVE  ListingInv'
  <2>1. Unfinished' => Unfinished
    BY <1>2 DEF Unfinished
  <2> QED
    BY <1>1, <1>2, <2>1 DEF ListingInv
<1>3. phase # "failed" => error = "none"
  BY DEF ListingInv
<1>4. CASE Compile
  BY <1>2, <1>3, <1>4 DEF Compile
<1>5. CASE RefuseText
  BY <1>2, <1>3, <1>5 DEF RefuseText
<1>6. CASE Write
  BY <1>2, <1>3, <1>6 DEF Write
<1>7. CASE CompileListing
  BY <1>2, <1>3, <1>7 DEF CompileListing
<1>8. CASE Read
  <2>1. /\ listing' = <<>> /\ error' = error /\ phase = "read"
        /\ phase' = "constants"
    BY <1>8 DEF Read, StartDisassembly
  <2>2. PICK T : T = {}
    OBVIOUS
  <2>3. listing' \in Seq(T) /\ \A x \in T : x.item # "end"
    BY <2>1, <2>2
  <2> QED
    BY <1>3, <2>1, <2>3 DEF ListingInv
<1>9. CASE RefuseFile
  <2>1. phase' = "failed" /\ error' = ReadError(file) /\ listing' = listing
    BY <1>9 DEF RefuseFile, Fail
  <2>2. ~Unfinished'
    BY <2>1, ReadErrorIsOfExec DEF Unfinished
  <2> QED
    BY <1>1, <2>1, <2>2 DEF ListingInv
<1>10. ASSUME phase \in {"constants", "commands"}, phase' = "failed", listing' = listing
       PROVE  ListingInv'
  <2>1. \A x \in S : x.item # "end"
    BY <1>1, <1>10 DEF Unfinished
  <2> QED
    BY <1>1, <1>10, <2>1 DEF ListingInv
<1>11. CASE UnknownConstantType
  BY <1>10, <1>11 DEF UnknownConstantType, AtConstant, Fail
<1>12. CASE TruncatedConstant
  BY <1>10, <1>12 DEF TruncatedConstant, AtConstant, Fail
<1>13. CASE UnknownCommand
  BY <1>10, <1>13 DEF UnknownCommand, Fail
<1>14. ASSUME phase \in {"constants", "commands"}, phase' \in {"constants", "commands"},
              error' = error, NEW T, listing' \in Seq(T), \A x \in T : x.item # "end"
       PROVE  ListingInv'
  BY <1>3, <1>14 DEF ListingInv
<1>15. phase \in {"constants", "commands"} => \A x \in S : x.item # "end"
  BY <1>1 DEF Unfinished
<1>16. CASE DisassembleConstant
  <2>1. PICK x : x = ConstantLine(NextConstantLabel)
    OBVIOUS
  <2>2. /\ listing' = Append(listing, x) /\ phase = "constants"
        /\ phase' = phase /\ error' = error /\ Type \in Types
    BY <1>16, <2>1 DEF DisassembleConstant, AtConstant
  <2>3. x.item # "end"
    BY <2>1, <2>2, LinesAreNotEnds
  <2>4. listing' \in Seq(S \cup {x}) /\ \A y \in S \cup {x} : y.item # "end"
    BY <1>1, <1>15, <2>2, <2>3, LineAdded
  <2> QED
    BY <1>14, <2>2, <2>4
<1>17. CASE PrepareCommandLabels
  <2>1. phase = "constants" /\ phase' = "commands" /\ UNCHANGED <<listing, error>>
    BY <1>17 DEF PrepareCommandLabels
  <2> QED
    BY <1>1, <1>14, <1>15, <2>1
<1>18. CASE DisassembleCommand
  <2>1. PICK x : x = CommandString(data.code[pos + 1])
    OBVIOUS
  <2>2. PICK y : y = [Blank EXCEPT !.label = TryGetLabel(pos)]
    OBVIOUS
  <2>3. x.item # "end" /\ y.item # "end"
    BY <2>1, <2>2, LinesAreNotEnds
  <2>4. /\ listing' = listing \o LabelLine(pos) \o <<x>> /\ phase = "commands"
        /\ phase' = phase /\ error' = error
    BY <1>18, <2>1 DEF DisassembleCommand
  <2>5. LabelLine(pos) = <<>> \/ LabelLine(pos) = <<y>>
    BY <2>2 DEF LabelLine
  <2> DEFINE T == S \cup {x, y}
  <2>6. listing' \in Seq(T)
    <3>1. /\ listing \in Seq(T) /\ <<>> \in Seq(T)
          /\ <<x>> \in Seq(T) /\ <<y>> \in Seq(T)
      BY <1>1
    <3> HIDE DEF T
    <3>2. \A r, t \in Seq(T) : r \o t \in Seq(T)
      OBVIOUS
    <3>3. LabelLine(pos) \in Seq(T)
      BY <2>5, <3>1
    <3> QED
      BY <2>4, <3>1, <3>2, <3>3
  <2>7. \A z \in T : z.item # "end"
    BY <1>15, <2>3, <2>4
  <2> HIDE DEF T
  <2> QED
    BY <1>14, <2>4, <2>6, <2>7
<1>19. CASE EndListing
  <2>1. /\ phase = "commands" /\ phase' = "listed" /\ error' = error
        /\ listing' = Append(listing, EndMain)
    BY <1>19 DEF EndListing
  <2>2. error' = "none" /\ ~Unfinished'
    BY <1>3, <2>1 DEF Unfinished, DisasmErrors
  <2>3. listing' \in Seq(S \cup {EndMain})
    BY <1>1, <2>1, LineAdded
  <2> QED
    BY <2>1, <2>2, <2>3 DEF ListingInv
<1>20. CASE UNCHANGED vars
  <2>1. UNCHANGED <<listing, error, phase>>
    BY <1>20 DEF vars, disasmVars
  <2>2. Unfinished' <=> Unfinished
    BY <2>1 DEF Unfinished
  <2> QED
    BY <1>1, <1>3, <2>1, <2>2 DEF ListingInv
<1> QED
  BY <1>4, <1>5, <1>6, <1>7, <1>8, <1>9, <1>11, <1>12, <1>13, <1>16, <1>17, <1>18,
     <1>19, <1>20 DEF Next, Disassemble
-----------------------------------------------------------------------------
(***************************************************************************)
(* What the assembler makes of a single file.                              *)
(***************************************************************************)
\* The traversal of the files, when the only one includes nothing: there is a
\* function of its equation, so visit satisfies it.
LEMMA OneFileVisited ==
    /\ \A e \in SUBSET {Main} :
          Relisted!visit[<<<<>>, e>>] = [order |-> <<>>, entered |-> e]
    /\ Relisted!visit[<<<<Main>>, {}>>]
          = LET below == Relisted!visit[<<<<>>, {Main}>>]
                after == Relisted!visit[<<<<>>, below.entered>>]
            IN  [order   |-> Append(below.order, Main) \o after.order,
                 entered |-> after.entered]
<1> DEFINE At == Seq({Main} \cup {"none"}) \X SUBSET {Main}
           both(below, after, f) == [order   |-> Append(below.order, f) \o after.order,
                                     entered |-> after.entered]
           beside(v, at, below) == both(below, v[<<Tail(at[1]), below.entered>>], Head(at[1]))
           within(v, at) == v[<<SourceOf(listing)[Head(at[1])].includes, at[2] \cup {Head(at[1])}>>]
           entering(v, at) ==
               IF at[1] = <<>> THEN [order |-> <<>>, entered |-> at[2]]
               ELSE IF Head(at[1]) \in at[2] \cup {"none"} THEN v[<<Tail(at[1]), at[2]>>]
               ELSE beside(v, at, within(v, at))
           IsVisit(v) == v = [at \in At |-> entering(v, at)]
           New(s, e) == Main \notin e /\ \E i \in 1 .. Len(s) : s[i] = Main
           closed(s, e) == IF New(s, e) THEN [order |-> <<Main>>, entered |-> {Main}]
                                        ELSE [order |-> <<>>, entered |-> e]
           all == [at \in At |-> closed(at[1], at[2])]
<1>1. Relisted!visit = CHOOSE v : IsVisit(v)
  BY Zenon DEF Relisted!visit
<1>2. \A f : f \in {Main} => SourceOf(listing)[f].includes = <<>>
  BY DEF SourceOf
<1>3. \A s \in Seq({Main} \cup {"none"}), e \in SUBSET {Main} :
         <<s, e>> \in At /\ all[<<s, e>>] = closed(s, e)
  <2> HIDE DEF closed
  <2> QED
    OBVIOUS
<1>4. ASSUME NEW s \in Seq({Main} \cup {"none"}), NEW e \in SUBSET {Main}
      PROVE  entering(all, <<s, e>>) = closed(s, e)
  <2>1. CASE s = <<>>
    BY <2>1
  <2>2. CASE s # <<>> /\ Head(s) \in e \cup {"none"}
    <3>1. Tail(s) \in Seq({Main} \cup {"none"}) /\ Len(s) >= 1
      BY <2>2
    <3>2. entering(all, <<s, e>>) = closed(Tail(s), e)
      <4>1. entering(all, <<s, e>>) = all[<<Tail(s), e>>]
        BY <2>2
      <4> QED
        BY <1>3, <3>1, <4>1
    <3>3. New(Tail(s), e) <=> New(s, e)
      <4>1. Main # "none"
        BY DEF Main
      <4>2. Len(Tail(s)) = Len(s) - 1 /\ \A i \in 1 .. Len(s) - 1 : Tail(s)[i] = s[i + 1]
        BY <2>2
      <4>3. Head(s) = s[1]
        OBVIOUS
      <4>4. ASSUME New(s, e) PROVE New(Tail(s), e)
        <5>1. PICK i \in 1 .. Len(s) : s[i] = Main
          BY <4>4
        <5>2. i # 1
          BY <2>2, <4>1, <4>3, <4>4, <5>1
        <5>3. i - 1 \in 1 .. Len(s) - 1 /\ Tail(s)[i - 1] = Main
          BY <3>1, <4>2, <5>1, <5>2
        <5> QED
          BY <4>2, <4>4, <5>3
      <4>5. ASSUME New(Tail(s), e) PROVE New(s, e)
        <5>1. PICK i \in 1 .. Len(s) - 1 : s[i + 1] = Main
          BY <4>2, <4>5
        <5>2. i + 1 \in 1 .. Len(s)
          BY <3>1, <5>1
        <5> QED
          BY <4>5, <5>1, <5>2
      <4> QED
        BY <4>4, <4>5
    <3> QED
      BY <3>2, <3>3
  <2>3. CASE s # <<>> /\ Head(s) \notin e \cup {"none"}
    <3>1. /\ Tail(s) \in Seq({Main} \cup {"none"}) /\ Len(s) >= 1
          /\ Head(s) = Main /\ s[1] = Main /\ e = {}
      BY <2>3
    <3>2. within(all, <<s, e>>) = [order |-> <<>>, entered |-> {Main}]
      <4>1. within(all, <<s, e>>) = all[<<<<>>, {Main}>>]
        BY <1>2, <3>1
      <4>2. all[<<<<>>, {Main}>>] = closed(<<>>, {Main})
        <5> HIDE DEF all, closed
        <5>1. <<>> \in Seq({Main} \cup {"none"}) /\ {Main} \in SUBSET {Main}
          OBVIOUS
        <5> QED
          BY <1>3, <5>1
      <4> QED
        BY <4>1, <4>2
    <3>3. all[<<Tail(s), {Main}>>] = [order |-> <<>>, entered |-> {Main}]
      <4>1. all[<<Tail(s), {Main}>>] = closed(Tail(s), {Main})
        BY <1>3, <3>1
      <4> QED
        BY <4>1
    <3> HIDE DEF all
    <3>4. beside(all, <<s, e>>, within(all, <<s, e>>))
            = [order |-> <<Main>>, entered |-> {Main}]
      <4> HIDE DEF within
      <4>1. beside(all, <<s, e>>, within(all, <<s, e>>))
              = both([order |-> <<>>, entered |-> {Main}],
                     [order |-> <<>>, entered |-> {Main}], Main)
        <5>1. <<s, e>>[1] = s /\ [order |-> <<>>, entered |-> {Main}].entered = {Main}
          OBVIOUS
        <5> HIDE DEF both
        <5> QED
          BY <3>1, <3>2, <3>3, <5>1, Zenon
      <4> QED
        BY <4>1
    <3>5. New(s, e)
      BY <3>1
    <3>6. entering(all, <<s, e>>) = beside(all, <<s, e>>, within(all, <<s, e>>))
      <4> HIDE DEF beside, within
      <4> QED
        BY <2>3
    <3> HIDE DEF New, beside, within, entering
    <3> QED
      BY <3>4, <3>5, <3>6
  <2> QED
    BY <2>1, <2>2, <2>3
<1>5. IsVisit(all)
  <2> HIDE DEF entering, closed
  <2>1. \A at \in At : at = <<at[1], at[2]>>
    OBVIOUS
  <2>2. \A at \in At : entering(all, at) = closed(at[1], at[2])
    <3> HIDE DEF all
    <3> QED
      BY <1>4, <2>1
  <2>3. [at \in At |-> entering(all, at)] = [at \in At |-> closed(at[1], at[2])]
    <3> HIDE DEF At, all
    <3> QED
      BY <2>2, Zenon
  <2> QED
    BY <2>3
<1>6. IsVisit(Relisted!visit)
  <2> HIDE DEF IsVisit
  <2> QED
    BY <1>1, <1>5, Zenon
<1>7. \A at \in At : Relisted!visit[at] = entering(Relisted!visit, at)
  <2> HIDE DEF entering, At
  <2> QED
    BY <1>6
<1>8. \A e \in SUBSET {Main} :
         /\ <<<<>>, e>> \in At
         /\ entering(Relisted!visit, <<<<>>, e>>) = [order |-> <<>>, entered |-> e]
  <2>1. \A e \in SUBSET {Main} : <<<<>>, e>> \in At
    <3>1. <<>> \in Seq({Main} \cup {"none"})
      OBVIOUS
    <3>2. \A S, T, x : x \in S => \A y \in T : <<x, y>> \in S \X T
      OBVIOUS
    <3> QED
      BY <3>1, <3>2, Zenon
  <2> HIDE DEF At, beside, within
  <2>2. \A e : entering(Relisted!visit, <<<<>>, e>>) = [order |-> <<>>, entered |-> e]
    OBVIOUS
  <2> QED
    BY <2>1, <2>2, Zenon
<1>9. <<<<Main>>, {}>> \in At
  OBVIOUS
<1>10. entering(Relisted!visit, <<<<Main>>, {}>>)
         = beside(Relisted!visit, <<<<Main>>, {}>>, Relisted!visit[<<<<>>, {Main}>>])
  <2>1. Head(<<Main>>) = Main /\ Main \notin {} \cup {"none"} /\ <<Main>> # <<>>
    BY DEF Main
  <2>2. within(Relisted!visit, <<<<Main>>, {}>>) = Relisted!visit[<<<<>>, {Main}>>]
    BY <1>2, <2>1
  <2> HIDE DEF beside, within
  <2> QED
    BY <2>1, <2>2
<1>11. \A below : beside(Relisted!visit, <<<<Main>>, {}>>, below)
                     = both(below, Relisted!visit[<<<<>>, below.entered>>], Main)
  <2> HIDE DEF both
  <2>1. Head(<<Main>>) = Main /\ Tail(<<Main>>) = <<>>
    OBVIOUS
  <2> QED
    BY <2>1
<1> HIDE DEF At, entering, beside
<1> QED
  BY <1>7, <1>8, <1>9, <1>10, <1>11

\* The program is the one file.
LEMMA OneFileOrder == Relisted!Order = <<Main>>
<1>1. Relisted!visit[<<<<>>, {Main}>>] = [order |-> <<>>, entered |-> {Main}]
  BY OneFileVisited
<1>2. Relisted!visit[<<<<Main>>, {}>>] = [order |-> <<Main>>, entered |-> {Main}]
  <2> DEFINE below == Relisted!visit[<<<<>>, {Main}>>]
             after == Relisted!visit[<<<<>>, below.entered>>]
  <2>1. below.entered = {Main} /\ below.order = <<>>
    BY <1>1
  <2>2. after.entered = {Main} /\ after.order = <<>>
    BY <1>1, <2>1
  <2>3. Relisted!visit[<<<<Main>>, {}>>]
          = [order |-> Append(below.order, Main) \o after.order, entered |-> after.entered]
    BY OneFileVisited, Zenon
  <2> HIDE DEF below, after
  <2> QED
    BY <2>1, <2>2, <2>3
<1>3. Relisted!Order = Relisted!visit[<<<<Main>>, {}>>].order
  BY Zenon DEF Relisted!Order
<1>4. [order |-> <<Main>>, entered |-> {Main}].order = <<Main>>
  OBVIOUS
<1> QED
  BY <1>2, <1>3, <1>4, Zenon

\* A sequence of one sequence is that sequence.
LEMMA FlattenOne ==
    ASSUME NEW s
    PROVE  Relisted!FlattenSeq(<<s>>) = s
<1> DEFINE one == <<s>>
           joined(f, i) == f[i - 1] \o one[i]
           IsFlat(f) == f = [i \in 1 .. Len(one) |-> IF i = 1 THEN one[i] ELSE joined(f, i)]
<1>1. Len(one) = 1 /\ Len(one) # 0 /\ one[1] = s
  OBVIOUS
<1> HIDE DEF one
<1>2. Relisted!FlattenSeq(one) = (CHOOSE f : IsFlat(f))[1]
  BY <1>1, Zenon DEF Relisted!FlattenSeq
<1> HIDE DEF joined
<1>3. \A f : IsFlat(f) <=> f = [i \in {1} |-> s]
  <2>1. 1 .. Len(one) = {1}
    BY <1>1
  <2> QED
    BY <1>1, <2>1
<1>4. IsFlat(CHOOSE f : IsFlat(f))
  <2>1. \E f : IsFlat(f)
    BY <1>3
  <2> HIDE DEF IsFlat
  <2> QED
    BY <2>1, Zenon
<1>5. (CHOOSE f : IsFlat(f))[1] = s
  BY <1>3, <1>4
<1> QED
  BY <1>2, <1>5 DEF one
\* A set of natural numbers has a least one.
LEMMA Least ==
    ASSUME NEW S \in SUBSET Nat, S # {}
    PROVE  \E x \in S : \A y \in S : x <= y
<1> DEFINE less == {p \in Nat \X Nat : p[1] < p[2]}
<1>1. IsWellFoundedOn(less, Nat)
  BY NatLessThanWellFounded DEF OpToRel
<1>2. S \subseteq Nat
  OBVIOUS
<1> HIDE DEF less
<1>3. PICK x \in S : \A y \in S : ~(<<y, x>> \in less)
  BY <1>1, <1>2, WFMin, Zenon
<1>4. \A y \in S : x <= y
  <2> SUFFICES ASSUME NEW y \in S, y < x PROVE FALSE
    BY <1>2
  <2>1. <<y, x>> \in Nat \X Nat /\ <<y, x>>[1] < <<y, x>>[2]
    BY <1>2
  <2>2. <<y, x>> \in less
    BY <2>1 DEF less
  <2> QED
    BY <1>3, <2>2
<1> QED
  BY <1>4

\* What Assembler!PlacesIn says of the only file.
MainPlaces(lines, kind) ==
    LET upTo[n \in 0 .. Len(lines)] ==
            IF n = 0 THEN <<>>
            ELSE IF lines[n].item = kind THEN Append(upTo[n - 1], <<Main, n>>)
            ELSE upTo[n - 1]
    IN  upTo

\* Its defining equation holds: a function that satisfies it up to a line
\* extends to the next.
LEMMA MainPlacesDefined ==
    ASSUME NEW lines, Len(lines) \in Nat, NEW kind
    PROVE  MainPlaces(lines, kind)
             = [n \in 0 .. Len(lines) |->
                   IF n = 0 THEN <<>>
                   ELSE IF lines[n].item = kind
                   THEN Append(MainPlaces(lines, kind)[n - 1], <<Main, n>>)
                   ELSE MainPlaces(lines, kind)[n - 1]]
<1> DEFINE next(places, n) ==
               IF lines[n].item = kind THEN Append(places, <<Main, n>>) ELSE places
           IsUpTo(f, N) ==
               f = [n \in 0 .. N |-> IF n = 0 THEN <<>> ELSE next(f[n - 1], n)]
           without == {N \in Nat : ~ \E f : IsUpTo(f, N)}
<1>1. MainPlaces(lines, kind) = CHOOSE f : IsUpTo(f, Len(lines))
  BY Zenon DEF MainPlaces
<1> HIDE DEF next
<1>2. ASSUME without # {}
      PROVE  FALSE
  <2>1. PICK N \in without : \A M \in without : N <= M
    BY <1>2, Least
  <2>2. CASE N = 0
    <3> DEFINE f == [n \in {0} |-> <<>>]
    <3>1. 0 .. N = {0}
      BY <2>2
    <3>2. IsUpTo(f, N)
      BY <3>1
    <3> QED
      BY <2>1, <3>2
  <2>3. CASE N # 0
    <3>1. N \in Nat /\ N - 1 \in Nat /\ N - 1 \notin without
      <4>1. N \in Nat
        BY <2>1
      <4>2. N - 1 \in Nat /\ ~(N <= N - 1)
        BY <4>1, <2>3
      <4> HIDE DEF without
      <4> QED
        BY <4>1, <4>2, <2>1
    <3>2. PICK f : IsUpTo(f, N - 1)
      BY <3>1
    <3> DEFINE g == [n \in 0 .. N |-> IF n = N THEN next(f[N - 1], N) ELSE f[n]]
    <3>3. \A n \in 0 .. N : g[n] = IF n = 0 THEN <<>> ELSE next(g[n - 1], n)
      BY <2>3, <3>1, <3>2
    <3>4. IsUpTo(g, N)
      BY <3>3
    <3> QED
      BY <2>1, <3>4
  <2> QED
    BY <2>2, <2>3
<1>3. \E f : IsUpTo(f, Len(lines))
  BY <1>2
<1> HIDE DEF IsUpTo
<1>4. IsUpTo(MainPlaces(lines, kind), Len(lines))
  BY <1>1, <1>3, Zenon
<1> QED
  BY <1>4 DEF IsUpTo, next

\* the places of the items of a kind
Held(lines, kind) == {<<Main, n>> : n \in {k \in 1 .. Len(lines) : lines[k].item = kind}}

\* The places kept up to a line are of lines that hold an item of the kind.
LEMMA MainPlacesHold ==
    ASSUME NEW lines, Len(lines) \in Nat, NEW kind, NEW m \in 0 .. Len(lines)
    PROVE  MainPlaces(lines, kind)[m]
             \in Seq(Held(lines, kind))
<1> DEFINE held == Held(lines, kind)
           f == MainPlaces(lines, kind)
           wrong == {n \in 0 .. Len(lines) : f[n] \notin Seq(held)}
<1>1. f = [n \in 0 .. Len(lines) |->
               IF n = 0 THEN <<>>
               ELSE IF lines[n].item = kind THEN Append(f[n - 1], <<Main, n>>)
               ELSE f[n - 1]]
  BY MainPlacesDefined
<1> HIDE DEF f, held
<1>2. f[0] = <<>>
  <2>1. 0 \in 0 .. Len(lines)
    OBVIOUS
  <2> QED
    BY <1>1, <2>1
<1>3. ASSUME wrong # {}
      PROVE  FALSE
  <2>1. wrong \subseteq 0 .. Len(lines) /\ wrong \in SUBSET Nat
    OBVIOUS
  <2>2. PICK n \in wrong : \A k \in wrong : n <= k
    <3> HIDE DEF wrong
    <3> QED
      BY <1>3, <2>1, Least
  <2>3. f[n] \notin Seq(held) /\ n \in 0 .. Len(lines)
    BY <2>2
  <2>4. n # 0
    <3>1. <<>> \in Seq(held)
      OBVIOUS
    <3> QED
      BY <1>2, <2>3, <3>1
  <2>5. n - 1 \in 0 .. Len(lines) /\ ~(n <= n - 1)
    BY <2>3, <2>4
  <2>6. n - 1 \notin wrong
    <3> HIDE DEF wrong
    <3> QED
      BY <2>2, <2>5
  <2>7. f[n - 1] \in Seq(held)
    BY <2>5, <2>6
  <2>8. f[n] = IF lines[n].item = kind THEN Append(f[n - 1], <<Main, n>>) ELSE f[n - 1]
    BY <1>1, <2>3, <2>4
  <2>9. lines[n].item = kind => <<Main, n>> \in held
    BY <2>3, <2>4 DEF held, Held
  <2> QED
    BY <2>3, <2>7, <2>8, <2>9
<1> QED
  BY <1>3 DEF f, held

\* What the assembler sees of a listing is its only file.
LEMMA RelistedPlaces ==
    ASSUME NEW kind
    PROVE  LET lines == SourceOf(listing)[Main].lines
           IN  Relisted!Places(kind) = MainPlaces(lines, kind)[Len(lines)]
<1> DEFINE lines == SourceOf(listing)[Main].lines
           kept == MainPlaces(lines, kind)[Len(lines)]
<1>1. Relisted!PlacesIn(Main, kind) = MainPlaces(lines, kind)
  BY Zenon DEF Relisted!PlacesIn, MainPlaces
<1> HIDE DEF lines
<1>2. DOMAIN <<Main>> = {1} /\ <<Main>>[1] = Main
  OBVIOUS
<1>3. [i \in {1} |-> kept] = <<kept>>
  OBVIOUS
<1>4. Relisted!Places(kind) = Relisted!FlattenSeq([i \in {1} |-> kept])
  <2>1. Relisted!Places(kind)
          = Relisted!FlattenSeq(
                [i \in DOMAIN <<Main>> |->
                    Relisted!PlacesIn(<<Main>>[i], kind)[
                        Len(SourceOf(listing)[<<Main>>[i]].lines)]])
    BY OneFileOrder, Zenon DEF Relisted!Places
  <2>2. \A i \in DOMAIN <<Main>> :
            Relisted!PlacesIn(<<Main>>[i], kind)[Len(SourceOf(listing)[<<Main>>[i]].lines)]
              = kept
    BY <1>1, <1>2, Zenon DEF lines
  <2> QED
    BY <1>2, <2>1, <2>2, Zenon
<1> QED
  BY <1>3, <1>4, FlattenOne, Zenon DEF lines

\* A program without an entrypoint directive is no program.
LEMMA NoEndIsRefused ==
    ASSUME NEW S, listing \in Seq(S), \A n \in DOMAIN listing : listing[n].item # "end"
    PROVE  ~Relisted!Valid
<1> DEFINE lines == SourceOf(listing)[Main].lines
           places == Relisted!Places("end")
<1>1. lines = [n \in DOMAIN listing |-> Parsed(listing[n])]
  BY DEF SourceOf
<1>2. Len(lines) \in Nat /\ DOMAIN listing = 1 .. Len(lines)
  BY <1>1
<1>3. Held(lines, "end") = {}
  <2>1. \A n \in DOMAIN listing : Parsed(listing[n]).item # "end"
    BY DEF Parsed
  <2>2. \A k \in 1 .. Len(lines) : lines[k].item # "end"
    BY <1>1, <1>2, <2>1
  <2> HIDE DEF lines
  <2> QED
    BY <2>2 DEF Held
<1> HIDE DEF lines
<1>4. places = MainPlaces(lines, "end")[Len(lines)]
  BY RelistedPlaces, Zenon DEF lines
<1>5. Len(lines) \in 0 .. Len(lines)
  BY <1>2
<1>6. places \in Seq({})
  BY <1>2, <1>3, <1>4, <1>5, MainPlacesHold, Zenon
<1> HIDE DEF places
<1>7. Len(places) # 1
  BY <1>6
<1> QED
  BY <1>7 DEF Relisted!Valid, places
-----------------------------------------------------------------------------
\* Whenever the disassembler has not finished - it is under way, or it failed on
\* a constant or on a command - what is in its output file is refused by the
\* compiler: the entrypoint directive is written last (Disassembler::Impl).
THEOREM PartialListings == Spec => []PartialListingRefused
<1>1. Init => ListingInv
  <2> SUFFICES ASSUME Init PROVE ListingInv
    OBVIOUS
  <2>1. listing = <<>> /\ error = "none" /\ phase \notin {"constants", "commands"}
    BY DEF Init, FromText, FromFile
  <2>2. listing \in Seq({}) /\ ~Unfinished
    BY <2>1 DEF Unfinished, DisasmErrors
  <2> QED
    BY <2>1, <2>2 DEF ListingInv
<1>2. ListingInv /\ [Next]_vars => ListingInv'
  BY ListingInvNext
<1>3. ListingInv => PartialListingRefused
  <2> SUFFICES ASSUME ListingInv, Unfinished
               PROVE  ~Relisted!Valid
    BY DEF PartialListingRefused, Unfinished
  <2>1. PICK S : listing \in Seq(S) /\ \A x \in S : x.item # "end"
    BY DEF ListingInv
  <2>2. \A n \in DOMAIN listing : listing[n].item # "end"
    BY <2>1
  <2> QED
    BY <2>1, <2>2, NoEndIsRefused, Zenon
<1> QED
  BY <1>1, <1>2, <1>3, PTL DEF Spec
-----------------------------------------------------------------------------
(***************************************************************************)
(* Recursion: the functions that the operators on sequences are defined by *)
(* exist and have their types.                                             *)
(***************************************************************************)
\* A set of natural numbers that holds 0, and the next of each, up to n, holds
\* all numbers up to n.
LEMMA UpTo ==
    ASSUME NEW n \in Nat, NEW S, 0 \in S,
           \A m \in 1 .. n : m - 1 \in S => m \in S
    PROVE  0 .. n \subseteq S
<1> DEFINE missing == {m \in 0 .. n : m \notin S}
<1>1. missing \in SUBSET Nat
  OBVIOUS
<1>2. ASSUME missing # {}
      PROVE  FALSE
  <2>1. PICK m \in missing : \A k \in missing : m <= k
    <3> HIDE DEF missing
    <3> QED
      BY <1>1, <1>2, Least
  <2>2. m \in 0 .. n /\ m \notin S /\ m # 0
    BY <2>1
  <2>3. m \in 1 .. n /\ m - 1 \in 0 .. n /\ ~(m <= m - 1)
    BY <2>2
  <2>4. m - 1 \notin missing
    <3> HIDE DEF missing
    <3> QED
      BY <2>1, <2>3
  <2> QED
    BY <2>2, <2>3, <2>4
<1> QED
  BY <1>2

\* f starts with a, and h makes every value from the one before.
IsRecursion(f, X, a, n, h) ==
    /\ f \in [0 .. n -> X]
    /\ f[0] = a
    /\ \A i \in 1 .. n : f[i] = h[<<f[i - 1], i>>]

\* There is such a function for every first value and step.
LEMMA Recursion ==
    ASSUME NEW X, NEW a \in X, NEW n \in Nat, NEW h \in [X \X (1 .. n) -> X]
    PROVE  \E f : IsRecursion(f, X, a, n, h)
<1> DEFINE Is(f, m) == /\ f \in [0 .. m -> X] /\ f[0] = a
                       /\ \A i \in 1 .. m : f[i] = h[<<f[i - 1], i>>]
           S == {m \in 0 .. n : \E f : Is(f, m)}
<1>1. 0 \in S
  <2> DEFINE f == [i \in 0 .. 0 |-> a]
  <2>1. f \in [0 .. 0 -> X] /\ f[0] = a /\ 1 .. 0 = {}
    BY DEF f
  <2> HIDE DEF f
  <2>2. Is(f, 0)
    BY <2>1
  <2> QED
    BY <2>2
<1>2. ASSUME NEW m \in 1 .. n, m - 1 \in S
      PROVE  m \in S
  <2>1. PICK f : Is(f, m - 1)
    BY <1>2
  <2> DEFINE g == [i \in 0 .. m |-> IF i = m THEN h[<<f[m - 1], m>>] ELSE f[i]]
  <2>2. f \in [0 .. m - 1 -> X]
    BY <2>1
  <2>3. f[m - 1] \in X /\ h[<<f[m - 1], m>>] \in X
    BY <2>2
  <2>4. g \in [0 .. m -> X]
    BY <2>2, <2>3
  <2>5. g[0] = a
    BY <2>1
  <2>6. ASSUME NEW i \in 1 .. m
        PROVE  g[i] = h[<<g[i - 1], i>>]
    <3>1. CASE i = m
      <4>1. m \in 0 .. m /\ m - 1 \in 0 .. m /\ m - 1 # m
        OBVIOUS
      <4>2. g[m] = h[<<f[m - 1], m>>] /\ g[m - 1] = f[m - 1]
        BY <4>1
      <4> QED
        BY <3>1, <4>2
    <3>2. CASE i # m
      <4>1. i \in 1 .. m - 1 /\ i \in 0 .. m /\ i - 1 \in 0 .. m /\ i - 1 # m
        BY <3>2
      <4>2. f[i] = h[<<f[i - 1], i>>]
        BY <2>1, <4>1
      <4> QED
        BY <3>2, <4>1, <4>2
    <3> QED
      BY <3>1, <3>2
  <2> HIDE DEF g
  <2>7. Is(g, m)
    BY <2>4, <2>5, <2>6
  <2> HIDE DEF Is
  <2> QED
    BY <2>7
<1> HIDE DEF S
<1>3. 0 .. n \subseteq S
  BY <1>1, <1>2, UpTo
<1>4. PICK f : Is(f, n)
  <2>1. n \in S
    BY <1>3
  <2> HIDE DEF Is
  <2> QED
    BY <2>1, Zenon DEF S
<1>5. IsRecursion(f, X, a, n, h)
  BY <1>4, Zenon DEF IsRecursion
<1> QED
  BY <1>5

\* Elements keep their places, or move by the length of what is before.
LEMMA JoinedType ==
    ASSUME NEW T, NEW s \in Seq(T), NEW t \in Seq(T)
    PROVE  s \o t \in Seq(T)
OBVIOUS

\* The first sequence comes first, element by element,
LEMMA JoinedLeft ==
    ASSUME NEW T, NEW s \in Seq(T), NEW t \in Seq(T), NEW k \in DOMAIN s
    PROVE  k \in DOMAIN (s \o t) /\ (s \o t)[k] = s[k]
OBVIOUS

\* and the second after it.
LEMMA JoinedRight ==
    ASSUME NEW T, NEW s \in Seq(T), NEW t \in Seq(T), NEW k \in DOMAIN t
    PROVE  Len(s) + k \in DOMAIN (s \o t) /\ (s \o t)[Len(s) + k] = t[k]
OBVIOUS

\* A sequence flattened is built up sequence by sequence.
LEMMA FlattenSteps ==
    ASSUME NEW T, NEW ss \in Seq(Seq(T))
    PROVE  \E p \in [0 .. Len(ss) -> Seq(T)] :
              /\ p[0] = <<>> /\ p[Len(ss)] = FlattenSeq(ss)
              /\ \A i \in 1 .. Len(ss) : p[i] = p[i - 1] \o ss[i]
<1> DEFINE n == Len(ss)
           IsFlat(f) == f = [i \in 1 .. n |-> IF i = 1 THEN ss[i] ELSE f[i - 1] \o ss[i]]
           flat == CHOOSE f : IsFlat(f)
           h == [p \in Seq(T) \X (1 .. n) |-> p[1] \o ss[p[2]]]
           a == <<>>
           Steps(f) == /\ f \in [0 .. n -> Seq(T)] /\ f[0] = a
                       /\ \A i \in 1 .. n : f[i] = f[i - 1] \o ss[i]
<1>1. n \in Nat /\ \A i \in 1 .. n : ss[i] \in Seq(T)
  OBVIOUS
<1>2. h \in [Seq(T) \X (1 .. n) -> Seq(T)]
  BY <1>1
<1>3. a \in Seq(T)
  OBVIOUS
<1> HIDE DEF n, h, a
<1>4. PICK f : Steps(f)
  <2>1. PICK f : IsRecursion(f, Seq(T), a, n, h)
    BY <1>1, <1>2, <1>3, Recursion, Zenon
  <2>2. f \in [0 .. n -> Seq(T)] /\ f[0] = a /\ \A i \in 1 .. n : f[i] = h[<<f[i - 1], i>>]
    BY <2>1, Zenon DEF IsRecursion
  <2>3. \A i \in 1 .. n : f[i] = f[i - 1] \o ss[i]
    <3> SUFFICES ASSUME NEW i \in 1 .. n PROVE f[i] = f[i - 1] \o ss[i]
      OBVIOUS
    <3>1. f[i - 1] \in Seq(T)
      BY <1>1, <2>2
    <3>2. h[<<f[i - 1], i>>] = f[i - 1] \o ss[i]
      BY <3>1 DEF h
    <3> QED
      BY <2>2, <3>2
  <2>4. Steps(f)
    BY <2>2, <2>3
  <2> HIDE DEF Steps
  <2> QED
    BY <2>4
<1>5. f[n] = FlattenSeq(ss)
  <2>1. CASE n = 0
    <3>1. ss = <<>>
      BY <2>1 DEF n
    <3>2. FlattenSeq(ss) = ss
      BY <2>1 DEF FlattenSeq, n
    <3> QED
      BY <1>4, <2>1, <3>1, <3>2 DEF a
  <2>2. CASE n # 0
    <3> DEFINE g == [i \in 1 .. n |-> f[i]]
    <3>1. FlattenSeq(ss) = flat[n]
      BY <2>2, Zenon DEF FlattenSeq, n
    <3>2. f[1] = ss[1]
      <4>1. 1 \in 1 .. n /\ 1 - 1 = 0
        BY <1>1, <2>2
      <4>2. f[1] = a \o ss[1] /\ ss[1] \in Seq(T)
        BY <1>1, <1>4, <4>1
      <4> QED
        BY <4>2 DEF a
    <3>3. \A i \in 1 .. n : g[i] = IF i = 1 THEN ss[i] ELSE g[i - 1] \o ss[i]
      <4> SUFFICES ASSUME NEW i \in 1 .. n
                   PROVE  g[i] = IF i = 1 THEN ss[i] ELSE g[i - 1] \o ss[i]
        OBVIOUS
      <4>1. CASE i = 1
        BY <3>2, <4>1
      <4>2. CASE i # 1
        <5>1. i - 1 \in 1 .. n
          BY <1>1, <4>2
        <5> QED
          BY <1>4, <4>2, <5>1
      <4> QED
        BY <4>1, <4>2
    <3>4. IsFlat(g)
      BY <3>3
    <3>5. IsFlat(flat)
      <4> HIDE DEF IsFlat, g
      <4> QED
        BY <3>4, Zenon
    <3> HIDE DEF flat, g
    <3>6. /\ flat[1] = ss[1]
          /\ \A i \in 2 .. n : flat[i] = flat[i - 1] \o ss[i]
      <4> DEFINE joined(i) == flat[i - 1] \o ss[i]
      <4>1. flat = [i \in 1 .. n |-> IF i = 1 THEN ss[i] ELSE joined(i)]
        BY <3>5
      <4> HIDE DEF joined
      <4>2. flat[1] = ss[1] /\ \A i \in 2 .. n : flat[i] = joined(i)
        BY <1>1, <2>2, <4>1
      <4> QED
        BY <4>2 DEF joined
    <3> DEFINE S == {m \in 0 .. n : m = 0 \/ flat[m] = f[m]}
    <3>7. 0 \in S
      BY <1>1
    <3>8. ASSUME NEW m \in 1 .. n, m - 1 \in S
          PROVE  m \in S
      <4>1. CASE m = 1
        BY <1>1, <3>2, <3>6, <4>1
      <4>2. CASE m # 1
        <5>1. m \in 2 .. n /\ m - 1 # 0 /\ m \in 0 .. n
          BY <1>1, <4>2
        <5>2. flat[m] = flat[m - 1] \o ss[m] /\ f[m] = f[m - 1] \o ss[m]
          BY <1>4, <3>6, <5>1
        <5>3. flat[m - 1] = f[m - 1]
          BY <3>8, <5>1
        <5> QED
          BY <5>1, <5>2, <5>3
      <4> QED
        BY <4>1, <4>2
    <3> HIDE DEF S
    <3>9. 0 .. n \subseteq S
      BY <1>1, <3>7, <3>8, UpTo
    <3>10. n \in S
      BY <1>1, <3>9
    <3> QED
      BY <2>2, <3>1, <3>10 DEF S
  <2> QED
    BY <2>1, <2>2
<1> HIDE DEF flat, IsFlat
<1> QED
  BY <1>4, <1>5 DEF n, a

\* Flattening sequences whose elements are of one set.
LEMMA FlattenType ==
    ASSUME NEW T, NEW ss \in Seq(Seq(T))
    PROVE  /\ FlattenSeq(ss) \in Seq(T)
           /\ \A i \in DOMAIN ss : \A k \in DOMAIN ss[i] :
                 \E j \in DOMAIN FlattenSeq(ss) : FlattenSeq(ss)[j] = ss[i][k]
<1> DEFINE n == Len(ss)
           all == FlattenSeq(ss)
<1>1. n \in Nat /\ DOMAIN ss = 1 .. n /\ \A i \in 1 .. n : ss[i] \in Seq(T)
  OBVIOUS
<1>2. PICK p \in [0 .. n -> Seq(T)] :
          p[n] = all /\ \A i \in 1 .. n : p[i] = p[i - 1] \o ss[i]
  BY FlattenSteps, Zenon
<1> HIDE DEF n, all
<1>3. ASSUME NEW i \in 1 .. n, NEW k \in DOMAIN ss[i]
      PROVE  \E j \in DOMAIN p[n] : p[n][j] = ss[i][k]
  <2> DEFINE Has(m) == \E j \in DOMAIN p[m] : p[m][j] = ss[i][k]
             S == {m \in 0 .. n : m < i \/ Has(m)}
  <2>1. 0 \in S
    BY <1>1
  <2>2. ASSUME NEW m \in 1 .. n, m - 1 \in S
        PROVE  m \in S
    <3>1. PICK s \in Seq(T), t \in Seq(T) : s = p[m - 1] /\ t = ss[m]
      <4>1. m - 1 \in 0 .. n
        BY <1>1
      <4> QED
        BY <1>1, <1>2, <4>1
    <3>2. p[m] = s \o t
      BY <1>2, <3>1
    <3>3. CASE m < i
      BY <3>3
    <3>4. CASE m = i
      <4>1. k \in DOMAIN t
        BY <1>3, <3>1, <3>4
      <4>2. Len(s) + k \in DOMAIN (s \o t) /\ (s \o t)[Len(s) + k] = t[k]
        BY <4>1, JoinedRight, Zenon
      <4>3. Has(m)
        BY <3>1, <3>2, <3>4, <4>2, Zenon
      <4> QED
        BY <4>3
    <3>5. CASE m > i
      <4>1. PICK j \in DOMAIN s : s[j] = ss[i][k]
        BY <1>1, <2>2, <3>1, <3>5
      <4>2. j \in DOMAIN (s \o t) /\ (s \o t)[j] = s[j]
        BY JoinedLeft, Zenon
      <4>3. Has(m)
        BY <3>2, <4>1, <4>2, Zenon
      <4> QED
        BY <4>3
    <3> QED
      BY <1>1, <3>3, <3>4, <3>5
  <2> HIDE DEF S
  <2>3. 0 .. n \subseteq S
    BY <1>1, <2>1, <2>2, UpTo
  <2>4. n \in S /\ ~(n < i)
    BY <1>1, <2>3
  <2> QED
    BY <2>4 DEF S
<1>4. p[n] \in Seq(T)
  BY <1>1, <1>2
<1> QED
  BY <1>1, <1>2, <1>3, <1>4 DEF all

-----------------------------------------------------------------------------
(***************************************************************************)
(* Characters and strings.                                                 *)
(***************************************************************************)
\* A set of numbers up to m has a greatest one.
LEMMA Greatest ==
    ASSUME NEW m \in Nat, NEW s \in SUBSET (1 .. m), s # {}
    PROVE  Max(s) \in s /\ \A y \in s : y <= Max(s)
<1> DEFINE S == {m - y : y \in s}
<1>1. S \in SUBSET Nat /\ S # {}
  <2>1. \A y \in s : m - y \in Nat
    OBVIOUS
  <2> QED
    BY <2>1
<1>2. PICK z \in S : \A w \in S : z <= w
  <2> HIDE DEF S
  <2> QED
    BY <1>1, Least
<1>3. PICK x \in s : z = m - x
  BY <1>2
<1>4. \A y \in s : x >= y
  <2> SUFFICES ASSUME NEW y \in s PROVE x >= y
    OBVIOUS
  <2>1. m - y \in S
    OBVIOUS
  <2>2. m - x <= m - y
    BY <1>2, <1>3, <2>1
  <2> QED
    BY <2>2
<1>5. \E v \in s : \A y \in s : v >= y
  BY <1>4
<1>6. Max(s) \in s /\ \A y \in s : Max(s) >= y
  BY <1>5, Zenon DEF Max
<1> QED
  BY <1>6

\* The counts of chars.
LEMMA CharCounts ==
    /\ 2 ^ CharBits \in Nat \ {0} /\ 2 ^ (CharBits - 1) \in Nat \ {0}
    /\ 2 ^ CharBits <= WordCount
<1> DEFINE bits == CodeBits + RegisterBits + AddressBits
           rest == bits - CharBits
           chars == 2 ^ CharBits
           others == 2 ^ rest
<1>1. bits \in Nat /\ CharBits \in Nat \ {0} /\ CharBits <= bits
  BY WidthsAssumption, CharsAssumption, WordsAssumption DEF AddressBits
<1>2. /\ CharBits \in 0 .. bits /\ CharBits - 1 \in 0 .. bits /\ rest \in 0 .. bits
      /\ CharBits + rest = bits
  BY <1>1
<1> HIDE DEF rest, bits
<1>3. \A m, k \in 0 .. bits : 2 ^ m \in Nat \ {0} /\ 2 ^ (m + k) = 2 ^ m * 2 ^ k
  BY PowersAssumption DEF bits
<1>4. chars \in Nat \ {0} /\ 2 ^ (CharBits - 1) \in Nat \ {0} /\ others \in Nat \ {0}
  BY <1>2, <1>3
<1>5. WordCount = chars * others
  <2>1. 2 ^ (CharBits + rest) = chars * others
    BY <1>2, <1>3
  <2> QED
    BY <1>2, <2>1 DEF WordCount, bits
<1> HIDE DEF chars, others
<1>6. chars * others >= chars
  BY <1>4
<1> QED
  BY <1>4, <1>5, <1>6 DEF chars

\* What Unescape keeps of a string while it goes through it, and its step.
ReadState == [pending : BOOLEAN, out : Seq(Chars)]
StartState == [pending |-> FALSE, out |-> <<>>]
ReadChar(acc, c) ==
    IF ~acc.pending /\ c = Backslash THEN [acc EXCEPT !.pending = TRUE]
    ELSE [pending |-> FALSE,
          out |-> acc.out \o
              (IF ~acc.pending THEN <<c>>
               ELSE IF c \in DOMAIN EscapeSequences
               THEN <<EscapeSequences[c]>> ELSE <<Backslash, c>>)]

\* The characters of escape sequences are characters.
LEMMA EscapedChars ==
    /\ Backslash \in Chars /\ StringEnd \in Chars
    /\ DOMAIN EscapeSequences \subseteq Chars
    /\ \A c \in DOMAIN EscapeSequences : EscapeSequences[c] \in Chars
<1>1. Backslash \in Chars /\ DOMAIN EscapeSequences \subseteq Chars
      /\ Range(EscapeSequences) \subseteq Chars
  BY CharsAssumption
<1>2. \A c \in DOMAIN EscapeSequences : EscapeSequences[c] \in Range(EscapeSequences)
  BY DEF Range
<1>3. 0 \in Chars
  <2> DEFINE count == 2 ^ CharBits
  <2>1. count \in Nat \ {0}
    BY CharCounts
  <2> HIDE DEF count
  <2>2. 0 \in 0 .. count - 1
    BY <2>1
  <2> QED
    BY <2>2 DEF Chars, count
<1> QED
  BY <1>1, <1>2, <1>3 DEF StringEnd

\* Reading one more character keeps the state of the reading.
LEMMA ReadCharType ==
    ASSUME NEW acc \in ReadState, NEW c \in Chars
    PROVE  ReadChar(acc, c) \in ReadState
<1>1. acc.out \in Seq(Chars) /\ acc.pending \in BOOLEAN
  BY DEF ReadState
<1>2. CASE ~acc.pending /\ c = Backslash
  <2>1. ReadChar(acc, c) = [acc EXCEPT !.pending = TRUE]
    BY <1>2 DEF ReadChar
  <2> QED
    BY <1>1, <2>1 DEF ReadState
<1>3. CASE ~(~acc.pending /\ c = Backslash)
  <2> DEFINE more == IF ~acc.pending THEN <<c>>
                     ELSE IF c \in DOMAIN EscapeSequences
                     THEN <<EscapeSequences[c]>> ELSE <<Backslash, c>>
  <2>1. more \in Seq(Chars)
    <3>1. <<c>> \in Seq(Chars) /\ <<Backslash, c>> \in Seq(Chars)
      BY EscapedChars
    <3>2. c \in DOMAIN EscapeSequences => <<EscapeSequences[c]>> \in Seq(Chars)
      BY EscapedChars
    <3> QED
      BY <3>1, <3>2
  <2>2. ReadChar(acc, c) = [pending |-> FALSE, out |-> acc.out \o more]
    BY <1>3, Zenon DEF ReadChar
  <2> HIDE DEF more
  <2>3. acc.out \o more \in Seq(Chars)
    BY <1>1, <2>1, JoinedType, Zenon
  <2> QED
    BY <2>2, <2>3 DEF ReadState
<1> QED
  BY <1>2, <1>3

IsReading(f, str) ==
    f = [s \in SUBSET DOMAIN str |->
            IF s = {} THEN StartState ELSE ReadChar(f[s \ {Max(s)}], str[Max(s)])]

\* Going through a string character by character is defined.
LEMMA ReadingExists ==
    ASSUME NEW str \in Seq(Chars)
    PROVE  \E f : IsReading(f, str)
<1> DEFINE n == Len(str)
           Reads(f, m) ==
               /\ f \in [SUBSET (1 .. m) -> ReadState]
               /\ f[{}] = StartState
               /\ \A s \in SUBSET (1 .. m) :
                     s # {} => f[s] = ReadChar(f[s \ {Max(s)}], str[Max(s)])
           S == {m \in 0 .. n : \E f : Reads(f, m)}
<1>1. n \in Nat /\ DOMAIN str = 1 .. n /\ \A x \in 1 .. n : str[x] \in Chars
  OBVIOUS
<1> HIDE DEF n
<1>2. 0 \in S
  <2> DEFINE f == [s \in SUBSET (1 .. 0) |-> StartState]
  <2>1. StartState \in ReadState
    BY DEF StartState, ReadState
  <2>2. SUBSET (1 .. 0) = {{}}
    OBVIOUS
  <2> HIDE DEF f
  <2>3. Reads(f, 0)
    BY <2>1, <2>2 DEF f
  <2> HIDE DEF Reads
  <2> QED
    BY <1>1, <2>3
<1>3. ASSUME NEW m \in 1 .. n, m - 1 \in S
      PROVE  m \in S
  <2>1. PICK f : Reads(f, m - 1)
    BY <1>3
  <2>2. m \in Nat /\ \A s \in SUBSET (1 .. m) : m \notin s => s \in SUBSET (1 .. m - 1)
    BY <1>1
  <2>3. \A s \in SUBSET (1 .. m) : s \ {m} \in SUBSET (1 .. m - 1)
    BY <1>1
  <2> DEFINE g == [s \in SUBSET (1 .. m) |->
                      IF m \in s THEN ReadChar(f[s \ {m}], str[m]) ELSE f[s]]
  <2>4. \A s \in SUBSET (1 .. m) : g[s] \in ReadState
    <3> SUFFICES ASSUME NEW s \in SUBSET (1 .. m) PROVE g[s] \in ReadState
      OBVIOUS
    <3>1. CASE m \in s
      <4>1. f[s \ {m}] \in ReadState
        BY <2>1, <2>3
      <4>2. ReadChar(f[s \ {m}], str[m]) \in ReadState
        BY <1>1, <4>1, ReadCharType
      <4> QED
        BY <3>1, <4>2
    <3>2. CASE m \notin s
      BY <2>1, <2>2, <3>2
    <3> QED
      BY <3>1, <3>2
  <2>5. g[{}] = StartState
    BY <2>1
  <2>6. ASSUME NEW s \in SUBSET (1 .. m), s # {}
        PROVE  g[s] = ReadChar(g[s \ {Max(s)}], str[Max(s)])
    <3>1. Max(s) \in s /\ \A y \in s : y <= Max(s)
      BY <2>2, <2>6, Greatest
    <3>2. CASE m \in s
      <4>1. Max(s) = m
        <5>1. PICK x : x = Max(s)
          OBVIOUS
        <5>2. x \in 1 .. m /\ m <= x
          BY <3>1, <3>2, <5>1
        <5> QED
          BY <2>2, <5>1, <5>2
      <4>2. s \ {m} \in SUBSET (1 .. m) /\ m \notin s \ {m}
        OBVIOUS
      <4> QED
        BY <3>2, <4>1, <4>2
    <3>3. CASE m \notin s
      <4>1. s \in SUBSET (1 .. m - 1)
        BY <2>2, <3>3
      <4>2. f[s] = ReadChar(f[s \ {Max(s)}], str[Max(s)])
        BY <2>1, <2>6, <4>1
      <4>3. s \ {Max(s)} \in SUBSET (1 .. m) /\ m \notin s \ {Max(s)}
        BY <3>3
      <4> QED
        BY <3>3, <4>2, <4>3
    <3> QED
      BY <3>2, <3>3
  <2>7. g \in [SUBSET (1 .. m) -> ReadState]
    BY <2>4
  <2> HIDE DEF g
  <2>8. Reads(g, m)
    BY <2>5, <2>6, <2>7
  <2> HIDE DEF Reads
  <2> QED
    BY <2>8
<1> HIDE DEF S
<1>4. 0 .. n \subseteq S
  BY <1>1, <1>2, <1>3, UpTo
<1>5. n \in S
  BY <1>1, <1>4
<1>6. PICK f : Reads(f, n)
  BY <1>5 DEF S
<1>7. f = [s \in SUBSET DOMAIN str |->
             IF s = {} THEN StartState ELSE ReadChar(f[s \ {Max(s)}], str[Max(s)])]
  BY <1>1, <1>6
<1> QED
  BY <1>7 DEF IsReading

\* Every step leaves characters.
LEMMA ReadingType ==
    ASSUME NEW str \in Seq(Chars), NEW f, IsReading(f, str)
    PROVE  f[DOMAIN str] \in ReadState
<1> DEFINE n == Len(str)
           S == {m \in 0 .. n : \A s \in SUBSET (1 .. m) : f[s] \in ReadState}
<1>1. n \in Nat /\ DOMAIN str = 1 .. n /\ \A x \in 1 .. n : str[x] \in Chars
  OBVIOUS
<1> HIDE DEF n
<1>2. /\ f[{}] = StartState
      /\ \A s \in SUBSET (1 .. n) :
            s # {} => f[s] = ReadChar(f[s \ {Max(s)}], str[Max(s)])
  <2> DEFINE next(s) == ReadChar(f[s \ {Max(s)}], str[Max(s)])
  <2>1. f = [s \in SUBSET (1 .. n) |-> IF s = {} THEN StartState ELSE next(s)]
    BY <1>1 DEF IsReading
  <2> HIDE DEF next
  <2>2. f[{}] = StartState /\ \A s \in SUBSET (1 .. n) : s # {} => f[s] = next(s)
    BY <2>1
  <2> QED
    BY <2>2 DEF next
<1>3. StartState \in ReadState
  BY DEF StartState, ReadState
<1>4. 0 \in S
  <2>1. SUBSET (1 .. 0) = {{}}
    OBVIOUS
  <2>2. \A s \in SUBSET (1 .. 0) : f[s] \in ReadState
    BY <1>2, <1>3, <2>1
  <2> QED
    BY <1>1, <2>2
<1>5. ASSUME NEW m \in 1 .. n, m - 1 \in S
      PROVE  m \in S
  <2> SUFFICES ASSUME NEW s \in SUBSET (1 .. m), s # {}
               PROVE  f[s] \in ReadState
    <3>1. f[{}] \in ReadState /\ m \in 0 .. n
      BY <1>2, <1>3
    <3> QED
      BY <3>1
  <2>1. m \in Nat /\ s \in SUBSET (1 .. n)
    BY <1>1
  <2>2. Max(s) \in s /\ \A y \in s : y <= Max(s)
    BY <2>1, Greatest
  <2>3. s \ {Max(s)} \in SUBSET (1 .. m - 1)
    <3>1. PICK x : x = Max(s)
      OBVIOUS
    <3>2. x \in 1 .. m /\ \A y \in s : y \in 1 .. m /\ y <= x
      BY <2>2, <3>1
    <3>3. \A y \in s \ {x} : y \in 1 .. m - 1
      BY <2>1, <3>2
    <3> QED
      BY <3>1, <3>3
  <2>4. f[s \ {Max(s)}] \in ReadState
    BY <1>5, <2>3
  <2>5. Max(s) \in 1 .. n
    BY <2>1, <2>2
  <2> QED
    BY <1>1, <1>2, <2>1, <2>4, <2>5, ReadCharType
<1> HIDE DEF S
<1>6. 0 .. n \subseteq S
  BY <1>1, <1>4, <1>5, UpTo
<1>7. n \in S
  BY <1>1, <1>6
<1> QED
  BY <1>1, <1>7 DEF S

\* Unescape makes characters of characters.
LEMMA UnescapeType ==
    ASSUME NEW str \in Seq(Chars)
    PROVE  Unescape(str) \in Seq(Chars)
<1> DEFINE end == (CHOOSE f : IsReading(f, str))[DOMAIN str]
<1>1. Unescape(str) = IF end.pending THEN Append(end.out, Backslash) ELSE end.out
  BY Zenon DEF Unescape, FoldLeft, MapThenFoldSet, IsReading, ReadChar, StartState
<1>2. IsReading(CHOOSE f : IsReading(f, str), str)
  BY ReadingExists, Zenon
<1>3. end \in ReadState
  BY <1>2, ReadingType, Zenon
<1>4. end.out \in Seq(Chars)
  BY <1>3 DEF ReadState
<1> HIDE DEF end
<1> QED
  BY <1>1, <1>4, EscapedChars

\* A part of a sequence between two of its places is of the same set.
LEMMA PartType ==
    ASSUME NEW T, NEW s \in Seq(T), NEW a \in Nat \ {0}, NEW b \in Int, b <= Len(s)
    PROVE  SubSeq(s, a, b) \in Seq(T)
OBVIOUS

\* A set of numbers up to m has a smallest one.
LEMMA Smallest ==
    ASSUME NEW m \in Nat, NEW s \in SUBSET (1 .. m), s # {}
    PROVE  Min(s) \in s /\ \A y \in s : Min(s) <= y
<1>1. s \in SUBSET Nat
  OBVIOUS
<1>2. \E v \in s : \A y \in s : v <= y
  BY <1>1, Least
<1> QED
  BY <1>2, Zenon DEF Min

\* What GetLine leaves of a text.
LEMMA WrittenType ==
    ASSUME NEW line, line.text \in Seq(Chars)
    PROVE  Written(line) \in Seq(Chars)
<1>1. ASSUME NEW t \in Seq(Chars)
      PROVE  TrimComment(t) \in Seq(Chars)
  <2> DEFINE starts == {i \in DOMAIN t : /\ t[i] = Hash
                                         /\ i = 1 \/ t[i - 1] # Backslash}
  <2>1. starts \in SUBSET (1 .. Len(t)) /\ Len(t) \in Nat
    OBVIOUS
  <2>2. TrimComment(t) = IF starts = {} THEN t ELSE SubSeq(t, 1, Min(starts) - 1)
    BY DEF TrimComment
  <2> HIDE DEF starts
  <2>3. CASE starts # {}
    <3>1. Min(starts) \in starts
      BY <2>1, <2>3, Smallest
    <3>2. PICK x, b : x = Min(starts) /\ b = x - 1
      OBVIOUS
    <3>3. x \in 1 .. Len(t)
      BY <2>1, <3>1, <3>2
    <3>4. SubSeq(t, 1, b) \in Seq(Chars)
      <4>1. b \in Int /\ b <= Len(t) /\ 1 \in Nat \ {0}
        BY <2>1, <3>2, <3>3
      <4> QED
        BY <4>1, PartType
    <3> QED
      BY <2>2, <2>3, <3>2, <3>4
  <2> QED
    BY <2>2, <2>3
<1>2. ASSUME NEW t \in Seq(Chars)
      PROVE  TrimSpaces(t) \in Seq(Chars)
  <2> DEFINE kept == {i \in DOMAIN t : t[i] \notin Whitespaces}
  <2>1. kept \in SUBSET (1 .. Len(t)) /\ Len(t) \in Nat
    OBVIOUS
  <2>2. TrimSpaces(t) = IF kept = {} THEN <<>> ELSE SubSeq(t, Min(kept), Max(kept))
    BY DEF TrimSpaces
  <2> HIDE DEF kept
  <2>3. CASE kept # {}
    <3>1. Min(kept) \in kept /\ Max(kept) \in kept
      BY <2>1, <2>3, Smallest, Greatest
    <3>2. PICK a, b : a = Min(kept) /\ b = Max(kept)
      OBVIOUS
    <3>3. a \in 1 .. Len(t) /\ b \in 1 .. Len(t)
      BY <2>1, <3>1, <3>2
    <3>4. SubSeq(t, a, b) \in Seq(Chars)
      <4>1. a \in Nat \ {0} /\ b \in Int /\ b <= Len(t)
        BY <2>1, <3>3
      <4> QED
        BY <4>1, PartType
    <3> QED
      BY <2>2, <2>3, <3>2, <3>4
  <2> QED
    BY <2>2, <2>3
<1> QED
  BY <1>1, <1>2 DEF Written

\* The words of a character.
LEMMA CharWords ==
    ASSUME NEW c \in Chars
    PROVE  CharToWord(c, WordCount) \in Words
<1> DEFINE count == 2 ^ CharBits
           half == 2 ^ (CharBits - 1)
<1>1. count \in Nat /\ half \in Nat /\ count <= WordCount /\ c \in 0 .. count - 1
  BY CharCounts DEF Chars
<1>2. WordCount \in Nat
  BY FieldCounts
<1>3. CharToWord(c, WordCount) = IF c < half THEN c ELSE WordCount - count + c
  BY DEF CharToWord
<1> HIDE DEF count, half
<1> QED
  BY <1>1, <1>2, <1>3 DEF Words

\* The parts of a number of two words.
LEMMA SplitType ==
    ASSUME NEW num \in Int
    PROVE  /\ num % WordCount \in Words
           /\ Split(num % WordCount ^ 2) \in Seq(Words)
<1> DEFINE w == WordCount
           all == WordCount ^ 2
           v == num % all
           h == v \div w
<1>1. w \in Nat \ {0} /\ all = w * w
  BY FieldCounts, WordsAssumption
<1> HIDE DEF w
<1>2. all \in Nat \ {0}
  BY <1>1
<1> HIDE DEF all
<1>3. v \in Int /\ 0 <= v /\ v < w * w
  <2>1. v \in 0 .. all - 1
    BY <1>2
  <2> QED
    BY <1>1, <1>2, <2>1
<1> HIDE DEF v
<1>4. h \in Int /\ v % w \in 0 .. w - 1 /\ v = w * h + (v % w)
  BY <1>1, <1>3
<1> HIDE DEF h
<1>5. h \in 0 .. w - 1
  <2>1. CASE h < 0
    <3>1. w * h <= w * (-1)
      BY <1>1, <1>4, <2>1
    <3> QED
      BY <1>1, <1>3, <1>4, <3>1
  <2>2. CASE h >= w
    <3>1. w * h >= w * w
      BY <1>1, <1>4, <2>2
    <3> QED
      BY <1>1, <1>3, <1>4, <3>1
  <2> QED
    BY <1>1, <1>4, <2>1, <2>2
<1>6. num % w \in 0 .. w - 1
  BY <1>1
<1>7. <<v % w, h>> \in Seq(0 .. w - 1)
  BY <1>4, <1>5
<1>8. Split(num % WordCount ^ 2) = <<v % w, h>>
  BY DEF Split, v, all, w, h
<1> QED
  BY <1>6, <1>7, <1>8 DEF Words, w

\* What stands between the quotes.
LEMMA InsideType ==
    ASSUME NEW str \in Seq(Chars)
    PROVE  Inside(str) \in Seq(Chars)
<1>1. PICK a, b : a = 2 /\ b = Len(str) - 1
  OBVIOUS
<1>2. a \in Nat \ {0} /\ b \in Int /\ b <= Len(str)
  BY <1>1
<1>3. SubSeq(str, a, b) \in Seq(Chars)
  BY <1>2, PartType
<1> QED
  BY <1>1, <1>3 DEF Inside

\* The words of the value of a constant.
LEMMA ValueWordsType ==
    ASSUME NEW line, line.text \in Seq(Chars), line.num \in Int, line.type \in Types
    PROVE  ValueWords(line) \in Seq(Words)
<1> DEFINE written == Written(line)
           inside == Inside(written)
           chars == Unescape(inside)
           words == [i \in DOMAIN chars |-> CharToWord(chars[i], WordCount)]
<1>1. written \in Seq(Chars)
  BY WrittenType
<1> HIDE DEF written
<1>2. inside \in Seq(Chars)
  BY <1>1, InsideType
<1> HIDE DEF inside
<1>3. chars \in Seq(Chars)
  BY <1>2, UnescapeType
<1> HIDE DEF chars
<1>4. words \in Seq(Words)
  <2>1. \A i \in DOMAIN chars : CharToWord(chars[i], WordCount) \in Words
    BY <1>3, CharWords
  <2> QED
    BY <1>3, <2>1
<1>5. ValueWords(line) =
        CASE line.type = Uint32Type -> <<line.num % WordCount>>
          [] line.type \in {Uint64Type, DoubleType} -> Split(line.num % WordCount ^ 2)
          [] line.type = CharType -> words
          [] line.type = StringType -> Append(words, StringEnd)
  BY Zenon DEF ValueWords, words, chars, inside, written
<1> HIDE DEF words
<1>6. 0 \in Words
  BY FieldCounts DEF Words
<1>7. line.type \in {0, 1, 2, 3, 4}
  BY DEF Types, Uint32Type, StringType
<1> DEFINE wide == Split(line.num % WordCount ^ 2)
           narrow == line.num % WordCount
<1>8. narrow \in Words /\ wide \in Seq(Words)
  BY SplitType
<1> HIDE DEF wide, narrow
<1>9. <<narrow>> \in Seq(Words)
  BY <1>8
<1>10. Append(words, StringEnd) \in Seq(Words)
  BY <1>4, <1>6 DEF StringEnd
<1>11. \/ ValueWords(line) = <<narrow>> \/ ValueWords(line) = wide
       \/ ValueWords(line) = words \/ ValueWords(line) = Append(words, StringEnd)
  <2> USE DEF Uint32Type, Uint64Type, DoubleType, CharType, StringType
  <2>1. CASE line.type = 0
    BY <1>5, <2>1 DEF narrow
  <2>2. CASE line.type = 1
    BY <1>5, <2>2 DEF wide
  <2>3. CASE line.type = 2
    BY <1>5, <2>3 DEF wide
  <2>4. CASE line.type = 3
    BY <1>5, <2>4
  <2>5. CASE line.type = 4
    BY <1>5, <2>5
  <2> QED
    BY <1>7, <2>1, <2>2, <2>3, <2>4, <2>5
<1> QED
  BY <1>4, <1>8, <1>9, <1>10, <1>11
-----------------------------------------------------------------------------
(***************************************************************************)
(* Constants on their way through a listing: a string is read back from    *)
(* what Escape makes of it, and a constant from the line written for it.   *)
(***************************************************************************)
\* What Escape makes of one character.
EscapedOf(c) == IF c \in Range(EscapeSequences)
                THEN <<Backslash, UnescapeSequences[c]>> ELSE <<c>>

\* The character after the backslash stands for the one that was escaped.
LEMMA EscapedBack ==
    ASSUME NEW c \in Range(EscapeSequences)
    PROVE  /\ UnescapeSequences[c] \in DOMAIN EscapeSequences
           /\ EscapeSequences[UnescapeSequences[c]] = c
           /\ UnescapeSequences[c] \in Chars
<1> DEFINE from == DOMAIN EscapeSequences
           origin == CHOOSE x \in from : c \in Range(EscapeSequences)
                                            => EscapeSequences[x] = c
<1>1. UnescapeSequences[c] = origin
  BY DEF UnescapeSequences, Inverse
<1>2. \E x \in from : EscapeSequences[x] = c
  BY DEF Range
<1>3. origin \in from /\ EscapeSequences[origin] = c
  BY <1>2
<1> QED
  BY <1>1, <1>3, EscapedChars

LEMMA EscapedOfType ==
    ASSUME NEW c \in Chars
    PROVE  EscapedOf(c) \in Seq(Chars)
<1>1. CASE c \in Range(EscapeSequences)
  <2>1. <<Backslash, UnescapeSequences[c]>> \in Seq(Chars)
    BY <1>1, EscapedBack, EscapedChars
  <2> QED
    BY <1>1, <2>1 DEF EscapedOf
<1>2. CASE c \notin Range(EscapeSequences)
  BY <1>2 DEF EscapedOf
<1> QED
  BY <1>1, <1>2

\* An escaped string is built up character by character.
LEMMA EscapeSteps ==
    ASSUME NEW str \in Seq(Chars)
    PROVE  \E p \in [0 .. Len(str) -> Seq(Chars)] :
              /\ p[0] = <<>> /\ p[Len(str)] = Escape(str)
              /\ \A i \in 1 .. Len(str) : p[i] = p[i - 1] \o EscapedOf(str[i])
<1> DEFINE parts == [i \in DOMAIN str |-> EscapedOf(str[i])]
           n == Len(str)
<1>1. n \in Nat /\ DOMAIN str = 1 .. n /\ \A i \in 1 .. n : str[i] \in Chars
  OBVIOUS
<1>2. parts \in Seq(Seq(Chars)) /\ Len(parts) = n
  <2> DEFINE X == Seq(Chars)
  <2>1. \A i \in DOMAIN str : EscapedOf(str[i]) \in X
    BY <1>1, EscapedOfType
  <2> HIDE DEF X
  <2>2. parts \in Seq(X) /\ Len(parts) = n
    BY <2>1
  <2> QED
    BY <2>2 DEF X
<1>3. Escape(str) = FlattenSeq(parts)
  BY Zenon DEF Escape, EscapedOf, parts
<1>4. \A i \in 1 .. n : parts[i] = EscapedOf(str[i])
  BY <1>1
<1> DEFINE all == FlattenSeq(parts)
           m == Len(parts)
<1>5. PICK p \in [0 .. m -> Seq(Chars)] :
          /\ p[0] = <<>> /\ p[m] = all
          /\ \A i \in 1 .. m : p[i] = p[i - 1] \o parts[i]
  BY <1>2, FlattenSteps, Zenon
<1>6. m = n
  BY <1>2
<1> HIDE DEF parts, n, m, all
<1>7. p \in [0 .. n -> Seq(Chars)] /\ p[0] = <<>> /\ p[n] = Escape(str)
      /\ \A i \in 1 .. n : p[i] = p[i - 1] \o EscapedOf(str[i])
  BY <1>3, <1>4, <1>5, <1>6 DEF all
<1> QED
  BY <1>7 DEF n

\* Escape makes characters of characters.
LEMMA EscapeType ==
    ASSUME NEW str \in Seq(Chars)
    PROVE  Escape(str) \in Seq(Chars)
<1>1. PICK p \in [0 .. Len(str) -> Seq(Chars)] : p[Len(str)] = Escape(str)
  BY EscapeSteps
<1>2. Len(str) \in 0 .. Len(str)
  OBVIOUS
<1> QED
  BY <1>1, <1>2

\* In an escaped string a backslash stands before every #.
HashesEscaped(t) == \A j \in DOMAIN t : t[j] = Hash => j > 1 /\ t[j - 1] = Backslash

LEMMA EscapeEscapesHashes ==
    ASSUME NEW str \in Seq(Chars)
    PROVE  HashesEscaped(Escape(str))
<1> DEFINE n == Len(str)
           all == Escape(str)
<1>1. n \in Nat /\ \A i \in 1 .. n : str[i] \in Chars
  OBVIOUS
<1>2. PICK p \in [0 .. n -> Seq(Chars)] :
          /\ p[0] = <<>> /\ p[n] = all
          /\ \A i \in 1 .. n : p[i] = p[i - 1] \o EscapedOf(str[i])
  BY EscapeSteps, Zenon
<1> HIDE DEF n, all
<1> DEFINE S == {m \in 0 .. n : HashesEscaped(p[m])}
<1>3. 0 \in S
  BY <1>1, <1>2 DEF HashesEscaped
<1>4. ASSUME NEW m \in 1 .. n, m - 1 \in S
      PROVE  m \in S
  <2>1. PICK s \in Seq(Chars), c \in Chars : s = p[m - 1] /\ c = str[m]
    <3>1. m - 1 \in 0 .. n
      BY <1>1
    <3> QED
      BY <1>1, <1>2, <3>1
  <2>2. PICK e \in Seq(Chars) : e = EscapedOf(c)
    BY EscapedOfType
  <2>3. p[m] = s \o e /\ HashesEscaped(s)
    BY <1>2, <1>4, <2>1, <2>2
  <2>4. \A j \in 1 .. Len(e) : e[j] = Hash => j > 1 /\ e[j - 1] = Backslash
    <3>1. CASE c \in Range(EscapeSequences)
      <4>1. e = <<Backslash, UnescapeSequences[c]>>
        BY <2>2, <3>1 DEF EscapedOf
      <4> QED
        BY <4>1, EscapesAssumption
    <3>2. CASE c \notin Range(EscapeSequences)
      <4>1. e = <<c>> /\ c # Hash
        BY <2>2, <3>2, EscapesAssumption DEF EscapedOf
      <4> QED
        BY <4>1
    <3> QED
      BY <3>1, <3>2
  <2>5. ASSUME NEW j \in DOMAIN (s \o e), (s \o e)[j] = Hash
        PROVE  j > 1 /\ (s \o e)[j - 1] = Backslash
    <3>1. j \in 1 .. Len(s) + Len(e) /\ Len(s) \in Nat /\ Len(e) \in Nat
      OBVIOUS
    <3>2. CASE j <= Len(s)
      <4>1. j \in DOMAIN s /\ s[j] = Hash
        BY <2>5, <3>1, <3>2
      <4>2. j > 1 /\ s[j - 1] = Backslash
        BY <2>3, <4>1 DEF HashesEscaped
      <4> QED
        BY <3>1, <3>2, <4>2
    <3>3. CASE j > Len(s)
      <4>1. PICK k \in 1 .. Len(e) : j = Len(s) + k
        <5>1. j - Len(s) \in 1 .. Len(e) /\ j = Len(s) + (j - Len(s))
          BY <3>1, <3>3
        <5> QED
          BY <5>1
      <4>2. e[k] = Hash
        BY <2>5, <3>1, <4>1
      <4>3. k > 1 /\ e[k - 1] = Backslash
        BY <2>4, <4>2
      <4> QED
        BY <3>1, <4>1, <4>3
    <3> QED
      BY <3>1, <3>2, <3>3
  <2>6. HashesEscaped(s \o e)
    BY <2>5 DEF HashesEscaped
  <2>7. m \in 0 .. n /\ HashesEscaped(p[m])
    <3>1. m \in 0 .. n
      BY <1>1
    <3> QED
      BY <2>3, <2>6, <3>1
  <2> QED
    BY <2>7
<1> HIDE DEF S
<1>5. 0 .. n \subseteq S
  BY <1>1, <1>3, <1>4, UpTo
<1>6. n \in S
  BY <1>1, <1>5
<1> QED
  BY <1>2, <1>6 DEF S, all

\* Unescape goes through a string from the first character to the last.
LEMMA ReadingSteps ==
    ASSUME NEW str \in Seq(Chars), NEW f, IsReading(f, str)
    PROVE  /\ f[1 .. 0] = StartState
           /\ \A m \in 1 .. Len(str) : f[1 .. m] = ReadChar(f[1 .. m - 1], str[m])
<1> DEFINE n == Len(str)
<1>1. n \in Nat /\ DOMAIN str = 1 .. n
  OBVIOUS
<1> HIDE DEF n
<1>2. /\ f[{}] = StartState
      /\ \A s \in SUBSET (1 .. n) :
            s # {} => f[s] = ReadChar(f[s \ {Max(s)}], str[Max(s)])
  <2> DEFINE next(s) == ReadChar(f[s \ {Max(s)}], str[Max(s)])
  <2>1. f = [s \in SUBSET (1 .. n) |-> IF s = {} THEN StartState ELSE next(s)]
    BY <1>1 DEF IsReading
  <2> HIDE DEF next
  <2>2. f[{}] = StartState /\ \A s \in SUBSET (1 .. n) : s # {} => f[s] = next(s)
    BY <2>1
  <2> QED
    BY <2>2 DEF next
<1>3. 1 .. 0 = {}
  OBVIOUS
<1>4. ASSUME NEW m \in 1 .. n
      PROVE  f[1 .. m] = ReadChar(f[1 .. m - 1], str[m])
  <2> DEFINE s == 1 .. m
  <2>1. m \in Nat /\ s \in SUBSET (1 .. n) /\ m \in s /\ s \in SUBSET (1 .. m)
    <3>1. m \in Nat /\ m >= 1 /\ m <= n
      BY <1>1
    <3> QED
      BY <1>1, <3>1
  <2>2. Max(s) \in s /\ m <= Max(s)
    <3> HIDE DEF s
    <3> QED
      BY <2>1, Greatest
  <2>3. Max(s) = m
    <3>1. PICK x : x = Max(s)
      OBVIOUS
    <3>2. x \in 1 .. m /\ m <= x
      BY <2>2, <3>1
    <3> QED
      BY <2>1, <3>1, <3>2
  <2>4. s \ {m} = 1 .. m - 1
    BY <2>1
  <2> HIDE DEF s
  <2>5. f[s] = ReadChar(f[s \ {m}], str[m])
    BY <1>2, <2>1, <2>3
  <2> QED
    BY <2>4, <2>5 DEF s
<1> QED
  BY <1>2, <1>3, <1>4 DEF n

\* A text as the disassembler writes it.
LEMMA QuotedType ==
    ASSUME NEW s \in Seq(Words), NEW quote \in Chars
    PROVE  Quoted(Text(s), quote) \in Seq(Chars)
<1> DEFINE str == [i \in DOMAIN s |-> WordToChar(s[i])]
           t == Text(s)
<1>1. \A w \in Words : WordToChar(w) \in Chars
  <2> SUFFICES ASSUME NEW w \in Words PROVE WordToChar(w) \in Chars
    OBVIOUS
  <2> DEFINE count == 2 ^ CharBits
  <2>1. count \in Nat \ {0} /\ w \in Nat
    BY CharCounts, FieldCounts DEF Words
  <2> HIDE DEF count
  <2>2. w % count \in 0 .. count - 1
    BY <2>1
  <2> QED
    BY <2>2 DEF WordToChar, Chars, count
<1>2. str \in Seq(Chars)
  BY <1>1
<1>3. t = Escape(str)
  BY Zenon DEF Text, str
<1> HIDE DEF str, t
<1>4. <<quote>> \in Seq(Chars) /\ t \in Seq(Chars)
  BY <1>2, <1>3, EscapeType
<1>5. <<quote>> \o t \o <<quote>> \in Seq(Chars)
  BY <1>4
<1> QED
  BY <1>5 DEF Quoted, t

\* Reading what Escape made of a character gives the character.
LEMMA EscapedIsRead ==
    ASSUME NEW c \in Chars, NEW out \in Seq(Chars)
    PROVE  LET start == [pending |-> FALSE, out |-> out]
               end   == [pending |-> FALSE, out |-> Append(out, c)]
           IN  /\ c \notin Range(EscapeSequences) => ReadChar(start, c) = end
               /\ c \in Range(EscapeSequences) =>
                    ReadChar(ReadChar(start, Backslash), UnescapeSequences[c]) = end
<1> DEFINE start == [pending |-> FALSE, out |-> out]
           end   == [pending |-> FALSE, out |-> Append(out, c)]
<1>1. out \o <<c>> = Append(out, c)
  OBVIOUS
<1>2. ASSUME c \notin Range(EscapeSequences)
      PROVE  ReadChar(start, c) = end
  <2>1. c # Backslash
    BY <1>2, EscapesAssumption
  <2>2. ReadChar(start, c) = [pending |-> FALSE, out |-> out \o <<c>>]
    BY <2>1 DEF ReadChar
  <2> QED
    BY <1>1, <2>2
<1>3. ASSUME c \in Range(EscapeSequences)
      PROVE  ReadChar(ReadChar(start, Backslash), UnescapeSequences[c]) = end
  <2> DEFINE seen == [pending |-> TRUE, out |-> out]
             x == UnescapeSequences[c]
  <2>1. ReadChar(start, Backslash) = seen
    BY DEF ReadChar
  <2>2. x \in DOMAIN EscapeSequences /\ EscapeSequences[x] = c
    BY <1>3, EscapedBack
  <2> HIDE DEF x
  <2>3. ReadChar(seen, x) = [pending |-> FALSE, out |-> out \o <<EscapeSequences[x]>>]
    BY <2>2 DEF ReadChar
  <2>4. ReadChar(seen, x) = end
    BY <1>1, <2>2, <2>3
  <2> QED
    BY <2>1, <2>4 DEF x
<1> QED
  BY <1>2, <1>3

\* Unescape undoes Escape.
LEMMA UnescapeUndoesEscape ==
    ASSUME NEW str \in Seq(Chars)
    PROVE  Unescape(Escape(str)) = str
<1> DEFINE n == Len(str)
           all == Escape(str)
           f == CHOOSE r : IsReading(r, all)
           State(out) == [pending |-> FALSE, out |-> out]
<1>1. n \in Nat /\ DOMAIN str = 1 .. n /\ \A i \in 1 .. n : str[i] \in Chars
  OBVIOUS
<1>2. PICK p \in [0 .. n -> Seq(Chars)] :
          /\ p[0] = <<>> /\ p[n] = all
          /\ \A i \in 1 .. n : p[i] = p[i - 1] \o EscapedOf(str[i])
  BY EscapeSteps, Zenon
<1>3. all \in Seq(Chars)
  BY EscapeType
<1> HIDE DEF n, all
<1>4. IsReading(f, all)
  BY <1>3, ReadingExists, Zenon
<1> HIDE DEF f
<1>5. /\ f[1 .. 0] = StartState
      /\ \A m \in 1 .. Len(all) : f[1 .. m] = ReadChar(f[1 .. m - 1], all[m])
  BY <1>3, <1>4, ReadingSteps, Zenon
\* every part built up is where all starts
<1> DEFINE Begins(s) == Len(s) <= Len(all) /\ \A j \in 1 .. Len(s) : all[j] = s[j]
           B == {m \in 0 .. n : Begins(p[n - m])}
<1>6. \A m \in 0 .. n : Begins(p[m])
  <2>1. 0 \in B
    <3>1. p[n - 0] = all /\ 0 \in 0 .. n
      BY <1>1, <1>2
    <3>2. Begins(all)
      BY <1>3
    <3> QED
      BY <3>1, <3>2
  <2>2. ASSUME NEW m \in 1 .. n, m - 1 \in B
        PROVE  m \in B
    <3>1. PICK k \in 1 .. n : k = n - (m - 1)
      <4>1. n - (m - 1) \in 1 .. n
        BY <1>1
      <4> QED
        BY <4>1
    <3>2. k - 1 = n - m /\ k - 1 \in 0 .. n /\ m \in 0 .. n
      BY <1>1, <3>1
    <3>3. PICK s \in Seq(Chars), e \in Seq(Chars) : s = p[k - 1] /\ e = EscapedOf(str[k])
      BY <1>1, <1>2, <3>2, EscapedOfType
    <3>4. Begins(s \o e)
      <4>1. p[k] = s \o e
        BY <1>2, <3>3
      <4>2. Begins(p[k])
        BY <2>2, <3>1
      <4> QED
        BY <4>1, <4>2
    <3>5. Begins(s)
      <4>1. /\ Len(s \o e) = Len(s) + Len(e) /\ Len(s) \in Nat /\ Len(e) \in Nat
            /\ Len(all) \in Nat
        BY <1>3
      <4>2. \A j \in 1 .. Len(s) : j \in 1 .. Len(s \o e) /\ (s \o e)[j] = s[j]
        BY <4>1
      <4> QED
        BY <3>4, <4>1, <4>2
    <3>6. Begins(p[n - m])
      BY <3>2, <3>3, <3>5
    <3> QED
      BY <3>2, <3>6
  <2> HIDE DEF B
  <2>3. 0 .. n \subseteq B
    BY <1>1, <2>1, <2>2, UpTo
  <2> SUFFICES ASSUME NEW m \in 0 .. n PROVE Begins(p[m])
    OBVIOUS
  <2>4. n - m \in 0 .. n /\ n - (n - m) = m
    BY <1>1
  <2> HIDE DEF Begins
  <2>5. Begins(p[n - (n - m)])
    BY <2>3, <2>4 DEF B
  <2> QED
    BY <2>4, <2>5
\* so that reading a part gives as many characters of str
<1> DEFINE HasRead(m) == f[1 .. Len(p[m])] = State(SubSeq(str, 1, m))
           S == {m \in 0 .. n : HasRead(m)}
<1>7. 0 \in S
  <2>1. SubSeq(str, 1, 0) = <<>>
    OBVIOUS
  <2>2. Len(p[0]) = 0
    BY <1>2
  <2>3. HasRead(0)
    BY <1>5, <2>1, <2>2 DEF StartState
  <2>4. 0 \in 0 .. n
    BY <1>1
  <2> HIDE DEF HasRead
  <2> QED
    BY <2>3, <2>4
<1>8. ASSUME NEW m \in 1 .. n, m - 1 \in S
      PROVE  m \in S
  <2>1. m \in Nat /\ m - 1 \in 0 .. n /\ m \in 0 .. n
    BY <1>1
  <2>2. PICK s \in Seq(Chars), c \in Chars : s = p[m - 1] /\ c = str[m]
    BY <1>1, <1>2, <2>1
  <2>3. PICK k \in Nat : k = Len(s)
    OBVIOUS
  <2>4. PICK out \in Seq(Chars) : out = SubSeq(str, 1, m - 1)
    <3>1. SubSeq(str, 1, m - 1) \in Seq(Chars)
      BY <1>1 DEF n
    <3> QED
      BY <3>1
  <2>5. SubSeq(str, 1, m) = Append(out, c)
    BY <1>1, <2>1, <2>2, <2>4 DEF n
  <2>6. f[1 .. k] = State(out)
    BY <1>8, <2>2, <2>3, <2>4
  <2>7. PICK e \in Seq(Chars) : e = EscapedOf(c)
    BY EscapedOfType
  <2>8. p[m] = s \o e /\ Begins(s \o e)
    <3>1. p[m] = s \o e
      BY <1>2, <2>2, <2>7
    <3> QED
      BY <1>6, <2>1, <3>1
  <2>9. /\ Len(s \o e) = k + Len(e) /\ k + Len(e) <= Len(all) /\ Len(e) \in Nat
        /\ \A j \in 1 .. Len(e) : k + j \in 1 .. Len(all) /\ all[k + j] = e[j]
    <3>1. PICK w \in Seq(Chars), l \in Nat, o \in Nat :
              w = s \o e /\ l = Len(e) /\ o = Len(all)
      <4>1. s \o e \in Seq(Chars) /\ Len(e) \in Nat /\ Len(all) \in Nat
        BY <1>3
      <4> QED
        BY <4>1
    <3>2. Len(w) = k + l /\ \A j \in 1 .. l : w[k + j] = e[j]
      BY <2>3, <3>1
    <3>3. k + l <= o /\ \A j \in 1 .. k + l : all[j] = w[j]
      BY <2>8, <3>1, <3>2
    <3>4. \A j \in 1 .. l : k + j \in 1 .. k + l /\ k + j \in 1 .. o
      BY <3>3
    <3>5. \A j \in 1 .. l : all[k + j] = e[j]
      BY <3>2, <3>3, <3>4
    <3> QED
      BY <3>1, <3>2, <3>3, <3>4, <3>5
  <2>10. f[1 .. k + Len(e)] = State(Append(out, c))
    <3>1. CASE c \notin Range(EscapeSequences)
      <4>1. e = <<c>> /\ Len(e) = 1 /\ e[1] = c
        BY <2>7, <3>1 DEF EscapedOf
      <4>2. k + 1 \in 1 .. Len(all) /\ all[k + 1] = c /\ (k + 1) - 1 = k
        BY <2>9, <4>1
      <4>3. f[1 .. k + 1] = ReadChar(f[1 .. k], c)
        BY <1>5, <4>2
      <4>4. ReadChar(State(out), c) = State(Append(out, c))
        BY <3>1, EscapedIsRead
      <4> QED
        BY <2>6, <4>1, <4>3, <4>4
    <3>2. CASE c \in Range(EscapeSequences)
      <4> DEFINE x == UnescapeSequences[c]
      <4>1. e = <<Backslash, x>> /\ Len(e) = 2 /\ e[1] = Backslash /\ e[2] = x
        BY <2>7, <3>2 DEF EscapedOf
      <4> HIDE DEF x
      <4>2. /\ k + 1 \in 1 .. Len(all) /\ all[k + 1] = Backslash /\ (k + 1) - 1 = k
            /\ k + 2 \in 1 .. Len(all) /\ all[k + 2] = x /\ (k + 2) - 1 = k + 1
        BY <2>9, <4>1
      <4>3. f[1 .. k + 1] = ReadChar(f[1 .. k], Backslash)
        BY <1>5, <4>2
      <4>4. f[1 .. k + 2] = ReadChar(f[1 .. k + 1], x)
        BY <1>5, <4>2
      <4>5. ReadChar(ReadChar(State(out), Backslash), x) = State(Append(out, c))
        BY <3>2, EscapedIsRead DEF x
      <4> QED
        BY <2>6, <4>1, <4>3, <4>4, <4>5
    <3> QED
      BY <3>1, <3>2
  <2>11. HasRead(m)
    BY <2>5, <2>8, <2>9, <2>10
  <2> QED
    BY <2>1, <2>11
<1> HIDE DEF S
<1>9. 0 .. n \subseteq S
  BY <1>1, <1>7, <1>8, UpTo
<1>10. HasRead(n)
  <2>1. n \in S
    BY <1>1, <1>9
  <2> QED
    BY <2>1 DEF S
<1>11. SubSeq(str, 1, n) = str
  BY DEF n
<1>12. DOMAIN all = 1 .. Len(all)
  BY <1>3
<1>13. f[DOMAIN all] = [pending |-> FALSE, out |-> str]
  BY <1>2, <1>10, <1>11, <1>12
<1> DEFINE end == f[DOMAIN all]
<1>14. Unescape(all) = IF end.pending THEN Append(end.out, Backslash) ELSE end.out
  BY Zenon DEF Unescape, FoldLeft, MapThenFoldSet, IsReading, ReadChar, StartState, f
<1>15. Unescape(all) = str
  BY <1>13, <1>14
<1> QED
  BY <1>15 DEF all

\* What is written between quotes passes the removal of comments and blanks.
LEMMA QuotedIsKept ==
    ASSUME NEW t \in Seq(Chars), HashesEscaped(t), NEW quote \in {CharQuote, StringQuote}
    PROVE  /\ TrimSpaces(TrimComment(Quoted(t, quote))) = Quoted(t, quote)
           /\ IsQuoted(Quoted(t, quote), quote)
           /\ Inside(Quoted(t, quote)) = t
<1> DEFINE q == Quoted(t, quote)
           n == Len(t)
<1>1. quote \in Chars /\ quote # Hash /\ quote \notin Whitespaces
  BY CharsAssumption, EscapesAssumption
<1>2. /\ n \in Nat /\ q \in Seq(Chars) /\ Len(q) = n + 2 /\ q[1] = quote /\ q[n + 2] = quote
      /\ \A j \in 1 .. n : q[j + 1] = t[j]
  <2>1. PICK s \in Seq(Chars) : s = <<quote>> /\ Len(s) = 1 /\ s[1] = quote
    <3>1. <<quote>> \in Seq(Chars)
      BY <1>1
    <3> QED
      BY <3>1
  <2>2. q = s \o t \o s
    BY <2>1 DEF Quoted
  <2> HIDE DEF q
  <2> QED
    BY <2>1, <2>2
<1>3. Inside(q) = t
  <2>1. Inside(q) = SubSeq(q, 2, n + 1)
    BY <1>2 DEF Inside
  <2> HIDE DEF q
  <2>2. /\ Len(SubSeq(q, 2, n + 1)) = n
        /\ \A j \in 1 .. n : SubSeq(q, 2, n + 1)[j] = t[j]
    BY <1>2
  <2>3. SubSeq(q, 2, n + 1) \in Seq(Chars)
    BY <1>2
  <2> QED
    BY <2>1, <2>2, <2>3
<1> HIDE DEF q
<1>4. TrimComment(q) = q
  <2> DEFINE starts == {i \in DOMAIN q : /\ q[i] = Hash
                                         /\ i = 1 \/ q[i - 1] # Backslash}
  <2>1. ASSUME NEW i \in starts PROVE FALSE
    <3>1. i \in 1 .. n + 2 /\ q[i] = Hash /\ (i = 1 \/ q[i - 1] # Backslash)
      BY <1>2
    <3>2. i # 1 /\ i # n + 2
      BY <1>1, <1>2, <3>1
    <3>3. PICK j \in 1 .. n : i = j + 1
      <4>1. i - 1 \in 1 .. n /\ i = (i - 1) + 1
        BY <1>2, <3>1, <3>2
      <4> QED
        BY <4>1
    <3>4. t[j] = Hash
      BY <1>2, <3>1, <3>3
    <3>5. j > 1 /\ t[j - 1] = Backslash
      <4>1. j \in DOMAIN t
        BY <3>3
      <4> QED
        BY <3>4, <4>1 DEF HashesEscaped
    <3>6. j - 1 \in 1 .. n /\ (j - 1) + 1 = i - 1
      BY <1>2, <3>3, <3>5
    <3>7. q[i - 1] = Backslash
      BY <1>2, <3>5, <3>6
    <3> QED
      BY <3>1, <3>2, <3>7
  <2>2. starts = {}
    <3> HIDE DEF starts
    <3> QED
      BY <2>1
  <2> QED
    BY <2>2 DEF TrimComment
<1>5. TrimSpaces(q) = q
  <2> DEFINE kept == {i \in DOMAIN q : q[i] \notin Whitespaces}
             m == n + 2
  <2>1. /\ m \in Nat /\ m >= 1 /\ kept \in SUBSET (1 .. m) /\ 1 \in kept /\ m \in kept
        /\ kept # {} /\ Len(q) = m
    BY <1>1, <1>2
  <2>2. TrimSpaces(q) = SubSeq(q, Min(kept), Max(kept))
    BY <2>1 DEF TrimSpaces
  <2> HIDE DEF kept, m
  <2>3. Min(kept) \in kept /\ Min(kept) <= 1
    BY <2>1, Smallest
  <2>4. Max(kept) \in kept /\ m <= Max(kept)
    BY <2>1, Greatest
  <2>5. PICK a, b : a = Min(kept) /\ b = Max(kept)
    OBVIOUS
  <2>6. a = 1 /\ b = m
    <3>1. a \in 1 .. m /\ b \in 1 .. m /\ a <= 1 /\ m <= b
      BY <2>1, <2>3, <2>4, <2>5
    <3> QED
      BY <2>1, <3>1
  <2>7. SubSeq(q, 1, m) = q
    BY <1>2, <2>1
  <2> QED
    BY <2>2, <2>5, <2>6, <2>7
<1>6. IsQuoted(q, quote)
  <2>1. Head(q) = quote
    BY <1>2
  <2>2. Last(q) = quote
    BY <1>2 DEF Last
  <2> QED
    BY <1>2, <2>1, <2>2 DEF IsQuoted
<1> QED
  BY <1>3, <1>4, <1>5, <1>6 DEF q

\* Every string of characters that Escape was applied to and that is put
\* between quotes is read back, by File::GetLine and Unescape: no character of
\* it, not # or a quote or a backslash at its end, is taken for the start of a
\* comment, for a blank to remove or for the end of the string.
THEOREM StringsAreReadBack ==
    ASSUME NEW str \in Seq(Chars), NEW quote \in {CharQuote, StringQuote}
    PROVE  LET written == TrimSpaces(TrimComment(Quoted(Escape(str), quote)))
           IN  IsQuoted(written, quote) /\ Unescape(Inside(written)) = str
<1> DEFINE t == Escape(str)
<1>1. t \in Seq(Chars) /\ HashesEscaped(t) /\ Unescape(t) = str
  BY EscapeType, EscapeEscapesHashes, UnescapeUndoesEscape
<1> HIDE DEF t
<1>2. /\ TrimSpaces(TrimComment(Quoted(t, quote))) = Quoted(t, quote)
      /\ IsQuoted(Quoted(t, quote), quote) /\ Inside(Quoted(t, quote)) = t
  BY <1>1, QuotedIsKept
<1> QED
  BY <1>1, <1>2 DEF t

\* The words of a string of characters.
WordsOf(chars) == [i \in DOMAIN chars |-> CharToWord(chars[i], WordCount)]

\* A char is read back from its word, and only the char 0 has the word 0.
LEMMA CharBack ==
    ASSUME NEW c \in Chars
    PROVE  /\ WordToChar(CharToWord(c, WordCount)) = c
           /\ c # StringEnd => CharToWord(c, WordCount) # StringEnd
<1> DEFINE bits == CodeBits + RegisterBits + AddressBits
           rest == bits - CharBits
           count == 2 ^ CharBits
           others == 2 ^ rest
           half == 2 ^ (CharBits - 1)
           w == CharToWord(c, WordCount)
<1>1. bits \in Nat /\ CharBits \in Nat \ {0} /\ CharBits <= bits
  BY WidthsAssumption, CharsAssumption, WordsAssumption DEF AddressBits
<1>2. CharBits \in 0 .. bits /\ rest \in 0 .. bits /\ CharBits + rest = bits
  BY <1>1
<1> HIDE DEF rest, bits
<1>3. \A m, k \in 0 .. bits : 2 ^ m \in Nat \ {0} /\ 2 ^ (m + k) = 2 ^ m * 2 ^ k
  BY PowersAssumption DEF bits
<1>4. count \in Nat \ {0} /\ others \in Nat \ {0} /\ half \in Nat
  BY <1>2, <1>3, CharCounts
<1>5. WordCount = count * others
  <2>1. 2 ^ (CharBits + rest) = count * others
    BY <1>2, <1>3
  <2> QED
    BY <1>2, <2>1 DEF WordCount, bits
<1>6. c \in 0 .. count - 1
  BY DEF Chars
<1>7. w = IF c < half THEN c ELSE WordCount - count + c
  BY DEF CharToWord
<1> HIDE DEF count, others, half, w
<1>8. PICK h \in Nat : w = h * count + c
  <2>1. CASE c < half
    <3>1. 0 * count = 0
      BY <1>4
    <3>2. w = 0 * count + c
      BY <1>6, <1>7, <2>1, <3>1
    <3> QED
      BY <3>2
  <2>2. CASE ~(c < half)
    <3>1. PICK h \in Nat : h = others - 1
      BY <1>4
    <3>2. h * count = WordCount - count
      BY <1>4, <1>5, <3>1
    <3> QED
      BY <1>7, <2>2, <3>2
  <2> QED
    BY <2>1, <2>2
<1>9. c \in Nat /\ c < count
  BY <1>4, <1>6
<1>10. (h * count + c) % count = c
  BY <1>4, <1>9, LastDigit
<1>11. WordToChar(w) = c
  BY <1>8, <1>10 DEF WordToChar, count
<1>12. c # 0 => w # 0
  <2>1. PICK x : x = h * count
    OBVIOUS
  <2>2. x \in Nat
    BY <1>4, <2>1
  <2> QED
    BY <1>8, <1>9, <2>1, <2>2
<1> QED
  BY <1>11, <1>12 DEF w, StringEnd

\* The disassembler writes the characters that the words were made of.
LEMMA TextOfWords ==
    ASSUME NEW chars \in Seq(Chars)
    PROVE  /\ WordsOf(chars) \in Seq(Words) /\ Len(WordsOf(chars)) = Len(chars)
           /\ Text(WordsOf(chars)) = Escape(chars)
<1> DEFINE words == WordsOf(chars)
           str == [i \in DOMAIN words |-> WordToChar(words[i])]
<1>1. \A i \in DOMAIN chars : CharToWord(chars[i], WordCount) \in Words
  BY CharWords
<1>2. words \in Seq(Words) /\ Len(words) = Len(chars) /\ DOMAIN words = DOMAIN chars
  BY <1>1 DEF WordsOf
<1>3. \A i \in DOMAIN chars : words[i] = CharToWord(chars[i], WordCount)
  BY DEF WordsOf
<1> HIDE DEF words
<1>4. \A i \in DOMAIN chars : WordToChar(words[i]) = chars[i]
  BY <1>3, CharBack
<1>5. str = [i \in DOMAIN chars |-> chars[i]]
  BY <1>2, <1>4
<1>6. [i \in DOMAIN chars |-> chars[i]] = chars
  OBVIOUS
<1>7. str = chars
  BY <1>5, <1>6, Zenon
<1>8. Text(words) = Escape(str)
  BY Zenon DEF Text, str
<1> HIDE DEF str
<1> QED
  BY <1>2, <1>7, <1>8 DEF words

\* Where the disassembler stands before the words of a constant, it finds its
\* type and the words of its value.
LEMMA ValueIsFound ==
    ASSUME NEW T, NEW before \in Seq(T), NEW after \in Seq(T), NEW words \in Seq(T),
           NEW t \in T, t \in Types, Len(words) >= 1,
           data.constants = before \o <<t>> \o words \o after, pos = Len(before),
           t \in {Uint32Type, CharType} => Len(words) = 1,
           t \in {Uint64Type, DoubleType} => Len(words) = 2,
           t = StringType => /\ words[Len(words)] = StringEnd
                             /\ \A i \in 1 .. Len(words) - 1 : words[i] # StringEnd
    PROVE  /\ Type = t /\ Width = Len(words) /\ Value = words
           /\ pos < Len(data.constants) /\ Start + Width <= Len(data.constants)
           /\ Start + Width = Len(before \o <<t>> \o words)
<1>1. PICK all \in Seq(T), b \in Nat, n \in Nat, m \in Nat :
          /\ all = data.constants /\ b = Len(before) /\ n = Len(words) /\ m = Len(after)
  <2>1. before \o <<t>> \o words \o after \in Seq(T)
    OBVIOUS
  <2>2. Len(before) \in Nat /\ Len(words) \in Nat /\ Len(after) \in Nat
    OBVIOUS
  <2> QED
    BY <2>1, <2>2, Zenon
<1>2. /\ Len(all) = b + 1 + n + m /\ all[b + 1] = t
      /\ \A i \in 1 .. n : all[b + 1 + i] = words[i]
      /\ Len(before \o <<t>> \o words) = b + 1 + n
  BY <1>1
<1>3. Type = t /\ Start = b + 1
  BY <1>1, <1>2 DEF Type, Start
<1>4. t \in {0, 1, 2, 3, 4}
  BY DEF Types, Uint32Type, StringType
<1> USE DEF Uint32Type, Uint64Type, DoubleType, CharType, StringType
<1>5. Width = n
  <2>1. CASE t \in {0, 1, 2, 3}
    BY <1>1, <1>3, <2>1 DEF Width
  <2>2. CASE t = 4
    <3>1. Zeros = {x \in 1 .. n + m : all[b + 1 + x] = StringEnd}
      <4>1. Len(data.constants) - Start = n + m
        BY <1>1, <1>2, <1>3
      <4> QED
        BY <1>1, <1>3, <4>1 DEF Zeros
    <3>2. n >= 1 /\ words[n] = StringEnd /\ \A i \in 1 .. n - 1 : words[i] # StringEnd
      BY <1>1, <2>2
    <3>3. n \in Zeros
      BY <1>2, <3>1, <3>2
    <3>4. \A y \in Zeros : n <= y
      <4> SUFFICES ASSUME NEW y \in Zeros, y < n PROVE FALSE
        BY <3>1
      <4>1. y \in 1 .. n - 1 /\ y \in 1 .. n /\ all[b + 1 + y] = StringEnd
        BY <3>1
      <4> QED
        BY <1>2, <3>2, <4>1
    <3>5. PICK k \in Nat : k = n + m
      OBVIOUS
    <3>6. Zeros \in SUBSET (1 .. k) /\ Zeros # {}
      BY <3>1, <3>3, <3>5
    <3>7. Min(Zeros) \in Zeros /\ Min(Zeros) <= n
      BY <3>3, <3>6, Smallest
    <3>8. Min(Zeros) = n
      <4>1. PICK x : x = Min(Zeros)
        OBVIOUS
      <4>2. x \in 1 .. k /\ x <= n /\ n <= x
        BY <3>4, <3>6, <3>7, <4>1
      <4> QED
        BY <4>1, <4>2
    <3>9. Width = IF Zeros = {} THEN Len(data.constants) ELSE Min(Zeros)
      BY <1>3, <2>2 DEF Width
    <3> QED
      BY <3>6, <3>8, <3>9, Zenon
  <2> QED
    BY <1>4, <2>1, <2>2
<1>6. Value = SubSeq(all, b + 2, b + 1 + n)
  <2>1. Start + 1 = b + 2 /\ Start + Width = b + 1 + n
    BY <1>3, <1>5
  <2> QED
    BY <1>1, <2>1 DEF Value
<1>7. SubSeq(all, b + 2, b + 1 + n) = words
  <2>1. PICK part \in Seq(T) : part = SubSeq(all, b + 2, b + 1 + n)
    <3>1. SubSeq(all, b + 2, b + 1 + n) \in Seq(T)
      BY <1>2
    <3> QED
      BY <3>1
  <2>2. Len(part) = n /\ \A i \in 1 .. n : part[i] = all[b + 2 + i - 1]
    BY <1>2, <2>1
  <2>3. \A i \in 1 .. n : b + 2 + i - 1 = b + 1 + i
    OBVIOUS
  <2>4. \A i \in 1 .. n : part[i] = words[i]
    BY <1>2, <2>2, <2>3
  <2>5. part = words
    <3>1. Len(part) = Len(words) /\ \A i \in 1 .. Len(words) : part[i] = words[i]
      BY <1>1, <2>2, <2>4
    <3> QED
      BY <3>1
  <2> QED
    BY <2>1, <2>5
<1>8. pos < Len(data.constants) /\ Start + Width <= Len(data.constants)
      /\ Start + Width = b + 1 + n
  <2>1. PICK x, y, z, l : x = pos /\ y = Start /\ z = Width /\ l = Len(data.constants)
    OBVIOUS
  <2>2. x = b /\ y = b + 1 /\ z = n /\ l = b + 1 + n + m
    BY <1>1, <1>2, <1>3, <1>5, <2>1
  <2>3. x < l /\ y + z <= l /\ y + z = b + 1 + n
    BY <2>2
  <2> QED
    BY <2>1, <2>3, Zenon
<1> QED
  BY <1>1, <1>2, <1>3, <1>5, <1>6, <1>7, <1>8, Zenon

\* The characters that a constant stands for.
CharsOf(line) == Unescape(Inside(Written(line)))

\* What a listing keeps: 15 digits do not change the double, and no char 0
\* ends the string early.
IsKept(line) ==
    /\ line.type = DoubleType => line.num \in TwoWords \ DOMAIN Rounded
    /\ line.type = StringType => StringEnd \notin Range(CharsOf(line))

LEMMA CharsOfType ==
    ASSUME NEW line \in Line
    PROVE  CharsOf(line) \in Seq(Chars)
<1>1. line.text \in Seq(Chars)
  BY DEF Line
<1> DEFINE w == Written(line)
<1>2. w \in Seq(Chars)
  BY <1>1, WrittenType
<1> HIDE DEF w
<1>3. Unescape(Inside(w)) \in Seq(Chars)
  BY <1>2, InsideType, UnescapeType
<1> QED
  BY <1>3 DEF CharsOf, w

\* The words of a value, by type.
LEMMA WordsByType ==
    ASSUME NEW line
    PROVE  /\ line.type = Uint32Type => ValueWords(line) = <<line.num % WordCount>>
           /\ line.type \in {Uint64Type, DoubleType} =>
                 ValueWords(line) = Split(line.num % WordCount ^ 2)
           /\ line.type = CharType => ValueWords(line) = WordsOf(CharsOf(line))
           /\ line.type = StringType =>
                 ValueWords(line) = Append(WordsOf(CharsOf(line)), StringEnd)
<1> DEFINE words == WordsOf(CharsOf(line))
           all == line.num % WordCount ^ 2
<1>1. ValueWords(line) =
        CASE line.type = Uint32Type -> <<line.num % WordCount>>
          [] line.type \in {Uint64Type, DoubleType} -> Split(all)
          [] line.type = CharType -> words
          [] line.type = StringType -> Append(words, StringEnd)
  BY Zenon DEF ValueWords, WordsOf, CharsOf
<1> HIDE DEF words, all
<1> USE DEF Uint32Type, Uint64Type, DoubleType, CharType, StringType
<1>2. CASE line.type = 0
  BY <1>1, <1>2
<1>3. CASE line.type \in {1, 2}
  BY <1>1, <1>3 DEF all
<1>4. CASE line.type = 3
  BY <1>1, <1>4 DEF words
<1>5. CASE line.type = 4
  BY <1>1, <1>5 DEF words
<1> QED
  BY <1>2, <1>3, <1>4, <1>5 DEF all, words

\* The value of two words is read back from them.
LEMMA DoubleOfSplit ==
    ASSUME NEW v \in TwoWords
    PROVE  /\ Double(Split(v)) = v /\ v % WordCount ^ 2 = v
           /\ v \in -(WordCount ^ 2 - 1) .. WordCount ^ 2 - 1
<1> DEFINE w == WordCount
           all == WordCount ^ 2
<1>1. w \in Nat \ {0} /\ all = w * w
  BY FieldCounts, WordsAssumption
<1> HIDE DEF w
<1>2. all \in Nat \ {0}
  BY <1>1
<1>3. v \in 0 .. all - 1
  BY DEF TwoWords
<1> HIDE DEF all
<1>4. v % all = v /\ v \in -(all - 1) .. all - 1
  BY <1>2, <1>3
<1>5. PICK l, h : l = v % w /\ h = v \div w
  OBVIOUS
<1>6. v = l + w * h
  BY <1>1, <1>3, <1>5
<1>7. Split(v) = <<l, h>>
  BY <1>5 DEF Split, w
<1>8. Double(<<l, h>>) = l + w * h
  BY DEF Double, w
<1> QED
  BY <1>4, <1>6, <1>7, <1>8 DEF all

\* A text as the disassembler writes it for characters.
LEMMA WrittenOfText ==
    ASSUME NEW chars \in Seq(Chars), NEW quote \in {CharQuote, StringQuote},
           NEW line, line.text = Quoted(Text(WordsOf(chars)), quote)
    PROVE  IsQuoted(Written(line), quote) /\ CharsOf(line) = chars
<1> DEFINE written == TrimSpaces(TrimComment(Quoted(Escape(chars), quote)))
<1>1. Written(line) = written
  BY TextOfWords, Zenon DEF Written
<1>2. IsQuoted(written, quote) /\ Unescape(Inside(written)) = chars
  BY StringsAreReadBack, Zenon
<1> QED
  BY <1>1, <1>2, Zenon DEF CharsOf

\* Words are numbers.
LEMMA WordsAreNumbers ==
    ASSUME NEW s \in Seq(Words)
    PROVE  s \in Seq(Int)
<1>1. Words \subseteq Int
  BY FieldCounts DEF Words
<1>2. \A i \in 1 .. Len(s) : s[i] \in Words
  OBVIOUS
<1>3. \A i \in 1 .. Len(s) : s[i] \in Int
  BY <1>1, <1>2, Zenon
<1> QED
  BY <1>3

\* A word is a number of a word, and of two words.
LEMMA WordIsNumber ==
    ASSUME NEW v \in Words
    PROVE  /\ v % WordCount = v
           /\ v \in -(WordCount ^ 2 - 1) .. WordCount ^ 2 - 1
<1> DEFINE w == WordCount
           all == WordCount ^ 2
<1>1. w \in Nat \ {0} /\ all = w * w
  BY FieldCounts, WordsAssumption
<1>2. v \in 0 .. w - 1
  BY DEF Words
<1> HIDE DEF w
<1>3. all \in Nat /\ all >= w
  <2>1. w * w \in Nat /\ w * w >= w
    BY <1>1
  <2> QED
    BY <1>1, <2>1, Zenon
<1> HIDE DEF all
<1>4. v % w = v
  BY <1>1, <1>2
<1>5. v \in -(all - 1) .. all - 1
  BY <1>1, <1>2, <1>3
<1> QED
  BY <1>4, <1>5 DEF w, all

\* Only the words of a constant, in the way ValueIsFound reads them.
LEMMA WordsOfConstant ==
    ASSUME NEW line \in Line, ConstantIsValid(line), IsKept(line)
    PROVE  LET words == ValueWords(line)
           IN  /\ words \in Seq(Words) /\ Len(words) >= 1
               /\ line.type \in {Uint32Type, CharType} => Len(words) = 1
               /\ line.type \in {Uint64Type, DoubleType} => Len(words) = 2
               /\ line.type = StringType =>
                     /\ words[Len(words)] = StringEnd
                     /\ \A i \in 1 .. Len(words) - 1 : words[i] # StringEnd
<1> DEFINE words == ValueWords(line)
<1>1. line.text \in Seq(Chars) /\ line.num \in Int /\ line.type \in Types
  BY DEF Line
<1>2. words \in Seq(Words)
  BY <1>1, ValueWordsType
<1>3. PICK chars \in Seq(Chars) : chars = CharsOf(line)
  BY CharsOfType
<1>4. WordsOf(chars) \in Seq(Words) /\ Len(WordsOf(chars)) = Len(chars)
  BY TextOfWords
<1> USE DEF Uint32Type, Uint64Type, DoubleType, CharType, StringType
<1>5. line.type \in {0, 1, 2, 3, 4}
  BY <1>1 DEF Types
<1> HIDE DEF words
<1>6. CASE line.type = 0
  <2>1. words = <<line.num % WordCount>>
    BY <1>6, WordsByType DEF words
  <2>2. Len(words) = 1
    BY <2>1
  <2> QED
    BY <1>2, <1>6, <2>2 DEF words
<1>7. CASE line.type \in {1, 2}
  <2>1. words = Split(line.num % WordCount ^ 2)
    BY <1>7, WordsByType DEF words
  <2>2. Len(words) = 2
    BY <2>1 DEF Split
  <2> QED
    BY <1>2, <1>7, <2>2 DEF words
<1>8. CASE line.type = 3
  <2>1. words = WordsOf(chars)
    BY <1>3, <1>8, WordsByType DEF words
  <2>2. Len(chars) = 1
    BY <1>3, <1>8 DEF ConstantIsValid, CharsOf
  <2>3. Len(words) = 1
    BY <1>4, <2>1, <2>2
  <2> QED
    BY <1>2, <1>8, <2>3 DEF words
<1>9. CASE line.type = 4
  <2>1. words = Append(WordsOf(chars), StringEnd)
    BY <1>3, <1>9, WordsByType DEF words
  <2>2. PICK ws \in Seq(Words), n \in Nat : ws = WordsOf(chars) /\ n = Len(ws)
    BY <1>4
  <2>3. \A i \in 1 .. n : ws[i] # StringEnd
    <3> SUFFICES ASSUME NEW i \in 1 .. n PROVE ws[i] # StringEnd
      OBVIOUS
    <3>1. i \in DOMAIN chars /\ chars[i] \in Chars
      BY <1>4, <2>2
    <3>2. chars[i] # StringEnd
      <4>1. StringEnd \notin Range(chars)
        BY <1>3, <1>9 DEF IsKept
      <4> QED
        BY <3>1, <4>1 DEF Range
    <3>3. ws[i] = CharToWord(chars[i], WordCount)
      BY <2>2, <3>1 DEF WordsOf
    <3> QED
      BY <3>1, <3>2, <3>3, CharBack
  <2>4. Len(words) = n + 1 /\ words[n + 1] = StringEnd /\ \A i \in 1 .. n : words[i] = ws[i]
    BY <2>1, <2>2
  <2>5. Len(words) - 1 = n
    BY <2>4
  <2> QED
    BY <1>2, <1>9, <2>3, <2>4, <2>5 DEF words
<1> QED
  BY <1>5, <1>6, <1>7, <1>8, <1>9 DEF words

\* A constant that the compiler accepted is disassembled, wherever its words
\* stand in the segment, to a line that the compiler accepts and makes the same
\* words of (DisassembleConstants, FileCompiler::TryProcessConstant), and the
\* disassembler goes on after the last of its words.
THEOREM ConstantsAreReadAsWritten ==
    ASSUME NEW line \in Line, ConstantIsValid(line), IsKept(line), NEW label,
           NEW before \in Seq(Int), NEW after \in Seq(Int),
           data.constants = before \o <<line.type>> \o ValueWords(line) \o after,
           pos = Len(before)
    PROVE  /\ pos < Len(data.constants) /\ Type = line.type
           /\ Start + Width <= Len(data.constants)
           /\ Start + Width = Len(before \o <<line.type>> \o ValueWords(line))
           /\ ConstantLine(label).type = line.type
           /\ ConstantIsValid(ConstantLine(label))
           /\ ValueWords(ConstantLine(label)) = ValueWords(line)
<1> DEFINE words == ValueWords(line)
           new == ConstantLine(label)
           base == [Blank EXCEPT !.label = label, !.item = "constant", !.type = Type]
<1>1. line.text \in Seq(Chars) /\ line.num \in Int /\ line.type \in Types
  BY DEF Line
<1> USE DEF Uint32Type, Uint64Type, DoubleType, CharType, StringType
<1>2. line.type \in {0, 1, 2, 3, 4}
  BY <1>1 DEF Types
<1>3. /\ words \in Seq(Words) /\ Len(words) >= 1
      /\ line.type \in {Uint32Type, CharType} => Len(words) = 1
      /\ line.type \in {Uint64Type, DoubleType} => Len(words) = 2
      /\ line.type = StringType => /\ words[Len(words)] = StringEnd
                                   /\ \A i \in 1 .. Len(words) - 1 : words[i] # StringEnd
  BY WordsOfConstant, Zenon
<1> HIDE DEF words
<1>4. words \in Seq(Int) /\ line.type \in Int
  <2>1. Words \subseteq Int
    BY FieldCounts DEF Words
  <2>2. words \in Seq(Int)
    BY <1>3, WordsAreNumbers, Zenon
  <2> QED
    BY <1>2, <2>2
<1>5. data.constants = before \o <<line.type>> \o words \o after
  BY DEF words
<1> DEFINE t == line.type
           end == Start + Width
           size == Len(data.constants)
           upTo == Len(before \o <<t>> \o words)
<1>6. Type = t /\ Value = words /\ pos < size /\ end <= size /\ end = upTo
  <2> HIDE DEF Uint32Type, Uint64Type, DoubleType, CharType, StringType
  <2>1. /\ Type = t /\ Width = Len(words) /\ Value = words
        /\ pos < Len(data.constants) /\ Start + Width <= Len(data.constants)
        /\ Start + Width = Len(before \o <<t>> \o words)
    <3> HIDE DEF new, base
    <3>1. PICK ty : ty = line.type
      OBVIOUS
    <3>2. words \in Seq(Int) /\ ty \in Int /\ ty \in Types /\ Len(words) >= 1
      BY <1>1, <1>3, <1>4, <3>1, Zenon
    <3>3. data.constants = before \o <<ty>> \o words \o after /\ pos = Len(before)
      BY <1>5, <3>1, Zenon
    <3>4. /\ ty \in {Uint32Type, CharType} => Len(words) = 1
          /\ ty \in {Uint64Type, DoubleType} => Len(words) = 2
          /\ ty = StringType => /\ words[Len(words)] = StringEnd
                               /\ \A i \in 1 .. Len(words) - 1 : words[i] # StringEnd
      BY <1>3, <3>1, Zenon
    <3>5. /\ Type = ty /\ Width = Len(words) /\ Value = words
          /\ pos < Len(data.constants) /\ Start + Width <= Len(data.constants)
          /\ Start + Width = Len(before \o <<ty>> \o words)
      BY <3>2, <3>3, <3>4, ValueIsFound, ZenonT(60)
    <3> QED
      BY <3>1, <3>5, Zenon
  <2> QED
    BY <2>1, Zenon
<1> HIDE DEF end, size, upTo
<1>7. /\ base.type = t
      /\ \A v : [base EXCEPT !.num = v].type = t /\ [base EXCEPT !.num = v].num = v
      /\ \A v : [base EXCEPT !.text = v].type = t /\ [base EXCEPT !.text = v].text = v
  BY <1>6 DEF Blank
<1> DEFINE num(v) == [base EXCEPT !.num = v]
           spelt(v) == [base EXCEPT !.text = v]
<1>8. /\ t = 0 => new = num(Value[1])
      /\ t = 1 => new = num(Double(Value))
      /\ t = 2 => new = num(Digits(Double(Value)))
      /\ t = 3 => new = spelt(Quoted(Text(Value), CharQuote))
      /\ t = 4 => new = spelt(Quoted(Text(Front(Value)), StringQuote))
  <2> DEFINE q == Quoted(Text(Value), CharQuote)
             r == Quoted(Text(Front(Value)), StringQuote)
             d == Double(Value)
             e == Digits(d)
             f == Value[1]
  <2>1. new = CASE Type = 0 -> num(f) [] Type = 1 -> num(d) [] Type = 2 -> num(e)
                [] Type = 3 -> spelt(q) [] Type = 4 -> spelt(r)
    BY Zenon DEF ConstantLine
  <2> HIDE DEF q, r, d, e, f, num, spelt, base
  <2>2. /\ t = 0 => new = num(f)
        /\ t = 1 => new = num(d)
        /\ t = 2 => new = num(e)
        /\ t = 3 => new = spelt(q)
        /\ t = 4 => new = spelt(r)
    <3> HIDE DEF new
    <3> QED
      BY <1>6, <2>1
  <2> QED
    BY <2>2, Zenon DEF q, r, d, e, f
<1>9. SUFFICES new.type = t /\ ConstantIsValid(new) /\ ValueWords(new) = words
  BY <1>6 DEF end, size, upTo, words
<1> DEFINE all == WordCount ^ 2
<1> HIDE DEF base, new
<1>15. StringEnd \in Words
  <2> HIDE DEF all
  <2>1. WordCount \in Nat \ {0}
    BY FieldCounts
  <2> QED
    BY <2>1 DEF StringEnd, Words
<1>10. PICK chars \in Seq(Chars) : chars = CharsOf(line)
  BY CharsOfType
<1>11. CASE t = 0
  <2>1. PICK v : v = line.num % WordCount
    OBVIOUS
  <2>2. words = <<v>> /\ v \in Words
    BY <1>1, <1>11, <2>1, WordsByType, SplitType DEF words
  <2>3. new.type = t /\ new.num = v
    BY <1>6, <1>7, <1>8, <1>11, <2>2
  <2>4. v % WordCount = v /\ v \in -(all - 1) .. all - 1
    BY <2>2, WordIsNumber
  <2>5. ConstantIsValid(new)
    BY <1>11, <2>3, <2>4 DEF ConstantIsValid
  <2>6. ValueWords(new) = <<v % WordCount>>
    BY <1>11, <2>3, WordsByType
  <2> QED
    BY <2>2, <2>3, <2>4, <2>5, <2>6
<1>12. CASE t \in {1, 2}
  <2> DEFINE v == IF t = 2 THEN line.num ELSE line.num % all
  <2>1. v \in TwoWords
    <3>1. CASE t = 1
      <4>1. PICK w \in Nat \ {0} : w = WordCount /\ all = w * w
        BY FieldCounts, WordsAssumption
      <4>2. PICK a \in Nat \ {0} : a = all
        <5>1. w * w \in Nat \ {0}
          OBVIOUS
        <5> QED
          BY <4>1, <5>1, Zenon
      <4>3. line.num % a \in 0 .. a - 1
        BY <1>1, <4>2
      <4> QED
        BY <3>1, <4>2, <4>3 DEF TwoWords
    <3>2. CASE t = 2
      BY <3>2 DEF IsKept
    <3> QED
      BY <1>12, <3>1, <3>2
  <2>2. v % all = v /\ Double(Split(v)) = v /\ v \in -(all - 1) .. all - 1
    BY <2>1, DoubleOfSplit
  <2>3. words = Split(v)
    <3>1. words = Split(line.num % all)
      BY <1>12, WordsByType DEF words
    <3>2. line.num % all = v
      BY <1>12, <2>2
    <3> QED
      BY <3>1, <3>2
  <2>4. t = 2 => Digits(v) = v /\ v \notin Unreadable
    BY DEF IsKept, Digits, ConstantIsValid
  <2> HIDE DEF v, all
  <2>5. new.type = t /\ new.num = v
    <3>1. Double(Value) = v
      BY <1>6, <2>2, <2>3
    <3>2. new = num(v)
      <4> HIDE DEF num
      <4>1. CASE t = 1
        BY <1>8, <3>1, <4>1
      <4>2. CASE t = 2
        BY <1>8, <2>4, <3>1, <4>2
      <4> QED
        BY <1>12, <4>1, <4>2
    <3> QED
      BY <1>7, <3>2, Zenon
  <2>6. ConstantIsValid(new)
    <3>1. CASE t = 1
      BY <2>2, <2>5, <3>1 DEF ConstantIsValid, all
    <3>2. CASE t = 2
      BY <2>4, <2>5, <3>2 DEF ConstantIsValid
    <3> QED
      BY <1>12, <3>1, <3>2
  <2>7. ValueWords(new) = Split(v % all)
    BY <1>12, <2>5, WordsByType DEF all
  <2> QED
    BY <2>2, <2>3, <2>5, <2>6, <2>7
<1>13. CASE t = 3
  <2>1. words = WordsOf(chars) /\ Len(chars) = 1
    BY <1>10, <1>13, WordsByType DEF words, ConstantIsValid, CharsOf
  <2>2. new.type = t /\ new.text = Quoted(Text(WordsOf(chars)), CharQuote)
    BY <1>6, <1>7, <1>8, <1>13, <2>1
  <2>3. IsQuoted(Written(new), CharQuote) /\ CharsOf(new) = chars
    BY <2>2, WrittenOfText
  <2>4. ConstantIsValid(new)
    BY <1>13, <2>1, <2>2, <2>3 DEF ConstantIsValid, CharsOf
  <2>5. ValueWords(new) = WordsOf(chars)
    BY <1>13, <2>2, <2>3, WordsByType
  <2> QED
    BY <2>1, <2>2, <2>4, <2>5
<1>14. CASE t = 4
  <2>1. words = Append(WordsOf(chars), StringEnd)
    BY <1>10, <1>14, WordsByType DEF words
  <2>2. Front(words) = WordsOf(chars)
    <3>1. PICK ws \in Seq(Words) : ws = WordsOf(chars)
      BY TextOfWords
    <3>2. Front(Append(ws, StringEnd)) = ws
      BY <1>15 DEF Front
    <3> QED
      BY <2>1, <3>1, <3>2
  <2>3. new.type = t /\ new.text = Quoted(Text(WordsOf(chars)), StringQuote)
    BY <1>6, <1>7, <1>8, <1>14, <2>2
  <2>4. IsQuoted(Written(new), StringQuote) /\ CharsOf(new) = chars
    BY <2>3, WrittenOfText
  <2>5. ConstantIsValid(new)
    BY <1>14, <2>3, <2>4 DEF ConstantIsValid
  <2>6. ValueWords(new) = Append(WordsOf(chars), StringEnd)
    BY <1>14, <2>3, <2>4, WordsByType
  <2> QED
    BY <2>1, <2>3, <2>5, <2>6
<1> QED
  BY <1>2, <1>11, <1>12, <1>13, <1>14
-----------------------------------------------------------------------------
(***************************************************************************)
(* Lines.                                                                  *)
(***************************************************************************)
\* A line stays a line when one of its words is replaced.
LEMMA LineChanged ==
    ASSUME NEW line \in Line
    PROVE  /\ \A v \in MaybeLabel : [line EXCEPT !.label = v] \in Line
           /\ \A v \in {"none", "command", "constant", "end"} :
                 [line EXCEPT !.item = v] \in Line
           /\ \A v \in Codes : [line EXCEPT !.code = v] \in Line
           /\ \A v \in Registers : [line EXCEPT !.reg = v] \in Line
           /\ \A v \in Registers : [line EXCEPT !.src = v] \in Line
           /\ \A v \in MaybeLabel : [line EXCEPT !.use = v] \in Line
           /\ \A v \in Int : [line EXCEPT !.num = v] \in Line
           /\ \A v \in Types : [line EXCEPT !.type = v] \in Line
           /\ \A v \in Seq(Chars) : [line EXCEPT !.text = v] \in Line
BY DEF Line

\* A blank line is a line.
LEMMA BlankType == Blank \in Line
<1>1. 0 \in Codes
  BY LinesAssumption
<1>2. 0 \in Registers
  BY FieldCounts DEF Registers, RegisterCount
<1>3. Uint32Type \in Types
  BY DEF Types, Uint32Type, StringType
<1>4. NoLabel \in MaybeLabel
  BY DEF MaybeLabel
<1>5. <<>> \in Seq(Chars)
  OBVIOUS
<1> QED
  BY <1>1, <1>2, <1>3, <1>4, <1>5 DEF Blank, Line

\* A constant as the disassembler writes it.
LEMMA ConstantLineType ==
    ASSUME data.constants \in Seq(Words), pos \in Nat, pos < Len(data.constants),
           Type \in Types, Start + Width <= Len(data.constants),
           NEW label \in Labels
    PROVE  /\ ConstantLine(label) \in Line
           /\ Start + Width \in Nat /\ Start + Width > pos
<1> DEFINE words == data.constants
           len == Len(words)
           a == Start + 1
           b == Start + Width
           value == SubSeq(words, a, b)
           line == [[[Blank EXCEPT !.label = label] EXCEPT !.item = "constant"]
                       EXCEPT !.type = Type]
<1>1. len \in Nat /\ Start \in Nat /\ Start >= 1 /\ Start <= len
  BY DEF Start
<1>2. Width \in Nat \ {0}
  <2>1. CASE Type \in {Uint32Type, CharType}
    BY <2>1 DEF Width
  <2>2. CASE Type \notin {Uint32Type, CharType} /\ Type \in {Uint64Type, DoubleType}
    BY <2>2 DEF Width
  <2>3. CASE Type \notin {Uint32Type, CharType, Uint64Type, DoubleType}
    <3>1. Width = IF Zeros = {} THEN len ELSE Min(Zeros)
      BY <2>3 DEF Width
    <3>2. CASE Zeros = {}
      BY <1>1, <3>1, <3>2
    <3>3. CASE Zeros # {}
      <4>1. PICK m \in Nat : m = len - Start
        <5>1. len - Start \in Nat
          BY <1>1
        <5> QED
          BY <5>1
      <4>2. Zeros \in SUBSET (1 .. m)
        BY <4>1 DEF Zeros
      <4>3. Min(Zeros) \in Zeros
        BY <3>3, <4>2, Smallest
      <4>4. Min(Zeros) \in 1 .. m
        BY <4>2, <4>3
      <4> QED
        BY <3>1, <3>3, <4>4
    <3> QED
      BY <3>2, <3>3
  <2> QED
    BY <2>1, <2>2, <2>3
<1>3. b \in Nat /\ b >= a /\ b <= len /\ a \in Nat \ {0}
  BY <1>1, <1>2
<1>4. value \in Seq(Words)
  <2> HIDE DEF a, b
  <2> QED
    BY <1>3, PartType
<1>5. Len(value) = Width
  <2>1. PICK n \in Nat \ {0} : n = Width
    BY <1>2
  <2>2. Len(value) = b - a + 1
    <3> HIDE DEF a, b
    <3> QED
      BY <1>1, <1>3
  <2> QED
    BY <1>1, <2>1, <2>2
<1>6. value = Value
  BY DEF Value
<1> HIDE DEF value
<1>7. line \in Line
  <2>1. [Blank EXCEPT !.label = label] \in Line
    BY BlankType, LineChanged DEF MaybeLabel
  <2>2. [[Blank EXCEPT !.label = label] EXCEPT !.item = "constant"] \in Line
    BY <2>1, LineChanged
  <2> QED
    BY <2>2, LineChanged
<1>8. line = [Blank EXCEPT !.label = label, !.item = "constant", !.type = Type]
  BY DEF Blank
<1> HIDE DEF line
<1>16. SUFFICES ConstantLine(label) \in Line
  BY <1>1, <1>3 DEF Start
<1>17. /\ \A v \in Int : [line EXCEPT !.num = v] \in Line
       /\ \A v \in Seq(Chars) : [line EXCEPT !.text = v] \in Line
  BY <1>7, LineChanged, Zenon
<1>18. \A i \in 1 .. Len(value) : value[i] \in Words
  BY <1>4
<1>9. Words \subseteq Int /\ WordCount \in Int
  BY FieldCounts DEF Words
<1>10. Type \in {0, 1, 2, 3, 4}
  BY DEF Types, Uint32Type, StringType
<1>11. CharQuote \in Chars /\ StringQuote \in Chars
  BY CharsAssumption
<1> USE DEF Uint32Type, Uint64Type, DoubleType, CharType, StringType
<1>12. CASE Type = 0
  <2>1. ConstantLine(label) = [line EXCEPT !.num = value[1]]
    BY <1>6, <1>8, <1>12 DEF ConstantLine
  <2>2. value[1] \in Int
    <3>1. 1 \in 1 .. Len(value)
      BY <1>2, <1>5
    <3> QED
      BY <1>9, <1>18, <3>1
  <2> QED
    BY <1>17, <2>1, <2>2, Zenon
<1>13. CASE Type \in {1, 2}
  <2> DEFINE double == Double(value)
  <2>1. Width = 2
    BY <1>13 DEF Width
  <2>2. double \in Int
    <3>1. value[1] \in Int /\ value[2] \in Int
      <4>1. 1 \in 1 .. Len(value) /\ 2 \in 1 .. Len(value)
        BY <1>5, <2>1
      <4> QED
        BY <1>9, <1>18, <4>1
    <3>2. WordCount * value[2] \in Int
      BY <1>9, <3>1
    <3> QED
      BY <3>1, <3>2 DEF Double
  <2> HIDE DEF double
  <2>3. Digits(double) \in Int
    <3>1. \A d \in DOMAIN Rounded : Rounded[d] \in TwoWords
      BY LinesAssumption
    <3>2. TwoWords \subseteq Int
      BY DEF TwoWords
    <3> QED
      BY <2>2, <3>1, <3>2 DEF Digits
  <2>4. \/ ConstantLine(label) = [line EXCEPT !.num = double]
        \/ ConstantLine(label) = [line EXCEPT !.num = Digits(double)]
    <3>1. CASE Type = 1
      BY <1>6, <1>8, <3>1 DEF ConstantLine, double
    <3>2. CASE Type = 2
      BY <1>6, <1>8, <3>2 DEF ConstantLine, double
    <3> QED
      BY <1>13, <3>1, <3>2
  <2> QED
    BY <1>17, <2>2, <2>3, <2>4, Zenon
<1>14. CASE Type = 3
  <2>1. ConstantLine(label) = [line EXCEPT !.text = Quoted(Text(value), CharQuote)]
    BY <1>6, <1>8, <1>14 DEF ConstantLine
  <2>2. Quoted(Text(value), CharQuote) \in Seq(Chars)
    BY <1>4, <1>11, QuotedType
  <2> QED
    BY <1>17, <2>1, <2>2, Zenon
<1>15. CASE Type = 4
  <2> DEFINE front == Front(value)
  <2>1. ConstantLine(label) = [line EXCEPT !.text = Quoted(Text(front), StringQuote)]
    BY <1>6, <1>8, <1>15 DEF ConstantLine
  <2>2. front \in Seq(Words)
    <3>1. PICK c, d : c = 1 /\ d = Len(value) - 1
      OBVIOUS
    <3>2. c \in Nat \ {0} /\ d \in Int /\ d <= Len(value)
      BY <1>4, <3>1
    <3>3. SubSeq(value, c, d) \in Seq(Words)
      BY <1>4, <3>2, PartType
    <3> QED
      BY <3>1, <3>3 DEF Front
  <2> HIDE DEF front
  <2>3. Quoted(Text(front), StringQuote) \in Seq(Chars)
    BY <1>11, <2>2, QuotedType
  <2> QED
    BY <1>17, <2>1, <2>3, Zenon
<1> QED
  BY <1>10, <1>12, <1>13, <1>14, <1>15
-----------------------------------------------------------------------------
(***************************************************************************)
(* What the disassembler writes: labels, then lines.                       *)
(***************************************************************************)
\* The labels of the disassembler, as labels of addresses.
LabelsAreTyped(labels) == DOMAIN labels \subseteq Nat /\ Range(labels) \subseteq Labels

\* Among so many numbers a set has at most so many.
LEMMA SizeOfPart ==
    ASSUME NEW a \in Int, NEW b \in Int, NEW n \in Nat, b = a + n - 1,
           NEW S \in SUBSET (a .. b)
    PROVE  IsFiniteSet(S) /\ Cardinality(S) \in 0 .. n
<1> DEFINE all == a .. b
<1>1. IsFiniteSet(all) /\ Cardinality(all) = n
  <2>1. IsFiniteSet(all) /\ Cardinality(all) = IF a > b THEN 0 ELSE b - a + 1
    BY FS_Interval, Zenon
  <2> QED
    BY <2>1
<1> HIDE DEF all
<1>2. S \in SUBSET all
  BY DEF all
<1>3. IsFiniteSet(S) /\ Cardinality(S) <= Cardinality(all) /\ Cardinality(S) \in Nat
  BY <1>1, <1>2, FS_Subset, FS_CardinalityType
<1> QED
  BY <1>1, <1>3

\* What the labels of the constants that were gone through are given to.
ConstantLabelsInv ==
    /\ LabelsAreTyped(constantLabels)
    /\ DOMAIN constantLabels \subseteq Len(data.code) + 1 .. Len(data.code) + pos

\* The sizes of the segments are numbers.
LEMMA SegmentSizes ==
    ASSUME NEW d \in Data
    PROVE  Len(d.code) \in Nat /\ Len(d.constants) \in Nat
BY DEF Data

\* a program that fits the memory
FitsMemory(d) == Len(d.code) + Len(d.constants) <= MemorySize

\* The label of the next constant is a label, at an address of a word gone
\* through (Disassembler::Impl, the labels of constants).
LEMMA ConstantLabelled ==
    ASSUME ConstantLabelsInv, data \in Data, FitsMemory(data), AtConstant,
           pos \in Nat, RecordConstantLabel
    PROVE  /\ NextConstantLabel \in Labels
           /\ LabelsAreTyped(constantLabels')
           /\ DOMAIN constantLabels'
                \subseteq Len(data.code) + 1 .. Len(data.code) + pos + 1
<1> DEFINE old == constantLabels
           new == constantLabels'
<1>1. PICK l, k \in Nat : l = Len(data.code) /\ k = Len(data.constants)
  BY SegmentSizes
<1>2. pos < k /\ l + k <= MemorySize /\ MemorySize \in Nat
  <2>1. pos < k
    BY <1>1 DEF AtConstant
  <2> QED
    BY <2>1, <1>1, FieldCounts DEF FitsMemory
<1>3. PICK a \in Nat : a = l + pos + 1
  OBVIOUS
<1>4. new = [x \in DOMAIN old \cup {a} |-> IF x = a THEN NextConstantLabel ELSE old[x]]
  <2>1. Len(data.code) + Start = a
    <3>1. Len(data.code) + Start = l + (pos + 1)
      BY <1>1 DEF Start
    <3> QED
      BY <1>3, <3>1
  <2> QED
    BY <2>1, Zenon DEF RecordConstantLabel
<1>5. NextConstantLabel \in Labels /\ DOMAIN old \subseteq l + 1 .. l + pos
  <2> DEFINE D == DOMAIN old
             m == Cardinality(D) + 1
  <2>1. D \in SUBSET (l + 1 .. l + pos)
    BY <1>1 DEF ConstantLabelsInv
  <2> HIDE DEF D
  <2>2. Cardinality(D) \in 0 .. pos
    <3>1. PICK from, to, n \in Int : from = l + 1 /\ to = l + pos /\ n = pos
      OBVIOUS
    <3>2. to = from + n - 1 /\ n \in Nat /\ D \in SUBSET (from .. to)
      BY <2>1, <3>1
    <3>3. Cardinality(D) \in 0 .. n
      BY <3>2, SizeOfPart
    <3> QED
      BY <3>1, <3>3
  <2>3. m \in 1 .. MemorySize
    BY <1>2, <2>2
  <2>4. Numbered("constant", m) \in Labels
    <3> HIDE DEF m
    <3> QED
      BY <2>3, LabelNamesAssumption
  <2> QED
    BY <2>1, <2>4 DEF NextConstantLabel, D
<1>6. /\ DOMAIN old \subseteq Nat
      /\ \A x \in DOMAIN old : old[x] \in Labels
  BY DEF ConstantLabelsInv, LabelsAreTyped, Range
<1> HIDE DEF old, new
<1>7. DOMAIN new = DOMAIN old \cup {a} /\ \A x \in DOMAIN new : new[x] \in Labels
  BY <1>4, <1>5, <1>6
<1>8. DOMAIN new \subseteq Nat /\ DOMAIN new \subseteq l + 1 .. l + pos + 1
  BY <1>3, <1>5, <1>6, <1>7
<1> QED
  BY <1>1, <1>5, <1>7, <1>8 DEF LabelsAreTyped, Range, new, old

\* The labels of the commands that are referred to are labels.
LEMMA CommandLabelled ==
    ASSUME data \in Data, FitsMemory(data)
    PROVE  LabelsAreTyped(CommandLabels)
<1> DEFINE addresses == Referenced \ {data.entrypoint}
           number(a) == Cardinality({b \in addresses : b <= a})
           labels == CommandLabels
<1>1. PICK e, n, k \in Nat : /\ e = data.entrypoint /\ n = Len(data.code)
                             /\ k = Len(data.constants)
  <2>1. data.entrypoint \in Nat
    BY FieldCounts DEF Data, Words
  <2> QED
    BY <2>1, SegmentSizes
<1>2. n <= MemorySize /\ MemorySize \in Nat
  <2>1. n + k <= MemorySize /\ MemorySize \in Nat
    BY <1>1, FieldCounts DEF FitsMemory
  <2> QED
    BY <2>1
<1>3. addresses \subseteq 0 .. n - 1
  BY <1>1 DEF Referenced
<1>4. labels = [a \in addresses \cup {e} |->
                   IF a = e THEN MainLabel ELSE Numbered("command", number(a))]
  BY <1>1, Zenon DEF CommandLabels
<1> HIDE DEF addresses, labels
<1>5. ASSUME NEW a \in addresses
      PROVE  Numbered("command", number(a)) \in Labels
  <2> DEFINE S == {b \in addresses : b <= a}
             m == Cardinality(S)
  <2>1. PICK from, to \in Int : from = 0 /\ to = n - 1
    OBVIOUS
  <2>2. S \in SUBSET (from .. to) /\ a \in S
    <3>1. addresses \in SUBSET (from .. to)
      BY <1>3, <2>1
    <3>2. a \in Int /\ a <= a
      BY <3>1
    <3> QED
      BY <3>1, <3>2
  <2> HIDE DEF S
  <2>3. IsFiniteSet(S) /\ m \in 0 .. n
    <3>1. to = from + n - 1
      BY <2>1
    <3> QED
      BY <2>2, <3>1, SizeOfPart
  <2>4. m # 0
    BY <2>2, <2>3, FS_EmptySet
  <2>5. m \in 1 .. MemorySize
    BY <1>2, <2>3, <2>4
  <2>6. Numbered("command", m) \in Labels
    <3> HIDE DEF m
    <3> QED
      BY <2>5, LabelNamesAssumption
  <2> QED
    BY <2>6 DEF S
<1> HIDE DEF number
<1>6. \A a \in DOMAIN labels : labels[a] \in Labels
  BY <1>4, <1>5, LabelNamesAssumption
<1>7. DOMAIN labels \subseteq Nat
  <2>1. addresses \subseteq Nat
    BY <1>3
  <2> QED
    BY <1>4, <2>1
<1> QED
  BY <1>6, <1>7 DEF LabelsAreTyped, Range, labels

\* A command as it is written.
LEMMA CommandLineType ==
    ASSUME NEW c \in Operands, NEW use \in MaybeLabel
    PROVE  CommandLine(c, use) \in Line
<1>1. /\ c.code \in Codes /\ c.reg \in Registers /\ c.src \in Registers /\ c.arg \in Int
  BY DEF Operands
<1> DEFINE item == [Blank EXCEPT !.item = "command"]
           code == [item EXCEPT !.code = c.code]
           reg == [code EXCEPT !.reg = c.reg]
           src == [reg EXCEPT !.src = c.src]
           num == [src EXCEPT !.num = c.arg]
<1>2. item \in Line
  BY BlankType, LineChanged
<1>3. CommandLine(c, use) = [num EXCEPT !.use = use]
  BY DEF CommandLine, Blank
<1> HIDE DEF item
<1>4. code \in Line
  BY <1>1, <1>2, LineChanged
<1> HIDE DEF code
<1>5. reg \in Line
  BY <1>1, <1>4, LineChanged
<1> HIDE DEF reg
<1>6. src \in Line
  BY <1>1, <1>5, LineChanged
<1> HIDE DEF src
<1>7. num \in Line
  BY <1>1, <1>6, LineChanged
<1> HIDE DEF num
<1> QED
  BY <1>3, <1>7, LineChanged

\* The lines that the disassembler writes in a program.
LEMMA DisassembledLineTypes ==
    ASSUME LabelsAreTyped(constantLabels), LabelsAreTyped(commandLabels)
    PROVE  /\ \A a : LabelLine(a) \in Seq(Line)
           /\ \A w \in Words : Known(w) => CommandString(w) \in Line
           /\ EndMain \in Line
<1>1. \A a : TryGetLabel(a) \in MaybeLabel
  BY DEF TryGetLabel, LabelsAreTyped, Range, MaybeLabel
<1>2. ASSUME NEW a
      PROVE  LabelLine(a) \in Seq(Line)
  <2> DEFINE line == [Blank EXCEPT !.label = TryGetLabel(a)]
  <2>1. line \in Line
    BY <1>1, BlankType, LineChanged
  <2>2. LabelLine(a) = <<>> \/ LabelLine(a) = <<line>>
    BY DEF LabelLine
  <2> HIDE DEF line
  <2>3. <<>> \in Seq(Line) /\ <<line>> \in Seq(Line)
    BY <2>1
  <2> QED
    BY <2>2, <2>3, Zenon
<1>3. ASSUME NEW w \in Words, Known(w)
      PROVE  CommandString(w) \in Line
  <2> DEFINE c == Meaning(w)
             label == TryGetLabel(c.arg)
             without == [c EXCEPT !.arg = 0]
  <2>1. c \in Operands
    BY <1>3, MeaningType, Zenon
  <2>2. CommandString(w) = CommandLine(without, label)
          \/ CommandString(w) = CommandLine(c, NoLabel)
    BY DEF CommandString
  <2> HIDE DEF c
  <2>3. without \in Operands
    BY <2>1 DEF Operands
  <2>4. label \in MaybeLabel /\ NoLabel \in MaybeLabel
    BY <1>1 DEF MaybeLabel
  <2> HIDE DEF without, label
  <2> QED
    BY <2>1, <2>2, <2>3, <2>4, CommandLineType
<1>4. EndMain \in Line
  <2> DEFINE line == [Blank EXCEPT !.item = "end"]
  <2>1. line \in Line
    BY BlankType, LineChanged
  <2>2. EndMain = [line EXCEPT !.use = MainLabel]
    BY DEF EndMain, Blank
  <2>3. MainLabel \in MaybeLabel
    BY LabelNamesAssumption DEF MaybeLabel
  <2> HIDE DEF line
  <2> QED
    BY <2>1, <2>2, <2>3, LineChanged
<1> QED
  BY <1>2, <1>3, <1>4
-----------------------------------------------------------------------------
(***************************************************************************)
(* Executable files, as they are written, cut and read.                    *)
(***************************************************************************)
\* Words do not outnumber their bytes.
LEMMA WordsOfBytes ==
    ASSUME NEW x \in Nat
    PROVE  x \div WordSize \in Nat /\ x \div WordSize <= x
<1> DEFINE q == x \div WordSize
           r == x % WordSize
<1>1. WordSize \in Nat /\ WordSize >= 1
  BY ExecAssumption
<1>2. q \in Int /\ r \in Nat /\ x = WordSize * q + r
  <2>1. q \in Int
    BY <1>1
  <2>2. r \in Nat
    BY <1>1
  <2>3. x = WordSize * q + r
    BY <1>1
  <2> QED
    BY <2>1, <2>2, <2>3
<1>3. q \in Nat
  BY <1>1
<1> HIDE DEF q, r
<1>4. WordSize * q >= q
  <2>1. WordSize * q = q + (WordSize - 1) * q
    BY <1>1, <1>3
  <2>2. (WordSize - 1) * q \in Nat
    <3>1. WordSize - 1 \in Nat
      BY <1>1
    <3> QED
      BY <1>3, <3>1
  <2> DEFINE y == (WordSize - 1) * q
             z == WordSize * q
  <2>3. y \in Nat /\ z = q + y
    BY <2>1, <2>2
  <2> HIDE DEF y, z
  <2>4. z >= q
    BY <1>3, <2>3
  <2> QED
    BY <2>4 DEF z
<1> DEFINE z == WordSize * q
<1>5. z \in Nat /\ z >= q /\ x = z + r
  BY <1>1, <1>2, <1>3, <1>4
<1> HIDE DEF z
<1>6. q <= x
  BY <1>2, <1>3, <1>5
<1> QED
  BY <1>3, <1>6 DEF q

\* A product is not smaller than a factor.
LEMMA Factor ==
    ASSUME NEW a \in Nat, NEW b \in Nat \ {0}
    PROVE  b * a \in Nat /\ a <= b * a
<1>1. PICK c \in Nat : c = b - 1
  OBVIOUS
<1>2. b * a = a + c * a
  BY <1>1
<1>3. PICK x \in Nat : x = c * a
  OBVIOUS
<1> QED
  BY <1>2, <1>3

\* Addresses, the size of the memory, and what is left of a division by
\* WordCount are words.
LEMMA SmallWords ==
    /\ 0 .. MemorySize \subseteq Words
    /\ MemorySize - 1 \in Words
    /\ \A x \in Nat : x % WordCount \in Words
<1>1. /\ MemorySize \in Nat \ {0} /\ WordCount \in Nat \ {0}
      /\ CodeCount \in Nat \ {0} /\ RegisterCount \in Nat \ {0}
      /\ WordCount = CodeCount * (RegisterCount * MemorySize)
  BY FieldCounts
<1>2. CodeCount >= 2
  <2> DEFINE W == 0 .. CodeBits + RegisterBits + AddressBits
  <2>1. CodeBits - 1 \in W /\ 1 \in W /\ 1 + (CodeBits - 1) = CodeBits
    BY WidthsAssumption DEF AddressBits
  <2>2. \A m, n \in W : 2 ^ m \in Nat \ {0} /\ 2 ^ (m + n) = 2 ^ m * 2 ^ n
    BY PowersAssumption
  <2> HIDE DEF W
  <2>3. /\ 2 ^ (1 + (CodeBits - 1)) = 2 ^ 1 * 2 ^ (CodeBits - 1)
        /\ 2 ^ (CodeBits - 1) \in Nat \ {0}
    BY <2>1, <2>2
  <2>4. CodeCount = 2 * 2 ^ (CodeBits - 1)
    BY <2>1, <2>3, PowersAssumption DEF CodeCount
  <2>5. PICK x \in Nat \ {0} : x = 2 ^ (CodeBits - 1)
    BY <2>3
  <2> QED
    BY <2>4, <2>5
<1>3. MemorySize < WordCount
  <2>1. PICK x \in Nat : x = RegisterCount * MemorySize
    BY <1>1
  <2>2. MemorySize <= x /\ x # 0
    BY <1>1, <2>1, Factor
  <2>3. PICK c \in Nat \ {0} : c = CodeCount - 1
    BY <1>1, <1>2
  <2>4. WordCount = x + c * x
    BY <1>1, <2>1, <2>3
  <2>5. x <= c * x /\ c * x \in Nat
    BY <2>1, Factor
  <2>6. PICK y \in Nat : y = c * x
    BY <2>5
  <2> QED
    BY <1>1, <2>1, <2>2, <2>4, <2>5, <2>6
<1> QED
  BY <1>1, <1>3 DEF Words

\* So many bytes hold at most so many words.
LEMMA WordsInBytes ==
    ASSUME NEW n \in Nat, NEW x \in Nat, x <= WordSize * n
    PROVE  x \div WordSize \in 0 .. n
<1>1. PICK w \in Nat \ {0} : w = WordSize
  BY ExecAssumption
<1>2. PICK q, r \in Nat : q = x \div w /\ r = x % w
  <2>1. x \div w \in Nat
    BY <1>1
  <2>2. x % w \in Nat
    BY <1>1
  <2> QED
    BY <2>1, <2>2
<1>3. x = w * q + r
  BY <1>1, <1>2
<1>4. ASSUME q > n
      PROVE  FALSE
  <2>1. PICK k \in Nat : q = n + 1 + k
    <3>1. q - n - 1 \in Nat
      BY <1>4
    <3> QED
      BY <3>1
  <2>2. w * q = w * n + w + w * k
    BY <2>1
  <2>3. PICK y, z \in Nat : y = w * n /\ z = w * k
    OBVIOUS
  <2>4. x <= y
    BY <1>1, <2>3
  <2> QED
    BY <1>3, <2>2, <2>3, <2>4
<1> QED
  BY <1>1, <1>2, <1>4

\* What is written for a program, all of it or a part, has the types of a file.
LEMMA CutType ==
    ASSUME NEW d \in Data, NEW b \in 0 .. WholeFile(d).bytes
    PROVE  CutAt(WholeFile(d), b) \in ExecFile
<1> DEFINE whole == WholeFile(d)
           all == d.code \o d.constants
           n == (b - HeaderSize) \div WordSize
           words == IF b < HeaderSize THEN <<>> ELSE SubSeq(all, 1, n)
           longer == [whole EXCEPT !.bytes = b]
           cut == [longer EXCEPT !.words = words]
<1>1. d.code \in Seq(Words) /\ d.constants \in Seq(Words) /\ d.entrypoint \in Words
  BY DEF Data
<1>2. all \in Seq(Words)
  BY <1>1, JoinedType
<1>3. whole = [intro |-> "ThisIsKarmaExec", codeSize |-> whole.codeSize,
               constantsSize |-> whole.constantsSize, entrypoint |-> d.entrypoint,
               initialStack |-> MemorySize - 1, processor |-> ProcessorID,
               words |-> all, bytes |-> HeaderSize + WordSize * Len(all)]
  BY DEF WholeFile, Length
<1>4. CutAt(whole, b) = cut
  BY DEF CutAt, WholeFile
<1>5. whole.codeSize \in Words /\ whole.constantsSize \in Words
  <2>1. PICK l, k \in Nat : l = Len(d.code) /\ k = Len(d.constants)
    BY SegmentSizes
  <2>2. WordSize * l \in Nat /\ WordSize * k \in Nat
    BY ExecAssumption
  <2>3. /\ whole.codeSize = (WordSize * l) % WordCount
        /\ whole.constantsSize = (WordSize * k) % WordCount
    BY <2>1 DEF WholeFile
  <2> QED
    BY <2>2, <2>3, SmallWords
<1> HIDE DEF whole, all, n
<1>6. b \in Nat /\ (b < HeaderSize \/ n \in 0 .. Len(all))
  <2>1. PICK l, h, w \in Nat : l = Len(all) /\ h = HeaderSize /\ w = WordSize * l
    BY <1>2, ExecAssumption
  <2>2. whole.bytes = h + w
    BY <1>3, <2>1
  <2>3. b \in Nat /\ b <= h + w
    BY <2>1, <2>2 DEF whole
  <2>4. CASE b < h
    BY <2>1, <2>3, <2>4
  <2>5. CASE ~(b < h)
    <3>1. PICK x \in Nat : x = b - h
      BY <2>1, <2>3, <2>5
    <3>2. x <= w
      BY <2>1, <2>3, <3>1
    <3>3. x \div WordSize \in 0 .. l
      BY <2>1, <3>2, WordsInBytes
    <3> QED
      BY <2>1, <2>3, <3>1, <3>3 DEF n
  <2> QED
    BY <2>4, <2>5
<1>7. words \in Seq(Words)
  <2>1. CASE b < HeaderSize
    BY <2>1
  <2>2. CASE ~(b < HeaderSize)
    <3>1. PICK one : one = 1
      OBVIOUS
    <3>2. one \in Nat \ {0} /\ n \in Int /\ n <= Len(all)
      BY <1>2, <1>6, <2>2, <3>1
    <3>3. SubSeq(all, one, n) \in Seq(Words)
      BY <1>2, <3>2, PartType
    <3> QED
      BY <2>2, <3>1, <3>3
  <2> QED
    BY <2>1, <2>2
<1> HIDE DEF words
<1>8. cut \in ExecFile
  <2> DEFINE made(c, k, w, size) ==
                 [intro |-> "ThisIsKarmaExec", codeSize |-> c, constantsSize |-> k,
                  entrypoint |-> d.entrypoint, initialStack |-> MemorySize - 1,
                  processor |-> ProcessorID, words |-> w, bytes |-> size]
  <2>1. PICK c, k, l : /\ c = whole.codeSize /\ k = whole.constantsSize
                       /\ l = HeaderSize + WordSize * Len(all)
    OBVIOUS
  <2>2. whole = made(c, k, all, l)
    BY <1>3, <2>1, Zenon
  <2>3. longer = made(c, k, all, b)
    BY <2>2
  <2> HIDE DEF longer
  <2>4. cut = made(c, k, words, b)
    BY <2>3
  <2> HIDE DEF cut
  <2>5. c \in Words /\ k \in Words /\ d.entrypoint \in Words
    BY <1>1, <1>5, <2>1
  <2>6. "ThisIsKarmaExec" \in Intros
    BY DEF Intros
  <2> QED
    BY <1>6, <1>7, <2>4, <2>5, <2>6, SmallWords, ExecAssumption DEF ExecFile
<1> QED
  BY <1>4, <1>8 DEF whole

\* What is read of a file has the types of a program.
LEMMA ReadDataType ==
    ASSUME NEW f \in ExecFile
    PROVE  ReadData(f) \in Data
<1> DEFINE word(i) == IF i <= Len(f.words) THEN f.words[i] ELSE 0
           code == f.codeSize \div WordSize
           constants == f.constantsSize \div WordSize
<1>1. /\ f.words \in Seq(Words) /\ f.codeSize \in Nat /\ f.constantsSize \in Nat
      /\ f.entrypoint \in Words /\ f.initialStack \in Words
  BY FieldCounts DEF ExecFile, Words
<1>2. code \in Nat /\ constants \in Nat
  BY <1>1, WordsOfBytes
<1>3. ASSUME NEW i \in Nat \ {0}
      PROVE  word(i) \in Words
  <2>1. 0 \in Words
    BY SmallWords, FieldCounts
  <2>2. PICK w \in Seq(Words) : w = f.words
    BY <1>1
  <2>3. i <= Len(w) => w[i] \in Words
    OBVIOUS
  <2> QED
    BY <2>1, <2>2, <2>3
<1>4. ReadData(f) = [entrypoint |-> f.entrypoint, initialStack |-> f.initialStack,
                     code |-> [i \in 1 .. code |-> word(i)],
                     constants |-> [i \in 1 .. constants |-> word(code + i)]]
  BY DEF ReadData
<1> HIDE DEF word, code, constants
<1>5. \A i \in 1 .. code : word(i) \in Words
  BY <1>2, <1>3
<1>6. \A i \in 1 .. constants : word(code + i) \in Words
  BY <1>2, <1>3
<1>7. [i \in 1 .. code |-> word(i)] \in Seq(Words)
  BY <1>2, <1>5
<1>8. [i \in 1 .. constants |-> word(code + i)] \in Seq(Words)
  BY <1>2, <1>6
<1> QED
  BY <1>1, <1>4, <1>7, <1>8 DEF Data
-----------------------------------------------------------------------------
(***************************************************************************)
(* What the assembler makes of the text: the order of the files, the       *)
(* places of its items and the words of its constants.                     *)
(***************************************************************************)
\* The traversal of the only file, the text, in the same way.
LEMMA OneTextVisited ==
    /\ \A e \in SUBSET {Main} :
          Assembled!visit[<<<<>>, e>>] = [order |-> <<>>, entered |-> e]
    /\ Assembled!visit[<<<<Main>>, {}>>]
          = LET below == Assembled!visit[<<<<>>, {Main}>>]
                after == Assembled!visit[<<<<>>, below.entered>>]
            IN  [order   |-> Append(below.order, Main) \o after.order,
                 entered |-> after.entered]
<1> DEFINE At == Seq({Main} \cup {"none"}) \X SUBSET {Main}
           both(below, after, f) == [order   |-> Append(below.order, f) \o after.order,
                                     entered |-> after.entered]
           beside(v, at, below) == both(below, v[<<Tail(at[1]), below.entered>>], Head(at[1]))
           within(v, at) == v[<<SourceOf(text)[Head(at[1])].includes, at[2] \cup {Head(at[1])}>>]
           entering(v, at) ==
               IF at[1] = <<>> THEN [order |-> <<>>, entered |-> at[2]]
               ELSE IF Head(at[1]) \in at[2] \cup {"none"} THEN v[<<Tail(at[1]), at[2]>>]
               ELSE beside(v, at, within(v, at))
           IsVisit(v) == v = [at \in At |-> entering(v, at)]
           New(s, e) == Main \notin e /\ \E i \in 1 .. Len(s) : s[i] = Main
           closed(s, e) == IF New(s, e) THEN [order |-> <<Main>>, entered |-> {Main}]
                                        ELSE [order |-> <<>>, entered |-> e]
           all == [at \in At |-> closed(at[1], at[2])]
<1>1. Assembled!visit = CHOOSE v : IsVisit(v)
  BY Zenon DEF Assembled!visit
<1>2. \A f : f \in {Main} => SourceOf(text)[f].includes = <<>>
  BY DEF SourceOf
<1>3. \A s \in Seq({Main} \cup {"none"}), e \in SUBSET {Main} :
         <<s, e>> \in At /\ all[<<s, e>>] = closed(s, e)
  <2> HIDE DEF closed
  <2> QED
    OBVIOUS
<1>4. ASSUME NEW s \in Seq({Main} \cup {"none"}), NEW e \in SUBSET {Main}
      PROVE  entering(all, <<s, e>>) = closed(s, e)
  <2>1. CASE s = <<>>
    BY <2>1
  <2>2. CASE s # <<>> /\ Head(s) \in e \cup {"none"}
    <3>1. Tail(s) \in Seq({Main} \cup {"none"}) /\ Len(s) >= 1
      BY <2>2
    <3>2. entering(all, <<s, e>>) = closed(Tail(s), e)
      <4>1. entering(all, <<s, e>>) = all[<<Tail(s), e>>]
        BY <2>2
      <4> QED
        BY <1>3, <3>1, <4>1
    <3>3. New(Tail(s), e) <=> New(s, e)
      <4>1. Main # "none"
        BY DEF Main
      <4>2. Len(Tail(s)) = Len(s) - 1 /\ \A i \in 1 .. Len(s) - 1 : Tail(s)[i] = s[i + 1]
        BY <2>2
      <4>3. Head(s) = s[1]
        OBVIOUS
      <4>4. ASSUME New(s, e) PROVE New(Tail(s), e)
        <5>1. PICK i \in 1 .. Len(s) : s[i] = Main
          BY <4>4
        <5>2. i # 1
          BY <2>2, <4>1, <4>3, <4>4, <5>1
        <5>3. i - 1 \in 1 .. Len(s) - 1 /\ Tail(s)[i - 1] = Main
          BY <3>1, <4>2, <5>1, <5>2
        <5> QED
          BY <4>2, <4>4, <5>3
      <4>5. ASSUME New(Tail(s), e) PROVE New(s, e)
        <5>1. PICK i \in 1 .. Len(s) - 1 : s[i + 1] = Main
          BY <4>2, <4>5
        <5>2. i + 1 \in 1 .. Len(s)
          BY <3>1, <5>1
        <5> QED
          BY <4>5, <5>1, <5>2
      <4> QED
        BY <4>4, <4>5
    <3> QED
      BY <3>2, <3>3
  <2>3. CASE s # <<>> /\ Head(s) \notin e \cup {"none"}
    <3>1. /\ Tail(s) \in Seq({Main} \cup {"none"}) /\ Len(s) >= 1
          /\ Head(s) = Main /\ s[1] = Main /\ e = {}
      BY <2>3
    <3>2. within(all, <<s, e>>) = [order |-> <<>>, entered |-> {Main}]
      <4>1. within(all, <<s, e>>) = all[<<<<>>, {Main}>>]
        BY <1>2, <3>1
      <4>2. all[<<<<>>, {Main}>>] = closed(<<>>, {Main})
        <5> HIDE DEF all, closed
        <5>1. <<>> \in Seq({Main} \cup {"none"}) /\ {Main} \in SUBSET {Main}
          OBVIOUS
        <5> QED
          BY <1>3, <5>1
      <4> QED
        BY <4>1, <4>2
    <3>3. all[<<Tail(s), {Main}>>] = [order |-> <<>>, entered |-> {Main}]
      <4>1. all[<<Tail(s), {Main}>>] = closed(Tail(s), {Main})
        BY <1>3, <3>1
      <4> QED
        BY <4>1
    <3> HIDE DEF all
    <3>4. beside(all, <<s, e>>, within(all, <<s, e>>))
            = [order |-> <<Main>>, entered |-> {Main}]
      <4> HIDE DEF within
      <4>1. beside(all, <<s, e>>, within(all, <<s, e>>))
              = both([order |-> <<>>, entered |-> {Main}],
                     [order |-> <<>>, entered |-> {Main}], Main)
        <5>1. <<s, e>>[1] = s /\ [order |-> <<>>, entered |-> {Main}].entered = {Main}
          OBVIOUS
        <5> HIDE DEF both
        <5> QED
          BY <3>1, <3>2, <3>3, <5>1, Zenon
      <4> QED
        BY <4>1
    <3>5. New(s, e)
      BY <3>1
    <3>6. entering(all, <<s, e>>) = beside(all, <<s, e>>, within(all, <<s, e>>))
      <4> HIDE DEF beside, within
      <4> QED
        BY <2>3
    <3> HIDE DEF New, beside, within, entering
    <3> QED
      BY <3>4, <3>5, <3>6
  <2> QED
    BY <2>1, <2>2, <2>3
<1>5. IsVisit(all)
  <2> HIDE DEF entering, closed
  <2>1. \A at \in At : at = <<at[1], at[2]>>
    OBVIOUS
  <2>2. \A at \in At : entering(all, at) = closed(at[1], at[2])
    <3> HIDE DEF all
    <3> QED
      BY <1>4, <2>1
  <2>3. [at \in At |-> entering(all, at)] = [at \in At |-> closed(at[1], at[2])]
    <3> HIDE DEF At, all
    <3> QED
      BY <2>2, Zenon
  <2> QED
    BY <2>3
<1>6. IsVisit(Assembled!visit)
  <2> HIDE DEF IsVisit
  <2> QED
    BY <1>1, <1>5, Zenon
<1>7. \A at \in At : Assembled!visit[at] = entering(Assembled!visit, at)
  <2> HIDE DEF entering, At
  <2> QED
    BY <1>6
<1>8. \A e \in SUBSET {Main} :
         /\ <<<<>>, e>> \in At
         /\ entering(Assembled!visit, <<<<>>, e>>) = [order |-> <<>>, entered |-> e]
  <2>1. \A e \in SUBSET {Main} : <<<<>>, e>> \in At
    <3>1. <<>> \in Seq({Main} \cup {"none"})
      OBVIOUS
    <3>2. \A S, T, x : x \in S => \A y \in T : <<x, y>> \in S \X T
      OBVIOUS
    <3> QED
      BY <3>1, <3>2, Zenon
  <2> HIDE DEF At, beside, within
  <2>2. \A e : entering(Assembled!visit, <<<<>>, e>>) = [order |-> <<>>, entered |-> e]
    OBVIOUS
  <2> QED
    BY <2>1, <2>2, Zenon
<1>9. <<<<Main>>, {}>> \in At
  OBVIOUS
<1>10. entering(Assembled!visit, <<<<Main>>, {}>>)
         = beside(Assembled!visit, <<<<Main>>, {}>>, Assembled!visit[<<<<>>, {Main}>>])
  <2>1. Head(<<Main>>) = Main /\ Main \notin {} \cup {"none"} /\ <<Main>> # <<>>
    BY DEF Main
  <2>2. within(Assembled!visit, <<<<Main>>, {}>>) = Assembled!visit[<<<<>>, {Main}>>]
    BY <1>2, <2>1
  <2> HIDE DEF beside, within
  <2> QED
    BY <2>1, <2>2
<1>11. \A below : beside(Assembled!visit, <<<<Main>>, {}>>, below)
                     = both(below, Assembled!visit[<<<<>>, below.entered>>], Main)
  <2> HIDE DEF both
  <2>1. Head(<<Main>>) = Main /\ Tail(<<Main>>) = <<>>
    OBVIOUS
  <2> QED
    BY <2>1
<1> HIDE DEF At, entering, beside
<1> QED
  BY <1>7, <1>8, <1>9, <1>10, <1>11

\* The only file is all there is to go through.
LEMMA OneTextOrder == Assembled!Order = <<Main>>
<1>1. Assembled!visit[<<<<>>, {Main}>>] = [order |-> <<>>, entered |-> {Main}]
  BY OneTextVisited
<1>2. Assembled!visit[<<<<Main>>, {}>>] = [order |-> <<Main>>, entered |-> {Main}]
  <2> DEFINE below == Assembled!visit[<<<<>>, {Main}>>]
             after == Assembled!visit[<<<<>>, below.entered>>]
  <2>1. below.entered = {Main} /\ below.order = <<>>
    BY <1>1
  <2>2. after.entered = {Main} /\ after.order = <<>>
    BY <1>1, <2>1
  <2>3. Assembled!visit[<<<<Main>>, {}>>]
          = [order |-> Append(below.order, Main) \o after.order, entered |-> after.entered]
    BY OneTextVisited, Zenon
  <2> HIDE DEF below, after
  <2> QED
    BY <2>1, <2>2, <2>3
<1>3. Assembled!Order = Assembled!visit[<<<<Main>>, {}>>].order
  BY Zenon DEF Assembled!Order
<1>4. [order |-> <<Main>>, entered |-> {Main}].order = <<Main>>
  OBVIOUS
<1> QED
  BY <1>2, <1>3, <1>4, Zenon

\* Flattening a single sequence.
LEMMA FlattenOneText ==
    ASSUME NEW s
    PROVE  Assembled!FlattenSeq(<<s>>) = s
<1> DEFINE one == <<s>>
           joined(f, i) == f[i - 1] \o one[i]
           IsFlat(f) == f = [i \in 1 .. Len(one) |-> IF i = 1 THEN one[i] ELSE joined(f, i)]
<1>1. Len(one) = 1 /\ Len(one) # 0 /\ one[1] = s
  OBVIOUS
<1> HIDE DEF one
<1>2. Assembled!FlattenSeq(one) = (CHOOSE f : IsFlat(f))[1]
  BY <1>1, Zenon DEF Assembled!FlattenSeq
<1> HIDE DEF joined
<1>3. \A f : IsFlat(f) <=> f = [i \in {1} |-> s]
  <2>1. 1 .. Len(one) = {1}
    BY <1>1
  <2> QED
    BY <1>1, <2>1
<1>4. IsFlat(CHOOSE f : IsFlat(f))
  <2>1. \E f : IsFlat(f)
    BY <1>3
  <2> HIDE DEF IsFlat
  <2> QED
    BY <2>1, Zenon
<1>5. (CHOOSE f : IsFlat(f))[1] = s
  BY <1>3, <1>4
<1> QED
  BY <1>2, <1>5 DEF one

\* The places of the items of a kind are the ones in the only file.
LEMMA AssembledPlaces ==
    ASSUME NEW kind
    PROVE  LET lines == SourceOf(text)[Main].lines
           IN  Assembled!Places(kind) = MainPlaces(lines, kind)[Len(lines)]
<1> DEFINE lines == SourceOf(text)[Main].lines
           kept == MainPlaces(lines, kind)[Len(lines)]
<1>1. Assembled!PlacesIn(Main, kind) = MainPlaces(lines, kind)
  BY Zenon DEF Assembled!PlacesIn, MainPlaces
<1> HIDE DEF lines
<1>2. DOMAIN <<Main>> = {1} /\ <<Main>>[1] = Main
  OBVIOUS
<1>3. [i \in {1} |-> kept] = <<kept>>
  OBVIOUS
<1>4. Assembled!Places(kind) = Assembled!FlattenSeq([i \in {1} |-> kept])
  <2>1. Assembled!Places(kind)
          = Assembled!FlattenSeq(
                [i \in DOMAIN <<Main>> |->
                    Assembled!PlacesIn(<<Main>>[i], kind)[
                        Len(SourceOf(text)[<<Main>>[i]].lines)]])
    BY OneTextOrder, Zenon DEF Assembled!Places
  <2>2. \A i \in DOMAIN <<Main>> :
            Assembled!PlacesIn(<<Main>>[i], kind)[Len(SourceOf(text)[<<Main>>[i]].lines)]
              = kept
    BY <1>1, <1>2, Zenon DEF lines
  <2> QED
    BY <1>2, <2>1, <2>2, Zenon
<1> QED
  BY <1>3, <1>4, FlattenOneText, Zenon DEF lines

\* Where the text holds items of a kind, on lines that are right.
PlacesOf(kind) ==
    {p \in {Main} \X (DOMAIN text) :
        /\ text[p[2]].item = kind /\ LineIsValid(text[p[2]])
        /\ Assembled!LineAt(p) = Parsed(text[p[2]])}

\* The assembler finds the items there.
LEMMA TextPlaces ==
    ASSUME text \in Seq(Line), NEW kind \in {"command", "constant", "end"}
    PROVE  Assembled!Places(kind) \in Seq(PlacesOf(kind))
<1> DEFINE lines == SourceOf(text)[Main].lines
<1>1. lines = [n \in DOMAIN text |-> Parsed(text[n])]
  BY DEF SourceOf
<1>2. Len(lines) \in Nat /\ DOMAIN text = 1 .. Len(lines)
  BY <1>1
<1>3. ASSUME NEW p \in Held(lines, kind)
      PROVE  p \in PlacesOf(kind)
  <2>1. PICK n \in 1 .. Len(lines) : p = <<Main, n>> /\ lines[n].item = kind
    BY <1>3, Zenon DEF Held
  <2>2. n \in DOMAIN text /\ Parsed(text[n]).item = kind
    BY <1>1, <1>2, <2>1
  <2>3. LineIsValid(text[n]) /\ text[n].item = kind
    BY <2>2 DEF Parsed
  <2>4. Assembled!LineAt(p) = Parsed(text[n])
    <3>1. p[1] = Main /\ p[2] = n
      BY <2>1
    <3>2. Assembled!LineAt(p) = SourceOf(text)[p[1]].lines[p[2]]
      BY Zenon DEF Assembled!LineAt
    <3>3. Assembled!LineAt(p) = lines[n]
      BY <3>1, <3>2, Zenon
    <3> QED
      BY <1>1, <2>2, <3>3
  <2> QED
    BY <2>1, <2>2, <2>3, <2>4 DEF PlacesOf
<1> HIDE DEF lines
<1>4. Assembled!Places(kind) = MainPlaces(lines, kind)[Len(lines)]
  BY AssembledPlaces, Zenon DEF lines
<1>5. Len(lines) \in 0 .. Len(lines)
  BY <1>2
<1>6. Assembled!Places(kind) \in Seq(Held(lines, kind))
  BY <1>2, <1>4, <1>5, MainPlacesHold, Zenon
<1> DEFINE places == Assembled!Places(kind)
           held == Held(lines, kind)
           all == PlacesOf(kind)
<1>7. held \subseteq all /\ places \in Seq(held)
  BY <1>3, <1>6
<1> HIDE DEF places, held, all
<1>8. places \in Seq(all)
  BY <1>7
<1> QED
  BY <1>8 DEF places, all

\* A pair and one more are three.
LEMMA PairAndOne ==
    ASSUME NEW a, NEW b, NEW k
    PROVE  Append(<<a, b>>, k) = <<a, b, k>>
<1> DEFINE s == <<a, b>>
           t == <<a, b, k>>
           S == {a, b, k}
<1>1. /\ s \in Seq(S) /\ t \in Seq(S) /\ Len(s) = 2 /\ Len(t) = 3 /\ s[1] = a /\ s[2] = b
      /\ t[1] = a /\ t[2] = b /\ t[3] = k /\ k \in S
  OBVIOUS
<1> HIDE DEF s, t, S
<1>2. PICK u : u = Append(s, k)
  OBVIOUS
<1>3. u \in Seq(S) /\ Len(u) = Len(s) + 1
  BY <1>1, <1>2
<1>4. u[Len(s) + 1] = k
  <2>1. \A r \in Seq(S) : \A e \in S : Append(r, e)[Len(r) + 1] = e
    OBVIOUS
  <2> QED
    BY <1>1, <1>2, <2>1, Zenon
<1>5. \A i \in 1 .. Len(s) : u[i] = s[i]
  BY <1>1, <1>2
<1>6. Len(u) = 3 /\ u[3] = k /\ u[1] = a /\ u[2] = b
  BY <1>1, <1>3, <1>4, <1>5
<1>7. u = t
  BY <1>1, <1>3, <1>6
<1> QED
  BY <1>2, <1>7 DEF s, t

\* What a place is.
LEMMA PlaceIs ==
    ASSUME text \in Seq(Line), NEW kind, NEW p \in PlacesOf(kind)
    PROVE  \E n \in DOMAIN text :
              /\ p = <<Main, n>> /\ p[2] = n
              /\ text[n] \in Line /\ text[n].item = kind /\ LineIsValid(text[n])
              /\ Assembled!LineAt(p) = Parsed(text[n])
              /\ \A k : Append(p, k) = <<Main, n, k>>
<1>1. /\ p \in {Main} \X (DOMAIN text)
      /\ text[p[2]].item = kind /\ LineIsValid(text[p[2]])
      /\ Assembled!LineAt(p) = Parsed(text[p[2]])
  BY DEF PlacesOf
<1>2. p = <<Main, p[2]>> /\ p[2] \in DOMAIN text
  BY <1>1
<1>3. PICK n \in DOMAIN text : n = p[2]
  BY <1>2
<1>4. p = <<Main, n>>
  BY <1>2, <1>3
<1>5. \A k : Append(p, k) = <<Main, n, k>>
  BY <1>4, PairAndOne
<1>6. text[n] \in Line
  BY <1>3
<1>7. Assembled!LineAt(p) = Parsed(text[n]) /\ text[n].item = kind /\ LineIsValid(text[n])
  BY <1>1, <1>3
<1> QED
  BY <1>3, <1>4, <1>5, <1>6, <1>7, Zenon

\* What the assembler sees of a line that is right.
LEMMA ParsedLine ==
    ASSUME NEW line, LineIsValid(line)
    PROVE  /\ Parsed(line).item = line.item /\ Parsed(line).use = line.use
           /\ line.item = "constant" => Parsed(line).arg = Len(ValueWords(line))
           /\ line.item = "end" => Parsed(line).arg = line.num
           /\ line.item = "command" =>
                 Parsed(line).arg = IF line.code \in UsesAddress THEN line.num ELSE 0
BY DEF Parsed

\* the words of the constants of the text, by origin
ConstantWords ==
    {<<Main, x[1], x[2]>> :
        x \in {y \in (DOMAIN text) \X Nat : /\ text[y[1]].item = "constant"
                                          /\ LineIsValid(text[y[1]])
                                          /\ y[2] <= Len(ValueWords(text[y[1]]))}}

\* The value of a constant on a line that is right takes a word at least.
LEMMA ValueSizes ==
    ASSUME NEW line \in Line, LineIsValid(line), line.item = "constant"
    PROVE  Len(ValueWords(line)) \in Nat \ {0}
<1>1. ValueWords(line) \in Seq(Words)
  BY ValueWordsType DEF Line
<1> DEFINE chars == Unescape(Inside(Written(line)))
           words == [i \in DOMAIN chars |-> CharToWord(chars[i], WordCount)]
<1>2. ConstantIsValid(line)
  BY DEF LineIsValid
<1>3. line.type \in {0, 1, 2, 3, 4}
  BY DEF Line, Types, Uint32Type, StringType
<1> USE DEF Uint32Type, Uint64Type, DoubleType, CharType, StringType
<1>4. CASE line.type = 0
  <2>1. PICK n : n = line.num % WordCount
    OBVIOUS
  <2>2. ValueWords(line) = <<n>>
    BY <1>4, <2>1 DEF ValueWords
  <2> QED
    BY <2>2
<1>5. CASE line.type \in {1, 2}
  <2>1. PICK n : n = line.num % WordCount ^ 2
    OBVIOUS
  <2>2. PICK a, b : a = n % WordCount /\ b = n \div WordCount
    OBVIOUS
  <2>3. ValueWords(line) = Split(n)
    <3>1. line.type = 1 \/ line.type = 2
      BY <1>5
    <3> QED
      BY <2>1, <3>1 DEF ValueWords
  <2>4. ValueWords(line) = <<a, b>>
    BY <2>2, <2>3, Zenon DEF Split
  <2> QED
    BY <2>4
<1>6. CASE line.type = 3
  <2>1. Len(chars) = 1
    BY <1>2, <1>6 DEF ConstantIsValid
  <2>2. ValueWords(line) = words
    BY <1>6 DEF ValueWords
  <2>3. Written(line) \in Seq(Chars)
    BY WrittenType DEF Line
  <2>4. Inside(Written(line)) \in Seq(Chars)
    BY <2>3, InsideType
  <2>5. chars \in Seq(Chars)
    BY <2>4, UnescapeType
  <2> HIDE DEF chars
  <2>6. Len(words) = 1
    BY <2>1, <2>5
  <2> QED
    BY <2>2, <2>6
<1>7. CASE line.type = 4
  <2>1. ValueWords(line) = Append(words, StringEnd)
    BY <1>7 DEF ValueWords
  <2>2. Written(line) \in Seq(Chars)
    BY WrittenType DEF Line
  <2>3. Inside(Written(line)) \in Seq(Chars)
    BY <2>2, InsideType
  <2>4. chars \in Seq(Chars)
    BY <2>3, UnescapeType
  <2> HIDE DEF chars
  <2>5. words \in Seq(Words)
    BY <2>4, CharWords
  <2> HIDE DEF words
  <2>6. PICK s, e : s = words /\ e = StringEnd
    OBVIOUS
  <2>7. Len(Append(s, e)) = Len(s) + 1 /\ Len(s) \in Nat
    BY <2>5, <2>6
  <2> QED
    BY <2>1, <2>6, <2>7
<1> QED
  BY <1>3, <1>4, <1>5, <1>6, <1>7

\* The words of the constants are laid one after another, all of them.
LEMMA ConstantsLaid ==
    ASSUME text \in Seq(Line)
    PROVE  /\ Assembled!ConstantsLayout \in Seq(ConstantWords)
           /\ \A i \in DOMAIN Assembled!Places("constant") :
                 LET p == Assembled!Places("constant")[i]
                 IN  \A k \in 0 .. Len(ValueWords(text[p[2]])) :
                        \E j \in DOMAIN Assembled!ConstantsLayout :
                            Assembled!ConstantsLayout[j] = Append(p, k)
<1> DEFINE places == Assembled!Places("constant")
           size(p) == Assembled!LineAt(p).arg
           words(p) == [k \in 1 .. size(p) + 1 |-> Append(p, k - 1)]
           parts == [i \in DOMAIN places |-> words(places[i])]
           all == PlacesOf("constant")
           W == ConstantWords
<1>1. places \in Seq(all)
  BY TextPlaces
<1>2. Assembled!ConstantsLayout = FlattenSeq(parts)
  BY Zenon DEF Assembled!ConstantsLayout, Assembled!FlattenSeq, FlattenSeq
<1>3. ASSUME NEW p \in all
      PROVE  \E n \in DOMAIN text :
                /\ p[2] = n /\ text[n].item = "constant" /\ LineIsValid(text[n])
                /\ size(p) = Len(ValueWords(text[n])) /\ size(p) \in Nat
                /\ \A k : Append(p, k) = <<Main, n, k>>
  <2>1. PICK n \in DOMAIN text :
              /\ p = <<Main, n>> /\ p[2] = n
              /\ text[n] \in Line /\ text[n].item = "constant" /\ LineIsValid(text[n])
              /\ Assembled!LineAt(p) = Parsed(text[n])
              /\ \A k : Append(p, k) = <<Main, n, k>>
    BY <1>3, PlaceIs, Zenon
  <2>2. Len(ValueWords(text[n])) \in Nat
    BY <2>1, ValueSizes
  <2>3. size(p) = Len(ValueWords(text[n]))
    BY <2>1, ParsedLine
  <2> QED
    BY <2>1, <2>2, <2>3
<1> HIDE DEF all, size
<1>4. ASSUME NEW p \in all
      PROVE  words(p) \in Seq(W)
  <2>1. PICK n \in DOMAIN text :
                /\ text[n].item = "constant" /\ LineIsValid(text[n])
                /\ size(p) = Len(ValueWords(text[n])) /\ size(p) \in Nat
                /\ \A k : Append(p, k) = <<Main, n, k>>
    BY <1>3
  <2>2. PICK s \in Nat : s = size(p)
    BY <2>1
  <2>3. ASSUME NEW k \in 1 .. s + 1
        PROVE  Append(p, k - 1) \in W
    <3>1. PICK m \in Nat : m = k - 1 /\ m <= s
      OBVIOUS
    <3>2. PICK y \in (DOMAIN text) \X Nat : y[1] = n /\ y[2] = m
      <4>1. <<n, m>> \in (DOMAIN text) \X Nat /\ <<n, m>>[1] = n /\ <<n, m>>[2] = m
        OBVIOUS
      <4> QED
        BY <4>1
    <3>3. text[n].item = "constant" /\ LineIsValid(text[n]) /\ m <= Len(ValueWords(text[n]))
      BY <2>1, <2>2, <3>1
    <3>4. <<Main, n, m>> \in W
      BY <3>2, <3>3 DEF ConstantWords
    <3>5. Append(p, k - 1) = <<Main, n, m>>
      BY <2>1, <3>1, Zenon
    <3> QED
      BY <3>4, <3>5
  <2>4. s + 1 \in Nat /\ words(p) = [k \in 1 .. s + 1 |-> Append(p, k - 1)]
    BY <2>2
  <2> DEFINE word(k) == Append(p, k - 1)
  <2> HIDE DEF words, W
  <2>5. [k \in 1 .. s + 1 |-> word(k)] \in Seq(W)
    <3>1. PICK t \in Nat : t = s + 1
      BY <2>4
    <3>2. \A k \in 1 .. t : word(k) \in W
      BY <2>3, <3>1
    <3> HIDE DEF word
    <3>3. [k \in 1 .. t |-> word(k)] \in Seq(W)
      BY <3>2
    <3> QED
      BY <3>1, <3>3
  <2> QED
    BY <2>4, <2>5
<1> HIDE DEF W, words
<1>5. parts \in Seq(Seq(W))
  <2>1. PICK l \in Nat : DOMAIN places = 1 .. l
    BY <1>1
  <2> DEFINE part(i) == words(places[i])
  <2>2. \A i \in 1 .. l : part(i) \in Seq(W)
    BY <1>1, <1>4, <2>1
  <2> DEFINE V == Seq(W)
  <2>3. \A i \in 1 .. l : part(i) \in V
    BY <2>2
  <2> HIDE DEF part, V
  <2>4. [i \in 1 .. l |-> part(i)] \in Seq(V)
    BY <2>3
  <2> QED
    BY <2>1, <2>4 DEF part, V
<1>6. /\ FlattenSeq(parts) \in Seq(W)
      /\ \A i \in DOMAIN parts : \A k \in DOMAIN parts[i] :
            \E j \in DOMAIN FlattenSeq(parts) : FlattenSeq(parts)[j] = parts[i][k]
  <2> HIDE DEF parts
  <2> QED
    BY <1>5, FlattenType
<1>7. ASSUME NEW i \in DOMAIN places, NEW k \in 0 .. Len(ValueWords(text[places[i][2]]))
      PROVE  \E j \in DOMAIN FlattenSeq(parts) : FlattenSeq(parts)[j] = Append(places[i], k)
  <2>1. PICK p \in all : p = places[i]
    BY <1>1
  <2>2. PICK s \in Nat : s = size(p) /\ s = Len(ValueWords(text[p[2]]))
    BY <1>3
  <2>3. PICK m \in 1 .. s + 1 : k = m - 1
    <3>1. k \in 0 .. s
      BY <1>3, <2>1, <2>2
    <3>2. k + 1 \in 1 .. s + 1 /\ k = (k + 1) - 1
      BY <3>1
    <3> QED
      BY <3>2
  <2>4. words(p) = [x \in 1 .. s + 1 |-> Append(p, x - 1)]
    BY <2>2 DEF words
  <2>5. m \in DOMAIN words(p) /\ words(p)[m] = Append(p, k)
    BY <2>3, <2>4
  <2>6. i \in DOMAIN parts /\ parts[i] = words(p)
    BY <2>1
  <2> HIDE DEF parts
  <2>7. m \in DOMAIN parts[i] /\ parts[i][m] = Append(places[i], k)
    BY <2>1, <2>5, <2>6, Zenon
  <2>8. \E j \in DOMAIN FlattenSeq(parts) : FlattenSeq(parts)[j] = parts[i][m]
    BY <1>6, <2>6, <2>7, Zenon
  <2> QED
    BY <2>7, <2>8, Zenon
<1> HIDE DEF parts
<1> QED
  BY <1>2, <1>6, <1>7, Zenon DEF W, places
-----------------------------------------------------------------------------
(***************************************************************************)
(* The addresses of labels and the words of a program that fits the        *)
(* memory.                                                                 *)
(***************************************************************************)
\* The words of the code, by origin, are one for each command.
LEMMA LayoutType ==
    ASSUME text \in Seq(Line)
    PROVE  LET places == Assembled!Places("command")
               T == {Append(p, 0) : p \in PlacesOf("command")} \cup ConstantWords
           IN  /\ Assembled!CodeLayout \in Seq(T)
               /\ Assembled!ConstantsLayout \in Seq(T)
               /\ Len(Assembled!CodeLayout) = Len(places)
               /\ \A i \in DOMAIN places :
                     /\ i \in DOMAIN Assembled!CodeLayout
                     /\ Assembled!CodeLayout[i] = Append(places[i], 0)
<1> DEFINE all == PlacesOf("command")
           T == {Append(p, 0) : p \in all} \cup ConstantWords
           places == Assembled!Places("command")
<1>1. places \in Seq(all)
  BY TextPlaces
<1>2. Assembled!ConstantsLayout \in Seq(T)
  <2>1. PICK s : s = Assembled!ConstantsLayout
    OBVIOUS
  <2> DEFINE W == ConstantWords
  <2>2. s \in Seq(W) /\ W \subseteq T
    BY <2>1, ConstantsLaid
  <2> HIDE DEF W, T
  <2> QED
    BY <2>1, <2>2
<1>3. Assembled!CodeLayout = [i \in DOMAIN places |-> Append(places[i], 0)]
  BY Zenon DEF Assembled!CodeLayout
<1> HIDE DEF places
<1>4. PICK s \in Seq(all) : s = places
  BY <1>1
<1> DEFINE f(p) == Append(p, 0)
<1>5. \A p \in all : f(p) \in T
  OBVIOUS
<1> HIDE DEF all, T, f
<1>6. PICK n \in Nat : DOMAIN s = 1 .. n /\ Len(s) = n
  OBVIOUS
<1> DEFINE g(i) == f(s[i])
<1>7. \A i \in 1 .. n : g(i) \in T
  BY <1>5, <1>6
<1>8. Assembled!CodeLayout = [i \in 1 .. n |-> g(i)]
  BY <1>3, <1>4, <1>6 DEF f
<1> HIDE DEF g
<1>9. [i \in 1 .. n |-> g(i)] \in Seq(T) /\ Len([i \in 1 .. n |-> g(i)]) = n
  BY <1>7
<1>10. \A i \in DOMAIN places :
          i \in DOMAIN Assembled!CodeLayout /\ Assembled!CodeLayout[i] = Append(places[i], 0)
  BY <1>4, <1>6, <1>8 DEF g, f
<1> QED
  BY <1>2, <1>4, <1>6, <1>8, <1>9, <1>10 DEF places, T, all

\* A label that is defined is the address of a word of the program.
LEMMA LabelAddressed ==
    ASSUME text \in Seq(Line), NEW l, Assembled!Defined(l) # {}
    PROVE  \E n \in Nat :
              /\ n = Len(Assembled!Places("command")) + Len(Assembled!ConstantsLayout)
              /\ Assembled!LabelAddress(l) \in 0 .. n - 1
<1> DEFINE T == {Append(p, 0) : p \in PlacesOf("command")} \cup ConstantWords
           IsPlace(p) == p \in Assembled!Defined(l)
           wordOf(p) == IF Assembled!LineAt(p).item = "command" THEN 0 ELSE 1
           layout == Assembled!Layout
           IsWord(i, p) == i \in DOMAIN layout /\ layout[i] = Append(p, wordOf(p))
           place == CHOOSE p : IsPlace(p)
<1>1. Assembled!LabelAddress(l) = (CHOOSE i : IsWord(i, place)) - 1
  BY Zenon DEF Assembled!LabelAddress
<1>2. PICK code, constants : code = Assembled!CodeLayout /\ constants = Assembled!ConstantsLayout
  OBVIOUS
<1>3. layout = code \o constants
  BY <1>2 DEF Assembled!Layout
<1>4. code \in Seq(T) /\ constants \in Seq(T) /\ Len(code) = Len(Assembled!Places("command"))
  BY <1>2, LayoutType
<1>5. layout \in Seq(T) /\ Len(layout) = Len(code) + Len(constants)
  <2>1. code \in Seq(T) /\ constants \in Seq(T)
    BY <1>4
  <2> HIDE DEF T, layout
  <2>2. \A s, t \in Seq(T) : s \o t \in Seq(T) /\ Len(s \o t) = Len(s) + Len(t)
    OBVIOUS
  <2> QED
    BY <1>3, <2>1, <2>2, Zenon
<1>6. IsPlace(place)
  <2>1. \E p : IsPlace(p)
    OBVIOUS
  <2> HIDE DEF IsPlace
  <2> QED
    BY <2>1, Zenon
<1>7. PICK p : p = place /\ p \in Assembled!Defined(l)
  BY <1>6
<1>8. \/ \E i \in DOMAIN Assembled!Places("command") : Assembled!Places("command")[i] = p
      \/ \E i \in DOMAIN Assembled!Places("constant") : Assembled!Places("constant")[i] = p
  <2>1. p \in Assembled!ToSet(Assembled!Places("command"))
               \cup Assembled!ToSet(Assembled!Places("constant"))
    BY <1>7, Zenon DEF Assembled!Defined
  <2> QED
    BY <2>1, Zenon DEF Assembled!ToSet
<1>9. ASSUME \E i \in DOMAIN Assembled!Places("command") : Assembled!Places("command")[i] = p
      PROVE  \E i : IsWord(i, p)
  <2>1. PICK i : i \in DOMAIN Assembled!Places("command") /\ Assembled!Places("command")[i] = p
    BY <1>9
  <2>2. Assembled!Places("command") \in Seq(PlacesOf("command"))
    BY TextPlaces
  <2>3. p \in PlacesOf("command")
    BY <2>1, <2>2
  <2>4. PICK n \in DOMAIN text :
              /\ p = <<Main, n>> /\ p[2] = n
              /\ text[n] \in Line /\ text[n].item = "command" /\ LineIsValid(text[n])
              /\ Assembled!LineAt(p) = Parsed(text[n])
              /\ \A k : Append(p, k) = <<Main, n, k>>
    BY <2>3, PlaceIs, Zenon
  <2>5. wordOf(p) = 0
    BY <2>4, ParsedLine
  <2>6. i \in DOMAIN code /\ code[i] = Append(p, 0)
    BY <1>2, <2>1, LayoutType
  <2>7. i \in DOMAIN layout /\ layout[i] = code[i]
    <3> HIDE DEF T, layout
    <3> QED
      BY <1>3, <1>4, <2>6, JoinedLeft
  <2> HIDE DEF layout, wordOf
  <2>8. IsWord(i, p)
    BY <2>5, <2>6, <2>7
  <2> QED
    BY <2>8
<1>10. ASSUME \E i \in DOMAIN Assembled!Places("constant") : Assembled!Places("constant")[i] = p
       PROVE  \E i : IsWord(i, p)
  <2>1. PICK i : i \in DOMAIN Assembled!Places("constant") /\ Assembled!Places("constant")[i] = p
    BY <1>10
  <2>2. Assembled!Places("constant") \in Seq(PlacesOf("constant"))
    BY TextPlaces
  <2>3. p \in PlacesOf("constant")
    BY <2>1, <2>2
  <2>4. PICK n \in DOMAIN text :
              /\ p = <<Main, n>> /\ p[2] = n
              /\ text[n] \in Line /\ text[n].item = "constant" /\ LineIsValid(text[n])
              /\ Assembled!LineAt(p) = Parsed(text[n])
              /\ \A k : Append(p, k) = <<Main, n, k>>
    BY <2>3, PlaceIs, Zenon
  <2>5. wordOf(p) = 1
    BY <2>4, ParsedLine
  <2>6. Len(ValueWords(text[p[2]])) \in Nat \ {0}
    BY <2>4, ValueSizes
  <2>7. PICK s \in Nat \ {0} : s = Len(ValueWords(text[p[2]]))
    BY <2>6
  <2>8. 1 \in 0 .. s
    BY <2>7
  <2>9. \E j \in DOMAIN constants : constants[j] = Append(p, 1)
    BY <1>2, <2>1, <2>7, <2>8, ConstantsLaid, Zenon
  <2>10. PICK j \in DOMAIN constants : constants[j] = Append(p, 1)
    BY <2>9
  <2>11. Len(code) + j \in DOMAIN layout /\ layout[Len(code) + j] = constants[j]
    <3> HIDE DEF T, layout
    <3> QED
      BY <1>3, <1>4, <2>10, JoinedRight
  <2> HIDE DEF layout, wordOf
  <2>12. IsWord(Len(code) + j, p)
    BY <2>5, <2>10, <2>11
  <2> QED
    BY <2>12
<1>11. IsWord(CHOOSE i : IsWord(i, place), place)
  <2>1. \E i : IsWord(i, place)
    <3>1. \E i : IsWord(i, p)
      <4> HIDE DEF IsWord
      <4> QED
        BY <1>8, <1>9, <1>10
    <3> HIDE DEF IsWord, place
    <3> QED
      BY <1>7, <3>1, Zenon
  <2> HIDE DEF IsWord, place
  <2> QED
    BY <2>1, Zenon
<1>12. PICK i : i = (CHOOSE x : IsWord(x, place))
  OBVIOUS
<1> HIDE DEF place
<1>13. i \in DOMAIN layout
  BY <1>11, <1>12
<1> HIDE DEF layout, T, IsWord
<1>14. i \in 1 .. Len(code) + Len(constants)
  BY <1>5, <1>13
<1>15. Len(code) \in Nat /\ Len(constants) \in Nat
  BY <1>4
<1>16. i - 1 \in 0 .. (Len(code) + Len(constants)) - 1
  BY <1>14, <1>15
<1>17. PICK n \in Nat : n = Len(code) + Len(constants)
  BY <1>15
<1>18. n = Len(Assembled!Places("command")) + Len(Assembled!ConstantsLayout)
  BY <1>2, <1>4, <1>17
<1>19. Assembled!LabelAddress(l) = i - 1
  BY <1>1, <1>12
<1>20. Assembled!LabelAddress(l) \in 0 .. n - 1
  BY <1>16, <1>17, <1>19
<1> QED
  BY <1>18, <1>20

\* There is an even number of registers, and the types of constants are words.
LEMMA EvenRegisters ==
    /\ \E x \in Nat \ {0} : RegisterCount = 2 * x
    /\ Types \subseteq Words
<1> DEFINE W == 0 .. CodeBits + RegisterBits + AddressBits
<1>1. /\ RegisterBits - 1 \in W /\ 1 \in W /\ 1 + (RegisterBits - 1) = RegisterBits
  BY WidthsAssumption DEF AddressBits
<1>2. \A m, n \in W : 2 ^ m \in Nat \ {0} /\ 2 ^ (m + n) = 2 ^ m * 2 ^ n
  BY PowersAssumption
<1> HIDE DEF W
<1>3. /\ 2 ^ (1 + (RegisterBits - 1)) = 2 ^ 1 * 2 ^ (RegisterBits - 1)
      /\ 2 ^ (RegisterBits - 1) \in Nat \ {0}
  BY <1>1, <1>2
<1>4. RegisterCount = 2 * 2 ^ (RegisterBits - 1)
  BY <1>1, <1>3, PowersAssumption DEF RegisterCount
<1>5. PICK x \in Nat \ {0} : x = 2 ^ (RegisterBits - 1)
  BY <1>3
<1>6. RegisterCount = 2 * x
  BY <1>4, <1>5
<1>7. PICK y \in Nat \ {0} : ModCount = 2 * y
  BY FieldCounts
<1>8. PICK z \in Nat : z = x * y /\ z # 0
  <2>1. x <= y * x /\ y * x \in Nat /\ y * x = x * y
    BY Factor
  <2> QED
    BY <2>1
<1>9. MemorySize = 4 * z
  <2>1. MemorySize = (2 * x) * (2 * y)
    BY <1>6, <1>7, FieldCounts
  <2>2. (2 * x) * (2 * y) = 4 * (x * y)
    OBVIOUS
  <2> QED
    BY <1>8, <2>1, <2>2
<1>10. Types \subseteq 0 .. MemorySize
  BY <1>8, <1>9 DEF Types, Uint32Type, StringType
<1> QED
  BY <1>6, <1>10, SmallWords

\* Joining upper fields with the size of the memory makes a word as well.
LEMMA JoinedPastTheEnd ==
    ASSUME NEW c \in Nat, c < CodeCount, NEW r \in Registers
    PROVE  Join(c * RegisterCount + r, AddressBits, MemorySize) \in Words
<1>1. PICK x \in Nat \ {0} : RegisterCount = 2 * x
  BY EvenRegisters
<1>2. /\ CodeCount \in Nat \ {0} /\ MemorySize \in Nat \ {0} /\ RegisterCount \in Nat \ {0}
      /\ WordCount = CodeCount * (RegisterCount * MemorySize)
      /\ r \in Nat /\ r < RegisterCount
  BY FieldCounts DEF Registers, RegisterCount
<1>3. PICK u \in Nat : u = c * RegisterCount + r /\ u < CodeCount * RegisterCount
  BY <1>2, TwoDigits
<1>4. PICK n \in Nat : n = CodeCount * RegisterCount /\ n = 2 * (CodeCount * x)
  BY <1>1, <1>2
<1>5. n * MemorySize = WordCount
  <2>1. (CodeCount * RegisterCount) * MemorySize = CodeCount * (RegisterCount * MemorySize)
    BY <1>2
  <2> QED
    BY <1>2, <1>4, <2>1
<1>6. ASSUME NEW v \in Nat, v < n
      PROVE  v * MemorySize \in Words
  <2>1. v * MemorySize + 0 \in Nat /\ v * MemorySize + 0 < n * MemorySize
    BY <1>2, <1>6, TwoDigits
  <2>2. PICK w \in Nat : w = v * MemorySize
    BY <1>2
  <2>3. PICK k \in Nat : k = WordCount
    BY FieldCounts
  <2>4. w < k
    <3>1. n * MemorySize = k
      BY <1>5, <2>3
    <3> QED
      BY <2>1, <2>2, <3>1
  <2> QED
    BY <2>2, <2>3, <2>4 DEF Words
<1>7. CASE u % 2 = 0
  <2>1. u + 1 < n
    <3>1. PICK m \in Nat : n = 2 * m
      BY <1>1, <1>2, <1>4
    <3> QED
      BY <1>3, <1>4, <1>7, <3>1
  <2>2. Join(u, AddressBits, MemorySize) = u * MemorySize + MemorySize
    BY <1>7 DEF Join, MemorySize
  <2>3. u * MemorySize + MemorySize = (u + 1) * MemorySize
    BY <1>2
  <2>4. (u + 1) * MemorySize \in Words
    <3>1. PICK v \in Nat : v = u + 1
      OBVIOUS
    <3> QED
      BY <1>6, <2>1, <3>1
  <2> QED
    BY <1>3, <2>2, <2>3, <2>4
<1>8. CASE u % 2 # 0
  <2>1. Join(u, AddressBits, MemorySize) = u * MemorySize
    <3>1. ~(MemorySize < MemorySize)
      BY <1>2
    <3> QED
      BY <1>8, <3>1 DEF Join, MemorySize
  <2> QED
    BY <1>3, <1>4, <1>6, <2>1
<1> QED
  BY <1>7, <1>8

\* Whatever the address of an accepted command is, its word is a word.
LEMMA CommandWordType ==
    ASSUME NEW line \in Line, line.item = "command", LineIsValid(line), NEW arg,
           IF line.code \in UsesAddress THEN arg \in 0 .. MemorySize
                                        ELSE arg = line.num
    PROVE  CommandWord(line, arg) \in Words
<1>1. CASE line.code \in UsesAddress => arg # MemorySize
  <2>1. IF line.code \in UsesAddress THEN arg \in 0 .. MemorySize - 1 ELSE arg = line.num
    BY <1>1, FieldCounts
  <2> QED
    BY <2>1, CommandsAreReadAsWritten
<1>2. CASE line.code \in UsesAddress /\ arg = MemorySize
  <2>1. PICK h, r : /\ h = line.code
                    /\ r = IF Format[line.code] = "J" THEN 0 ELSE line.reg
    OBVIOUS
  <2>2. Format[h] \in {"RM", "J"} /\ h \in Codes /\ line.reg \in Registers
    BY <1>2, <2>1 DEF UsesAddress, Line
  <2>3. h \in Nat /\ h < CodeCount
    <3>1. h \in 0 .. CodeCount - 1
      BY <2>2, FormatAssumption DEF CodeCount
    <3> QED
      BY <3>1, FieldCounts
  <2>4. r \in Registers
    BY <2>1, <2>2, FieldCounts DEF Registers, RegisterCount
  <2>5. CommandWord(line, arg) = Join(h * 2 ^ RegisterBits + r, AddressBits, arg)
    BY <2>1, <2>2 DEF CommandWord, Build
  <2>6. CommandWord(line, arg) = Join(h * RegisterCount + r, AddressBits, MemorySize)
    BY <1>2, <2>5, Zenon DEF RegisterCount
  <2> QED
    BY <2>3, <2>4, <2>6, JoinedPastTheEnd
<1> QED
  BY <1>1, <1>2

\* The program has a cell for each of its words.
ProgramFits ==
    \E n \in Nat : /\ n = Len(Assembled!Places("command")) + Len(Assembled!ConstantsLayout)
                   /\ n <= MemorySize

\* The operand of a line of an accepted text is an address, if it is one.
LEMMA OperandIsAddress ==
    ASSUME text \in Seq(Line), Accepted, ProgramFits, NEW kind \in {"command", "end"},
           NEW i \in DOMAIN Assembled!Places(kind), NEW p, p = Assembled!Places(kind)[i],
           kind = "command" => text[p[2]].code \in UsesAddress
    PROVE  LET line == text[p[2]]
           IN  /\ Assembled!Operand(p) \in 0 .. MemorySize
               /\ Assembled!Operand(p) = IF line.use = NoLabel THEN line.num
                                        ELSE Assembled!LabelAddress(line.use)
               /\ line.use # NoLabel => Assembled!Operand(p) \in 0 .. MemorySize - 1
<1>1. Assembled!Places(kind) \in Seq(PlacesOf(kind))
  BY TextPlaces
<1>2. p \in PlacesOf(kind)
  BY <1>1
<1>3. PICK n \in DOMAIN text :
            /\ p = <<Main, n>> /\ p[2] = n
            /\ text[n] \in Line /\ text[n].item = kind /\ LineIsValid(text[n])
            /\ Assembled!LineAt(p) = Parsed(text[n])
            /\ \A k : Append(p, k) = <<Main, n, k>>
  BY <1>2, PlaceIs, Zenon
<1>4. PICK line \in Line : line = text[n] /\ line.item = kind /\ LineIsValid(line)
  BY <1>3
<1>5. Assembled!LineAt(p).use = line.use
  BY <1>3, <1>4, ParsedLine
<1>6. CASE line.use = NoLabel
  <2>1. AddressFits(line.num)
    <3>1. CASE kind = "end"
      BY <1>4, <1>6, <3>1 DEF LineIsValid
    <3>2. CASE kind = "command"
      <4>1. Format[line.code] \in {"RM", "J"}
        BY <1>3, <1>4, <3>2 DEF UsesAddress
      <4>2. CommandIsValid(line)
        BY <1>4, <3>2 DEF LineIsValid
      <4> QED
        BY <1>6, <4>1, <4>2 DEF CommandIsValid
    <3> QED
      BY <3>1, <3>2
  <2>2. Assembled!LineAt(p).arg = line.num
    BY <1>3, <1>4, ParsedLine
  <2>3. Assembled!Operand(p) = Assembled!LineAt(p).arg
    BY <1>5, <1>6, Zenon DEF Assembled!Operand
  <2>4. Assembled!Operand(p) \in 0 .. MemorySize
    BY <2>1, <2>2, <2>3 DEF AddressFits
  <2> QED
    BY <1>3, <1>4, <1>6, <2>2, <2>3, <2>4
<1>7. CASE line.use # NoLabel
  <2>1. p \in Assembled!Uses
    <3>1. p \in Assembled!ToSet(Assembled!Places(kind))
      BY Zenon DEF Assembled!ToSet
    <3>2. p \in Assembled!ToSet(Assembled!Places("command"))
                 \cup Assembled!ToSet(Assembled!Places("end"))
      BY <3>1
    <3> QED
      BY <1>5, <1>7, <3>2, Zenon DEF Assembled!Uses
  <2>2. Assembled!Defined(Assembled!LineAt(p).use) # {}
    BY <2>1, Zenon DEF Accepted, Assembled!Valid
  <2>3. Assembled!Defined(line.use) # {}
    BY <1>5, <2>2, Zenon
  <2>4. Assembled!Operand(p) = Assembled!LabelAddress(line.use)
    BY <1>5, <1>7, Zenon DEF Assembled!Operand
  <2>5. PICK m \in Nat : /\ m = Len(Assembled!Places("command"))
                                 + Len(Assembled!ConstantsLayout)
                         /\ Assembled!LabelAddress(line.use) \in 0 .. m - 1
    BY <2>3, LabelAddressed
  <2>6. m <= MemorySize
    BY <2>5 DEF ProgramFits
  <2>7. 0 .. m - 1 \subseteq 0 .. MemorySize - 1 /\ 0 .. m - 1 \subseteq 0 .. MemorySize
    BY <2>6, FieldCounts
  <2>8. /\ Assembled!Operand(p) \in 0 .. MemorySize
        /\ Assembled!Operand(p) \in 0 .. MemorySize - 1
    BY <2>4, <2>5, <2>7
  <2> QED
    BY <1>3, <1>4, <1>7, <2>4, <2>8
<1> QED
  BY <1>6, <1>7

\* The word that is made of the command at a place.
CommandOf(p) ==
    LET line == text[p[2]]
    IN  CommandWord(line, IF line.code \in UsesAddress THEN Assembled!Operand(p)
                                                       ELSE line.num)

\* The word that is made of a word of a constant.
WordOf(o) ==
    LET line == text[o[2]]
    IN  (<<line.type>> \o ValueWords(line))[o[3] + 1]

\* What is made of a text, part by part.
LEMMA AssembledParts ==
    ASSUME text \in Seq(Line)
    PROVE  LET places == Assembled!Places("command")
               words  == Assembled!ConstantsLayout
           IN  AssembledData =
                   [entrypoint   |-> Assembled!Operand(Assembled!Places("end")[1]),
                    initialStack |-> MemorySize - 1,
                    code         |-> [i \in DOMAIN places |-> CommandOf(places[i])],
                    constants    |-> [i \in DOMAIN words |-> WordOf(words[i])]]
<1> DEFINE places == Assembled!Places("command")
           words  == Assembled!ConstantsLayout
           end    == Assembled!Operand(Assembled!Places("end")[1])
           cell(i) == [origin |-> Append(places[i], 0), addr |-> Assembled!Operand(places[i])]
           datum(i) == [origin |-> words[i], addr |-> 0]
           command(x) ==
               LET line == text[x.origin[2]]
               IN  CommandWord(line, IF line.code \in UsesAddress THEN x.addr ELSE line.num)
           word(x) ==
               LET line == text[x.origin[2]]
               IN  (<<line.type>> \o ValueWords(line))[x.origin[3] + 1]
<1>1. Assembled!Image = [entrypoint |-> end,
                         code |-> [i \in DOMAIN places |-> cell(i)],
                         constants |-> [i \in DOMAIN words |-> datum(i)]]
  BY Zenon DEF Assembled!Image
<1>2. AssembledData =
          [entrypoint   |-> Assembled!Image.entrypoint,
           initialStack |-> MemorySize - 1,
           code         |-> [i \in DOMAIN Assembled!Image.code |->
                                command(Assembled!Image.code[i])],
           constants    |-> [i \in DOMAIN Assembled!Image.constants |->
                                word(Assembled!Image.constants[i])]]
  BY Zenon DEF AssembledData
<1>3. ASSUME NEW i \in DOMAIN places
      PROVE  command(cell(i)) = CommandOf(places[i])
  <2>1. places \in Seq(PlacesOf("command"))
    BY TextPlaces
  <2>2. PICK p \in PlacesOf("command") : p = places[i]
    BY <2>1
  <2>3. PICK n \in DOMAIN text :
            /\ p = <<Main, n>> /\ p[2] = n
            /\ text[n] \in Line /\ text[n].item = "command" /\ LineIsValid(text[n])
            /\ Assembled!LineAt(p) = Parsed(text[n])
            /\ \A k : Append(p, k) = <<Main, n, k>>
    BY <2>2, PlaceIs, Zenon
  <2>4. cell(i).origin = <<Main, n, 0>> /\ cell(i).addr = Assembled!Operand(p)
    BY <2>2, <2>3
  <2>5. cell(i).origin[2] = n
    <3>1. <<Main, n, 0>>[2] = n
      OBVIOUS
    <3> HIDE DEF cell
    <3> QED
      BY <2>4, <3>1, Zenon
  <2> HIDE DEF cell, places
  <2> QED
    BY <2>2, <2>3, <2>4, <2>5, Zenon DEF CommandOf
<1>4. \A i : word(datum(i)) = WordOf(words[i])
  BY DEF WordOf
<1> HIDE DEF places, words, end, cell, datum, command, word
<1>5. PICK s, t : s = [i \in DOMAIN places |-> cell(i)] /\ t = [i \in DOMAIN words |-> datum(i)]
  OBVIOUS
<1>6. /\ DOMAIN s = DOMAIN places /\ \A i \in DOMAIN s : s[i] = cell(i)
      /\ DOMAIN t = DOMAIN words /\ \A i \in DOMAIN t : t[i] = datum(i)
  BY <1>5
<1>7. /\ Assembled!Image.entrypoint = end /\ Assembled!Image.code = s
      /\ Assembled!Image.constants = t
  BY <1>1, <1>5
<1>8. [i \in DOMAIN s |-> command(s[i])] = [i \in DOMAIN places |-> CommandOf(places[i])]
  BY <1>3, <1>6
<1>9. [i \in DOMAIN t |-> word(t[i])] = [i \in DOMAIN words |-> WordOf(words[i])]
  BY <1>4, <1>6
<1>10. AssembledData =
          [entrypoint   |-> end,
           initialStack |-> MemorySize - 1,
           code         |-> [i \in DOMAIN s |-> command(s[i])],
           constants    |-> [i \in DOMAIN t |-> word(t[i])]]
  BY <1>2, <1>7, Zenon
<1>11. AssembledData =
          [entrypoint   |-> end,
           initialStack |-> MemorySize - 1,
           code         |-> [i \in DOMAIN places |-> CommandOf(places[i])],
           constants    |-> [i \in DOMAIN words |-> WordOf(words[i])]]
  BY <1>8, <1>9, <1>10, Zenon
<1> QED
  BY <1>11, Zenon DEF places, words, end

\* The words made of the commands and of the constants are words.
LEMMA CellsAreWords ==
    ASSUME text \in Seq(Line), Accepted, ProgramFits
    PROVE  /\ \A i \in DOMAIN Assembled!Places("command") :
                 CommandOf(Assembled!Places("command")[i]) \in Words
           /\ \A i \in DOMAIN Assembled!ConstantsLayout :
                 WordOf(Assembled!ConstantsLayout[i]) \in Words
<1>1. ASSUME NEW i \in DOMAIN Assembled!Places("command")
      PROVE  CommandOf(Assembled!Places("command")[i]) \in Words
  <2>1. Assembled!Places("command") \in Seq(PlacesOf("command"))
    BY TextPlaces
  <2>2. PICK p \in PlacesOf("command") : p = Assembled!Places("command")[i]
    BY <2>1
  <2>3. PICK n \in DOMAIN text :
            /\ p = <<Main, n>> /\ p[2] = n
            /\ text[n] \in Line /\ text[n].item = "command" /\ LineIsValid(text[n])
            /\ Assembled!LineAt(p) = Parsed(text[n])
            /\ \A k : Append(p, k) = <<Main, n, k>>
    BY <2>2, PlaceIs, Zenon
  <2>4. PICK line, arg : /\ line = text[n]
                         /\ arg = IF line.code \in UsesAddress THEN Assembled!Operand(p)
                                                               ELSE line.num
    OBVIOUS
  <2>5. line.code \in UsesAddress => arg \in 0 .. MemorySize
    <3> SUFFICES ASSUME line.code \in UsesAddress
                 PROVE  Assembled!Operand(p) \in 0 .. MemorySize
      BY <2>4
    <3> QED
      BY <2>2, <2>3, <2>4, OperandIsAddress
  <2>6. IF line.code \in UsesAddress THEN arg \in 0 .. MemorySize ELSE arg = line.num
    BY <2>4, <2>5
  <2>7. CommandWord(line, arg) \in Words
    BY <2>3, <2>4, <2>6, CommandWordType
  <2>8. CommandOf(p) = CommandWord(line, arg)
    BY <2>3, <2>4, Zenon DEF CommandOf
  <2> QED
    BY <2>2, <2>7, <2>8
<1>2. ASSUME NEW i \in DOMAIN Assembled!ConstantsLayout
      PROVE  WordOf(Assembled!ConstantsLayout[i]) \in Words
  <2> DEFINE C == ConstantWords
  <2>1. Assembled!ConstantsLayout \in Seq(C)
    BY ConstantsLaid
  <2>2. PICK o \in C : o = Assembled!ConstantsLayout[i]
    <3> HIDE DEF C
    <3> QED
      BY <2>1
  <2>3. PICK n \in DOMAIN text, k \in Nat :
            /\ o = <<Main, n, k>> /\ text[n].item = "constant" /\ LineIsValid(text[n])
            /\ k <= Len(ValueWords(text[n]))
    <3>1. PICK y \in (DOMAIN text) \X Nat :
                /\ o = <<Main, y[1], y[2]>> /\ text[y[1]].item = "constant"
                /\ LineIsValid(text[y[1]]) /\ y[2] <= Len(ValueWords(text[y[1]]))
      BY <2>2 DEF ConstantWords
    <3>2. y[1] \in DOMAIN text /\ y[2] \in Nat
      BY <3>1
    <3> QED
      BY <3>1, <3>2
  <2>4. PICK line \in Line : line = text[n]
    BY <2>3
  <2>5. line.type \in Words /\ line.text \in Seq(Chars) /\ line.num \in Int
        /\ line.type \in Types
    BY <2>4, EvenRegisters DEF Line
  <2>6. PICK v \in Seq(Words) : v = ValueWords(line)
    BY <2>5, ValueWordsType
  <2>7. <<line.type>> \in Seq(Words) /\ Len(<<line.type>>) = 1
    BY <2>5
  <2>8. PICK s \in Seq(Words) : s = <<line.type>> \o v /\ Len(s) = Len(v) + 1
    <3>1. PICK a \in Seq(Words) : a = <<line.type>> /\ Len(a) = 1
      BY <2>7
    <3>2. a \o v \in Seq(Words) /\ Len(a \o v) = Len(v) + 1
      BY <3>1
    <3> QED
      BY <3>1, <3>2
  <2>9. s[k + 1] \in Words
    <3>1. k + 1 \in 1 .. Len(v) + 1
      BY <2>3, <2>4, <2>6
    <3> QED
      BY <2>8, <3>1
  <2>10. o[2] = n /\ o[3] = k
    BY <2>3
  <2>11. WordOf(o) = s[k + 1]
    BY <2>4, <2>6, <2>8, <2>10, Zenon DEF WordOf
  <2> QED
    BY <2>2, <2>9, <2>11
<1> QED
  BY <1>1, <1>2

\* What is made of a text that is accepted is a program, if the memory holds it.
LEMMA AssembledDataType ==
    ASSUME text \in Seq(Line), Accepted, FitsMemory(AssembledData)
    PROVE  AssembledData \in Data
<1> DEFINE places == Assembled!Places("command")
           words  == Assembled!ConstantsLayout
           end    == Assembled!Operand(Assembled!Places("end")[1])
<1>1. PICK n \in Nat : DOMAIN places = 1 .. n /\ Len(places) = n
  <2>1. places \in Seq(PlacesOf("command"))
    BY TextPlaces
  <2> QED
    BY <2>1
<1>2. PICK m \in Nat : DOMAIN words = 1 .. m /\ Len(words) = m
  <2> DEFINE C == ConstantWords
  <2>1. words \in Seq(C)
    BY ConstantsLaid
  <2> HIDE DEF C
  <2> QED
    BY <2>1
<1> DEFINE f(i) == CommandOf(places[i])
           g(i) == WordOf(words[i])
           code == [i \in 1 .. n |-> f(i)]
           constants == [i \in 1 .. m |-> g(i)]
<1>3. AssembledData = [entrypoint |-> end, initialStack |-> MemorySize - 1,
                       code |-> code, constants |-> constants]
  BY <1>1, <1>2, AssembledParts, Zenon
<1> HIDE DEF f, g, end
<1>4. Len(code) = n /\ Len(constants) = m
  <2>1. \A k \in Nat : Len([i \in 1 .. k |-> f(i)]) = k /\ Len([i \in 1 .. k |-> g(i)]) = k
    OBVIOUS
  <2> QED
    BY <2>1
<1>5. n + m <= MemorySize
  <2>1. AssembledData.code = code /\ AssembledData.constants = constants
    BY <1>3
  <2> HIDE DEF code, constants
  <2>2. Len(AssembledData.code) = n /\ Len(AssembledData.constants) = m
    BY <1>4, <2>1, Zenon
  <2>3. Len(AssembledData.code) + Len(AssembledData.constants) <= MemorySize
    BY Zenon DEF FitsMemory
  <2> QED
    BY <2>2, <2>3, Zenon
<1>6. ProgramFits
  <2>1. PICK k \in Nat : k = n + m
    OBVIOUS
  <2>2. k = Len(places) + Len(words)
    BY <1>1, <1>2, <2>1
  <2> QED
    BY <1>5, <2>1, <2>2 DEF ProgramFits
<1>7. /\ \A i \in 1 .. n : f(i) \in Words
      /\ \A i \in 1 .. m : g(i) \in Words
  BY <1>1, <1>2, <1>6, CellsAreWords, Zenon DEF f, g
<1>8. code \in Seq(Words)
  BY <1>7
<1>9. constants \in Seq(Words)
  BY <1>7
<1>10. end \in Words
  <2>1. Len(Assembled!Places("end")) = 1
    BY Zenon DEF Accepted, Assembled!Valid
  <2>2. Assembled!Places("end") \in Seq(PlacesOf("end"))
    BY TextPlaces
  <2>3. 1 \in DOMAIN Assembled!Places("end")
    BY <2>1, <2>2
  <2>4. end \in 0 .. MemorySize
    BY <1>6, <2>3, OperandIsAddress DEF end
  <2> QED
    BY <2>4, SmallWords
<1>11. MemorySize - 1 \in Words
  BY SmallWords
<1> HIDE DEF code, constants
<1> QED
  BY <1>3, <1>8, <1>9, <1>10, <1>11 DEF Data
-----------------------------------------------------------------------------
(***************************************************************************)
(* The same text is the same to the assembler: what the instance says of   *)
(* the text depends on nothing else.                                       *)
(***************************************************************************)
\* The source is made of the text and nothing else,
LEMMA SameSource ==
    ASSUME text' = text
    PROVE  SourceOf(text)' = SourceOf(text)
BY Zenon DEF SourceOf

\* and so are the places of its items,
LEMMA SamePlaces ==
    ASSUME text' = text, NEW kind
    PROVE  Assembled!Places(kind)' = Assembled!Places(kind)
<1>1. (Assembled!Order = <<Main>>)'
  BY OneTextOrder, PTL
<1>2. Assembled!Order' = Assembled!Order
  BY <1>1, OneTextOrder
<1>3. \A f : Assembled!PlacesIn(f, kind)' = Assembled!PlacesIn(f, kind)
  BY SameSource, SMT DEF Assembled!PlacesIn
<1> QED
  BY <1>2, <1>3, SameSource, SMT DEF Assembled!Places

\* its lines,
LEMMA SameLines ==
    ASSUME text' = text
    PROVE  /\ \A p : Assembled!LineAt(p)' = Assembled!LineAt(p)
           /\ \A f, n : Assembled!NextLine(f, n)' = Assembled!NextLine(f, n)
<1>1. \A p : Assembled!LineAt(p)' = Assembled!LineAt(p)
  BY Zenon DEF Assembled!LineAt, SourceOf
<1>2. ASSUME NEW f, NEW n
      PROVE  Assembled!NextLine(f, n)' = Assembled!NextLine(f, n)
  BY SameSource, SMT DEF Assembled!NextLine, Assembled!IsBlank
<1> QED
  BY <1>1, <1>2

\* where a label is defined,
LEMMA SameDefined ==
    ASSUME text' = text, NEW l
    PROVE  Assembled!Defined(l)' = Assembled!Defined(l)
BY SameSource, SamePlaces, SameLines, SMT DEF Assembled!Defined, Assembled!ToSet

\* the layout of the words,
LEMMA SameLayout ==
    ASSUME text' = text
    PROVE  Assembled!Layout' = Assembled!Layout
<1>1. Assembled!CodeLayout' = Assembled!CodeLayout
  BY SamePlaces, SMT DEF Assembled!CodeLayout
<1>2. Assembled!ConstantsLayout' = Assembled!ConstantsLayout
  <2> DEFINE places == Assembled!Places("constant")
             words(p) == [k \in 1 .. Assembled!LineAt(p).arg + 1 |-> Append(p, k - 1)]
             parts == [i \in DOMAIN places |-> words(places[i])]
  <2>1. Assembled!ConstantsLayout = Assembled!FlattenSeq(parts)
    BY Zenon DEF Assembled!ConstantsLayout
  <2>2. Assembled!ConstantsLayout' = Assembled!FlattenSeq(parts')
    BY Zenon DEF Assembled!ConstantsLayout
  <2>3. places' = places
    BY SamePlaces
  <2>4. \A p : words(p)' = words(p)
    BY SameLines
  <2>5. parts' = parts
    BY <2>3, <2>4
  <2> HIDE DEF parts
  <2> QED
    BY <2>1, <2>2, <2>5
<1> QED
  BY <1>1, <1>2, SMT DEF Assembled!Layout

\* and the addresses of labels.
LEMMA SameAddress ==
    ASSUME text' = text, NEW l
    PROVE  Assembled!LabelAddress(l)' = Assembled!LabelAddress(l)
<1> DEFINE layout == Assembled!Layout
           places == Assembled!Defined(l)
           place == CHOOSE q \in places : TRUE
           word == IF Assembled!LineAt(place).item = "command" THEN 0 ELSE 1
           index == CHOOSE i \in DOMAIN layout : layout[i] = Append(place, word)
<1>1. Assembled!LabelAddress(l) = index - 1
  BY Zenon DEF Assembled!LabelAddress
<1>2. Assembled!LabelAddress(l)' = index' - 1
  BY Zenon DEF Assembled!LabelAddress
<1>3. layout' = layout /\ places' = places
  BY SameLayout, SameDefined
<1>4. place' = place
  BY <1>3
<1>5. word' = word
  BY <1>4, SameLines
<1> HIDE DEF layout, place, word
<1>6. index' = index
  BY <1>3, <1>4, <1>5
<1> QED
  BY <1>1, <1>2, <1>6
-----------------------------------------------------------------------------
(***************************************************************************)
(* Every command of the text, in order.                                    *)
(***************************************************************************)
\* The recursion that gathers the commands of the text.
LEMMA CommandLinesDefined ==
    ASSUME text \in Seq(Line)
    PROVE  CommandLines
             = [n \in 0 .. Len(text) |->
                   IF n = 0 THEN <<>>
                   ELSE IF text[n].item = "command"
                   THEN Append(CommandLines[n - 1], text[n])
                   ELSE CommandLines[n - 1]]
<1> DEFINE l == Len(text)
           X == Seq(Line)
           next(s, n) == IF text[n].item = "command" THEN Append(s, text[n]) ELSE s
           IsUpTo(f) == f = [n \in 0 .. l |-> IF n = 0 THEN <<>> ELSE next(f[n - 1], n)]
           h == [x \in X \X (1 .. l) |-> next(x[1], x[2])]
<1>1. CommandLines = CHOOSE f : IsUpTo(f)
  BY Zenon DEF CommandLines
<1>2. l \in Nat /\ <<>> \in X
  OBVIOUS
<1>3. \A s \in X : \A n \in 1 .. l : next(s, n) \in X
  OBVIOUS
<1>4. h \in [X \X (1 .. l) -> X] /\ \A s \in X : \A n \in 1 .. l : h[<<s, n>>] = next(s, n)
  <2> HIDE DEF next, X, l
  <2> QED
    BY <1>3
<1> HIDE DEF next, X, l, h
<1>5. PICK f : IsRecursion(f, X, <<>>, l, h)
  BY <1>2, <1>4, Recursion
<1>6. f \in [0 .. l -> X] /\ f[0] = <<>> /\ \A n \in 1 .. l : f[n] = next(f[n - 1], n)
  <2>1. f \in [0 .. l -> X] /\ f[0] = <<>> /\ \A n \in 1 .. l : f[n] = h[<<f[n - 1], n>>]
    BY <1>5 DEF IsRecursion
  <2>2. \A n \in 1 .. l : n - 1 \in 0 .. l
    BY <1>2
  <2>3. \A n \in 1 .. l : f[n - 1] \in X
    BY <2>1, <2>2
  <2> QED
    BY <1>4, <2>1, <2>3
<1>7. IsUpTo(f)
  <2>1. \A n \in 0 .. l : f[n] = IF n = 0 THEN <<>> ELSE next(f[n - 1], n)
    BY <1>2, <1>6
  <2> QED
    BY <1>6, <2>1
<1> HIDE DEF IsUpTo
<1>8. IsUpTo(CommandLines)
  BY <1>1, <1>7, Zenon
<1> QED
  BY <1>8 DEF IsUpTo, next, l

\* The lines of an accepted text are right, one by one.
LEMMA AcceptedLines ==
    ASSUME text \in Seq(Line), Accepted, NEW n \in DOMAIN text
    PROVE  LineIsValid(text[n])
<1> DEFINE lines == SourceOf(text)[Main].lines
           f == MainPlaces(lines, "bad")
           S == {m \in 0 .. Len(lines) : f[m] = <<>> => \A k \in 1 .. m : lines[k].item # "bad"}
<1>1. lines = [k \in DOMAIN text |-> Parsed(text[k])]
  BY DEF SourceOf
<1>2. Len(lines) \in Nat /\ DOMAIN text = 1 .. Len(lines)
  BY <1>1
<1>3. Assembled!Places("bad") = <<>>
  BY Zenon DEF Accepted, Assembled!Valid
<1>4. f[Len(lines)] = <<>>
  BY <1>3, AssembledPlaces, Zenon
<1> HIDE DEF lines
<1>5. f = [m \in 0 .. Len(lines) |->
               IF m = 0 THEN <<>>
               ELSE IF lines[m].item = "bad" THEN Append(f[m - 1], <<Main, m>>)
               ELSE f[m - 1]]
  BY <1>2, MainPlacesDefined
<1>6. \A m \in 0 .. Len(lines) : f[m] \in Seq(Held(lines, "bad"))
  BY <1>2, MainPlacesHold
<1>7. 0 \in S
  BY <1>2
<1>8. ASSUME NEW m \in 1 .. Len(lines), m - 1 \in S
      PROVE  m \in S
  <2>1. m - 1 \in 0 .. Len(lines) /\ m \in 0 .. Len(lines) /\ m # 0
    BY <1>2
  <2>2. f[m] = IF lines[m].item = "bad" THEN Append(f[m - 1], <<Main, m>>) ELSE f[m - 1]
    BY <1>5, <2>1
  <2>3. f[m - 1] \in Seq(Held(lines, "bad"))
    BY <1>6, <2>1
  <2>4. Append(f[m - 1], <<Main, m>>) # <<>>
    <3> DEFINE held == Held(lines, "bad")
    <3>1. f[m - 1] \in Seq(held)
      BY <2>3
    <3> HIDE DEF held, f
    <3>3. PICK s \in Seq(held) : s = f[m - 1]
      BY <3>1
    <3>2. \A p : Append(s, p) # <<>>
      OBVIOUS
    <3> QED
      BY <3>2, <3>3
  <2> HIDE DEF f
  <2>5. ASSUME f[m] = <<>>, NEW k \in 1 .. m
        PROVE  lines[k].item # "bad"
    <3>1. lines[m].item # "bad" /\ f[m - 1] = <<>>
      BY <2>2, <2>4, <2>5
    <3>2. \A j \in 1 .. m - 1 : lines[j].item # "bad"
      BY <1>8, <3>1
    <3> QED
      BY <2>1, <3>1, <3>2
  <2> QED
    BY <2>1, <2>5
<1>9. 0 .. Len(lines) \subseteq S
  <2> HIDE DEF S
  <2> QED
    BY <1>2, <1>7, <1>8, UpTo
<1>10. lines[n].item # "bad"
  <2>1. Len(lines) \in S /\ n \in 1 .. Len(lines)
    BY <1>2, <1>9
  <2> HIDE DEF f
  <2> QED
    BY <1>4, <2>1
<1>11. Parsed(text[n]).item # "bad"
  BY <1>1, <1>10
<1> QED
  BY <1>11 DEF Parsed

\* The commands are gathered in the order of their places.
LEMMA CommandsInOrder ==
    ASSUME text \in Seq(Line), Accepted
    PROVE  LET commands == CommandLines[Len(text)]
               places   == Assembled!Places("command")
           IN  /\ commands \in Seq(Line) /\ Len(commands) = Len(places)
               /\ \A i \in DOMAIN commands :
                     i \in DOMAIN places /\ commands[i] = text[places[i][2]]
<1> DEFINE lines == SourceOf(text)[Main].lines
           f == MainPlaces(lines, "command")
           c == CommandLines
           held == Held(lines, "command")
           S == {m \in 0 .. Len(lines) :
                    /\ c[m] \in Seq(Line) /\ Len(c[m]) = Len(f[m])
                    /\ \A i \in 1 .. Len(c[m]) : c[m][i] = text[f[m][i][2]]}
<1>1. lines = [k \in DOMAIN text |-> Parsed(text[k])]
  BY DEF SourceOf
<1>2. Len(lines) \in Nat /\ DOMAIN text = 1 .. Len(lines) /\ Len(lines) = Len(text)
  BY <1>1
<1>3. \A m \in 1 .. Len(lines) : lines[m].item = "command" <=> text[m].item = "command"
  <2> SUFFICES ASSUME NEW m \in 1 .. Len(lines)
               PROVE  lines[m].item = "command" <=> text[m].item = "command"
    OBVIOUS
  <2>1. m \in DOMAIN text /\ lines[m] = Parsed(text[m])
    BY <1>1, <1>2
  <2>2. LineIsValid(text[m])
    BY <2>1, AcceptedLines
  <2>3. Parsed(text[m]).item = text[m].item
    BY <2>2 DEF Parsed
  <2> QED
    BY <2>1, <2>3
<1> HIDE DEF lines
<1>4. f = [m \in 0 .. Len(lines) |->
               IF m = 0 THEN <<>>
               ELSE IF lines[m].item = "command" THEN Append(f[m - 1], <<Main, m>>)
               ELSE f[m - 1]]
  BY <1>2, MainPlacesDefined
<1>5. c = [n \in 0 .. Len(lines) |->
               IF n = 0 THEN <<>>
               ELSE IF text[n].item = "command" THEN Append(c[n - 1], text[n])
               ELSE c[n - 1]]
  BY <1>2, CommandLinesDefined
<1>6. \A m \in 0 .. Len(lines) : f[m] \in Seq(held)
  BY <1>2, MainPlacesHold
<1> HIDE DEF f, c, held
<1>7. 0 \in S
  <2>1. 0 \in 0 .. Len(lines)
    BY <1>2
  <2>2. c[0] = <<>> /\ f[0] = <<>>
    BY <1>4, <1>5, <2>1
  <2>3. <<>> \in Seq(Line) /\ Len(<<>>) = 0 /\ 1 .. 0 = {}
    OBVIOUS
  <2> QED
    BY <2>1, <2>2, <2>3
<1>8. ASSUME NEW m \in 1 .. Len(lines), m - 1 \in S
      PROVE  m \in S
  <2>1. m - 1 \in 0 .. Len(lines) /\ m \in 0 .. Len(lines) /\ m # 0
    BY <1>2
  <2>2. /\ c[m - 1] \in Seq(Line) /\ Len(c[m - 1]) = Len(f[m - 1])
        /\ \A i \in 1 .. Len(c[m - 1]) : c[m - 1][i] = text[f[m - 1][i][2]]
    BY <1>8
  <2>3. f[m] = IF lines[m].item = "command" THEN Append(f[m - 1], <<Main, m>>) ELSE f[m - 1]
    BY <1>4, <2>1
  <2>4. c[m] = IF text[m].item = "command" THEN Append(c[m - 1], text[m]) ELSE c[m - 1]
    BY <1>5, <2>1
  <2>5. CASE text[m].item # "command"
    <3>1. f[m] = f[m - 1] /\ c[m] = c[m - 1]
      BY <1>3, <2>3, <2>4, <2>5
    <3> QED
      BY <2>1, <2>2, <3>1
  <2>6. CASE text[m].item = "command"
    <3>1. PICK p, x : p = <<Main, m>> /\ x = text[m] /\ x \in Line /\ p[2] = m
      <4>1. text[m] \in Line
        BY <1>2
      <4>2. <<Main, m>>[2] = m
        OBVIOUS
      <4> QED
        BY <4>1, <4>2
    <3>2. PICK s \in Seq(Line), t \in Seq(held) :
              s = c[m - 1] /\ t = f[m - 1]
      BY <1>6, <2>1, <2>2
    <3>3. c[m] = Append(s, x) /\ f[m] = Append(t, p)
      BY <1>3, <2>3, <2>4, <2>6, <3>1, <3>2
    <3>4. Len(s) = Len(t) /\ \A i \in 1 .. Len(s) : s[i] = text[t[i][2]]
      BY <2>2, <3>2
    <3>5. /\ Append(s, x) \in Seq(Line) /\ Len(Append(s, x)) = Len(s) + 1
          /\ Append(s, x)[Len(s) + 1] = x
          /\ \A i \in 1 .. Len(s) : Append(s, x)[i] = s[i]
      BY <3>1
    <3>6. /\ Len(Append(t, p)) = Len(t) + 1 /\ Append(t, p)[Len(t) + 1] = p
          /\ \A i \in 1 .. Len(t) : Append(t, p)[i] = t[i]
      OBVIOUS
    <3>7. PICK u, v : u = Append(s, x) /\ v = Append(t, p)
      OBVIOUS
    <3>8. PICK k \in Nat : k = Len(s) /\ k = Len(t)
      BY <3>4
    <3>9. /\ u \in Seq(Line) /\ Len(u) = k + 1 /\ u[k + 1] = x
          /\ \A i \in 1 .. k : u[i] = s[i]
          /\ Len(v) = k + 1 /\ v[k + 1] = p
          /\ \A i \in 1 .. k : v[i] = t[i]
      BY <3>5, <3>6, <3>7, <3>8
    <3>10. ASSUME NEW i \in 1 .. k + 1
           PROVE  u[i] = text[v[i][2]]
      <4>1. CASE i = k + 1
        BY <3>1, <3>9, <4>1, Zenon
      <4>2. CASE i \in 1 .. k
        BY <3>4, <3>8, <3>9, <4>2, Zenon
      <4> QED
        BY <4>1, <4>2
    <3> QED
      BY <2>1, <3>3, <3>7, <3>9, <3>10
  <2> QED
    BY <2>5, <2>6
<1>9. 0 .. Len(lines) \subseteq S
  <2> HIDE DEF S
  <2> QED
    BY <1>2, <1>7, <1>8, UpTo
<1>10. Len(lines) \in S /\ Len(lines) \in 0 .. Len(lines)
  BY <1>2, <1>9
<1>11. f[Len(lines)] = Assembled!Places("command")
  BY AssembledPlaces, Zenon DEF f, lines
<1>12. PICK s, t : s = c[Len(lines)] /\ t = f[Len(lines)] /\ t \in Seq(held)
  BY <1>6, <1>10
<1>13. /\ s \in Seq(Line) /\ Len(s) = Len(t)
       /\ \A i \in 1 .. Len(s) : s[i] = text[t[i][2]]
  BY <1>10, <1>12
<1>14. \A i \in DOMAIN s : i \in DOMAIN t /\ s[i] = text[t[i][2]]
  BY <1>12, <1>13
<1> QED
  BY <1>2, <1>11, <1>12, <1>13, <1>14 DEF c
-----------------------------------------------------------------------------
(***************************************************************************)
(* The executable file.                                                    *)
(***************************************************************************)
\* What the compiler makes fits the memory.  The compiler itself checks no
\* such thing: the theorems of this section are about the programs that do, and
\* the reader refuses the others (Exec::Read).
AssembledFits == phase = "write" => FitsMemory(data)

\* The sizes in the header are words of bytes: a program whose segments take
\* more would be written with a header that says less.
SizesFit(d) == WordSize * (Len(d.code) + Len(d.constants)) < WordCount

\* The sizes are numbers, and a program under way is the one the file holds.
ReadInv ==
    /\ file.codeSize \in Nat /\ file.constantsSize \in Nat /\ file.bytes \in Nat
    /\ phase \in Reading => ReadError(file) = "none" /\ data = ReadData(file)

\* The sizes a whole file states for segments of so many words.
LEMMA WholeSizes ==
    ASSUME NEW d, Len(d.code) \in Nat, Len(d.constants) \in Nat
    PROVE  /\ WholeFile(d).codeSize \in Nat
           /\ WholeFile(d).constantsSize \in Nat
<1>1. WordSize * Len(d.code) \in Nat /\ WordSize * Len(d.constants) \in Nat
  BY ExecAssumption
<1>2. \A x \in Nat : x % WordCount \in Nat
  BY FieldCounts
<1>3. /\ WholeFile(d).codeSize = (WordSize * Len(d.code)) % WordCount
      /\ WholeFile(d).constantsSize = (WordSize * Len(d.constants)) % WordCount
  BY DEF WholeFile
<1> QED
  BY <1>1, <1>2, <1>3

\* Cutting a file leaves its header as it is.
LEMMA CutKeepsHeader ==
    ASSUME NEW d, NEW b
    PROVE  LET cut == CutAt(WholeFile(d), b)
           IN  /\ cut.codeSize = WholeFile(d).codeSize
               /\ cut.constantsSize = WholeFile(d).constantsSize
               /\ cut.entrypoint = d.entrypoint
               /\ cut.initialStack = MemorySize - 1
               /\ cut.bytes = b
               /\ cut.words = IF b < HeaderSize THEN <<>>
                              ELSE SubSeq(d.code \o d.constants, 1,
                                          (b - HeaderSize) \div WordSize)
BY DEF CutAt, WholeFile

\* The steps of the disassembler keep the program.
LEMMA DisassembleKeeps ==
    ASSUME Disassemble
    PROVE  /\ phase \in Reading
           /\ UNCHANGED data
BY DEF Disassemble, UnknownConstantType, TruncatedConstant, DisassembleConstant,
       PrepareCommandLabels, UnknownCommand, DisassembleCommand, EndListing,
       AtConstant, Reading

\* ReadInv holds at first.
LEMMA ReadInvInit ==
    ASSUME Init
    PROVE  ReadInv
<1>1. phase \notin Reading
  BY DEF Init, FromText, FromFile, Reading
<1>2. ASSUME NEW f \in ForeignFiles, file = f
      PROVE  ReadInv
  <2>1. file \in ExecFile
    BY <1>2, ToolchainAssumption
  <2> QED
    BY <1>1, <2>1, FieldCounts DEF ReadInv, ExecFile, Words
<1>3. ASSUME file = NoFile
      PROVE  ReadInv
  <2>1. Len(NoData.code) = 0 /\ Len(NoData.constants) = 0
    BY DEF NoData
  <2>2. /\ file.codeSize = WholeFile(NoData).codeSize
        /\ file.constantsSize = WholeFile(NoData).constantsSize
        /\ file.bytes = 0
    <3> DEFINE zero == 0
    <3> HIDE DEF zero
    <3>1. file = CutAt(WholeFile(NoData), zero)
      BY <1>3 DEF NoFile, zero
    <3> QED
      BY <3>1, CutKeepsHeader DEF zero
  <2>3. file.codeSize \in Nat /\ file.constantsSize \in Nat
    BY <2>1, <2>2, WholeSizes
  <2> QED
    BY <1>1, <2>2, <2>3 DEF ReadInv
<1> QED
  BY <1>2, <1>3 DEF Init, FromText, FromFile

\* ReadInv is kept by every step.
LEMMA ReadInvNext ==
    ASSUME ReadInv, data \in Data, [Next]_vars
    PROVE  ReadInv'
<1>1. ASSUME UNCHANGED <<file, data>>, phase' \in Reading => phase \in Reading
      PROVE  ReadInv'
  BY <1>1 DEF ReadInv, ReadData, ReadError
<1>2. CASE Compile
  BY <1>2 DEF Compile, ReadInv, Reading
<1>3. CASE RefuseText
  BY <1>3 DEF RefuseText, ReadInv, Reading
<1>4. CASE Write
  <2>1. PICK b \in 0 .. WholeFile(data).bytes : file' = CutAt(WholeFile(data), b)
    BY <1>4 DEF Write
  <2>2. Len(data.code) \in Nat /\ Len(data.constants) \in Nat
    BY SegmentSizes
  <2>3. /\ file'.codeSize = WholeFile(data).codeSize
        /\ file'.constantsSize = WholeFile(data).constantsSize
        /\ file'.bytes = b
    BY <2>1, CutKeepsHeader
  <2>4. b \in Nat
    OBVIOUS
  <2>5. phase' \notin Reading
    BY <1>4 DEF Write, Reading
  <2> QED
    BY <2>2, <2>3, <2>4, <2>5, WholeSizes DEF ReadInv
<1>5. CASE Read
  BY <1>5 DEF Read, StartDisassembly, ReadInv, ReadData, ReadError
<1>6. CASE RefuseFile
  BY <1>6 DEF RefuseFile, Fail, ReadInv, Reading
<1>7. CASE CompileListing
  BY <1>7 DEF CompileListing, ReadInv, Reading
<1>8. CASE Disassemble /\ UNCHANGED <<text, file, round, compiled, original>>
  BY <1>1, <1>8, DisassembleKeeps
<1>9. CASE UNCHANGED vars
  BY <1>1, <1>9 DEF vars, disasmVars
<1> QED
  BY <1>2, <1>3, <1>4, <1>5, <1>6, <1>7, <1>8, <1>9 DEF Next

\* The sizes of a file that is read.
LEMMA ReadSizes ==
    ASSUME ReadError(file) = "none"
    PROVE  /\ ~(file.bytes < HeaderSize) /\ ~(file.bytes - HeaderSize > MemorySize)
           /\ file.bytes = HeaderSize + file.codeSize + file.constantsSize
BY Zenon DEF ReadError

\* A program that is read fits the memory.
LEMMA ReadFits ==
    ASSUME ReadInv, phase \in Reading
    PROVE  FitsMemory(data)
<1> DEFINE c == file.codeSize \div WordSize
           k == file.constantsSize \div WordSize
<1>1. ReadError(file) = "none" /\ data = ReadData(file)
  BY DEF ReadInv
<1>2. c \in Nat /\ c <= file.codeSize /\ k \in Nat /\ k <= file.constantsSize
  BY WordsOfBytes DEF ReadInv
<1>3. /\ DOMAIN data.code = 1 .. c /\ DOMAIN data.constants = 1 .. k
      /\ data.code = [i \in 1 .. c |-> data.code[i]]
      /\ data.constants = [i \in 1 .. k |-> data.constants[i]]
  BY <1>1 DEF ReadData
<1> HIDE DEF c, k
<1>4. Len(data.code) = c /\ Len(data.constants) = k
  <2>1. \A n \in Nat : \A f : f = [i \in 1 .. n |-> f[i]] => Len(f) = n
    OBVIOUS
  <2> QED
    BY <1>2, <1>3, <2>1
<1>5. c + k <= MemorySize
  <2>1. /\ file.codeSize \in Nat /\ file.constantsSize \in Nat /\ file.bytes \in Nat
        /\ HeaderSize \in Nat /\ MemorySize \in Nat
    BY FieldCounts, ExecAssumption DEF ReadInv
  <2>2. /\ file.bytes - HeaderSize <= MemorySize
        /\ file.bytes = HeaderSize + file.codeSize + file.constantsSize
    BY <1>1, <2>1, ReadSizes
  <2> QED
    BY <1>2, <2>1, <2>2
<1> QED
  BY <1>4, <1>5 DEF FitsMemory

\* What is written is a program as the compiler makes it, and the file holds
\* all of it or what was written before the writing stopped.
Writable(d) ==
    /\ Len(d.code) \in Nat /\ Len(d.constants) \in Nat
    /\ d = [entrypoint |-> d.entrypoint, initialStack |-> MemorySize - 1,
            code |-> [i \in 1 .. Len(d.code) |-> d.code[i]],
            constants |-> [i \in 1 .. Len(d.constants) |-> d.constants[i]]]
    /\ SizesFit(d)

WrittenInv ==
    /\ round \in Nat
    /\ phase = "write" => data.initialStack = MemorySize - 1
    /\ round > 0 => /\ Writable(compiled)
                    /\ \E b \in 0 .. WholeFile(compiled).bytes :
                           file = CutAt(WholeFile(compiled), b)

\* The header can say the sizes of a program that fits the memory.
LEMMA FitsTheHeader ==
    ASSUME NEW d \in Data, FitsMemory(d)
    PROVE  SizesFit(d)
<1>1. PICK n \in Nat : n = Len(d.code) + Len(d.constants)
  <2>1. Len(d.code) \in Nat /\ Len(d.constants) \in Nat
    BY SegmentSizes
  <2>2. \A x, y \in Nat : x + y \in Nat
    OBVIOUS
  <2> QED
    BY <2>1, <2>2
<1>2. PICK k \in Nat : n + k = MemorySize
  <2>1. n <= MemorySize
    BY <1>1 DEF FitsMemory
  <2>2. MemorySize - n \in Nat /\ n + (MemorySize - n) = MemorySize
    BY <2>1, FieldCounts
  <2> QED
    BY <2>2
<1>3. WordSize * n \in Nat /\ WordSize * k \in Nat
  BY ExecAssumption
<1>4. WordSize * MemorySize = WordSize * n + WordSize * k
  <2>1. WordSize * (n + k) = WordSize * n + WordSize * k
    BY ExecAssumption
  <2> QED
    BY <1>2, <2>1
<1>5. PICK x \in Nat, y \in Nat : x = WordSize * n /\ y = WordSize * k
  BY <1>3
<1>6. x + y < WordCount
  BY <1>4, <1>5, ExecAssumption
<1>7. x < WordCount
  BY <1>6, FieldCounts
<1> QED
  BY <1>1, <1>5, <1>7 DEF SizesFit

\* A data that the compiler makes can be written.
LEMMA AssembledIsWritable ==
    ASSUME WrittenInv, phase = "write", data \in Data, AssembledFits
    PROVE  Writable(data)
<1>1. data \in Data /\ data.initialStack = MemorySize - 1 /\ SizesFit(data)
  BY FitsTheHeader DEF WrittenInv, AssembledFits
<1>2. /\ data.code \in Seq(Words) /\ data.constants \in Seq(Words)
      /\ data = [entrypoint |-> data.entrypoint, initialStack |-> data.initialStack,
                 code |-> data.code, constants |-> data.constants]
  BY <1>1 DEF Data
<1>3. \A s \in Seq(Words) : Len(s) \in Nat /\ s = [i \in 1 .. Len(s) |-> s[i]]
  OBVIOUS
<1>4. /\ Len(data.code) \in Nat /\ Len(data.constants) \in Nat
      /\ data.code = [i \in 1 .. Len(data.code) |-> data.code[i]]
      /\ data.constants = [i \in 1 .. Len(data.constants) |-> data.constants[i]]
  BY <1>2, <1>3
<1> QED
  BY <1>1, <1>2, <1>4 DEF Writable

\* WrittenInv is kept by every step.
LEMMA WrittenInvNext ==
    ASSUME WrittenInv, data \in Data, AssembledFits, [Next]_vars
    PROVE  WrittenInv'
<1>1. ASSUME UNCHANGED <<file, round, compiled>>, phase' # "write"
      PROVE  WrittenInv'
  BY <1>1 DEF WrittenInv, Writable, SizesFit
<1>2. CASE Compile
  <2>1. data'.initialStack = MemorySize - 1
    BY <1>2 DEF Compile, AssembledData
  <2> QED
    BY <1>2, <2>1 DEF Compile, WrittenInv, Writable, SizesFit
<1>3. CASE RefuseText
  BY <1>1, <1>3 DEF RefuseText
<1>4. CASE Write
  <2>1. Writable(data)
    BY <1>4, AssembledIsWritable DEF Write
  <2>2. /\ round' = round + 1 /\ compiled' = data /\ phase' = "read"
        /\ \E b \in 0 .. WholeFile(data).bytes : file' = CutAt(WholeFile(data), b)
    BY <1>4 DEF Write
  <2>3. Writable(compiled')
    BY <2>1, <2>2
  <2>4. /\ Writable(compiled)'
        /\ \E b \in 0 .. WholeFile(compiled').bytes : file' = CutAt(WholeFile(compiled'), b)
    BY <2>2, <2>3 DEF Writable, SizesFit
  <2> QED
    BY <2>2, <2>4 DEF WrittenInv, Writable, SizesFit
<1>5. CASE Read
  BY <1>1, <1>5 DEF Read, StartDisassembly
<1>6. CASE RefuseFile
  BY <1>1, <1>6 DEF RefuseFile, Fail
<1>7. CASE CompileListing
  BY <1>1, <1>7 DEF CompileListing
<1>8. CASE Disassemble /\ UNCHANGED <<text, file, round, compiled, original>>
  <2>1. phase' # "write"
    BY <1>8 DEF Disassemble, UnknownConstantType, TruncatedConstant,
                DisassembleConstant, PrepareCommandLabels, UnknownCommand,
                DisassembleCommand, EndListing, AtConstant, Fail
  <2> QED
    BY <1>1, <1>8, <2>1
<1>9. CASE UNCHANGED vars
  BY <1>9 DEF vars, disasmVars, WrittenInv, Writable, SizesFit
<1> QED
  BY <1>2, <1>3, <1>4, <1>5, <1>6, <1>7, <1>8, <1>9 DEF Next

\* So many words take the bytes that are a whole number of words.
LEMMA BytesOfWords ==
    ASSUME NEW n \in Nat
    PROVE  (WordSize * n) \div WordSize = n
<1>1. WordSize \in Nat \ {0}
  BY ExecAssumption
<1>2. n * WordSize + 0 = WordSize * n
  BY <1>1
<1> DEFINE zero == 0
<1>3. zero \in Nat /\ zero < WordSize
  BY <1>1
<1> HIDE DEF zero
<1>4. (n * WordSize + zero) \div WordSize = n
  BY <1>1, <1>3, LastDigit
<1> QED
  BY <1>2, <1>4 DEF zero

\* The sizes of a program that fits are stated as they are.
LEMMA WrittenSizes ==
    ASSUME NEW d, Writable(d)
    PROVE  /\ WholeFile(d).codeSize = WordSize * Len(d.code)
           /\ WholeFile(d).constantsSize = WordSize * Len(d.constants)
           /\ WordSize * Len(d.code) \in Nat /\ WordSize * Len(d.constants) \in Nat
           /\ WordSize * (Len(d.code) + Len(d.constants))
                = WordSize * Len(d.code) + WordSize * Len(d.constants)
<1> DEFINE x == WordSize * Len(d.code)
           y == WordSize * Len(d.constants)
           z == WordSize * (Len(d.code) + Len(d.constants))
<1>1. /\ Len(d.code) \in Nat /\ Len(d.constants) \in Nat
      /\ WordSize \in Nat /\ z < WordCount
  BY ExecAssumption DEF Writable, SizesFit
<1>2. x \in Nat /\ y \in Nat /\ z = x + y
  <2>1. PICK l, k : l = Len(d.code) /\ k = Len(d.constants)
    OBVIOUS
  <2>2. l \in Nat /\ k \in Nat
    BY <1>1, <2>1
  <2>3. /\ WordSize * l \in Nat /\ WordSize * k \in Nat
        /\ WordSize * (l + k) = WordSize * l + WordSize * k
    BY <1>1, <2>2
  <2> QED
    BY <2>1, <2>3
<1>3. WholeFile(d).codeSize = x % WordCount /\ WholeFile(d).constantsSize = y % WordCount
  BY DEF WholeFile
<1> HIDE DEF x, y, z
<1>4. x < WordCount /\ y < WordCount /\ WordCount \in Nat \ {0}
  BY <1>1, <1>2, FieldCounts
<1>5. x % WordCount = x /\ y % WordCount = y
  BY <1>2, <1>4
<1> QED
  BY <1>2, <1>3, <1>5 DEF x, y, z

\* A file that was cut and is read all the same holds all words: it is not
\* shorter than its header says.
LEMMA CutIsWhole ==
    ASSUME NEW d, Writable(d), NEW b,
           file = CutAt(WholeFile(d), b), ReadError(file) = "none"
    PROVE  file.words = d.code \o d.constants
<1> DEFINE n == Len(d.code) + Len(d.constants)
           s == d.code \o d.constants
           z == WordSize * n
<1>1. /\ Len(d.code) \in Nat /\ Len(d.constants) \in Nat /\ n \in Nat
      /\ HeaderSize \in Nat /\ WordSize \in Nat
  BY ExecAssumption DEF Writable
<1>2. /\ file.bytes = b
      /\ file.codeSize = WordSize * Len(d.code)
      /\ file.constantsSize = WordSize * Len(d.constants)
      /\ file.words = IF b < HeaderSize THEN <<>>
                      ELSE SubSeq(s, 1, (b - HeaderSize) \div WordSize)
  <2>1. LET cut == CutAt(WholeFile(d), b)
        IN  /\ cut.codeSize = WholeFile(d).codeSize
            /\ cut.constantsSize = WholeFile(d).constantsSize
            /\ cut.bytes = b
            /\ cut.words = IF b < HeaderSize THEN <<>>
                           ELSE SubSeq(s, 1, (b - HeaderSize) \div WordSize)
    BY CutKeepsHeader
  <2>2. /\ WholeFile(d).codeSize = WordSize * Len(d.code)
        /\ WholeFile(d).constantsSize = WordSize * Len(d.constants)
    BY WrittenSizes
  <2> HIDE DEF s
  <2> QED
    BY <2>1, <2>2
<1>3. z \in Nat /\ z = WordSize * Len(d.code) + WordSize * Len(d.constants)
  <2>1. /\ WordSize * Len(d.code) \in Nat /\ WordSize * Len(d.constants) \in Nat
        /\ WordSize * (Len(d.code) + Len(d.constants))
             = WordSize * Len(d.code) + WordSize * Len(d.constants)
    BY WrittenSizes
  <2> DEFINE x == WordSize * Len(d.code)
             y == WordSize * Len(d.constants)
  <2>2. x \in Nat /\ y \in Nat /\ z = x + y
    BY <2>1
  <2> HIDE DEF x, y, z
  <2>3. z \in Nat /\ z = x + y
    BY <2>2
  <2> QED
    BY <2>3 DEF x, y
<1>4. ~(b < HeaderSize) /\ b = HeaderSize + file.codeSize + file.constantsSize
  BY <1>2, ReadSizes
<1>5. b - HeaderSize = z
  <2>1. WordSize * Len(d.code) \in Nat /\ WordSize * Len(d.constants) \in Nat
    BY WrittenSizes
  <2> DEFINE x == WordSize * Len(d.code)
             y == WordSize * Len(d.constants)
  <2>2. b = HeaderSize + x + y /\ z = x + y
    BY <1>2, <1>3, <1>4
  <2>3. x \in Nat /\ y \in Nat
    BY <2>1
  <2> HIDE DEF x, y, z
  <2> QED
    BY <1>1, <2>2, <2>3
<1>6. z \div WordSize = n
  BY <1>1, BytesOfWords
<1>7. file.words = SubSeq(s, 1, n)
  BY <1>2, <1>4, <1>5, <1>6
<1>8. SubSeq(s, 1, n) = s
  <2>1. /\ s \in Seq(Range(d.code) \cup Range(d.constants)) /\ Len(s) = n
    <3> DEFINE f == d.code
               g == d.constants
               S == Range(f) \cup Range(g)
    <3>1. /\ f = [i \in 1 .. Len(f) |-> f[i]]
          /\ g = [i \in 1 .. Len(g) |-> g[i]]
      BY DEF Writable
    <3>2. DOMAIN f = 1 .. Len(f) /\ DOMAIN g = 1 .. Len(g)
      BY <3>1
    <3>3. f \in Seq(S) /\ g \in Seq(S)
      <4>1. /\ \A i \in 1 .. Len(f) : f[i] \in S
            /\ \A i \in 1 .. Len(g) : g[i] \in S
        BY <3>2 DEF Range
      <4> HIDE DEF S
      <4>2. [i \in 1 .. Len(f) |-> f[i]] \in Seq(S) /\ [i \in 1 .. Len(g) |-> g[i]] \in Seq(S)
        BY <1>1, <4>1
      <4> QED
        BY <3>1, <4>2
    <3> HIDE DEF S, f, g
    <3>4. f \o g \in Seq(S) /\ Len(f \o g) = Len(f) + Len(g)
      BY <3>3
    <3> QED
      BY <3>4 DEF S, f, g
  <2> DEFINE S == Range(d.code) \cup Range(d.constants)
  <2> HIDE DEF S, s, n
  <2>2. s \in Seq(S) /\ Len(s) = n
    BY <2>1 DEF S
  <2> QED
    BY <2>2
<1> QED
  BY <1>7, <1>8

\* So what is read is what was written.
LEMMA ReadBack ==
    ASSUME NEW d, Writable(d), NEW b,
           file = CutAt(WholeFile(d), b), ReadError(file) = "none"
    PROVE  ReadData(file) = d
<1> DEFINE l == Len(d.code)
           k == Len(d.constants)
           s == d.code \o d.constants
<1>1. /\ l \in Nat /\ k \in Nat
      /\ d = [entrypoint |-> d.entrypoint, initialStack |-> MemorySize - 1,
              code |-> [i \in 1 .. l |-> d.code[i]],
              constants |-> [i \in 1 .. k |-> d.constants[i]]]
  BY DEF Writable
<1>2. file.words = s
  BY CutIsWhole
<1>3. /\ file.codeSize = WordSize * l /\ file.constantsSize = WordSize * k
      /\ file.entrypoint = d.entrypoint /\ file.initialStack = MemorySize - 1
  <2>1. LET cut == CutAt(WholeFile(d), b)
        IN  /\ cut.codeSize = WholeFile(d).codeSize
            /\ cut.constantsSize = WholeFile(d).constantsSize
            /\ cut.entrypoint = d.entrypoint
            /\ cut.initialStack = MemorySize - 1
    BY CutKeepsHeader
  <2>2. /\ WholeFile(d).codeSize = WordSize * l
        /\ WholeFile(d).constantsSize = WordSize * k
    BY WrittenSizes
  <2> QED
    BY <2>1, <2>2
<1>4. file.codeSize \div WordSize = l /\ file.constantsSize \div WordSize = k
  BY <1>1, <1>3, BytesOfWords
<1>5. /\ Len(s) = l + k
      /\ \A i \in 1 .. l : s[i] = d.code[i]
      /\ \A i \in 1 .. k : s[l + i] = d.constants[i]
  <2> DEFINE f == d.code
             g == d.constants
             S == Range(f) \cup Range(g)
  <2>1. f = [i \in 1 .. l |-> f[i]] /\ g = [i \in 1 .. k |-> g[i]]
    BY DEF Writable
  <2>2. f \in Seq(S) /\ g \in Seq(S)
    <3>1. /\ \A i \in 1 .. l : f[i] \in S
          /\ \A i \in 1 .. k : g[i] \in S
      BY <2>1 DEF Range
    <3>2. l \in Nat /\ k \in Nat
      BY <1>1
    <3> HIDE DEF S, l, k, f, g
    <3>3. [i \in 1 .. l |-> f[i]] \in Seq(S)
      BY <3>1, <3>2
    <3>4. [i \in 1 .. k |-> g[i]] \in Seq(S)
      BY <3>1, <3>2
    <3> QED
      BY <2>1, <3>3, <3>4
  <2> HIDE DEF S, f, g
  <2>3. /\ Len(f \o g) = Len(f) + Len(g)
        /\ \A i \in 1 .. Len(f) : (f \o g)[i] = f[i]
        /\ \A i \in 1 .. Len(g) : (f \o g)[Len(f) + i] = g[i]
    BY <2>2
  <2> QED
    BY <2>3 DEF f, g
<1> HIDE DEF l, k, s
<1> DEFINE word(i) == IF i <= Len(file.words) THEN file.words[i] ELSE 0
<1>6. \A i \in 1 .. l : word(i) = d.code[i]
  BY <1>1, <1>2, <1>5
<1>7. \A i \in 1 .. k : word(l + i) = d.constants[i]
  BY <1>1, <1>2, <1>5
<1>8. ReadData(file) = [entrypoint   |-> file.entrypoint,
                        initialStack |-> file.initialStack,
                        code         |-> [i \in 1 .. l |-> word(i)],
                        constants    |-> [i \in 1 .. k |-> word(l + i)]]
  BY <1>4 DEF ReadData
<1> HIDE DEF word
<1>9. /\ [i \in 1 .. l |-> word(i)] = [i \in 1 .. l |-> d.code[i]]
      /\ [i \in 1 .. k |-> word(l + i)] = [i \in 1 .. k |-> d.constants[i]]
  BY <1>6, <1>7
<1> QED
  BY <1>1, <1>3, <1>8, <1>9
-----------------------------------------------------------------------------
(***************************************************************************)
(* The types.                                                              *)
(***************************************************************************)
\* The types, and what they need: another file can be written, the labels of
\* the constants are addresses of words gone through, all codes were seen to be
\* known.
TypesInv ==
    /\ TypeOK
    /\ phase \in {"compile", "write"} => round < MaxRounds
    /\ phase = "constants" => ConstantLabelsInv /\ pos <= Len(data.constants)
    /\ phase = "commands" => \A w \in ToSet(data.code) : Known(w)

\* The programs there are before anything is made.
LEMMA FirstTypes ==
    /\ NoData \in Data /\ NoFile \in ExecFile
    /\ LabelsAreTyped(NoLabels) /\ <<>> \in Seq(Line)
<1>1. NoData \in Data
  <2>1. 0 \in Words /\ <<>> \in Seq(Words)
    BY FieldCounts DEF Words
  <2> QED
    BY <2>1 DEF NoData, Data
<1>2. 0 \in 0 .. WholeFile(NoData).bytes
  <2>1. Len(NoData.code \o NoData.constants) = 0
    BY DEF NoData
  <2>2. PICK l \in Nat : l = Len(NoData.code \o NoData.constants) /\ l = 0
    BY <2>1
  <2>3. WholeFile(NoData).bytes = Length(l)
    BY <2>2 DEF WholeFile
  <2> QED
    BY <2>2, <2>3, ExecAssumption DEF Length
<1>3. NoFile \in ExecFile
  <2>1. PICK zero : zero = 0
    OBVIOUS
  <2>2. CutAt(WholeFile(NoData), zero) \in ExecFile
    BY <1>1, <1>2, <2>1, CutType
  <2> QED
    BY <2>1, <2>2 DEF NoFile
<1>4. LabelsAreTyped(NoLabels)
  BY DEF LabelsAreTyped, NoLabels, Range
<1> QED
  BY <1>1, <1>3, <1>4

\* The types hold at first.
LEMMA TypesInvInit ==
    ASSUME Init
    PROVE  TypesInv
<1>1. /\ error = "none" /\ round = 0 /\ data = NoData /\ pos = 0 /\ listing = <<>>
      /\ constantLabels = NoLabels /\ commandLabels = NoLabels
      /\ compiled = NoData /\ original = NoListing
  BY DEF Init
<1>2. /\ text \in Seq(Line) /\ file \in ExecFile
      /\ phase \in {"compile", "read"}
  <2>1. ASSUME NEW t \in Texts, FromText(t)
        PROVE  text \in Seq(Line) /\ file \in ExecFile /\ phase = "compile"
    BY <2>1, FirstTypes, ToolchainAssumption DEF FromText
  <2>2. ASSUME NEW f \in ForeignFiles, FromFile(f)
        PROVE  text \in Seq(Line) /\ file \in ExecFile /\ phase = "read"
    BY <2>2, FirstTypes, ToolchainAssumption DEF FromFile
  <2> QED
    BY <2>1, <2>2 DEF Init
<1>3. original.data \in Data /\ original.listing \in Seq(Line)
  BY <1>1, FirstTypes DEF NoListing
<1>4. 0 < MaxRounds /\ 0 \in 0 .. MaxRounds
  BY ToolchainAssumption
<1>5. TypeOK
  BY <1>1, <1>2, <1>3, <1>4, FirstTypes DEF TypeOK, LabelsAreTyped
<1> QED
  BY <1>1, <1>2, <1>4, <1>5 DEF TypesInv

\* What a step of the disassembler leaves of the types.
LEMMA TypesInvDisassemble ==
    ASSUME TypesInv, phase \in Reading => FitsMemory(data),
           Disassemble, UNCHANGED <<text, file, round, compiled, original>>
    PROVE  TypesInv'
<1>1. /\ data \in Data /\ pos \in Nat /\ listing \in Seq(Line)
      /\ LabelsAreTyped(constantLabels) /\ LabelsAreTyped(commandLabels)
      /\ TypeOK
  BY DEF TypesInv, TypeOK, LabelsAreTyped
<1>2. UNCHANGED data /\ phase \in Reading
  BY DisassembleKeeps
<1>3. FitsMemory(data)
  BY <1>2
<1>4. ASSUME phase' \in {"failed"} \cup Reading,
             error' \in {"none"} \cup ExecErrors \cup DisasmErrors,
             listing' \in Seq(Line), pos' \in Nat,
             LabelsAreTyped(constantLabels'), LabelsAreTyped(commandLabels')
      PROVE  TypeOK'
  BY <1>1, <1>2, <1>4 DEF TypeOK, LabelsAreTyped
<1>5. /\ \A s \in Seq(Line) : \A x \in Line : Append(s, x) \in Seq(Line)
      /\ Len(data.code) \in Nat /\ Len(data.constants) \in Nat
  BY <1>1, SegmentSizes
<1>6. CASE UnknownConstantType
  <2>1. phase' = "failed" /\ error' = "UnknownConstantType"
    BY <1>6 DEF UnknownConstantType, Fail
  <2>2. TypeOK'
    BY <1>1, <1>4, <1>6, <2>1 DEF UnknownConstantType, DisasmErrors
  <2> QED
    BY <2>1, <2>2 DEF TypesInv
<1>7. CASE TruncatedConstant
  <2>1. phase' = "failed" /\ error' \in {"NoTrailingZeroInString", "ConstantNoValue"}
    BY <1>7 DEF TruncatedConstant, Fail
  <2>2. LabelsAreTyped(constantLabels')
    BY <1>1, <1>3, <1>7, ConstantLabelled DEF TruncatedConstant, AtConstant, TypesInv
  <2>3. TypeOK'
    BY <1>1, <1>4, <1>7, <2>1, <2>2 DEF TruncatedConstant, DisasmErrors
  <2> QED
    BY <2>1, <2>3 DEF TypesInv
<1>8. CASE DisassembleConstant
  <2>1. /\ AtConstant /\ phase = "constants" /\ Type \in Types
        /\ Start + Width <= Len(data.constants) /\ RecordConstantLabel
        /\ pos < Len(data.constants)
        /\ listing' = Append(listing, ConstantLine(NextConstantLabel))
        /\ pos' = Start + Width
        /\ UNCHANGED <<phase, error, data, commandLabels>>
    BY <1>8 DEF DisassembleConstant, AtConstant
  <2>2. /\ NextConstantLabel \in Labels /\ LabelsAreTyped(constantLabels')
        /\ DOMAIN constantLabels' \subseteq Len(data.code) + 1 .. Len(data.code) + pos + 1
    BY <1>1, <1>3, <2>1, ConstantLabelled DEF TypesInv
  <2>3. ConstantLine(NextConstantLabel) \in Line /\ pos' \in Nat /\ pos' > pos
    <3>1. PICK label \in Labels : label = NextConstantLabel
      BY <2>2
    <3>2. data.constants \in Seq(Words)
      BY <1>1 DEF Data
    <3>3. /\ ConstantLine(label) \in Line
          /\ Start + Width \in Nat /\ Start + Width > pos
      BY <1>1, <2>1, <3>2, ConstantLineType
    <3> QED
      BY <2>1, <3>1, <3>3
  <2>4. listing' \in Seq(Line)
    BY <1>1, <1>5, <2>1, <2>3
  <2>5. TypeOK'
    BY <1>1, <1>2, <1>4, <2>1, <2>2, <2>3, <2>4 DEF TypeOK
  <2>6. DOMAIN constantLabels' \subseteq Len(data.code) + 1 .. Len(data.code) + pos'
    <3>1. PICK l \in Nat : l = Len(data.code)
      BY <1>5
    <3>2. l + 1 .. l + pos + 1 \subseteq l + 1 .. l + pos'
      <4>1. PICK p, q \in Nat : p = pos /\ q = pos' /\ q > p
        BY <1>1, <2>3
      <4>2. l + p + 1 <= l + q
        <5>1. q > p
          BY <4>1
        <5> QED
          BY <5>1
      <4>3. PICK m, n \in Nat : m = l + p + 1 /\ n = l + q
        OBVIOUS
      <4>4. l + 1 .. m \subseteq l + 1 .. n
        BY <4>2, <4>3
      <4> QED
        BY <4>1, <4>3, <4>4
    <3> QED
      BY <2>2, <3>1, <3>2
  <2>7. ConstantLabelsInv'
    BY <2>1, <2>2, <2>6 DEF ConstantLabelsInv, LabelsAreTyped
  <2>8. pos' <= Len(data'.constants)
    BY <2>1
  <2> QED
    BY <2>1, <2>5, <2>7, <2>8 DEF TypesInv
<1>9. CASE PrepareCommandLabels
  <2>1. LabelsAreTyped(commandLabels')
    BY <1>1, <1>3, <1>9, CommandLabelled DEF PrepareCommandLabels
  <2>2. TypeOK'
    BY <1>1, <1>2, <1>4, <1>9, <2>1 DEF PrepareCommandLabels, TypeOK, Reading
  <2>3. \A w \in ToSet(data'.code) : Known(w)
    BY <1>9 DEF PrepareCommandLabels
  <2> QED
    BY <1>9, <2>2, <2>3 DEF TypesInv, PrepareCommandLabels, ToSet
<1>10. CASE UnknownCommand
  <2>1. phase' = "failed" /\ error' = "UnknownCommand"
    BY <1>10 DEF UnknownCommand, Fail
  <2>2. TypeOK'
    BY <1>1, <1>4, <1>10, <2>1 DEF UnknownCommand, DisasmErrors
  <2> QED
    BY <2>1, <2>2 DEF TypesInv
<1>11. CASE DisassembleCommand
  <2>1. /\ phase = "commands" /\ pos < Len(data.code)
        /\ listing' = (listing \o LabelLine(pos)) \o <<CommandString(data.code[pos + 1])>>
        /\ pos' = pos + 1
        /\ UNCHANGED <<phase, error, data, constantLabels, commandLabels>>
    BY <1>11 DEF DisassembleCommand
  <2>2. PICK w \in Words : w = data.code[pos + 1] /\ Known(w)
    <3>1. data.code \in Seq(Words) /\ pos + 1 \in 1 .. Len(data.code)
      BY <1>1, <1>5, <2>1 DEF Data
    <3>2. data.code[pos + 1] \in Words /\ data.code[pos + 1] \in ToSet(data.code)
      BY <3>1 DEF ToSet
    <3> QED
      BY <2>1, <3>2 DEF TypesInv
  <2>3. LabelLine(pos) \in Seq(Line) /\ CommandString(w) \in Line
    BY <1>1, <2>2, DisassembledLineTypes
  <2>4. listing' \in Seq(Line)
    <3>1. <<CommandString(w)>> \in Seq(Line)
      BY <2>3
    <3>2. listing \o LabelLine(pos) \in Seq(Line)
      BY <1>1, <2>3, JoinedType
    <3> QED
      BY <2>1, <2>2, <3>1, <3>2, JoinedType
  <2>5. TypeOK'
    BY <1>1, <1>2, <1>4, <2>1, <2>4 DEF TypeOK
  <2> QED
    BY <2>1, <2>5 DEF TypesInv, ToSet
<1>12. CASE EndListing
  <2>1. listing' \in Seq(Line)
    BY <1>1, <1>5, <1>12, DisassembledLineTypes DEF EndListing
  <2>2. TypeOK'
    BY <1>1, <1>4, <1>12, <2>1 DEF EndListing, TypeOK, Reading
  <2> QED
    BY <1>12, <2>2 DEF EndListing, TypesInv
<1> QED
  BY <1>6, <1>7, <1>8, <1>9, <1>10, <1>11, <1>12 DEF Disassemble

\* The types are kept by every step.
LEMMA TypesInvNext ==
    ASSUME TypesInv, phase \in Reading => FitsMemory(data),
           AssembledFits', [Next]_vars
    PROVE  TypesInv'
<1>1. TypeOK
  BY DEF TypesInv
<1>2. CASE Compile
  <2>1. data' = AssembledData /\ phase' = "write" /\ phase = "compile" /\ Accepted
    BY <1>2 DEF Compile
  <2>2. FitsMemory(AssembledData)
    <3>1. FitsMemory(data')
      BY <2>1 DEF AssembledFits, FitsMemory
    <3> QED
      BY <2>1, <3>1, Zenon
  <2>3. AssembledData \in Data
    <3>1. text \in Seq(Line)
      BY <1>1 DEF TypeOK
    <3> QED
      BY <2>1, <2>2, <3>1, AssembledDataType
  <2>4. data' \in Data
    BY <2>1, <2>3, Zenon
  <2>5. UNCHANGED <<error, pos, constantLabels, commandLabels, listing,
                    text, file, round, compiled, original>>
    BY <1>2, Zenon DEF Compile
  <2>6. phase' = "write" /\ phase = "compile"
    BY <2>1
  <2>7. TypeOK'
    BY <1>1, <2>4, <2>5, <2>6 DEF TypeOK
  <2> QED
    BY <2>5, <2>6, <2>7 DEF TypesInv
<1>3. CASE RefuseText
  <2>1. TypeOK'
    BY <1>1, <1>3 DEF RefuseText, TypeOK
  <2> QED
    BY <1>3, <2>1 DEF RefuseText, TypesInv
<1>4. CASE Write
  <2>1. PICK b \in 0 .. WholeFile(data).bytes : file' = CutAt(WholeFile(data), b)
    BY <1>4 DEF Write
  <2>2. file' \in ExecFile
    BY <1>1, <2>1, CutType DEF TypeOK
  <2>3. round' \in 0 .. MaxRounds
    BY <1>1, <1>4, ToolchainAssumption DEF Write, TypeOK, TypesInv
  <2>4. TypeOK'
    BY <1>1, <1>4, <2>2, <2>3 DEF Write, TypeOK
  <2> QED
    BY <1>4, <2>4 DEF Write, TypesInv
<1>5. CASE Read
  <2>1. /\ data' = ReadData(file) /\ pos' = 0 /\ listing' = <<>>
        /\ constantLabels' = NoLabels /\ commandLabels' = NoLabels
        /\ phase' = "constants"
        /\ UNCHANGED <<error, text, file, round, compiled, original>>
    BY <1>5 DEF Read, StartDisassembly
  <2>2. data' \in Data
    BY <1>1, <2>1, ReadDataType DEF TypeOK
  <2>3. TypeOK'
    BY <1>1, <2>1, <2>2, FirstTypes DEF TypeOK, Reading, LabelsAreTyped
  <2>4. ConstantLabelsInv'
    <3>1. DOMAIN NoLabels = {}
      BY DEF NoLabels
    <3> QED
      BY <2>1, <3>1, FirstTypes DEF ConstantLabelsInv, LabelsAreTyped
  <2>5. 0 <= Len(data'.constants)
    <3>1. PICK d \in Data : d = data'
      BY <2>2
    <3> QED
      BY <3>1, SegmentSizes
  <2> QED
    BY <2>1, <2>3, <2>4, <2>5 DEF TypesInv
<1>6. CASE RefuseFile
  <2>1. ReadError(file) \in ExecErrors
    <3>1. ReadError(file) \in ExecErrors \cup {"none"}
      BY DEF ReadError, ExecErrors
    <3> QED
      BY <1>6, <3>1 DEF RefuseFile
  <2>2. TypeOK'
    BY <1>1, <1>6, <2>1 DEF RefuseFile, Fail, TypeOK
  <2> QED
    BY <1>6, <2>2 DEF RefuseFile, Fail, TypesInv
<1>7. CASE CompileListing
  <2>1. TypeOK'
    BY <1>1, <1>7 DEF CompileListing, TypeOK
  <2> QED
    BY <1>7, <2>1 DEF CompileListing, TypesInv
<1>8. CASE Disassemble /\ UNCHANGED <<text, file, round, compiled, original>>
  BY <1>8, TypesInvDisassemble
<1>9. CASE UNCHANGED vars
  <2>1. TypeOK'
    BY <1>1, <1>9 DEF vars, disasmVars, TypeOK
  <2> QED
    BY <1>9, <2>1 DEF vars, disasmVars, TypesInv, ConstantLabelsInv, LabelsAreTyped, ToSet
<1> QED
  BY <1>2, <1>3, <1>4, <1>5, <1>6, <1>7, <1>8, <1>9 DEF Next
-----------------------------------------------------------------------------
(***************************************************************************)
(* The words that are compiled.                                            *)
(***************************************************************************)
\* A text that is accepted is compiled to words that say what was written.
LEMMA EncodedAtCompile ==
    ASSUME text \in Seq(Line), Accepted, FitsMemory(AssembledData)
    PROVE  LET lines == CommandLines[Len(text)]
           IN  /\ Len(AssembledData.code) = Len(lines)
               /\ \A i \in DOMAIN lines :
                     lines[i].num # MemorySize =>
                         Meaning(AssembledData.code[i]) = AsWritten(lines[i])
<1> DEFINE places == Assembled!Places("command")
           words == Assembled!ConstantsLayout
           lines == CommandLines[Len(text)]
<1>1. PICK s : s = lines
  OBVIOUS
<1>2. /\ s \in Seq(Line) /\ Len(s) = Len(places)
      /\ \A i \in DOMAIN s : i \in DOMAIN places /\ s[i] = text[places[i][2]]
  BY <1>1, CommandsInOrder
<1>3. PICK n \in Nat : DOMAIN places = 1 .. n /\ Len(places) = n
  <2>1. places \in Seq(PlacesOf("command"))
    BY TextPlaces
  <2> QED
    BY <2>1
<1>4. PICK m \in Nat : DOMAIN words = 1 .. m /\ Len(words) = m
  <2> DEFINE C == ConstantWords
  <2>1. words \in Seq(C)
    BY ConstantsLaid
  <2> HIDE DEF C
  <2> QED
    BY <2>1
<1> DEFINE f(i) == CommandOf(places[i])
           code == [i \in DOMAIN places |-> f(i)]
           constants == [i \in DOMAIN words |-> WordOf(words[i])]
<1>5. AssembledData.code = code /\ AssembledData.constants = constants
  BY AssembledParts
<1>6. Len(code) = n /\ Len(constants) = m
  BY <1>3, <1>4
<1>7. ProgramFits
  <2> HIDE DEF code, constants
  <2>1. Len(AssembledData.code) = n /\ Len(AssembledData.constants) = m
    BY <1>5, <1>6, Zenon
  <2>2. Len(AssembledData.code) + Len(AssembledData.constants) <= MemorySize
    BY Zenon DEF FitsMemory
  <2>3. n + m <= MemorySize
    BY <2>1, <2>2, Zenon
  <2>4. PICK k \in Nat : k = n + m
    OBVIOUS
  <2>5. k = Len(places) + Len(words)
    BY <1>3, <1>4, <2>4
  <2> QED
    BY <2>3, <2>4, <2>5 DEF ProgramFits
<1>8. ASSUME NEW i \in DOMAIN s, s[i].num # MemorySize
      PROVE  Meaning(f(i)) = AsWritten(s[i])
  <2>1. places \in Seq(PlacesOf("command")) /\ i \in DOMAIN places
    BY <1>2, TextPlaces
  <2>2. PICK p \in PlacesOf("command") : p = places[i]
    BY <2>1
  <2>3. PICK k \in DOMAIN text :
            /\ p = <<Main, k>> /\ p[2] = k
            /\ text[k] \in Line /\ text[k].item = "command" /\ LineIsValid(text[k])
            /\ Assembled!LineAt(p) = Parsed(text[k])
            /\ \A j : Append(p, j) = <<Main, k, j>>
    BY <2>2, PlaceIs, Zenon
  <2>4. PICK line \in Line : line = text[k] /\ line = s[i]
    BY <1>2, <2>2, <2>3
  <2>5. PICK arg : arg = IF line.code \in UsesAddress THEN Assembled!Operand(p) ELSE line.num
    OBVIOUS
  <2>6. f(i) = CommandWord(line, arg)
    BY <2>2, <2>3, <2>4, <2>5, Zenon DEF CommandOf
  <2>7. CommandIsValid(line)
    BY <2>3, <2>4 DEF LineIsValid
  <2>8. line.code \in UsesAddress =>
            /\ arg \in 0 .. MemorySize - 1
            /\ arg = IF line.use = NoLabel THEN line.num
                     ELSE Assembled!LabelAddress(line.use)
    <3> SUFFICES ASSUME line.code \in UsesAddress
                 PROVE  /\ arg \in 0 .. MemorySize - 1
                        /\ arg = IF line.use = NoLabel THEN line.num
                                 ELSE Assembled!LabelAddress(line.use)
      OBVIOUS
    <3>1. /\ Assembled!Operand(p) \in 0 .. MemorySize
          /\ Assembled!Operand(p) = IF line.use = NoLabel THEN line.num
                                    ELSE Assembled!LabelAddress(line.use)
          /\ line.use # NoLabel => Assembled!Operand(p) \in 0 .. MemorySize - 1
      BY <1>7, <2>1, <2>2, <2>3, <2>4, OperandIsAddress
    <3>2. arg = Assembled!Operand(p)
      BY <2>5
    <3>3. line.use = NoLabel => arg # MemorySize
      BY <1>8, <2>4, <3>1, <3>2
    <3> QED
      BY <3>1, <3>2, <3>3, FieldCounts
  <2>9. line.code \notin UsesAddress => arg = line.num /\ line.use = NoLabel
    BY <2>5, <2>7 DEF CommandIsValid
  <2>10. IF line.code \in UsesAddress THEN arg \in 0 .. MemorySize - 1 ELSE arg = line.num
    BY <2>8, <2>9
  <2>11. Meaning(CommandWord(line, arg))
           = [code |-> line.code,
              reg  |-> IF Format[line.code] = "J" THEN 0 ELSE line.reg,
              src  |-> IF Format[line.code] = "RR" THEN line.src ELSE 0,
              arg  |-> IF line.code \in IgnoresAddress THEN 0 ELSE arg]
    BY <2>3, <2>4, <2>10, CommandsAreReadAsWritten
  <2>12. arg = IF line.use # NoLabel THEN Assembled!LabelAddress(line.use) ELSE line.num
    BY <2>8, <2>9
  <2>13. AsWritten(line)
           = [code |-> line.code,
              reg  |-> IF Format[line.code] = "J" THEN 0 ELSE line.reg,
              src  |-> IF Format[line.code] = "RR" THEN line.src ELSE 0,
              arg  |-> IF line.code \in IgnoresAddress THEN 0 ELSE arg]
    BY <2>12 DEF AsWritten
  <2> QED
    BY <2>4, <2>6, <2>11, <2>13
<1> HIDE DEF f
<1>9. \A i \in DOMAIN s : code[i] = f(i)
  BY <1>2
<1>10. Len(code) = Len(s)
  BY <1>2, <1>3, <1>6
<1> HIDE DEF code
<1>11. \A i \in DOMAIN s : s[i].num # MemorySize => Meaning(AssembledData.code[i]) = AsWritten(s[i])
  BY <1>5, <1>8, <1>9, Zenon
<1>12. Len(AssembledData.code) = Len(s)
  BY <1>5, <1>10, Zenon
<1> HIDE DEF lines
<1>13. lines = CommandLines[Len(text)]
  BY DEF lines
<1> QED
  BY <1>1, <1>11, <1>12, <1>13, Zenon

\* What the lines of the same text ask for stays the same.
LEMMA SameMeaning ==
    ASSUME text' = text
    PROVE  /\ CommandLines' = CommandLines
           /\ \A line : AsWritten(line)' = AsWritten(line)
<1>1. CommandLines' = CommandLines
  BY SMT DEF CommandLines
<1>2. ASSUME NEW line
      PROVE  AsWritten(line)' = AsWritten(line)
  <2>1. Assembled!LabelAddress(line.use)' = Assembled!LabelAddress(line.use)
    BY SameAddress
  <2> QED
    BY <2>1 DEF AsWritten
<1> QED
  BY <1>1, <1>2

\* The words say what was written, after every step.
LEMMA EncodedNext ==
    ASSUME text \in Seq(Line), EncodedAsWritten, AssembledFits', [Next]_vars
    PROVE  EncodedAsWritten'
<1>1. ASSUME phase' # "write"
      PROVE  EncodedAsWritten'
  BY <1>1 DEF EncodedAsWritten, EncodedAs
<1>2. CASE Compile
  <2>1. data' = AssembledData /\ phase' = "write" /\ Accepted /\ text' = text
    BY <1>2 DEF Compile
  <2>2. FitsMemory(AssembledData)
    <3>1. FitsMemory(data')
      BY <2>1 DEF AssembledFits, FitsMemory
    <3> QED
      BY <2>1, <3>1, Zenon
  <2>3. PICK s, d : s = CommandLines[Len(text)] /\ d = AssembledData
    OBVIOUS
  <2>4. /\ Len(d.code) = Len(s)
        /\ \A i \in DOMAIN s :
              s[i].num # MemorySize => Meaning(d.code[i]) = AsWritten(s[i])
    BY <2>1, <2>2, <2>3, EncodedAtCompile, Zenon
  <2>5. /\ CommandLines' = CommandLines
        /\ \A line : AsWritten(line)' = AsWritten(line)
    BY <2>1, SameMeaning
  <2>6. data' = d /\ CommandLines'[Len(text')] = s
    BY <2>1, <2>3, <2>5, Zenon
  <2> QED
    BY <2>4, <2>5, <2>6 DEF EncodedAsWritten, EncodedAs
<1>3. CASE UNCHANGED vars
  <2>1. phase' = phase /\ data' = data /\ text' = text
    BY <1>3 DEF vars, disasmVars
  <2>2. /\ CommandLines' = CommandLines
        /\ \A line : AsWritten(line)' = AsWritten(line)
    BY <2>1, SameMeaning
  <2> QED
    BY <2>1, <2>2 DEF EncodedAsWritten, EncodedAs
<1>4. CASE RefuseText \/ Write \/ Read \/ RefuseFile \/ CompileListing
  <2>1. phase' # "write"
    BY <1>4 DEF RefuseText, Write, Read, StartDisassembly, RefuseFile, Fail,
                CompileListing
  <2> QED
    BY <1>1, <2>1
<1>5. CASE Disassemble
  <2>1. phase' # "write"
    BY <1>5 DEF Disassemble, UnknownConstantType, TruncatedConstant,
                DisassembleConstant, PrepareCommandLabels, UnknownCommand,
                DisassembleCommand, EndListing, AtConstant, Fail
  <2> QED
    BY <1>1, <2>1
<1> QED
  BY <1>2, <1>3, <1>4, <1>5 DEF Next
-----------------------------------------------------------------------------
(***************************************************************************)
(* What holds of every program on its way.                                 *)
(***************************************************************************)
\* Everything the theorems below need, at every moment.
ProgramInv == ReadInv /\ TypesInv /\ WrittenInv /\ EncodedAsWritten

\* It holds at first.
LEMMA ProgramInvInit ==
    ASSUME Init
    PROVE  ProgramInv
<1>1. round = 0 /\ phase # "write"
  BY DEF Init, FromText, FromFile
<1>2. WrittenInv
  BY <1>1 DEF WrittenInv
<1>3. EncodedAsWritten
  BY <1>1 DEF EncodedAsWritten, EncodedAs
<1> QED
  BY <1>2, <1>3, ReadInvInit, TypesInvInit DEF ProgramInv

\* It is kept by every step between programs that fit.
LEMMA ProgramInvNext ==
    ASSUME ProgramInv, AssembledFits, AssembledFits', [Next]_vars
    PROVE  ProgramInv'
<1>1. ReadInv /\ TypesInv /\ WrittenInv /\ EncodedAsWritten
  BY DEF ProgramInv
<1>2. data \in Data /\ text \in Seq(Line)
  BY <1>1 DEF TypesInv, TypeOK
<1>3. phase \in Reading => FitsMemory(data)
  BY <1>1, ReadFits
<1>4. ReadInv'
  BY <1>1, <1>2, ReadInvNext
<1>5. WrittenInv'
  BY <1>1, <1>2, WrittenInvNext
<1>6. TypesInv'
  BY <1>1, <1>3, TypesInvNext
<1>7. EncodedAsWritten'
  BY <1>1, <1>2, EncodedNext
<1> QED
  BY <1>4, <1>5, <1>6, <1>7 DEF ProgramInv

\* As long as the compiler makes programs that fit the memory.
LEMMA ProgramInvariance == Spec /\ []AssembledFits => []ProgramInv
<1>1. Init => ProgramInv
  BY ProgramInvInit
<1>2. ProgramInv /\ AssembledFits /\ AssembledFits' /\ [Next]_vars => ProgramInv'
  BY ProgramInvNext
<1> QED
  BY <1>1, <1>2, PTL DEF Spec

\* Compiler, reader and disassembler keep to their types: no word that is built
\* from a line, read from a file or extended from a char is wider than a word
\* (FileCompiler, Exec::Read, utils::types), and a label of the disassembler is a
\* label the compiler accepts.
THEOREM ToolchainTypeCorrect == Spec /\ []AssembledFits => []TypeOK
<1>1. ProgramInv => TypeOK
  BY DEF ProgramInv, TypesInv
<1> QED
  BY <1>1, ProgramInvariance, PTL

\* Whatever the file holds, cut anywhere or from elsewhere, a program that is
\* read fits the memory it is copied to without a check (Exec::Read,
\* Storage::PrepareForExecution).
THEOREM LoadedProgramsFit == Spec /\ []AssembledFits => []LoadedProgramFits
<1>1. ProgramInv => LoadedProgramFits
  BY ReadFits DEF ProgramInv, LoadedProgramFits, FitsMemory
<1> QED
  BY <1>1, ProgramInvariance, PTL

\* A file whose writing stopped half way is never taken for a program
\* (Exec::Write checks no write; Exec::Read compares the sizes).
THEOREM OnlyWholeFiles == Spec /\ []AssembledFits => []OnlyWholeFilesAreRead
<1>1. ProgramInv => OnlyWholeFilesAreRead
  <2> SUFFICES ASSUME ProgramInv, phase \in Reading, round > 0
               PROVE  data = compiled
    BY DEF OnlyWholeFilesAreRead
  <2>1. ReadError(file) = "none" /\ data = ReadData(file)
    BY DEF ProgramInv, ReadInv
  <2>2. /\ Writable(compiled)
        /\ \E b \in 0 .. WholeFile(compiled).bytes : file = CutAt(WholeFile(compiled), b)
    BY DEF ProgramInv, WrittenInv
  <2> QED
    BY <2>1, <2>2, ReadBack
<1> QED
  BY <1>1, ProgramInvariance, PTL

\* The word compiled from every accepted command says what was written - the
\* sign of an immediate or a modifier, the registers, the address its label gets
\* once all the code is known - whatever the text, its labels and its constants
\* (FileCompiler, Compiler::Impl).  Only an address equal to MemorySize, which
\* the compiler accepts and which does not fit its field, is excepted.
THEOREM WordsSayWhatWasWritten == Spec /\ []AssembledFits => []EncodedAsWritten
<1>1. ProgramInv => EncodedAsWritten
  BY DEF ProgramInv
<1> QED
  BY <1>1, ProgramInvariance, PTL
=============================================================================
