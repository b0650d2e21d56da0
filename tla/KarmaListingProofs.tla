------------------------- MODULE KarmaListingProofs -------------------------
(***************************************************************************)
(* The listing of a program is compiled to the same program, and that is   *)
(* disassembled to the same listing.                                       *)
(*                                                                         *)
(* What is listed is described without the steps of the disassembler       *)
(* (ListingOf): which line stands for which constant or command, and which *)
(* label for which address.  Of a text like this, what the assembler finds *)
(* in it, where it puts it and which words it gives are found one after    *)
(* the other, up to the whole program.  The text is a listing of that      *)
(* program too, and a program has only one.                                *)
(***************************************************************************)
EXTENDS KarmaToolchainProofs
-----------------------------------------------------------------------------
(***************************************************************************)
(* The places of the lines of a kind.                                      *)
(***************************************************************************)
\* The lines q are the ones of a kind, in order.
AreLinesOf(lines, kind, p, q) ==
    /\ q \in [1 .. p -> 1 .. Len(lines)]
    /\ \A i, j \in 1 .. p : i < j => q[i] < q[j]
    /\ \A n \in 1 .. Len(lines) : lines[n].item = kind <=> \E i \in 1 .. p : q[i] = n

\* the places of the lines q
PlacesFrom(p, q) == [i \in 1 .. p |-> <<Main, q[i]>>]

\* The places of a kind are known from the numbers of their lines, in order.
LEMMA PlacesAre ==
    ASSUME NEW lines, NEW l \in Nat, l = Len(lines), NEW kind,
           NEW p \in Nat, NEW q, AreLinesOf(lines, kind, p, q)
    PROVE  MainPlaces(lines, kind)[l] = PlacesFrom(p, q)
<1>q. /\ q \in [1 .. p -> 1 .. l]
      /\ \A i, j \in 1 .. p : i < j => q[i] < q[j]
      /\ \A n \in 1 .. l : lines[n].item = kind <=> \E i \in 1 .. p : q[i] = n
  BY Zenon DEF AreLinesOf
<1> USE <1>q
<1> DEFINE f == MainPlaces(lines, kind)
           first(r) == [i \in 1 .. r |-> <<Main, q[i]>>]
           Reached(n, r) == /\ f[n] = first(r)
                            /\ \A i \in 1 .. r : q[i] <= n
                            /\ \A i \in r + 1 .. p : q[i] > n
           S == {n \in 0 .. l : \E r \in 0 .. p : Reached(n, r)}
<1>1. /\ f[0] = <<>>
      /\ \A n \in 1 .. l : f[n] = IF lines[n].item = kind
                                  THEN Append(f[n - 1], <<Main, n>>) ELSE f[n - 1]
  <2>1. f = [n \in 0 .. l |-> IF n = 0 THEN <<>>
                              ELSE IF lines[n].item = kind
                              THEN Append(f[n - 1], <<Main, n>>) ELSE f[n - 1]]
    BY MainPlacesDefined
  <2> HIDE DEF f
  <2>2. 0 \in 0 .. l /\ \A n \in 1 .. l : n \in 0 .. l /\ n # 0
    OBVIOUS
  <2> QED
    BY <2>1, <2>2
<1> HIDE DEF f
<1>s. \A n \in 0 .. l : \A r \in 0 .. p : Reached(n, r) => n \in S
  <2> HIDE DEF Reached
  <2> QED
    OBVIOUS
<1>2. 0 \in S
  <2>1. first(0) = <<>>
    OBVIOUS
  <2>2. \A i \in 0 + 1 .. p : q[i] > 0
    OBVIOUS
  <2>3. 0 \in 0 .. l /\ 0 \in 0 .. p
    OBVIOUS
  <2>4. Reached(0, 0)
    BY <1>1, <2>1, <2>2
  <2> QED
    BY <1>s, <2>3, <2>4
<1>3. ASSUME NEW m \in 1 .. l, m - 1 \in S
      PROVE  m \in S
  <2>1. PICK r \in 0 .. p : Reached(m - 1, r)
    BY <1>3
  <2>2. CASE lines[m].item = kind
    <3>1. PICK i \in 1 .. p : q[i] = m
      BY <2>2
    <3>2. i = r + 1
      <4>1. ~(i <= r)
        BY <2>1, <3>1
      <4>2. ASSUME i > r + 1 PROVE FALSE
        <5>1. r + 1 \in 1 .. p /\ r + 1 \in r + 1 .. p /\ q[r + 1] < q[i]
          BY <4>2
        <5>2. q[r + 1] > m - 1 /\ q[r + 1] \in Nat
          <6>1. \A x \in r + 1 .. p : q[x] > m - 1
            BY <2>1
          <6> QED
            BY <5>1, <6>1
        <5> QED
          BY <3>1, <5>1, <5>2
      <4> QED
        BY <4>1, <4>2
    <3>3. f[m] = Append(first(r), <<Main, m>>)
      BY <1>1, <2>1, <2>2
    <3>4. Append(first(r), <<Main, m>>) = first(r + 1)
      <4>1. PICK T : T = {<<Main, q[x]>> : x \in 1 .. p}
        OBVIOUS
      <4>0. \A x \in 0 .. p : \A g \in [1 .. x -> T] : g \in Seq(T) /\ Len(g) = x
        OBVIOUS
      <4>2. first(r) \in Seq(T) /\ Len(first(r)) = r
        <5>1. first(r) \in [1 .. r -> T]
          BY <4>1
        <5> QED
          BY <4>0, <5>1
      <4>3. first(r + 1) \in Seq(T) /\ Len(first(r + 1)) = r + 1
        <5>1. first(r + 1) \in [1 .. r + 1 -> T] /\ r + 1 \in 0 .. p
          BY <3>2, <4>1
        <5> QED
          BY <4>0, <5>1
      <4>4. /\ <<Main, m>> \in T /\ first(r + 1)[r + 1] = <<Main, m>>
            /\ \A x \in 1 .. r : first(r + 1)[x] = first(r)[x]
        BY <3>1, <3>2, <4>1
      <4>5. \A b, d \in Seq(T) : \A e \in T :
               /\ Len(d) = Len(b) + 1 /\ d[Len(b) + 1] = e
               /\ \A x \in 1 .. Len(b) : d[x] = b[x]
               => Append(b, e) = d
        OBVIOUS
      <4> HIDE DEF first
      <4> QED
        BY <4>2, <4>3, <4>4, <4>5
    <3>5. \A x \in 1 .. r + 1 : q[x] <= m
      <4>1. \A x \in 1 .. r : q[x] <= m - 1
        BY <2>1
      <4> QED
        BY <3>1, <3>2, <4>1
    <3>6. \A x \in r + 1 + 1 .. p : q[x] > m
      BY <3>1, <3>2
    <3>7. r + 1 \in 0 .. p /\ m \in 0 .. l /\ Reached(m, r + 1)
      <4>1. r + 1 \in 0 .. p /\ m \in 0 .. l
        BY <3>2
      <4>2. f[m] = first(r + 1)
        BY <3>3, <3>4
      <4> HIDE DEF first
      <4> QED
        BY <3>5, <3>6, <4>1, <4>2
    <3> QED
      BY <1>s, <3>7
  <2>3. CASE lines[m].item # kind
    <3>1. f[m] = first(r)
      BY <1>1, <2>1, <2>3
    <3>2. \A x \in 1 .. p : q[x] # m
      BY <2>3
    <3>3. \A x \in 1 .. r : q[x] <= m
      BY <2>1
    <3>4. \A x \in r + 1 .. p : q[x] > m
      <4> TAKE x \in r + 1 .. p
      <4>1. q[x] > m - 1 /\ q[x] # m /\ q[x] \in Nat
        BY <2>1, <3>2
      <4> QED
        BY <4>1
    <3>5. Reached(m, r) /\ m \in 0 .. l
      BY <3>1, <3>3, <3>4
    <3> QED
      BY <1>s, <3>5
  <2> QED
    BY <2>2, <2>3
<1>4. l \in S
  <2> HIDE DEF S
  <2>1. \A m \in 1 .. l : m - 1 \in S => m \in S
    BY <1>3
  <2>2. 0 .. l \subseteq S
    BY <1>2, <2>1, UpTo, Zenon
  <2> QED
    BY <2>2
<1>5. PICK r \in 0 .. p : Reached(l, r)
  BY <1>4
<1>6. r = p
  <2>1. ASSUME r # p PROVE FALSE
    <3>1. p \in r + 1 .. p /\ p \in 1 .. p
      BY <2>1
    <3>2. q[p] > l /\ q[p] \in 1 .. l
      BY <1>5, <3>1
    <3> QED
      BY <3>2
  <2> QED
    BY <2>1
<1> QED
  BY <1>5, <1>6 DEF f, PlacesFrom

-----------------------------------------------------------------------------
(***************************************************************************)
(* The listing, line by line: the constants first, then the commands, each *)
(* with the label of its address, and what the disassembler has of it so far. *)
(***************************************************************************)
\* the line of a constant of type t with the words v
ConstantAs(label, t, v) ==
    LET line == [Blank EXCEPT !.label = label, !.item = "constant", !.type = t]
    IN  CASE t = Uint32Type -> [line EXCEPT !.num = v[1]]
          [] t = Uint64Type -> [line EXCEPT !.num = Double(v)]
          [] t = DoubleType -> [line EXCEPT !.num = Digits(Double(v))]
          [] t = CharType   -> [line EXCEPT !.text = Quoted(Text(v), CharQuote)]
          [] t = StringType -> [line EXCEPT !.text =
                                   Quoted(Text(Front(v)), StringQuote)]

\* the label of an address by the two tables, and the lines of a command
LabelBy(constants, commands, a) ==
    IF a \in DOMAIN constants THEN constants[a]
    ELSE IF a \in DOMAIN commands THEN commands[a]
    ELSE NoLabel

\* a line with a label alone
LoneLabel(label) == [Blank EXCEPT !.label = label]
\* the line of a command word whose operand has the label
CommandBy(w, label) ==
    LET c == Meaning(w)
    IN  IF c.code \in UsesAddress \ IgnoresAddress /\ label # NoLabel
        THEN CommandLine([c EXCEPT !.arg = 0], label)
        ELSE CommandLine(c, NoLabel)

\* The words w from start to end are a constant: its type, then its value.
IsConstant(w, start, end) ==
    LET t == w[start]
    IN  /\ start < end /\ end <= Len(w) /\ t \in Types
        /\ t \in {Uint32Type, CharType} => end = start + 1
        /\ t \in {Uint64Type, DoubleType} => end = start + 2
        /\ t = StringType => /\ w[end] = StringEnd
                             /\ \A m \in start + 1 .. end - 1 : w[m] # StringEnd

\* The first k lines are the constants up to word s[k] of the program d, one
\* after another, and the table has their labels.
ConstantsListed(d, table, lines, k, s) ==
    /\ s[0] = 0
    /\ \A i, j \in 0 .. k : i < j => s[i] < s[j]
    /\ \A i \in 1 .. k :
          /\ IsConstant(d.constants, s[i - 1] + 1, s[i])
          /\ lines[i] = ConstantAs(Numbered("constant", i), d.constants[s[i - 1] + 1],
                                   SubSeq(d.constants, s[i - 1] + 2, s[i]))
    /\ DOMAIN table = {Len(d.code) + s[i - 1] + 1 : i \in 1 .. k}
    /\ \A i \in 1 .. k : table[Len(d.code) + s[i - 1] + 1] = Numbered("constant", i)
    /\ IsFiniteSet(DOMAIN table) /\ Cardinality(DOMAIN table) = k

\* After the first k lines come the first p commands of d, command i on line
\* q[i], each with its label on a line before it if it has one.
CommandsListed(d, constants, commands, lines, k, p, q) ==
    /\ q[0] = k
    /\ \A i, j \in 0 .. p : i < j => q[i] < q[j]
    /\ \A n \in k + 1 .. q[p] :
          \E i \in 1 .. p : n = q[i] \/ n = q[i] - 1
    /\ \A i \in 1 .. p :
          LET label == LabelBy(constants, commands, i - 1)
          IN  /\ lines[q[i]] = CommandBy(d.code[i], LabelBy(constants, commands,
                                                       Meaning(d.code[i]).arg))
              /\ label = NoLabel => q[i] = q[i - 1] + 1
              /\ label # NoLabel => /\ q[i] = q[i - 1] + 2
                                    /\ lines[q[i] - 1] = LoneLabel(label)

\* The constants up to word `end' are listed, and the first p commands of d up
\* to line l.
ConstantsUpTo(d, table, lines, k, end) ==
    \E s \in [0 .. k -> Nat] : s[k] = end /\ ConstantsListed(d, table, lines, k, s)

\* the lines of the first p commands end at line l
CommandsUpTo(d, constants, commands, lines, k, p, l) ==
    \E q \in [0 .. p -> Nat] :
        q[p] = l /\ CommandsListed(d, constants, commands, lines, k, p, q)

\* All of the program is listed, and the entrypoint directive.
ListingOf(d, constants, commands, lines) ==
    \E k, l \in Nat :
        /\ ConstantsUpTo(d, constants, lines, k, Len(d.constants))
        /\ CommandsUpTo(d, constants, commands, lines, k, Len(d.code), l)
        /\ Len(lines) = l + 1 /\ lines[l + 1] = EndMain

\* The listing as far as it is written, and the one that is compiled again.
ListedInv ==
    /\ phase = "constants" =>
          ConstantsUpTo(data, constantLabels, listing, Len(listing), pos)
    /\ phase = "commands" =>
          /\ pos <= Len(data.code) /\ commandLabels = CommandLabels
          /\ \E k \in Nat :
                /\ ConstantsUpTo(data, constantLabels, listing, k, Len(data.constants))
                /\ CommandsUpTo(data, constantLabels, commandLabels, listing, k, pos,
                                Len(listing))
    /\ phase = "listed" \/ (phase = "compile" /\ Recompiled) =>
          /\ commandLabels = CommandLabels
          /\ \A w \in ToSet(data.code) : Known(w)
          /\ ListingOf(data, constantLabels, commandLabels, listing)
    /\ phase = "compile" /\ Recompiled =>
          /\ text = listing
          /\ original = [data |-> data, constantLabels |-> constantLabels,
                         listing |-> listing]

\* The constant that is gone through next.
LEMMA NextConstant ==
    ASSUME data \in Data, pos \in Nat, pos < Len(data.constants), Type \in Types,
           Start + Width <= Len(data.constants)
    PROVE  \E end \in Nat :
              /\ end = Start + Width
              /\ IsConstant(data.constants, pos + 1, end)
              /\ \A l : ConstantLine(l)
                           = ConstantAs(l, data.constants[pos + 1],
                                        SubSeq(data.constants, pos + 2, end))
<1> DEFINE w == data.constants
           len == Len(w)
           t == w[pos + 1]
<1>1. PICK n \in Nat, start \in Nat : n = len /\ start = pos + 1 /\ start <= n
  <2>1. len \in Nat
    BY SegmentSizes
  <2> QED
    BY <2>1
<1>2. Type = t /\ Start = start
  BY <1>1 DEF Type, Start
<1>3. t \in Types /\ \A x, y \in Nat : x + y \in Nat
  BY <1>2
<1>t. /\ Uint32Type = 0 /\ Uint64Type = 1 /\ DoubleType = 2 /\ CharType = 3
      /\ StringType = 4 /\ Types = 0 .. 4
  BY DEF Uint32Type, Uint64Type, DoubleType, CharType, StringType, Types
<1>4. Width = IF t \in {Uint32Type, CharType} THEN 1
              ELSE IF t \in {Uint64Type, DoubleType} THEN 2
              ELSE IF Zeros = {} THEN n ELSE Min(Zeros)
  BY <1>1, <1>2, Zenon DEF Width
<1>5. Zeros = {m \in 1 .. n - start : w[start + m] = StringEnd}
  BY <1>1, <1>2, Zenon DEF Zeros
<1> HIDE DEF w, len, t
<1>6. \E b \in Nat :
        /\ b = Width /\ b >= 1
        /\ t \in {Uint32Type, CharType} => b = 1
        /\ t \in {Uint64Type, DoubleType} => b = 2
        /\ t = StringType => /\ w[start + b] = StringEnd
                             /\ \A m \in 1 .. b - 1 : w[start + m] # StringEnd
  <2>1. CASE t \in {Uint32Type, CharType}
    <3>1. Width = 1 /\ t \notin {Uint64Type, DoubleType} /\ t # StringType
      BY <1>4, <1>t, <2>1
    <3> QED
      BY <2>1, <3>1
  <2>2. CASE t \in {Uint64Type, DoubleType}
    <3>1. Width = 2 /\ t \notin {Uint32Type, CharType} /\ t # StringType
      BY <1>4, <1>t, <2>2
    <3> QED
      BY <2>2, <3>1
  <2>3. CASE t = StringType
    <3>1. Width = IF Zeros = {} THEN n ELSE Min(Zeros)
      BY <1>4, <1>t, <2>3
    <3>2. Zeros # {}
      <4>1. ASSUME Zeros = {} PROVE FALSE
        <5>1. Width = n
          BY <3>1, <4>1
        <5>2. start + n <= n
          BY <1>1, <1>2, <5>1 DEF len, w
        <5> QED
          BY <1>1, <5>2
      <4> QED
        BY <4>1
    <3>3. PICK b \in Zeros : b = Min(Zeros) /\ \A y \in Zeros : b <= y
      <4>1. n - start \in Nat
        BY <1>1
      <4>2. PICK room \in Nat : room = n - start
        BY <4>1
      <4>3. Zeros \in SUBSET (1 .. room)
        BY <1>5, <4>2
      <4> QED
        BY <3>2, <4>2, <4>3, Smallest
    <3>4. b \in 1 .. n - start /\ w[start + b] = StringEnd
      BY <1>5
    <3>5. \A m \in 1 .. b - 1 : w[start + m] # StringEnd
      <4> SUFFICES ASSUME NEW m \in 1 .. b - 1, w[start + m] = StringEnd
                   PROVE  FALSE
        OBVIOUS
      <4>1. m \in 1 .. n - start /\ m < b
        BY <3>4
      <4>2. m \in Zeros
        BY <1>5, <4>1
      <4> QED
        BY <3>3, <3>4, <4>1, <4>2
    <3>6. t \notin {Uint64Type, DoubleType} /\ t \notin {Uint32Type, CharType}
      BY <1>t, <2>3
    <3>7. b \in Nat /\ b = Width /\ b >= 1
      BY <1>1, <3>1, <3>2, <3>3, <3>4
    <3> QED
      BY <3>4, <3>5, <3>6, <3>7
  <2>4. t \in 0 .. 4
    BY <1>3, <1>t
  <2> QED
    BY <1>t, <2>1, <2>2, <2>3, <2>4
<1>7. PICK b \in Nat :
        /\ b = Width /\ b >= 1
        /\ t \in {Uint32Type, CharType} => b = 1
        /\ t \in {Uint64Type, DoubleType} => b = 2
        /\ t = StringType => /\ w[start + b] = StringEnd
                             /\ \A m \in 1 .. b - 1 : w[start + m] # StringEnd
  BY <1>6
<1>8. PICK end \in Nat : end = start + b
  OBVIOUS
<1>9. end = Start + Width
  BY <1>2, <1>7, <1>8
<1>10. end <= n
  BY <1>1, <1>9 DEF len, w
<1>11. t = StringType => \A m \in start + 1 .. end - 1 : w[m] # StringEnd
  <2> SUFFICES ASSUME t = StringType, NEW m \in start + 1 .. end - 1
               PROVE  w[m] # StringEnd
    OBVIOUS
  <2>1. PICK j \in 1 .. b - 1 : m = start + j
    <3>1. m - start \in 1 .. b - 1 /\ m = start + (m - start)
      BY <1>8
    <3> QED
      BY <3>1
  <2> QED
    BY <1>7, <2>1
<1>12. /\ start < end
       /\ t \in {Uint32Type, CharType} => end = start + 1
       /\ t \in {Uint64Type, DoubleType} => end = start + 2
  BY <1>7, <1>8
<1>13. IsConstant(w, start, end)
  BY <1>1, <1>3, <1>7, <1>8, <1>10, <1>11, <1>12 DEF IsConstant, t, len
<1>14. Value = SubSeq(w, start + 1, end)
  BY <1>2, <1>9, Zenon DEF Value, w
<1>15. \A l : ConstantLine(l) = ConstantAs(l, t, SubSeq(w, start + 1, end))
  BY <1>2, <1>14, Zenon DEF ConstantLine, ConstantAs
<1>16. start + 1 = pos + 2
  BY <1>1
<1> QED
  BY <1>1, <1>9, <1>13, <1>15, <1>16 DEF w, t

\* The listing with the next constant.
LEMMA ConstantListed ==
    ASSUME data \in Data, listing \in Seq(Line), AtConstant, Type \in Types,
           Start + Width <= Len(data.constants), RecordConstantLabel,
           NEW k \in Nat, k = Len(listing),
           ConstantsUpTo(data, constantLabels, listing, k, pos),
           listing' = Append(listing, ConstantLine(NextConstantLabel))
    PROVE  ConstantsUpTo(data, constantLabels', listing', k + 1, Start + Width)
<1>s. PICK s \in [0 .. k -> Nat] :
        s[k] = pos /\ ConstantsListed(data, constantLabels, listing, k, s)
  BY DEF ConstantsUpTo
<1> DEFINE old == constantLabels
           new == constantLabels'
           c == Len(data.code)
           w == data.constants
<1>1. PICK end \in Nat :
        /\ end = Start + Width
        /\ IsConstant(w, pos + 1, end)
        /\ \A l : ConstantLine(l) = ConstantAs(l, w[pos + 1], SubSeq(w, pos + 2, end))
  <2>1. pos \in Nat /\ pos < Len(data.constants)
    BY <1>s DEF AtConstant
  <2> QED
    BY <2>1, NextConstant
<1>2. PICK r \in [0 .. k + 1 -> Nat] : r = [i \in 0 .. k + 1 |-> IF i = k + 1 THEN end ELSE s[i]]
  <2> DEFINE longer == [i \in 0 .. k + 1 |-> IF i = k + 1 THEN end ELSE s[i]]
  <2>1. longer \in [0 .. k + 1 -> Nat]
    OBVIOUS
  <2> HIDE DEF longer
  <2>2. \E r \in [0 .. k + 1 -> Nat] : r = longer
    BY <2>1
  <2> QED
    BY <2>2 DEF longer
<1>3. r[k + 1] = end /\ \A i \in 0 .. k : r[i] = s[i]
  BY <1>2
<1>4. /\ s[0] = 0
      /\ \A i, j \in 0 .. k : i < j => s[i] < s[j]
      /\ \A i \in 1 .. k :
            /\ IsConstant(w, s[i - 1] + 1, s[i])
            /\ listing[i] = ConstantAs(Numbered("constant", i), w[s[i - 1] + 1],
                                       SubSeq(w, s[i - 1] + 2, s[i]))
      /\ DOMAIN old = {c + s[i - 1] + 1 : i \in 1 .. k}
      /\ \A i \in 1 .. k : old[c + s[i - 1] + 1] = Numbered("constant", i)
      /\ IsFiniteSet(DOMAIN old) /\ Cardinality(DOMAIN old) = k
  BY <1>s DEF ConstantsListed
<1>5. c \in Nat /\ pos \in Nat /\ pos + 1 < end
  <2>1. pos + 1 < end
    BY <1>1 DEF IsConstant
  <2> QED
    BY <1>s, <2>1, SegmentSizes
<1>6. NextConstantLabel = Numbered("constant", k + 1)
  BY <1>4 DEF NextConstantLabel
<1>7. PICK a \in Nat : a = c + pos + 1
  BY <1>5
<1>8. Len(data.code) + Start = a
  <2>1. Len(data.code) + Start = c + (pos + 1)
    BY DEF Start
  <2>2. PICK l, m \in Nat : l = c /\ m = pos
    BY <1>5
  <2>3. l + (m + 1) = l + m + 1
    OBVIOUS
  <2>4. c + (pos + 1) = a
    BY <1>7, <2>2, <2>3
  <2> QED
    BY <2>1, <2>4, Zenon
<1>9. new = [x \in DOMAIN old \cup {a} |-> IF x = a THEN NextConstantLabel ELSE old[x]]
  BY <1>8, Zenon DEF RecordConstantLabel
<1>10. /\ listing' \in Seq(Line) \/ TRUE
       /\ \A i \in 1 .. k : listing'[i] = listing[i]
       /\ listing'[k + 1] = ConstantLine(NextConstantLabel)
  OBVIOUS
<1> HIDE DEF old, new, c, w
<1>11. \A i \in 1 .. k : c + s[i - 1] + 1 < a /\ c + s[i - 1] + 1 \in Nat
  <2> TAKE i \in 1 .. k
  <2>1. i - 1 \in 0 .. k /\ k \in 0 .. k /\ i - 1 < k
    OBVIOUS
  <2>2. s[i - 1] < s[k] /\ s[i - 1] \in Nat
    BY <1>4, <2>1
  <2> QED
    BY <1>s, <1>5, <1>7, <2>2
<1>12. a \notin DOMAIN old
  BY <1>4, <1>7, <1>11
<1>13. IsFiniteSet(DOMAIN new) /\ Cardinality(DOMAIN new) = k + 1
  <2>1. DOMAIN new = DOMAIN old \cup {a}
    BY <1>9
  <2>2. PICK D : D = DOMAIN old
    OBVIOUS
  <2>3. IsFiniteSet(D) /\ Cardinality(D) = k /\ a \notin D
    BY <1>4, <1>12, <2>2
  <2>4. /\ IsFiniteSet(D \cup {a})
        /\ Cardinality(D \cup {a}) = IF a \in D THEN Cardinality(D) ELSE Cardinality(D) + 1
    BY <2>3, FS_AddElement, Zenon
  <2>5. DOMAIN new = D \cup {a}
    BY <2>1, <2>2
  <2> HIDE DEF new
  <2> QED
    BY <2>3, <2>4, <2>5
<1>14. \A i \in 1 .. k + 1 : /\ i - 1 \in 0 .. k /\ r[i - 1] = s[i - 1]
                             /\ i # k + 1 => i \in 1 .. k /\ r[i] = s[i]
  <2> TAKE i \in 1 .. k + 1
  <2>1. i - 1 \in 0 .. k /\ (i # k + 1 => i \in 1 .. k /\ i \in 0 .. k)
    OBVIOUS
  <2> QED
    BY <1>3, <2>1
<1>15. DOMAIN new = {c + r[i - 1] + 1 : i \in 1 .. k + 1}
  <2>1. c + r[k + 1 - 1] + 1 = a /\ k + 1 \in 1 .. k + 1
    BY <1>s, <1>3, <1>7, SMTT(20)
  <2>2. \A x \in DOMAIN old : \E i \in 1 .. k + 1 : x = c + r[i - 1] + 1
    BY <1>4, <1>14
  <2>3. \A i \in 1 .. k + 1 : c + r[i - 1] + 1 \in DOMAIN old \cup {a}
    BY <1>4, <1>14, <2>1
  <2>4. DOMAIN new = DOMAIN old \cup {a}
    BY <1>9
  <2>5. \A x \in DOMAIN new : \E i \in 1 .. k + 1 : x = c + r[i - 1] + 1
    BY <2>1, <2>2, <2>4
  <2>6. \A i \in 1 .. k + 1 : c + r[i - 1] + 1 \in DOMAIN new
    BY <2>3, <2>4
  <2>7. PICK D : D = DOMAIN new
    OBVIOUS
  <2>8. \A x : x \in D <=> \E i \in 1 .. k + 1 : x = c + r[i - 1] + 1
    BY <2>5, <2>6, <2>7
  <2>9. D = {c + r[i - 1] + 1 : i \in 1 .. k + 1}
    BY <2>8
  <2> QED
    BY <2>7, <2>9
<1>16. ASSUME NEW i \in 1 .. k + 1
       PROVE  /\ new[c + r[i - 1] + 1] = Numbered("constant", i)
              /\ IsConstant(w, r[i - 1] + 1, r[i])
              /\ listing'[i] = ConstantAs(Numbered("constant", i), w[r[i - 1] + 1],
                                          SubSeq(w, r[i - 1] + 2, r[i]))
  <2>1. CASE i = k + 1
    <3>1. r[i - 1] = pos /\ r[i] = end /\ i - 1 = k
      BY <1>s, <1>3, <2>1
    <3>2. new[a] = Numbered("constant", i)
      BY <1>6, <1>9, <2>1
    <3> QED
      BY <1>1, <1>6, <1>7, <1>10, <2>1, <3>1, <3>2 DEF w
  <2>2. CASE i # k + 1
    <3>1. i \in 1 .. k /\ r[i - 1] = s[i - 1] /\ r[i] = s[i]
      BY <1>14, <2>2
    <3>2. new[c + s[i - 1] + 1] = old[c + s[i - 1] + 1]
      <4>1. c + s[i - 1] + 1 \in DOMAIN old /\ c + s[i - 1] + 1 # a
        BY <1>4, <1>7, <1>11, <3>1
      <4> QED
        BY <1>9, <4>1
    <3> QED
      BY <1>4, <1>10, <3>1, <3>2
  <2> QED
    BY <2>1, <2>2
<1>17. \A i, j \in 0 .. k + 1 : i < j => r[i] < r[j]
  <2> SUFFICES ASSUME NEW i \in 0 .. k + 1, NEW j \in 0 .. k + 1, i < j
               PROVE  r[i] < r[j]
    OBVIOUS
  <2>0. i \in 0 .. k
    OBVIOUS
  <2>1. i \in 0 .. k /\ r[i] = s[i] /\ s[i] \in Nat
    BY <1>3, <2>0
  <2>2. CASE j = k + 1
    <3>1. i = k \/ s[i] < s[k]
      BY <1>4, <2>1
    <3> QED
      BY <1>s, <1>3, <1>5, <2>1, <2>2, <3>1
  <2>3. CASE j # k + 1
    <3>1. j \in 0 .. k
      BY <2>3
    <3> QED
      BY <1>3, <1>4, <2>1, <3>1
  <2> QED
    BY <2>2, <2>3
<1>18. r[0] = 0
  BY <1>3, <1>4
<1>19. ConstantsListed(data, new, listing', k + 1, r)
  BY <1>13, <1>15, <1>16, <1>17, <1>18 DEF ConstantsListed, c, w
<1> QED
  BY <1>1, <1>3, <1>19, Zenon DEF ConstantsUpTo, new

\* the lines are the same up to line l
SameUpTo(lines, more, l) == \A n \in 1 .. l : more[n] = lines[n]

\* More lines after the ones there are change nothing of what is listed.
LEMMA StillListed ==
    ASSUME NEW d, NEW table, NEW commands, NEW lines, NEW more,
           NEW k \in Nat, NEW p \in Nat, NEW l \in Nat, SameUpTo(lines, more, l),
           CommandsUpTo(d, table, commands, lines, k, p, l)
    PROVE  /\ k <= l
           /\ CommandsUpTo(d, table, commands, more, k, p, l)
           /\ \A end : ConstantsUpTo(d, table, lines, k, end)
                         => ConstantsUpTo(d, table, more, k, end)
<1>0. PICK q \in [0 .. p -> Nat] : q[p] = l /\ CommandsListed(d, table, commands, lines, k, p, q)
  BY DEF CommandsUpTo
<1>m. \A n \in 1 .. q[p] : more[n] = lines[n]
  BY <1>0 DEF SameUpTo
<1>1. /\ q[0] = k
      /\ \A i, j \in 0 .. p : i < j => q[i] < q[j]
      /\ \A n \in k + 1 .. q[p] : \E i \in 1 .. p : n = q[i] \/ n = q[i] - 1
      /\ \A i \in 1 .. p :
            LET label == LabelBy(table, commands, i - 1)
            IN  /\ lines[q[i]] = CommandBy(d.code[i], LabelBy(table, commands,
                                                         Meaning(d.code[i]).arg))
                /\ label = NoLabel => q[i] = q[i - 1] + 1
                /\ label # NoLabel => /\ q[i] = q[i - 1] + 2
                                      /\ lines[q[i] - 1] = LoneLabel(label)
  BY <1>0 DEF CommandsListed
<1>2. \A i \in 0 .. p : q[i] <= q[p] /\ k <= q[i]
  <2> TAKE i \in 0 .. p
  <2>1. i = p \/ q[i] < q[p]
    BY <1>1
  <2>2. i = 0 \/ q[0] < q[i]
    BY <1>1
  <2> QED
    BY <1>1, <2>1, <2>2
<1>3. \A i \in 1 .. p : /\ q[i] \in 1 .. q[p]
                        /\ q[i] = q[i - 1] + 2 => q[i] - 1 \in 1 .. q[p]
  <2> TAKE i \in 1 .. p
  <2>1. i - 1 \in 0 .. p /\ i \in 0 .. p /\ i - 1 < i
    OBVIOUS
  <2>2. q[i - 1] < q[i] /\ q[i] <= q[p] /\ q[i] \in Nat /\ q[i - 1] \in Nat
    BY <1>1, <1>2, <2>1
  <2> QED
    BY <2>2
<1>4. CommandsListed(d, table, commands, more, k, p, q)
  <2>1. ASSUME NEW i \in 1 .. p
        PROVE  /\ more[q[i]] = CommandBy(d.code[i], LabelBy(table, commands,
                                                       Meaning(d.code[i]).arg))
               /\ LabelBy(table, commands, i - 1) = NoLabel => q[i] = q[i - 1] + 1
               /\ LabelBy(table, commands, i - 1) # NoLabel =>
                     /\ q[i] = q[i - 1] + 2
                     /\ more[q[i] - 1] = LoneLabel(LabelBy(table, commands, i - 1))
    BY <1>m, <1>1, <1>3
  <2> QED
    BY <1>1, <2>1, Zenon DEF CommandsListed
<1>5. ASSUME NEW end, ConstantsUpTo(d, table, lines, k, end)
      PROVE  ConstantsUpTo(d, table, more, k, end)
  <2>1. PICK s \in [0 .. k -> Nat] : s[k] = end /\ ConstantsListed(d, table, lines, k, s)
    BY <1>5 DEF ConstantsUpTo
  <2>2. k <= q[p]
    BY <1>2
  <2>3. \A i \in 1 .. k : i \in 1 .. q[p]
    BY <2>2
  <2>4. \A i \in 1 .. k : more[i] = lines[i]
    BY <1>m, <2>3
  <2>5. ConstantsListed(d, table, more, k, s)
    BY <2>1, <2>4, Zenon DEF ConstantsListed
  <2> QED
    BY <2>1, <2>5, Zenon DEF ConstantsUpTo
<1>6. CommandsUpTo(d, table, commands, more, k, p, l)
  BY <1>0, <1>4, Zenon DEF CommandsUpTo
<1>7. 0 \in 0 .. p /\ k <= l
  BY <1>0, <1>2
<1> QED
  BY <1>5, <1>6, <1>7, Zenon

\* Lines up to `end' are those of the first p commands and of the next: its
\* label if it has one, and the command.
AddsCommand(d, table, commands, lines, more, p, l, end) ==
    LET label == LabelBy(table, commands, p)
    IN  /\ SameUpTo(lines, more, l)
        /\ label = NoLabel => end = l + 1
        /\ label # NoLabel => end = l + 2 /\ more[l + 1] = LoneLabel(label)
        /\ more[end] = CommandBy(d.code[p + 1],
                                 LabelBy(table, commands, Meaning(d.code[p + 1]).arg))

\* Then one more command is listed.
LEMMA CommandAdded ==
    ASSUME NEW d, NEW table, NEW commands, NEW lines, NEW more,
           NEW k \in Nat, NEW p \in Nat, NEW l \in Nat, NEW end \in Nat,
           CommandsUpTo(d, table, commands, lines, k, p, l),
           AddsCommand(d, table, commands, lines, more, p, l, end)
    PROVE  CommandsUpTo(d, table, commands, more, k, p + 1, end)
<1> DEFINE by(a) == LabelBy(table, commands, a)
<1>a. /\ SameUpTo(lines, more, l)
      /\ by(p) = NoLabel => end = l + 1
      /\ by(p) # NoLabel => end = l + 2 /\ more[l + 1] = LoneLabel(by(p))
      /\ more[end] = CommandBy(d.code[p + 1], by(Meaning(d.code[p + 1]).arg))
  BY Zenon DEF AddsCommand
<1>b. k <= l /\ CommandsUpTo(d, table, commands, more, k, p, l)
  BY <1>a, StillListed
<1>q. PICK q \in [0 .. p -> Nat] : q[p] = l /\ CommandsListed(d, table, commands, more, k, p, q)
  BY <1>b DEF CommandsUpTo
<1>l. PICK label : label = by(p)
  OBVIOUS
<1>0. PICK e \in {1, 2} : /\ end = l + e
                          /\ label = NoLabel => e = 1
                          /\ label # NoLabel => e = 2
  BY <1>a, <1>l
<1>1. /\ label = by(p) /\ l = q[p]
      /\ label = NoLabel => e = 1
      /\ label # NoLabel => e = 2 /\ more[l + 1] = LoneLabel(label)
      /\ more[l + e] = CommandBy(d.code[p + 1], by(Meaning(d.code[p + 1]).arg))
  BY <1>a, <1>l, <1>0, <1>q
<1>5. PICK r \in [0 .. p + 1 -> Nat] :
        r = [i \in 0 .. p + 1 |-> IF i = p + 1 THEN l + e ELSE q[i]]
  <2> DEFINE longer == [i \in 0 .. p + 1 |-> IF i = p + 1 THEN l + e ELSE q[i]]
  <2>1. longer \in [0 .. p + 1 -> Nat]
    OBVIOUS
  <2> HIDE DEF longer
  <2>2. \E r \in [0 .. p + 1 -> Nat] : r = longer
    BY <2>1
  <2> QED
    BY <2>2 DEF longer
<1>6. r[p + 1] = l + e /\ \A i \in 0 .. p : r[i] = q[i]
  BY <1>5
<1>8. /\ q[0] = k
      /\ \A i, j \in 0 .. p : i < j => q[i] < q[j]
      /\ \A n \in k + 1 .. q[p] : \E i \in 1 .. p : n = q[i] \/ n = q[i] - 1
      /\ \A i \in 1 .. p :
            LET at == by(i - 1)
            IN  /\ more[q[i]] = CommandBy(d.code[i], by(Meaning(d.code[i]).arg))
                /\ at = NoLabel => q[i] = q[i - 1] + 1
                /\ at # NoLabel => /\ q[i] = q[i - 1] + 2
                                   /\ more[q[i] - 1] = LoneLabel(at)
  BY <1>q DEF CommandsListed
<1>7. \A i \in 0 .. p : q[i] <= l
  <2> TAKE i \in 0 .. p
  <2>1. i = p \/ q[i] < q[p]
    BY <1>8
  <2> QED
    BY <1>1, <2>1
<1>9. r[0] = k
  BY <1>6, <1>8
<1>10. \A i, j \in 0 .. p + 1 : i < j => r[i] < r[j]
  <2> SUFFICES ASSUME NEW i \in 0 .. p + 1, NEW j \in 0 .. p + 1, i < j
               PROVE  r[i] < r[j]
    OBVIOUS
  <2>1. i \in 0 .. p /\ r[i] = q[i] /\ q[i] \in Nat /\ q[i] <= l
    BY <1>6, <1>7
  <2>2. CASE j = p + 1
    BY <1>6, <2>1, <2>2
  <2>3. CASE j # p + 1
    <3>1. j \in 0 .. p
      BY <2>3
    <3> QED
      BY <1>6, <1>8, <2>1, <3>1
  <2> QED
    BY <2>2, <2>3
<1>11. \A n \in k + 1 .. r[p + 1] : \E i \in 1 .. p + 1 : n = r[i] \/ n = r[i] - 1
  <2> SUFFICES ASSUME NEW n \in k + 1 .. l + e
               PROVE  \E i \in 1 .. p + 1 : n = r[i] \/ n = r[i] - 1
    BY <1>6
  <2>1. CASE n <= l
    <3>0. n \in k + 1 .. q[p]
      BY <1>0, <1>1, <2>1
    <3>1. PICK i \in 1 .. p : n = q[i] \/ n = q[i] - 1
      BY <1>8, <3>0
    <3>2. i \in 1 .. p + 1 /\ r[i] = q[i]
      BY <1>6
    <3> QED
      BY <3>1, <3>2
  <2>2. CASE ~(n <= l)
    <3>1. n = l + e \/ n = l + e - 1
      BY <2>2
    <3>2. p + 1 \in 1 .. p + 1
      OBVIOUS
    <3> QED
      BY <1>0, <1>6, <3>1, <3>2, SMTT(20)
  <2> QED
    BY <2>1, <2>2
<1>12. ASSUME NEW i \in 1 .. p + 1
       PROVE  LET at == by(i - 1)
              IN  /\ more[r[i]] = CommandBy(d.code[i], by(Meaning(d.code[i]).arg))
                  /\ at = NoLabel => r[i] = r[i - 1] + 1
                  /\ at # NoLabel => /\ r[i] = r[i - 1] + 2
                                     /\ more[r[i] - 1] = LoneLabel(at)
  <2>1. CASE i = p + 1
    <3>1. r[i] = l + e /\ i - 1 = p /\ r[i - 1] = l /\ by(i - 1) = label
      <4>1. i - 1 = p /\ p \in 0 .. p
        BY <2>1
      <4>2. r[p] = l
        BY <1>1, <1>6, <4>1
      <4> QED
        BY <1>l, <1>6, <2>1, <4>1, <4>2
    <3>2. more[r[i]] = CommandBy(d.code[i], by(Meaning(d.code[i]).arg))
      BY <1>1, <2>1, <3>1
    <3>3. label # NoLabel => r[i] - 1 = l + 1 /\ r[i] = l + 2
      BY <1>1, <3>1
    <3> HIDE DEF by
    <3> QED
      BY <1>1, <3>1, <3>2, <3>3
  <2>2. CASE i # p + 1
    <3>1. i \in 1 .. p /\ r[i] = q[i] /\ r[i - 1] = q[i - 1]
      <4>1. i \in 1 .. p /\ i \in 0 .. p /\ i - 1 \in 0 .. p
        BY <2>2
      <4> QED
        BY <1>6, <4>1
    <3> HIDE DEF by
    <3> QED
      BY <1>8, <3>1
  <2> QED
    BY <2>1, <2>2
<1>13. CommandsListed(d, table, commands, more, k, p + 1, r)
  BY <1>9, <1>10, <1>11, <1>12, Zenon DEF CommandsListed
<1> QED
  BY <1>0, <1>6, <1>13, Zenon DEF CommandsUpTo

\* One more line,
LEMMA OneLineMore ==
    ASSUME NEW T, NEW s \in Seq(T), NEW l \in Nat, l = Len(s), NEW x \in T,
           NEW t, t = s \o <<x>>
    PROVE  /\ t \in Seq(T) /\ Len(t) = l + 1 /\ t[l + 1] = x
           /\ \A n \in 1 .. l : t[n] = s[n]
OBVIOUS

\* or two.
LEMMA TwoLinesMore ==
    ASSUME NEW T, NEW s \in Seq(T), NEW l \in Nat, l = Len(s), NEW x \in T, NEW y \in T,
           NEW u, u = (s \o <<x>>) \o <<y>>
    PROVE  /\ Len(u) = l + 2 /\ u[l + 1] = x /\ u[l + 2] = y
           /\ \A n \in 1 .. l : u[n] = s[n]
<1>1. PICK t : t = s \o <<x>>
  OBVIOUS
<1>2. /\ t \in Seq(T) /\ Len(t) = l + 1 /\ t[l + 1] = x
      /\ \A n \in 1 .. l : t[n] = s[n]
  BY <1>1, OneLineMore
<1>3. u = t \o <<y>>
  BY <1>1
<1>4. PICK m \in Nat : m = l + 1
  OBVIOUS
<1>5. /\ Len(u) = m + 1 /\ u[m + 1] = y
      /\ \A n \in 1 .. m : u[n] = t[n]
  <2>1. t \in Seq(T) /\ m = Len(t) /\ u = t \o <<y>>
    BY <1>2, <1>3, <1>4
  <2> QED
    BY <2>1, OneLineMore
<1>6. u[l + 1] = x /\ \A n \in 1 .. l : u[n] = s[n]
  BY <1>2, <1>4, <1>5
<1> QED
  BY <1>4, <1>5, <1>6

\* The listing with the next command.
LEMMA CommandListed ==
    ASSUME listing \in Seq(Line), pos \in Nat,
           LabelLine(pos) \in Seq(Line), CommandString(data.code[pos + 1]) \in Line,
           NEW k \in Nat,
           CommandsUpTo(data, constantLabels, commandLabels, listing, k, pos, Len(listing)),
           listing' = (listing \o LabelLine(pos)) \o <<CommandString(data.code[pos + 1])>>
    PROVE  /\ SameUpTo(listing, listing', Len(listing))
           /\ CommandsUpTo(data, constantLabels, commandLabels, listing', k, pos + 1,
                           Len(listing'))
<1> DEFINE by(a) == LabelBy(constantLabels, commandLabels, a)
           next == data.code[pos + 1]
<1>1. PICK label : label = TryGetLabel(pos) /\ label = by(pos)
  BY DEF TryGetLabel, LabelBy
<1>2. PICK line \in Line : line = CommandString(next)
  OBVIOUS
<1>3. line = CommandBy(next, by(Meaning(next).arg))
  BY <1>2, Zenon DEF CommandString, CommandBy, TryGetLabel, LabelBy
<1>4. LabelLine(pos) = IF label = NoLabel THEN <<>> ELSE <<LoneLabel(label)>>
  BY <1>1, Zenon DEF LabelLine, LoneLabel
<1>5. PICK l \in Nat : l = Len(listing)
  OBVIOUS
<1>8. PICK more : more = listing'
  OBVIOUS
<1>6. \E e \in {1, 2} :
        /\ label = NoLabel => e = 1
        /\ label # NoLabel => e = 2 /\ more[l + 1] = LoneLabel(label)
        /\ Len(more) = l + e /\ more[l + e] = line
        /\ \A n \in 1 .. l : more[n] = listing[n]
  <2>1. CASE label = NoLabel
    <3>1. LabelLine(pos) = <<>>
      BY <1>4, <2>1
    <3>2. listing \o <<>> = listing
      OBVIOUS
    <3>3. more = listing \o <<line>>
      BY <1>2, <1>8, <3>1, <3>2, Zenon
    <3>4. /\ Len(more) = l + 1 /\ more[l + 1] = line
          /\ \A n \in 1 .. l : more[n] = listing[n]
      BY <1>5, <3>3, OneLineMore
    <3> QED
      BY <2>1, <3>4
  <2>2. CASE label # NoLabel
    <3>1. PICK x : x = LoneLabel(label) /\ LabelLine(pos) = <<x>>
      BY <1>4, <2>2
    <3>2. x \in Line
      <4>1. <<x>> \in Seq(Line)
        BY <3>1
      <4> QED
        BY <4>1
    <3>3. more = (listing \o <<x>>) \o <<line>>
      BY <1>2, <1>8, <3>1, Zenon
    <3>4. /\ Len(more) = l + 2 /\ more[l + 2] = line /\ more[l + 1] = x
          /\ \A n \in 1 .. l : more[n] = listing[n]
      BY <1>5, <3>2, <3>3, TwoLinesMore
    <3> QED
      BY <2>2, <3>1, <3>4
  <2> QED
    BY <2>1, <2>2
<1>7. PICK e \in {1, 2} :
        /\ label = NoLabel => e = 1
        /\ label # NoLabel => e = 2 /\ more[l + 1] = LoneLabel(label)
        /\ Len(more) = l + e /\ more[l + e] = line
        /\ \A n \in 1 .. l : more[n] = listing[n]
  BY <1>6
<1>9. PICK end \in Nat : end = l + e
  OBVIOUS
<1>10. AddsCommand(data, constantLabels, commandLabels, listing, more, pos, l, end)
  <2>1. SameUpTo(listing, more, l)
    BY <1>7 DEF SameUpTo
  <2>2. label = NoLabel => end = l + 1
    BY <1>7, <1>9
  <2>3. label # NoLabel => end = l + 2 /\ more[l + 1] = LoneLabel(label)
    BY <1>7, <1>9
  <2>4. more[end] = CommandBy(next, by(Meaning(next).arg))
    BY <1>3, <1>7, <1>9
  <2> QED
    BY <1>1, <2>1, <2>2, <2>3, <2>4, Zenon DEF AddsCommand
<1>11. CommandsUpTo(data, constantLabels, commandLabels, listing, k, pos, l)
  BY <1>5
<1>12. CommandsUpTo(data, constantLabels, commandLabels, more, k, pos + 1, end)
  BY <1>10, <1>11, CommandAdded
<1>13. end = Len(listing')
  BY <1>7, <1>8, <1>9
<1> QED
  BY <1>5, <1>7, <1>8, <1>12, <1>13 DEF SameUpTo

-----------------------------------------------------------------------------
(***************************************************************************)
(* Every step of the disassembler keeps it.                                *)
(***************************************************************************)
\* At first nothing is listed.
LEMMA NothingListed ==
    /\ \A d, lines : Len(d.code) \in Nat => ConstantsUpTo(d, NoLabels, lines, 0, 0)
    /\ \A d, table, commands, lines : \A k \in Nat :
          CommandsUpTo(d, table, commands, lines, k, 0, k)
<1>1. ASSUME NEW d, NEW lines, Len(d.code) \in Nat
      PROVE  ConstantsUpTo(d, NoLabels, lines, 0, 0)
  <2>1. PICK s \in [0 .. 0 -> Nat] : s[0] = 0
    <3>1. [i \in 0 .. 0 |-> 0] \in [0 .. 0 -> Nat] /\ [i \in 0 .. 0 |-> 0][0] = 0
      OBVIOUS
    <3> QED
      BY <3>1
  <2>2. PICK c \in Nat : c = Len(d.code)
    BY <1>1
  <2>3. DOMAIN NoLabels = {} /\ IsFiniteSet(DOMAIN NoLabels) /\ Cardinality(DOMAIN NoLabels) = 0
    <3>1. DOMAIN NoLabels = {}
      BY DEF NoLabels
    <3> QED
      BY <3>1, FS_EmptySet
  <2>4. DOMAIN NoLabels = {Len(d.code) + s[i - 1] + 1 : i \in 1 .. 0}
    BY <2>3
  <2>5. \A i, j \in 0 .. 0 : i < j => s[i] < s[j]
    OBVIOUS
  <2>6. ConstantsListed(d, NoLabels, lines, 0, s)
    <3>1. \A i \in 1 .. 0 : FALSE
      OBVIOUS
    <3> QED
      BY <2>1, <2>3, <2>4, <2>5, <3>1, Zenon DEF ConstantsListed
  <2> QED
    BY <2>1, <2>6, Zenon DEF ConstantsUpTo
<1>2. ASSUME NEW d, NEW table, NEW commands, NEW lines, NEW k \in Nat
      PROVE  CommandsUpTo(d, table, commands, lines, k, 0, k)
  <2>1. PICK q \in [0 .. 0 -> Nat] : q[0] = k
    <3>1. [i \in 0 .. 0 |-> k] \in [0 .. 0 -> Nat] /\ [i \in 0 .. 0 |-> k][0] = k
      OBVIOUS
    <3> QED
      BY <3>1
  <2>2. \A i, j \in 0 .. 0 : i < j => q[i] < q[j]
    OBVIOUS
  <2>3. /\ \A n \in k + 1 .. q[0] : FALSE
        /\ \A i \in 1 .. 0 : FALSE
    BY <2>1
  <2>4. CommandsListed(d, table, commands, lines, k, 0, q)
    BY <2>1, <2>2, <2>3, Zenon DEF CommandsListed
  <2> QED
    BY <2>1, <2>4, Zenon DEF CommandsUpTo
<1> QED
  BY <1>1, <1>2, Zenon

\* ListedInv holds at first,
LEMMA ListedInvInit ==
    ASSUME Init
    PROVE  ListedInv
<1>1. phase \in {"compile", "read"} /\ ~Recompiled
  BY DEF Init, FromText, FromFile, NoListing, Recompiled
<1> QED
  BY <1>1 DEF ListedInv

\* and is kept by every step.
LEMMA ListedInvNext ==
    ASSUME ListedInv, TypesInv, phase \in Reading => FitsMemory(data), TypeOK', [Next]_vars
    PROVE  ListedInv'
<1>1. /\ data \in Data /\ listing \in Seq(Line) /\ pos \in Nat
      /\ LabelsAreTyped(constantLabels) /\ LabelsAreTyped(commandLabels)
      /\ Len(data.code) \in Nat /\ Len(data.constants) \in Nat
  <2>1. data \in Data /\ listing \in Seq(Line) /\ pos \in Nat
    BY DEF TypesInv, TypeOK
  <2>2. LabelsAreTyped(constantLabels) /\ LabelsAreTyped(commandLabels)
    BY DEF TypesInv, TypeOK, LabelsAreTyped
  <2> QED
    BY <2>1, <2>2, SegmentSizes
<1>2. ASSUME phase' \in {"refused", "write", "read", "failed"}
      PROVE  ListedInv'
  BY <1>2 DEF ListedInv
<1>3. CASE Compile \/ RefuseText \/ Write \/ RefuseFile
  <2>1. phase' \in {"refused", "write", "read", "failed"}
    BY <1>3 DEF Compile, RefuseText, Write, RefuseFile, Fail
  <2> QED
    BY <1>2, <2>1
<1>4. CASE Read
  <2>1. /\ phase' = "constants" /\ pos' = 0 /\ listing' = <<>>
        /\ constantLabels' = NoLabels
    BY <1>4 DEF Read, StartDisassembly
  <2>2. Len(data'.code) \in Nat
    <3>1. data' \in Data
      BY DEF TypeOK
    <3> QED
      BY <3>1, SegmentSizes
  <2>3. Len(listing') = 0
    BY <2>1
  <2>4. ConstantsUpTo(data', constantLabels', listing', Len(listing'), pos')
    BY <2>1, <2>2, <2>3, NothingListed
  <2> QED
    BY <2>1, <2>4 DEF ListedInv
<1>5. CASE CompileListing
  <2>1. /\ phase = "listed" /\ phase' = "compile" /\ text' = listing
        /\ original' = [data |-> data, constantLabels |-> constantLabels,
                        listing |-> listing]
        /\ UNCHANGED <<data, constantLabels, commandLabels, listing>>
    BY <1>5 DEF CompileListing
  <2>2. /\ commandLabels' = CommandLabels'
        /\ \A w \in ToSet(data'.code) : Known(w)
        /\ ListingOf(data', constantLabels', commandLabels', listing')
    <3>1. CommandLabels' = CommandLabels
      BY <2>1 DEF CommandLabels, Referenced
    <3> QED
      BY <2>1, <3>1 DEF ListedInv
  <2> QED
    BY <2>1, <2>2 DEF ListedInv
<1>6. CASE Disassemble /\ UNCHANGED <<text, file, round, compiled, original>>
  <2>1. UNCHANGED data /\ phase \in Reading /\ FitsMemory(data)
    BY <1>6, DisassembleKeeps
  <2>2. CASE UnknownConstantType \/ TruncatedConstant \/ UnknownCommand
    <3>1. phase' = "failed"
      BY <2>2 DEF UnknownConstantType, TruncatedConstant, UnknownCommand, Fail
    <3> QED
      BY <1>2, <3>1
  <2>3. CASE DisassembleConstant
    <3>1. /\ AtConstant /\ phase = "constants" /\ Type \in Types
          /\ Start + Width <= Len(data.constants) /\ RecordConstantLabel
          /\ listing' = Append(listing, ConstantLine(NextConstantLabel))
          /\ pos' = Start + Width /\ phase' = "constants"
      BY <2>3 DEF DisassembleConstant, AtConstant
    <3>2. PICK k \in Nat : k = Len(listing)
      BY <1>1
    <3>3. ConstantsUpTo(data, constantLabels, listing, k, pos)
      BY <3>1, <3>2 DEF ListedInv
    <3>4. ConstantsUpTo(data, constantLabels', listing', k + 1, Start + Width)
      BY <1>1, <3>1, <3>2, <3>3, ConstantListed
    <3>5. Len(listing') = k + 1
      BY <3>1, <3>2
    <3> QED
      BY <2>1, <3>1, <3>4, <3>5 DEF ListedInv
  <2>4. CASE PrepareCommandLabels
    <3>1. /\ phase = "constants" /\ pos = Len(data.constants)
          /\ commandLabels' = CommandLabels /\ phase' = "commands" /\ pos' = 0
          /\ UNCHANGED <<constantLabels, listing>>
      BY <2>4 DEF PrepareCommandLabels
    <3>2. PICK k \in Nat : k = Len(listing)
      BY <1>1
    <3>3. ConstantsUpTo(data, constantLabels, listing, k, Len(data.constants))
      BY <3>1, <3>2 DEF ListedInv
    <3>4. CommandsUpTo(data, constantLabels, commandLabels', listing, k, 0, k)
      BY NothingListed
    <3>5. CommandLabels' = CommandLabels
      BY <2>1 DEF CommandLabels, Referenced
    <3>6. 0 <= Len(data.code)
      BY <1>1
    <3> QED
      BY <2>1, <3>1, <3>2, <3>3, <3>4, <3>5, <3>6 DEF ListedInv
  <2>5. CASE DisassembleCommand
    <3>1. /\ phase = "commands" /\ pos < Len(data.code) /\ phase' = "commands"
          /\ listing' = (listing \o LabelLine(pos)) \o <<CommandString(data.code[pos + 1])>>
          /\ pos' = pos + 1 /\ UNCHANGED <<constantLabels, commandLabels>>
      BY <2>5 DEF DisassembleCommand
    <3>2. PICK k \in Nat :
            /\ ConstantsUpTo(data, constantLabels, listing, k, Len(data.constants))
            /\ CommandsUpTo(data, constantLabels, commandLabels, listing, k, pos, Len(listing))
      BY <3>1 DEF ListedInv
    <3>3. LabelLine(pos) \in Seq(Line) /\ CommandString(data.code[pos + 1]) \in Line
      <4>1. PICK w \in Words : w = data.code[pos + 1] /\ Known(w)
        <5>1. data.code \in Seq(Words) /\ pos + 1 \in 1 .. Len(data.code)
          BY <1>1, <3>1 DEF Data
        <5>2. data.code[pos + 1] \in Words /\ data.code[pos + 1] \in ToSet(data.code)
          BY <5>1 DEF ToSet
        <5> QED
          BY <3>1, <5>2 DEF TypesInv
      <4> QED
        BY <1>1, <4>1, DisassembledLineTypes
    <3>4. /\ SameUpTo(listing, listing', Len(listing))
          /\ CommandsUpTo(data, constantLabels, commandLabels, listing', k, pos + 1,
                          Len(listing'))
      BY <1>1, <3>1, <3>2, <3>3, CommandListed
    <3>5. ConstantsUpTo(data, constantLabels, listing', k, Len(data.constants))
      <4>1. PICK l \in Nat : l = Len(listing)
        BY <1>1
      <4>2. /\ SameUpTo(listing, listing', l)
            /\ CommandsUpTo(data, constantLabels, commandLabels, listing, k, pos, l)
        BY <3>2, <3>4, <4>1
      <4> QED
        BY <1>1, <3>2, <4>2, StillListed
    <3>6. pos' <= Len(data.code)
      BY <1>1, <3>1
    <3>7. commandLabels' = CommandLabels'
      <4>1. CommandLabels' = CommandLabels
        BY <2>1 DEF CommandLabels, Referenced
      <4> QED
        BY <3>1, <4>1 DEF ListedInv
    <3> QED
      BY <2>1, <3>1, <3>4, <3>5, <3>6, <3>7 DEF ListedInv
  <2>6. CASE EndListing
    <3>1. /\ phase = "commands" /\ pos = Len(data.code) /\ phase' = "listed"
          /\ listing' = Append(listing, EndMain)
          /\ UNCHANGED <<constantLabels, commandLabels>>
      BY <2>6 DEF EndListing
    <3>2. PICK k \in Nat :
            /\ ConstantsUpTo(data, constantLabels, listing, k, Len(data.constants))
            /\ CommandsUpTo(data, constantLabels, commandLabels, listing, k, pos, Len(listing))
      BY <3>1 DEF ListedInv
    <3>3. PICK l \in Nat : l = Len(listing)
      BY <1>1
    <3>4. /\ SameUpTo(listing, listing', l) /\ Len(listing') = l + 1
          /\ listing'[l + 1] = EndMain
      <4>1. EndMain \in Line
        BY <1>1, DisassembledLineTypes
      <4> QED
        BY <1>1, <3>1, <3>3, <4>1 DEF SameUpTo
    <3>5. CommandsUpTo(data, constantLabels, commandLabels, listing, k, pos, l)
      BY <3>2, <3>3
    <3>6. /\ CommandsUpTo(data, constantLabels, commandLabels, listing', k, pos, l)
          /\ ConstantsUpTo(data, constantLabels, listing', k, Len(data.constants))
      BY <1>1, <3>2, <3>4, <3>5, StillListed
    <3>7. ListingOf(data, constantLabels, commandLabels, listing')
      BY <3>1, <3>4, <3>6 DEF ListingOf
    <3>8. CommandLabels' = CommandLabels
      BY <2>1 DEF CommandLabels, Referenced
    <3>9. \A w \in ToSet(data.code) : Known(w)
      BY <3>1 DEF TypesInv
    <3> QED
      BY <2>1, <3>1, <3>7, <3>8, <3>9 DEF ListedInv
  <2> QED
    BY <1>6, <2>2, <2>3, <2>4, <2>5, <2>6 DEF Disassemble
<1>7. CASE UNCHANGED vars
  <2>1. CommandLabels' = CommandLabels
    BY <1>7 DEF vars, disasmVars, CommandLabels, Referenced
  <2> QED
    BY <1>7, <2>1 DEF vars, disasmVars, ListedInv, Recompiled
<1> QED
  BY <1>3, <1>4, <1>5, <1>6, <1>7 DEF Next

-----------------------------------------------------------------------------
(***************************************************************************)
(* The listing read again, while the labels are those of the disassembler. *)
(***************************************************************************)
\* a constant's line by its fields
ConstantOf(label, t, num, str) ==
    [label |-> label, item |-> "constant", code |-> 0, reg |-> 0, src |-> 0,
     use |-> NoLabel, num |-> num, type |-> t, text |-> str]

\* The lines of the disassembler, field by field.
LEMMA ConstantFields ==
    ASSUME NEW label, NEW t, NEW v
    PROVE  /\ t = Uint32Type => ConstantAs(label, t, v) = ConstantOf(label, t, v[1], <<>>)
           /\ t = Uint64Type => ConstantAs(label, t, v) = ConstantOf(label, t, Double(v), <<>>)
           /\ t = DoubleType =>
                 ConstantAs(label, t, v) = ConstantOf(label, t, Digits(Double(v)), <<>>)
           /\ t = CharType =>
                 ConstantAs(label, t, v) = ConstantOf(label, t, 0, Quoted(Text(v), CharQuote))
           /\ t = StringType =>
                 ConstantAs(label, t, v)
                   = ConstantOf(label, t, 0, Quoted(Text(Front(v)), StringQuote))
<1> DEFINE line == [Blank EXCEPT !.label = label, !.item = "constant", !.type = t]
<1>1. line = ConstantOf(label, t, 0, <<>>)
  <2> DEFINE rec(a, b, u, x) ==
               [label |-> a, item |-> b, code |-> 0, reg |-> 0, src |-> 0,
                use |-> NoLabel, num |-> 0, type |-> u, text |-> x]
  <2>1. \A a, b, u, x, y : /\ [rec(a, b, u, x) EXCEPT !.label = y] = rec(y, b, u, x)
                          /\ [rec(a, b, u, x) EXCEPT !.item = y] = rec(a, y, u, x)
                          /\ [rec(a, b, u, x) EXCEPT !.type = y] = rec(a, b, y, x)
    OBVIOUS
  <2>2. Blank = rec(NoLabel, "none", Uint32Type, <<>>)
    BY Zenon DEF Blank, rec
  <2>3. ConstantOf(label, t, 0, <<>>) = rec(label, "constant", t, <<>>)
    BY Zenon DEF ConstantOf, rec
  <2>4. line = [[[Blank EXCEPT !.label = label] EXCEPT !.item = "constant"]
                       EXCEPT !.type = t]
    BY Zenon DEF line
  <2> HIDE DEF rec
  <2>5. [Blank EXCEPT !.label = label] = rec(label, "none", Uint32Type, <<>>)
    BY <2>1, <2>2
  <2>6. [rec(label, "none", Uint32Type, <<>>) EXCEPT !.item = "constant"]
          = rec(label, "constant", Uint32Type, <<>>)
    BY <2>1
  <2>7. [rec(label, "constant", Uint32Type, <<>>) EXCEPT !.type = t]
          = rec(label, "constant", t, <<>>)
    BY <2>1
  <2> QED
    BY <2>3, <2>4, <2>5, <2>6, <2>7
<1> HIDE DEF line
<1>2. \A n, x : /\ [line EXCEPT !.num = n] = ConstantOf(label, t, n, <<>>)
                /\ [line EXCEPT !.text = x] = ConstantOf(label, t, 0, x)
  BY <1>1 DEF ConstantOf
<1>t. /\ Uint32Type = 0 /\ Uint64Type = 1 /\ DoubleType = 2 /\ CharType = 3
      /\ StringType = 4
  BY DEF Uint32Type, Uint64Type, DoubleType, CharType, StringType
<1>3. ConstantAs(label, t, v)
        = CASE t = Uint32Type -> [line EXCEPT !.num = v[1]]
            [] t = Uint64Type -> [line EXCEPT !.num = Double(v)]
            [] t = DoubleType -> [line EXCEPT !.num = Digits(Double(v))]
            [] t = CharType   -> [line EXCEPT !.text = Quoted(Text(v), CharQuote)]
            [] t = StringType -> [line EXCEPT !.text =
                                     Quoted(Text(Front(v)), StringQuote)]
  BY Zenon DEF ConstantAs, line
<1>4. ASSUME t = Uint32Type PROVE ConstantAs(label, t, v) = [line EXCEPT !.num = v[1]]
  BY <1>3, <1>4, <1>t
<1>5. ASSUME t = Uint64Type PROVE ConstantAs(label, t, v) = [line EXCEPT !.num = Double(v)]
  BY <1>3, <1>5, <1>t
<1>6. ASSUME t = DoubleType
      PROVE  ConstantAs(label, t, v) = [line EXCEPT !.num = Digits(Double(v))]
  BY <1>3, <1>6, <1>t
<1>7. ASSUME t = CharType
      PROVE  ConstantAs(label, t, v) = [line EXCEPT !.text = Quoted(Text(v), CharQuote)]
  BY <1>3, <1>7, <1>t
<1>8. ASSUME t = StringType
      PROVE  ConstantAs(label, t, v)
               = [line EXCEPT !.text = Quoted(Text(Front(v)), StringQuote)]
  BY <1>3, <1>8, <1>t
<1> QED
  BY <1>2, <1>4, <1>5, <1>6, <1>7, <1>8, Zenon

\* What the lines of a listing hold.
LEMMA LineFields ==
    /\ \A label, v : \A t \in Types :
          LET line == ConstantAs(label, t, v)
          IN  line.item = "constant" /\ line.label = label /\ line.type = t
              /\ line.use = NoLabel
    /\ \A w, label : /\ CommandBy(w, label).item = "command"
                     /\ CommandBy(w, label).label = NoLabel
                     /\ CommandBy(w, label).type = Uint32Type
    /\ \A label : /\ LoneLabel(label).item = "none" /\ LoneLabel(label).label = label
                  /\ LoneLabel(label).type = Uint32Type /\ LoneLabel(label).use = NoLabel
    /\ EndMain.item = "end" /\ EndMain.label = NoLabel /\ EndMain.use = MainLabel
    /\ EndMain.type = Uint32Type
<1>1. ASSUME NEW label, NEW v, NEW t \in Types
      PROVE  LET line == ConstantAs(label, t, v)
             IN  line.item = "constant" /\ line.label = label /\ line.type = t
                 /\ line.use = NoLabel
  <2>1. \A n, x : LET line == ConstantOf(label, t, n, x)
                  IN  line.item = "constant" /\ line.label = label /\ line.type = t
                      /\ line.use = NoLabel
    BY DEF ConstantOf
  <2>2. t \in {Uint32Type, Uint64Type, DoubleType, CharType, StringType}
    BY DEF Types, Uint32Type, Uint64Type, DoubleType, CharType, StringType
  <2>3. \E n, x : ConstantAs(label, t, v) = ConstantOf(label, t, n, x)
    BY <2>2, ConstantFields
  <2> QED
    BY <2>1, <2>3
<1>2. \A c, use : /\ CommandLine(c, use).item = "command" /\ CommandLine(c, use).label = NoLabel
                  /\ CommandLine(c, use).type = Uint32Type
  BY DEF CommandLine, Blank
<1>3. \A w, label : /\ CommandBy(w, label).item = "command"
                    /\ CommandBy(w, label).label = NoLabel
                    /\ CommandBy(w, label).type = Uint32Type
  <2> TAKE w, label
  <2>1. \E c, use : CommandBy(w, label) = CommandLine(c, use)
    BY Zenon DEF CommandBy
  <2> QED
    BY <1>2, <2>1
<1>4. \A label : /\ LoneLabel(label).item = "none" /\ LoneLabel(label).label = label
                 /\ LoneLabel(label).type = Uint32Type /\ LoneLabel(label).use = NoLabel
  BY DEF LoneLabel, Blank
<1>5. /\ EndMain.item = "end" /\ EndMain.label = NoLabel /\ EndMain.use = MainLabel
      /\ EndMain.type = Uint32Type
  BY DEF EndMain, Blank
<1> QED
  BY <1>1, <1>3, <1>4, <1>5

\* The text is the listing of the program: k constants that end at the words s,
\* c commands on the lines q, and the entrypoint directive on line n.
Relists(k, s, c, q, n) ==
    /\ data \in Data /\ FitsMemory(data) /\ text \in Seq(Line)
    /\ \A w \in ToSet(data.code) : Known(w)
    /\ commandLabels = CommandLabels
    /\ c = Len(data.code) /\ s[k] = Len(data.constants)
    /\ ConstantsListed(data, constantLabels, text, k, s)
    /\ CommandsListed(data, constantLabels, commandLabels, text, k, c, q)
    /\ n = q[c] + 1 /\ Len(text) = n /\ text[n] = EndMain

\* the label of an address in the listing
LabelOf(a) == LabelBy(constantLabels, commandLabels, a)

\* Its lines are of constants, of commands, of their labels, and the last.
RelistedIn(k, c, q, n) ==
    /\ DOMAIN text = 1 .. n /\ k < n
    /\ \A i \in 1 .. k : /\ text[i].item = "constant" /\ i < n
                         /\ text[i].label = Numbered("constant", i)
    /\ \A i \in 1 .. c : /\ q[i] \in k + 1 .. n - 1
                         /\ text[q[i]].item = "command"
                         /\ text[q[i]].label = NoLabel
                         /\ text[q[i]] = CommandBy(data.code[i],
                                              LabelOf(Meaning(data.code[i]).arg))
    /\ \A i, j \in 1 .. c : i < j => q[i] < q[j]
    /\ \A i \in 1 .. c :
          LabelOf(i - 1) # NoLabel =>
              /\ q[i] - 1 \in k + 1 .. n - 1
              /\ text[q[i] - 1] = LoneLabel(LabelOf(i - 1))
    /\ text[n] = EndMain
    /\ \A m \in k + 1 .. n - 1 :
          \/ \E i \in 1 .. c : m = q[i]
          \/ \E i \in 1 .. c : m = q[i] - 1 /\ LabelOf(i - 1) # NoLabel

\* A listing that is compiled has its constants, its commands with their labels,
\* and its entrypoint directive in their places.
LEMMA RelistedLines ==
    ASSUME NEW k \in Nat, NEW s \in [0 .. k -> Nat], NEW c \in Nat,
           NEW q \in [0 .. c -> Nat], NEW n \in Nat, Relists(k, s, c, q, n)
    PROVE  RelistedIn(k, c, q, n)
<1>1. /\ text \in Seq(Line) /\ Len(text) = n /\ n = q[c] + 1 /\ text[n] = EndMain
      /\ ConstantsListed(data, constantLabels, text, k, s)
      /\ CommandsListed(data, constantLabels, commandLabels, text, k, c, q)
  BY DEF Relists
<1>2. /\ q[0] = k
      /\ \A i, j \in 0 .. c : i < j => q[i] < q[j]
      /\ \A m \in k + 1 .. q[c] : \E i \in 1 .. c : m = q[i] \/ m = q[i] - 1
      /\ \A i \in 1 .. c :
            /\ text[q[i]] = CommandBy(data.code[i], LabelOf(Meaning(data.code[i]).arg))
            /\ LabelOf(i - 1) = NoLabel => q[i] = q[i - 1] + 1
            /\ LabelOf(i - 1) # NoLabel => /\ q[i] = q[i - 1] + 2
                                           /\ text[q[i] - 1] = LoneLabel(LabelOf(i - 1))
  BY <1>1 DEF CommandsListed, LabelOf
<1>3. DOMAIN text = 1 .. n
  BY <1>1
<1>4. \A i \in 0 .. c : k <= q[i] /\ q[i] <= q[c] /\ q[i] \in Nat
  <2> TAKE i \in 0 .. c
  <2>1. i = 0 \/ q[0] < q[i]
    BY <1>2
  <2>2. i = c \/ q[i] < q[c]
    BY <1>2
  <2> QED
    BY <1>2, <2>1, <2>2
<1>5. k < n /\ k <= q[c]
  <2>1. c \in 0 .. c
    OBVIOUS
  <2> QED
    BY <1>1, <1>4, <2>1
<1>6. \A i \in 1 .. k : /\ text[i].item = "constant" /\ i < n
                        /\ text[i].label = Numbered("constant", i)
  <2> TAKE i \in 1 .. k
  <2>1. \E v : \E t \in Types : text[i] = ConstantAs(Numbered("constant", i), t, v)
    <3>1. /\ data.constants[s[i - 1] + 1] \in Types
          /\ text[i] = ConstantAs(Numbered("constant", i), data.constants[s[i - 1] + 1],
                                  SubSeq(data.constants, s[i - 1] + 2, s[i]))
      BY <1>1, Zenon DEF ConstantsListed, IsConstant
    <3> QED
      BY <3>1
  <2> QED
    BY <1>5, <2>1, LineFields
<1>7. \A i \in 1 .. c : /\ i \in 0 .. c /\ i - 1 \in 0 .. c /\ q[i - 1] < q[i]
                        /\ k <= q[i - 1] /\ q[i] <= q[c] /\ q[i] \in Nat /\ q[i - 1] \in Nat
  <2> TAKE i \in 1 .. c
  <2>1. i \in 0 .. c /\ i - 1 \in 0 .. c /\ i - 1 < i
    OBVIOUS
  <2> QED
    BY <1>2, <1>4, <2>1
<1>8. \A i \in 1 .. c : /\ q[i] \in k + 1 .. n - 1
                        /\ text[q[i]].item = "command"
                        /\ text[q[i]].label = NoLabel
                        /\ text[q[i]] = CommandBy(data.code[i],
                                             LabelOf(Meaning(data.code[i]).arg))
  <2> TAKE i \in 1 .. c
  <2>1. q[i] \in k + 1 .. n - 1
    BY <1>1, <1>7
  <2>2. text[q[i]] = CommandBy(data.code[i], LabelOf(Meaning(data.code[i]).arg))
    BY <1>2
  <2> QED
    BY <2>1, <2>2, LineFields
<1>9. \A i \in 1 .. c :
         LabelOf(i - 1) # NoLabel =>
             /\ q[i] - 1 \in k + 1 .. n - 1
             /\ text[q[i] - 1] = LoneLabel(LabelOf(i - 1))
  <2> SUFFICES ASSUME NEW i \in 1 .. c, LabelOf(i - 1) # NoLabel
               PROVE  /\ q[i] - 1 \in k + 1 .. n - 1
                      /\ text[q[i] - 1] = LoneLabel(LabelOf(i - 1))
    OBVIOUS
  <2>1. q[i] = q[i - 1] + 2 /\ text[q[i] - 1] = LoneLabel(LabelOf(i - 1))
    BY <1>2
  <2> QED
    BY <1>1, <1>7, <2>1, SMTT(20)
<1>10. ASSUME NEW m \in k + 1 .. n - 1
       PROVE  \/ \E i \in 1 .. c : m = q[i]
              \/ \E i \in 1 .. c : m = q[i] - 1 /\ LabelOf(i - 1) # NoLabel
  <2>1. m \in k + 1 .. q[c]
    BY <1>1
  <2>2. PICK i \in 1 .. c : m = q[i] \/ m = q[i] - 1
    BY <1>2, <2>1
  <2>3. CASE m = q[i] - 1 /\ LabelOf(i - 1) = NoLabel
    <3>1. q[i] = q[i - 1] + 1
      BY <1>2, <2>3
    <3>2. m = q[i - 1]
      BY <1>7, <2>3, <3>1
    <3>3. i # 1
      BY <1>2, <3>2
    <3>4. i - 1 \in 1 .. c
      BY <3>3
    <3> QED
      BY <3>2, <3>4
  <2> QED
    BY <2>2, <2>3
<1>11. \A i, j \in 1 .. c : i < j => q[i] < q[j]
  BY <1>2
<1> QED
  BY <1>1, <1>3, <1>5, <1>6, <1>8, <1>9, <1>10, <1>11, Zenon DEF RelistedIn

-----------------------------------------------------------------------------
(***************************************************************************)
(* A constant of a listing says its words.                                 *)
(***************************************************************************)
\* the characters of words
CharsIn(s) == [i \in DOMAIN s |-> WordToChar(s[i])]

\* Every word has a character.
LEMMA CharsInWords ==
    ASSUME NEW s \in Seq(Words)
    PROVE  /\ CharsIn(s) \in Seq(Chars) /\ Len(CharsIn(s)) = Len(s)
           /\ DOMAIN CharsIn(s) = DOMAIN s
           /\ \A i \in DOMAIN s : CharsIn(s)[i] = WordToChar(s[i])
           /\ Text(s) = Escape(CharsIn(s))
<1> DEFINE count == 2 ^ CharBits
<1>1. count \in Nat \ {0}
  BY CharCounts
<1>2. \A i \in DOMAIN s : s[i] \in Nat
  BY FieldCounts DEF Words
<1>3. \A x \in Nat : x % count \in 0 .. count - 1
  BY <1>1
<1>4. \A i \in DOMAIN s : s[i] % count \in Chars
  BY <1>2, <1>3 DEF Chars
<1>5. \A i \in DOMAIN s : WordToChar(s[i]) \in Chars
  BY <1>4 DEF WordToChar
<1>6. Text(s) = Escape(CharsIn(s))
  BY Zenon DEF Text, CharsIn
<1> QED
  BY <1>5, <1>6 DEF CharsIn

\* Two words are a number of two words, and are read from it.
LEMMA SplitOfWords ==
    ASSUME NEW a \in Words, NEW b \in Words
    PROVE  /\ Double(<<a, b>>) \in TwoWords
           /\ Split(Double(<<a, b>>) % WordCount ^ 2) = <<a, b>>
<1> DEFINE w == WordCount
           v == a + w * b
<1>1. w \in Nat \ {0} /\ WordCount ^ 2 = w * w
  BY FieldCounts, WordsAssumption
<1>2. a \in 0 .. w - 1 /\ b \in 0 .. w - 1
  BY DEF Words
<1>3. Double(<<a, b>>) = v
  BY DEF Double
<1> HIDE DEF w
<1>4. v \in Nat /\ v < w * w
  <2>1. w * b <= w * (w - 1)
    BY <1>1, <1>2
  <2>2. w * (w - 1) = w * w - w
    BY <1>1
  <2>3. PICK x \in Nat : x = w * b
    BY <1>1, <1>2
  <2>4. PICK y \in Nat : y = w * w
    BY <1>1
  <2> QED
    BY <1>1, <1>2, <2>1, <2>2, <2>3, <2>4
<1>5. v \in TwoWords
  <2>1. PICK y \in Nat : y = w * w
    BY <1>1
  <2>2. v \in 0 .. y - 1
    BY <1>4, <2>1
  <2> QED
    BY <1>1, <2>1, <2>2 DEF TwoWords
<1>6. v % WordCount ^ 2 = v
  BY <1>5, DoubleOfSplit
<1>7. v % w = a /\ v \div w = b
  <2>1. PICK l, h : l = v % w /\ h = v \div w
    OBVIOUS
  <2>2. l \in 0 .. w - 1 /\ h \in Int /\ v = l + w * h
    BY <1>1, <1>4, <2>1
  <2>3. h = b
    <3>1. ASSUME h < b PROVE FALSE
      <4>1. w * h <= w * (b - 1) /\ w * (b - 1) = w * b - w
        BY <1>1, <1>2, <2>2, <3>1
      <4>2. PICK x, y \in Int : x = w * h /\ y = w * b
        BY <1>1, <1>2, <2>2
      <4> QED
        BY <1>1, <1>2, <2>2, <4>1, <4>2
    <3>2. ASSUME h > b PROVE FALSE
      <4>1. w * h >= w * (b + 1) /\ w * (b + 1) = w * b + w
        BY <1>1, <1>2, <2>2, <3>2
      <4>2. PICK x, y \in Int : x = w * h /\ y = w * b
        BY <1>1, <1>2, <2>2
      <4> QED
        BY <1>1, <1>2, <2>2, <4>1, <4>2
    <3> QED
      BY <1>2, <2>2, <3>1, <3>2
  <2>4. PICK x \in Int : x = w * h
    BY <1>1, <2>2
  <2>5. l = a
    BY <1>1, <1>2, <2>2, <2>3, <2>4
  <2> QED
    BY <2>1, <2>3, <2>5
<1>8. Split(v) = <<a, b>>
  BY <1>7 DEF Split, w
<1> QED
  BY <1>3, <1>5, <1>6, <1>8, Zenon

\* A numeric constant is right, by type.
LEMMA NumbersByType ==
    ASSUME NEW line
    PROVE  /\ line.type \in {Uint32Type, Uint64Type} =>
                 (ConstantIsValid(line)
                    <=> line.num \in -(WordCount ^ 2 - 1) .. WordCount ^ 2 - 1)
           /\ line.type = DoubleType =>
                 (ConstantIsValid(line) <=> line.num \notin Unreadable)
<1> DEFINE fits == line.num \in -(WordCount ^ 2 - 1) .. WordCount ^ 2 - 1
<1>1. ASSUME line.type \in {Uint32Type, Uint64Type}
      PROVE  ConstantIsValid(line) <=> fits
  <2>1. ConstantIsValid(line)
          <=> CASE line.type \in {Uint32Type, Uint64Type} -> fits
                [] line.type = DoubleType -> line.num \notin Unreadable
                [] line.type = CharType -> /\ IsQuoted(Written(line), CharQuote)
                                           /\ Len(Unescape(Inside(Written(line)))) = 1
                [] line.type = StringType -> IsQuoted(Written(line), StringQuote)
    BY Zenon DEF ConstantIsValid
  <2> HIDE DEF fits
  <2>2. line.type # DoubleType /\ line.type # CharType /\ line.type # StringType
    BY <1>1 DEF Uint32Type, Uint64Type, DoubleType, CharType, StringType
  <2> QED
    BY <1>1, <2>1, <2>2, Zenon
<1>2. ASSUME line.type = DoubleType
      PROVE  ConstantIsValid(line) <=> line.num \notin Unreadable
  BY <1>2 DEF ConstantIsValid, Uint32Type, Uint64Type, DoubleType, CharType, StringType
<1> QED
  BY <1>1, <1>2, Zenon

\* the words of a value, as many as its type asks for
IsValue(t, v) ==
    /\ v \in Seq(Words) /\ t \in Types
    /\ t \in {Uint32Type, CharType} => Len(v) = 1
    /\ t \in {Uint64Type, DoubleType} => Len(v) = 2
    /\ t = StringType => Len(v) >= 1 /\ v[Len(v)] = StringEnd

\* What the compiler makes of the line of a constant with the words v: the same
\* words, a double as its digits tell, a character as a char.
ReadsBack(t, v, line) ==
    /\ t # DoubleType \/ line.num \notin Unreadable => ConstantIsValid(line)
    /\ ValueWords(line) \in Seq(Words) /\ Len(ValueWords(line)) = Len(v)
    /\ t \in {Uint32Type, Uint64Type} => ValueWords(line) = v
    /\ t = DoubleType => ValueWords(line) = Split(Digits(Double(v)))
    /\ t \in {CharType, StringType} =>
          \A i \in DOMAIN v :
              ValueWords(line)[i] = CharToWord(WordToChar(v[i]), WordCount)

\* A word is a value,
LEMMA WordReadsBack ==
    ASSUME NEW v, IsValue(Uint32Type, v), NEW label
    PROVE  ReadsBack(Uint32Type, v, ConstantAs(label, Uint32Type, v))
<1> DEFINE line == ConstantAs(label, Uint32Type, v)
<1>1. PICK a \in Words : v = <<a>> /\ v[1] = a
  <2>1. v \in Seq(Words) /\ Len(v) = 1
    BY DEF IsValue
  <2>2. v[1] \in Words /\ v = <<v[1]>>
    BY <2>1
  <2> QED
    BY <2>2
<1>2. line = ConstantOf(label, Uint32Type, a, <<>>)
  BY <1>1, ConstantFields
<1>3. line.type = Uint32Type /\ line.num = a
  BY <1>2 DEF ConstantOf
<1> HIDE DEF line
<1>4. /\ a % WordCount = a /\ a \in -(WordCount ^ 2 - 1) .. WordCount ^ 2 - 1
  BY WordIsNumber
<1>5. ValueWords(line) = <<a>>
  BY <1>3, <1>4, WordsByType
<1>6. ConstantIsValid(line)
  BY <1>3, <1>4, NumbersByType
<1>7. ValueWords(line) = v /\ v \in Seq(Words)
  BY <1>1, <1>5 DEF IsValue
<1>8. Uint32Type # DoubleType /\ Uint32Type \notin {CharType, StringType}
  BY DEF Uint32Type, DoubleType, CharType, StringType
<1>9. ReadsBack(Uint32Type, v, line)
  BY <1>6, <1>7, <1>8 DEF ReadsBack
<1> QED
  BY <1>9 DEF line

\* and so are two, as they are or as the digits of the double say,
LEMMA TwoWordsReadBack ==
    ASSUME NEW t \in {Uint64Type, DoubleType}, NEW v, IsValue(t, v), NEW label
    PROVE  /\ ReadsBack(t, v, ConstantAs(label, t, v))
           /\ t = DoubleType => ConstantAs(label, t, v).num = Digits(Double(v))
<1> DEFINE line == ConstantAs(label, t, v)
<1>1. PICK a \in Words, b \in Words : v = <<a, b>>
  <2>1. v \in Seq(Words) /\ Len(v) = 2
    BY DEF IsValue
  <2>2. v[1] \in Words /\ v[2] \in Words /\ v = <<v[1], v[2]>>
    BY <2>1
  <2> QED
    BY <2>2
<1>2. PICK n \in TwoWords : n = Double(v) /\ Split(n % WordCount ^ 2) = v
  BY <1>1, SplitOfWords, Zenon
<1>t. /\ Uint64Type = 1 /\ DoubleType = 2 /\ CharType = 3 /\ StringType = 4 /\ Uint32Type = 0
  BY DEF Uint32Type, Uint64Type, DoubleType, CharType, StringType
<1>3. PICK d \in TwoWords : d = IF t = DoubleType THEN Digits(n) ELSE n
  <2>1. CASE t = DoubleType /\ n \in DOMAIN Rounded
    <3>1. Rounded[n] \in TwoWords
      BY <2>1, LinesAssumption
    <3>2. Digits(n) = Rounded[n]
      BY <2>1 DEF Digits
    <3> QED
      BY <2>1, <3>1, <3>2
  <2>2. CASE t # DoubleType \/ n \notin DOMAIN Rounded
    BY <2>2 DEF Digits
  <2> QED
    BY <2>1, <2>2
<1>4. line = ConstantOf(label, t, d, <<>>)
  BY <1>2, <1>3, <1>t, ConstantFields
<1>5. line.type = t /\ line.num = d
  BY <1>4 DEF ConstantOf
<1> HIDE DEF line
<1>6. d \in -(WordCount ^ 2 - 1) .. WordCount ^ 2 - 1 /\ d \in Int
  <2>1. d \in -(WordCount ^ 2 - 1) .. WordCount ^ 2 - 1
    BY DoubleOfSplit
  <2> QED
    BY <2>1
<1>7. ValueWords(line) = Split(d % WordCount ^ 2)
  BY <1>5, WordsByType
<1>8. t # DoubleType \/ line.num \notin Unreadable => ConstantIsValid(line)
  BY <1>5, <1>6, <1>t, NumbersByType
<1>9. ValueWords(line) \in Seq(Words) /\ Len(ValueWords(line)) = 2
  <2>1. ValueWords(line) \in Seq(Words)
    BY <1>6, <1>7, SplitType
  <2>2. \E x, y : Split(d % WordCount ^ 2) = <<x, y>>
    BY Zenon DEF Split
  <2> QED
    BY <1>7, <2>1, <2>2
<1>10. Len(v) = 2
  BY <1>1
<1>11. d = n => ValueWords(line) = v
  BY <1>2, <1>7
<1>12. t = DoubleType => ValueWords(line) = Split(Digits(Double(v)))
  <2>1. d % WordCount ^ 2 = d
    BY DoubleOfSplit
  <2> QED
    BY <1>2, <1>3, <1>7, <2>1
<1>13. t = Uint64Type => ValueWords(line) = v
  BY <1>3, <1>11, <1>t
<1>14. ReadsBack(t, v, line)
  BY <1>5, <1>8, <1>9, <1>10, <1>12, <1>13, <1>t DEF ReadsBack
<1>15. t = DoubleType => line.num = Digits(Double(v))
  BY <1>2, <1>3, <1>5
<1> QED
  BY <1>14, <1>15 DEF line

\* The characters between the quotes are read back.
LEMMA QuotedReadsBack ==
    ASSUME NEW s \in Seq(Words), NEW quote \in {CharQuote, StringQuote},
           NEW line, line.text = Quoted(Text(s), quote)
    PROVE  IsQuoted(Written(line), quote) /\ CharsOf(line) = CharsIn(s)
<1> DEFINE chars == CharsIn(s)
           written == TrimSpaces(TrimComment(Quoted(Escape(chars), quote)))
<1>1. chars \in Seq(Chars) /\ Text(s) = Escape(chars)
  BY CharsInWords
<1>2. Written(line) = written
  BY <1>1, Zenon DEF Written
<1> HIDE DEF chars
<1>3. IsQuoted(written, quote) /\ Unescape(Inside(written)) = chars
  BY <1>1, StringsAreReadBack, Zenon
<1> QED
  BY <1>2, <1>3, Zenon DEF CharsOf, chars

\* the words of characters
LEMMA WordsOfChars ==
    ASSUME NEW s \in Seq(Words)
    PROVE  LET words == WordsOf(CharsIn(s))
           IN  /\ words \in Seq(Words) /\ Len(words) = Len(s)
               /\ \A i \in DOMAIN s :
                     words[i] = CharToWord(WordToChar(s[i]), WordCount)
<1> DEFINE chars == CharsIn(s)
<1>1. /\ chars \in Seq(Chars) /\ Len(chars) = Len(s) /\ DOMAIN chars = DOMAIN s
      /\ \A i \in DOMAIN s : chars[i] = WordToChar(s[i])
  BY CharsInWords
<1> HIDE DEF chars
<1>2. WordsOf(chars) \in Seq(Words) /\ Len(WordsOf(chars)) = Len(chars)
  BY <1>1, TextOfWords
<1>3. \A i \in DOMAIN s : WordsOf(chars)[i] = CharToWord(WordToChar(s[i]), WordCount)
  BY <1>1, Zenon DEF WordsOf
<1> QED
  BY <1>1, <1>2, <1>3 DEF chars

\* So a character is a value,
LEMMA CharReadsBack ==
    ASSUME NEW v, IsValue(CharType, v), NEW label
    PROVE  ReadsBack(CharType, v, ConstantAs(label, CharType, v))
<1> DEFINE line == ConstantAs(label, CharType, v)
<1>1. v \in Seq(Words) /\ Len(v) = 1
  BY DEF IsValue
<1>2. line = ConstantOf(label, CharType, 0, Quoted(Text(v), CharQuote))
  BY ConstantFields
<1>3. line.type = CharType /\ line.text = Quoted(Text(v), CharQuote)
  BY <1>2 DEF ConstantOf
<1> HIDE DEF line
<1>4. IsQuoted(Written(line), CharQuote) /\ CharsOf(line) = CharsIn(v)
  BY <1>1, <1>3, QuotedReadsBack
<1>5. Len(CharsIn(v)) = 1
  BY <1>1, CharsInWords
<1>t. CharType # DoubleType /\ CharType \notin {Uint32Type, Uint64Type, StringType}
  BY DEF Uint32Type, Uint64Type, DoubleType, CharType, StringType
<1>6. ConstantIsValid(line)
  <2>1. Len(Unescape(Inside(Written(line)))) = 1
    BY <1>4, <1>5, Zenon DEF CharsOf
  <2> QED
    BY <1>3, <1>4, <1>t, <2>1 DEF ConstantIsValid
<1>7. ValueWords(line) = WordsOf(CharsIn(v))
  BY <1>3, <1>4, WordsByType
<1>8. ReadsBack(CharType, v, line)
  BY <1>1, <1>6, <1>7, <1>t, WordsOfChars DEF ReadsBack
<1> QED
  BY <1>8 DEF line

\* and a string with the word that ends it.
LEMMA StringReadsBack ==
    ASSUME NEW v, IsValue(StringType, v), NEW label
    PROVE  ReadsBack(StringType, v, ConstantAs(label, StringType, v))
<1> DEFINE line == ConstantAs(label, StringType, v)
           s == Front(v)
<1>1. v \in Seq(Words) /\ Len(v) >= 1 /\ v[Len(v)] = StringEnd
  BY DEF IsValue
<1>2. s \in Seq(Words) /\ Len(s) = Len(v) - 1 /\ \A i \in DOMAIN s : s[i] = v[i]
  <2>1. PICK n \in Nat : n = Len(v) /\ n >= 1
    BY <1>1
  <2>2. SubSeq(v, 1, n - 1) \in Seq(Words) /\ Len(SubSeq(v, 1, n - 1)) = n - 1
        /\ \A i \in 1 .. n - 1 : SubSeq(v, 1, n - 1)[i] = v[i]
    BY <1>1, <2>1
  <2>3. s = SubSeq(v, 1, n - 1)
    BY <2>1 DEF Front
  <2> HIDE DEF s
  <2> QED
    BY <2>1, <2>2, <2>3
<1>3. line = ConstantOf(label, StringType, 0, Quoted(Text(s), StringQuote))
  BY ConstantFields
<1>4. line.type = StringType /\ line.text = Quoted(Text(s), StringQuote)
  BY <1>3 DEF ConstantOf
<1> HIDE DEF line, s
<1>5. IsQuoted(Written(line), StringQuote) /\ CharsOf(line) = CharsIn(s)
  BY <1>2, <1>4, QuotedReadsBack
<1>t. /\ StringType # DoubleType /\ StringType \notin {Uint32Type, Uint64Type, CharType}
  BY DEF Uint32Type, Uint64Type, DoubleType, CharType, StringType
<1>6. ConstantIsValid(line)
  BY <1>4, <1>5, <1>t DEF ConstantIsValid
<1>7. ValueWords(line) = Append(WordsOf(CharsIn(s)), StringEnd)
  BY <1>4, <1>5, WordsByType
<1>8. PICK words \in Seq(Words) :
          /\ words = WordsOf(CharsIn(s)) /\ Len(words) = Len(s)
          /\ \A i \in DOMAIN s : words[i] = CharToWord(WordToChar(s[i]), WordCount)
  BY <1>2, WordsOfChars
<1>9. StringEnd = CharToWord(WordToChar(StringEnd), WordCount) /\ StringEnd \in Words
  <2>1. 2 ^ CharBits \in Nat \ {0} /\ 2 ^ (CharBits - 1) \in Nat \ {0} /\ WordCount \in Nat \ {0}
    BY CharCounts, FieldCounts
  <2>2. 0 % 2 ^ CharBits = 0 /\ 0 < 2 ^ (CharBits - 1)
    BY <2>1
  <2>3. 0 \in Words
    BY <2>1 DEF Words
  <2> QED
    BY <2>2, <2>3 DEF StringEnd, WordToChar, CharToWord
<1>10. PICK e \in Words : e = StringEnd
  BY <1>9
<1>11. PICK all : all = Append(words, e)
  OBVIOUS
<1>12. /\ all \in Seq(Words) /\ Len(all) = Len(v) /\ all[Len(v)] = e
       /\ \A i \in 1 .. Len(v) - 1 : all[i] = words[i]
  BY <1>1, <1>2, <1>8, <1>11
<1>13. ASSUME NEW i \in DOMAIN v
       PROVE  all[i] = CharToWord(WordToChar(v[i]), WordCount)
  <2>1. CASE i = Len(v)
    BY <1>1, <1>9, <1>10, <1>12, <2>1
  <2>2. CASE i # Len(v)
    <3>1. i \in 1 .. Len(v) - 1 /\ i \in DOMAIN s
      BY <1>1, <1>2, <2>2
    <3> QED
      BY <1>2, <1>8, <1>12, <3>1
  <2> QED
    BY <2>1, <2>2
<1>14. ValueWords(line) = all
  BY <1>7, <1>8, <1>10, <1>11
<1>15. ReadsBack(StringType, v, line)
  BY <1>6, <1>12, <1>13, <1>14, <1>t DEF ReadsBack
<1> QED
  BY <1>15 DEF line

\* Every constant the disassembler writes is read back.
LEMMA ConstantReadsBack ==
    ASSUME NEW t, NEW v, IsValue(t, v), NEW label
    PROVE  ReadsBack(t, v, ConstantAs(label, t, v))
<1>1. t \in {Uint32Type, Uint64Type, DoubleType, CharType, StringType}
  BY DEF IsValue, Types, Uint32Type, Uint64Type, DoubleType, CharType, StringType
<1> QED
  BY <1>1, WordReadsBack, TwoWordsReadBack, CharReadsBack, StringReadsBack, Zenon

-----------------------------------------------------------------------------
(***************************************************************************)
(* What a line of a listing says, and that the compiler accepts it.        *)
(***************************************************************************)
\* the type and the words of constant i, if s says where the constants end
TypeAt(s, i) == data.constants[s[i - 1] + 1]
\* the words of the value
ValueAt(s, i) == SubSeq(data.constants, s[i - 1] + 2, s[i])

\* Line i of a listing is constant i.
LEMMA RelistedConstant ==
    ASSUME NEW k \in Nat, NEW s \in [0 .. k -> Nat], NEW c \in Nat,
           NEW q \in [0 .. c -> Nat], NEW n \in Nat, Relists(k, s, c, q, n),
           NEW i \in 1 .. k
    PROVE  /\ s[i - 1] \in Nat /\ s[i] \in Nat /\ s[i - 1] + 1 < s[i] /\ s[i] <= s[k]
           /\ s[i - 1] \in 0 .. s[k] - 1
           /\ IsValue(TypeAt(s, i), ValueAt(s, i))
           /\ Len(ValueAt(s, i)) = s[i] - s[i - 1] - 1
           /\ \A j \in 1 .. s[i] - s[i - 1] - 1 :
                 ValueAt(s, i)[j] = data.constants[s[i - 1] + 1 + j]
           /\ text[i] = ConstantAs(Numbered("constant", i), TypeAt(s, i), ValueAt(s, i))
           /\ text[i].type = TypeAt(s, i)
           /\ ReadsBack(TypeAt(s, i), ValueAt(s, i), text[i])
<1>1. /\ data \in Data /\ s[k] = Len(data.constants)
      /\ ConstantsListed(data, constantLabels, text, k, s)
  BY DEF Relists
<1>2. PICK w \in Seq(Words), m \in Nat : w = data.constants /\ m = Len(w)
  BY <1>1, SegmentSizes DEF Data
<1>3. /\ \A x, y \in 0 .. k : x < y => s[x] < s[y]
      /\ IsConstant(w, s[i - 1] + 1, s[i])
      /\ text[i] = ConstantAs(Numbered("constant", i), w[s[i - 1] + 1],
                              SubSeq(w, s[i - 1] + 2, s[i]))
  BY <1>1, <1>2, Zenon DEF ConstantsListed
<1>4. i - 1 \in 0 .. k /\ i \in 0 .. k /\ k \in 0 .. k /\ i <= k /\ i - 1 < i
  OBVIOUS
<1>5. PICK a \in Nat, b \in Nat : a = s[i - 1] /\ b = s[i]
  BY <1>4
<1>6. b <= s[k] /\ s[k] = m
  <2>1. s[k] = m
    BY <1>1, <1>2
  <2>2. i = k \/ s[i] < s[k]
    BY <1>3, <1>4
  <2> QED
    BY <1>5, <2>1, <2>2
<1>7. PICK t : t = w[a + 1]
  OBVIOUS
<1>8. /\ a + 1 < b /\ b <= m /\ t \in Types
      /\ t \in {Uint32Type, CharType} => b = a + 1 + 1
      /\ t \in {Uint64Type, DoubleType} => b = a + 1 + 2
      /\ t = StringType => w[b] = StringEnd
  BY <1>2, <1>3, <1>5, <1>7 DEF IsConstant
<1>9. PICK v : v = SubSeq(w, a + 2, b)
  OBVIOUS
<1>10. /\ v \in Seq(Words) /\ Len(v) = b - a - 1
       /\ \A j \in 1 .. b - a - 1 : v[j] = w[a + 1 + j]
  <2>1. /\ a + 2 \in Nat \ {0} /\ b <= Len(w)
    BY <1>2, <1>8
  <2>2. v \in Seq(Words)
    BY <1>9, <2>1, PartType
  <2>3. Len(v) = b - a - 1
    BY <1>2, <1>8, <1>9
  <2>4. \A j \in 1 .. b - a - 1 : v[j] = w[a + 1 + j]
    BY <1>2, <1>8, <1>9
  <2> QED
    BY <2>2, <2>3, <2>4
<1>11. v[Len(v)] = w[b]
  <2>1. b - a - 1 \in 1 .. b - a - 1 /\ a + 1 + (b - a - 1) = b
    BY <1>8
  <2> QED
    BY <1>10, <2>1
<1>12. IsValue(t, v)
  BY <1>8, <1>10, <1>11 DEF IsValue
<1>13. TypeAt(s, i) = t /\ ValueAt(s, i) = v
  BY <1>2, <1>5, <1>7, <1>9, Zenon DEF TypeAt, ValueAt
<1>14. text[i] = ConstantAs(Numbered("constant", i), t, v)
  BY <1>3, <1>5, <1>7, <1>9, Zenon
<1>15. ReadsBack(t, v, text[i])
  BY <1>12, <1>14, ConstantReadsBack, Zenon
<1>16. text[i].type = t
  BY <1>8, <1>14, LineFields
<1>17. /\ s[i - 1] \in Nat /\ s[i] \in Nat /\ s[i - 1] + 1 < s[i] /\ s[i] <= s[k]
       /\ s[i - 1] \in 0 .. s[k] - 1
  BY <1>5, <1>6, <1>8, SMTT(20)
<1>18. /\ IsValue(TypeAt(s, i), ValueAt(s, i))
       /\ text[i] = ConstantAs(Numbered("constant", i), TypeAt(s, i), ValueAt(s, i))
       /\ text[i].type = TypeAt(s, i)
       /\ ReadsBack(TypeAt(s, i), ValueAt(s, i), text[i])
  BY <1>12, <1>13, <1>14, <1>15, <1>16, Zenon
<1>19. /\ Len(ValueAt(s, i)) = s[i] - s[i - 1] - 1
       /\ \A j \in 1 .. s[i] - s[i - 1] - 1 :
             ValueAt(s, i)[j] = data.constants[s[i - 1] + 1 + j]
  BY <1>2, <1>5, <1>10, <1>13
<1> QED
  BY <1>17, <1>18, <1>19, Zenon

\* The lines of a listing are right, but for doubles that cannot be read.
LEMMA RelistedCommand ==
    ASSUME NEW w \in Words, Known(w), NEW label
    PROVE  /\ LineIsValid(CommandBy(w, label))
           /\ CommandBy(w, label).code = Meaning(w).code
           /\ CommandBy(w, label).reg = Meaning(w).reg
           /\ CommandBy(w, label).src = Meaning(w).src
           /\ IF Meaning(w).code \in UsesAddress \ IgnoresAddress /\ label # NoLabel
              THEN CommandBy(w, label).use = label
              ELSE /\ CommandBy(w, label).use = NoLabel
                   /\ CommandBy(w, label).num = Meaning(w).arg
<1> DEFINE c == Meaning(w)
           named == c.code \in UsesAddress \ IgnoresAddress /\ label # NoLabel
           IsOf(line) == /\ LineIsValid(line) /\ line.code = c.code
                         /\ line.reg = c.reg /\ line.src = c.src
                         /\ IF named THEN line.use = label
                            ELSE line.use = NoLabel /\ line.num = c.arg
<1>1. /\ c \in Operands /\ OperandFits(c.code, c.arg)
      /\ c.code \in IgnoresAddress => c.arg = 0
  BY MeaningType, Zenon
<1>2. /\ named => CommandBy(w, label) = CommandLine([c EXCEPT !.arg = 0], label)
      /\ ~named => CommandBy(w, label) = CommandLine(c, NoLabel)
  BY Zenon DEF CommandBy
<1> HIDE DEF c
<1>3. \A use : \A x \in Operands :
         /\ CommandLine(x, use).item = "command" /\ CommandLine(x, use).code = x.code
         /\ CommandLine(x, use).reg = x.reg /\ CommandLine(x, use).src = x.src
         /\ CommandLine(x, use).num = x.arg /\ CommandLine(x, use).use = use
  BY DEF CommandLine, Blank
<1>4. ASSUME named PROVE IsOf(CommandBy(w, label))
  <2>1. PICK x \in Operands : /\ x = [c EXCEPT !.arg = 0]
                              /\ x.code = c.code /\ x.reg = c.reg /\ x.src = c.src
    <3>1. [c EXCEPT !.arg = 0] \in Operands
      BY <1>1 DEF Operands
    <3> QED
      BY <1>1, <3>1 DEF Operands
  <2>2. PICK line : line = CommandLine(x, label)
    OBVIOUS
  <2>3. /\ line.item = "command" /\ line.code = c.code /\ line.use = label
        /\ line.reg = c.reg /\ line.src = c.src
    BY <1>3, <2>1, <2>2
  <2>4. CommandIsValid(line)
    BY <1>4, <2>3 DEF CommandIsValid
  <2>5. LineIsValid(line)
    BY <2>3, <2>4 DEF LineIsValid
  <2> QED
    BY <1>2, <1>4, <2>1, <2>2, <2>3, <2>5
<1>5. ASSUME ~named PROVE IsOf(CommandBy(w, label))
  <2>1. PICK line : line = CommandLine(c, NoLabel)
    OBVIOUS
  <2>2. /\ line.item = "command" /\ line.code = c.code /\ line.use = NoLabel
        /\ line.reg = c.reg /\ line.src = c.src /\ line.num = c.arg
    BY <1>1, <1>3, <2>1
  <2>3. CommandIsValid(line)
    <3>1. PICK f : f = Format[line.code]
      OBVIOUS
    <3>2. CASE f = "RR"
      BY <1>1, <2>2, <3>1, <3>2 DEF CommandIsValid, OperandFits
    <3>3. CASE f = "RI"
      BY <1>1, <2>2, <3>1, <3>3 DEF CommandIsValid, OperandFits
    <3>4. CASE f # "RR" /\ f # "RI"
      <4>1. c.arg \in 0 .. MemorySize - 1
        BY <1>1, <2>2, <3>1, <3>4 DEF OperandFits
      <4>2. AddressFits(c.arg)
        BY <4>1, FieldCounts DEF AddressFits
      <4> QED
        BY <2>2, <3>1, <3>4, <4>2 DEF CommandIsValid
    <3> QED
      BY <3>2, <3>3, <3>4
  <2>4. LineIsValid(line)
    BY <2>2, <2>3 DEF LineIsValid
  <2> QED
    BY <1>2, <1>5, <2>1, <2>2, <2>4
<1>6. IsOf(CommandBy(w, label))
  BY <1>4, <1>5, Zenon
<1> QED
  BY <1>6 DEF c

\* no line is an error to the compiler
AllLinesValid == \A m \in DOMAIN text : LineIsValid(text[m])

\* The lines of a listing are right, but for a double that cannot be read.
LEMMA RelistedValid ==
    ASSUME NEW k \in Nat, NEW s \in [0 .. k -> Nat], NEW c \in Nat,
           NEW q \in [0 .. c -> Nat], NEW n \in Nat, Relists(k, s, c, q, n),
           ~HasDouble(text, Unreadable)
    PROVE  AllLinesValid
<1>0. RelistedIn(k, c, q, n)
  BY RelistedLines
<1>1. /\ DOMAIN text = 1 .. n /\ k < n
      /\ \A i \in 1 .. k : text[i].item = "constant"
      /\ \A i \in 1 .. c : text[q[i]] = CommandBy(data.code[i],
                                           LabelOf(Meaning(data.code[i]).arg))
      /\ \A i \in 1 .. c : LabelOf(i - 1) # NoLabel =>
            text[q[i] - 1] = LoneLabel(LabelOf(i - 1))
      /\ text[n] = EndMain
      /\ \A m \in k + 1 .. n - 1 :
            \/ \E i \in 1 .. c : m = q[i]
            \/ \E i \in 1 .. c : m = q[i] - 1 /\ LabelOf(i - 1) # NoLabel
  BY <1>0 DEF RelistedIn
<1>2. /\ data \in Data /\ c = Len(data.code)
      /\ \A w \in ToSet(data.code) : Known(w)
  BY DEF Relists
<1>3. \A i \in 1 .. c : data.code[i] \in Words /\ Known(data.code[i])
  BY <1>2 DEF Data, ToSet
<1>4. ASSUME NEW i \in 1 .. k PROVE LineIsValid(text[i])
  <2>1. /\ text[i].type = TypeAt(s, i)
        /\ ReadsBack(TypeAt(s, i), ValueAt(s, i), text[i])
    BY RelistedConstant
  <2>2. i \in DOMAIN text
    BY <1>1
  <2>3. text[i].type = DoubleType => text[i].num \notin Unreadable
    BY <2>2 DEF HasDouble
  <2>4. ConstantIsValid(text[i])
    BY <2>1, <2>3 DEF ReadsBack
  <2> QED
    BY <1>1, <2>4 DEF LineIsValid
<1>5. \A i \in 1 .. c : LineIsValid(text[q[i]])
  BY <1>1, <1>3, RelistedCommand
<1>6. \A i \in 1 .. c : LabelOf(i - 1) # NoLabel => LineIsValid(text[q[i] - 1])
  <2>1. \A label : LineIsValid(LoneLabel(label))
    <3> TAKE label
    <3>1. PICK line : line = LoneLabel(label) /\ line.item = "none"
      BY LineFields
    <3>2. LineIsValid(line)
      BY <3>1 DEF LineIsValid
    <3> QED
      BY <3>1, <3>2
  <2> QED
    BY <1>1, <2>1
<1>7. LineIsValid(text[n])
  <2>1. PICK line : line = EndMain /\ line.item = "end" /\ line.use = MainLabel
    BY LineFields
  <2>2. MainLabel # NoLabel
    BY LinesAssumption, LabelNamesAssumption
  <2>3. LineIsValid(line)
    BY <2>1, <2>2 DEF LineIsValid
  <2> QED
    BY <1>1, <2>1, <2>3
<1>8. ASSUME NEW m \in 1 .. n PROVE LineIsValid(text[m])
  <2>1. m \in 1 .. k \/ m \in k + 1 .. n - 1 \/ m = n
    BY <1>1
  <2>2. CASE m \in k + 1 .. n - 1
    BY <1>1, <1>5, <1>6, <2>2
  <2> QED
    BY <1>4, <1>7, <2>1, <2>2
<1> QED
  BY <1>1, <1>8 DEF AllLinesValid

\* Where the assembler finds the items of a listing.
RelistedAt(k, c, q, n) ==
    /\ Assembled!Places("command") = [i \in 1 .. c |-> <<Main, q[i]>>]
    /\ Assembled!Places("constant") = [i \in 1 .. k |-> <<Main, i>>]
    /\ Assembled!Places("end") = [i \in 1 .. 1 |-> <<Main, n>>]
    /\ Assembled!Places("bad") = [i \in 1 .. 0 |-> <<Main, i>>]

\* The assembler finds the items of a listing on these lines.
LEMMA RelistedPlacesAre ==
    ASSUME NEW k \in Nat, NEW s \in [0 .. k -> Nat], NEW c \in Nat,
           NEW q \in [0 .. c -> Nat], NEW n \in Nat, Relists(k, s, c, q, n),
           AllLinesValid
    PROVE  RelistedAt(k, c, q, n)
<1> DEFINE lines == SourceOf(text)[Main].lines
<1>0. RelistedIn(k, c, q, n)
  BY RelistedLines
<1>1. /\ DOMAIN text = 1 .. n /\ k < n
      /\ \A i \in 1 .. k : text[i].item = "constant" /\ i < n
      /\ \A i \in 1 .. c : /\ q[i] \in k + 1 .. n - 1
                           /\ text[q[i]].item = "command"
      /\ \A i, j \in 1 .. c : i < j => q[i] < q[j]
      /\ \A i \in 1 .. c : LabelOf(i - 1) # NoLabel =>
            text[q[i] - 1] = LoneLabel(LabelOf(i - 1))
      /\ text[n] = EndMain
      /\ \A m \in k + 1 .. n - 1 :
            \/ \E i \in 1 .. c : m = q[i]
            \/ \E i \in 1 .. c : m = q[i] - 1 /\ LabelOf(i - 1) # NoLabel
  BY <1>0 DEF RelistedIn
<1>2. /\ Len(lines) = n /\ \A m \in 1 .. n : lines[m].item = text[m].item
  <2>1. lines = [m \in DOMAIN text |-> Parsed(text[m])]
    BY DEF SourceOf
  <2>2. \A m \in 1 .. n : LineIsValid(text[m])
    BY <1>1 DEF AllLinesValid
  <2>3. \A m \in 1 .. n : Parsed(text[m]).item = text[m].item
    BY <2>2, ParsedLine
  <2> HIDE DEF lines
  <2> QED
    BY <1>1, <2>1, <2>3
<1>3. \A kind : Assembled!Places(kind) = MainPlaces(lines, kind)[n]
  BY <1>2, AssembledPlaces, Zenon
<1> HIDE DEF lines
<1>4. \A m \in k + 1 .. n - 1 :
         \/ text[m].item = "command" /\ \E i \in 1 .. c : q[i] = m
         \/ text[m].item = "none" /\ ~\E i \in 1 .. c : q[i] = m
  <2> TAKE m \in k + 1 .. n - 1
  <2>1. CASE \E i \in 1 .. c : m = q[i]
    BY <1>1, <2>1
  <2>2. CASE ~\E i \in 1 .. c : m = q[i]
    <3>1. PICK i \in 1 .. c : m = q[i] - 1 /\ LabelOf(i - 1) # NoLabel
      BY <1>1, <2>2
    <3>2. text[m] = LoneLabel(LabelOf(i - 1))
      BY <1>1, <3>1
    <3>3. text[m].item = "none"
      BY <3>2, LineFields
    <3> QED
      BY <2>2, <3>3
  <2> QED
    BY <2>1, <2>2
<1>5. text[n].item = "end" /\ n \in 1 .. n
  BY <1>1, LineFields
<1>6. \A m \in 1 .. n : m \in 1 .. k \/ m \in k + 1 .. n - 1 \/ m = n
  BY <1>1
<1>7. Assembled!Places("command") = [i \in 1 .. c |-> <<Main, q[i]>>]
  <2> DEFINE r == [i \in 1 .. c |-> q[i]]
  <2>1. r \in [1 .. c -> 1 .. n]
    BY <1>1
  <2>2. \A i, j \in 1 .. c : i < j => r[i] < r[j]
    BY <1>1
  <2>3. \A m \in 1 .. n : lines[m].item = "command" <=> \E i \in 1 .. c : r[i] = m
    <3> TAKE m \in 1 .. n
    <3>1. lines[m].item = text[m].item
      BY <1>2
    <3>2. (\E i \in 1 .. c : r[i] = m) <=> \E i \in 1 .. c : q[i] = m
      OBVIOUS
    <3>3. CASE m \in 1 .. k
      BY <1>1, <3>1, <3>2, <3>3
    <3>4. CASE m \in k + 1 .. n - 1
      BY <1>4, <3>1, <3>2, <3>4
    <3>5. CASE m = n
      BY <1>1, <1>5, <3>1, <3>2, <3>5
    <3> QED
      BY <1>6, <3>3, <3>4, <3>5
  <2>4. [i \in 1 .. c |-> <<Main, r[i]>>] = [i \in 1 .. c |-> <<Main, q[i]>>]
    OBVIOUS
  <2> HIDE DEF r
  <2>5. AreLinesOf(lines, "command", c, r)
    BY <1>2, <2>1, <2>2, <2>3, Zenon DEF AreLinesOf
  <2>6. MainPlaces(lines, "command")[n] = PlacesFrom(c, r)
    <3>1. n \in Nat /\ n = Len(lines)
      BY <1>1, <1>2
    <3>2. c \in Nat
      OBVIOUS
    <3> QED
      BY <2>5, <3>1, <3>2, PlacesAre
  <2> QED
    BY <1>3, <2>4, <2>6, Zenon DEF PlacesFrom
<1>8. Assembled!Places("constant") = [i \in 1 .. k |-> <<Main, i>>]
  <2> DEFINE r == [i \in 1 .. k |-> i]
  <2>1. r \in [1 .. k -> 1 .. n]
    BY <1>1
  <2>2. \A i, j \in 1 .. k : i < j => r[i] < r[j]
    OBVIOUS
  <2>3. \A m \in 1 .. n : lines[m].item = "constant" <=> \E i \in 1 .. k : r[i] = m
    <3> TAKE m \in 1 .. n
    <3>1. lines[m].item = text[m].item
      BY <1>2
    <3>2. (\E i \in 1 .. k : r[i] = m) <=> m \in 1 .. k
      OBVIOUS
    <3>3. CASE m \in 1 .. k
      BY <1>1, <3>1, <3>2, <3>3
    <3>4. CASE m \in k + 1 .. n - 1
      BY <1>4, <3>1, <3>2, <3>4
    <3>5. CASE m = n
      BY <1>1, <1>5, <3>1, <3>2, <3>5
    <3> QED
      BY <1>6, <3>3, <3>4, <3>5
  <2>4. [i \in 1 .. k |-> <<Main, r[i]>>] = [i \in 1 .. k |-> <<Main, i>>]
    OBVIOUS
  <2> HIDE DEF r
  <2>5. AreLinesOf(lines, "constant", k, r)
    BY <1>2, <2>1, <2>2, <2>3, Zenon DEF AreLinesOf
  <2>6. MainPlaces(lines, "constant")[n] = PlacesFrom(k, r)
    <3>1. n \in Nat /\ n = Len(lines)
      BY <1>1, <1>2
    <3>2. k \in Nat
      OBVIOUS
    <3> QED
      BY <2>5, <3>1, <3>2, PlacesAre
  <2> QED
    BY <1>3, <2>4, <2>6, Zenon DEF PlacesFrom
<1>9. Assembled!Places("end") = [i \in 1 .. 1 |-> <<Main, n>>]
  <2> DEFINE r == [i \in 1 .. 1 |-> n]
  <2>1. r \in [1 .. 1 -> 1 .. n] /\ 1 \in Nat
    BY <1>1
  <2>2. \A i, j \in 1 .. 1 : i < j => r[i] < r[j]
    OBVIOUS
  <2>3. \A m \in 1 .. n : lines[m].item = "end" <=> \E i \in 1 .. 1 : r[i] = m
    <3> TAKE m \in 1 .. n
    <3>1. lines[m].item = text[m].item
      BY <1>2
    <3>2. (\E i \in 1 .. 1 : r[i] = m) <=> m = n
      OBVIOUS
    <3>3. CASE m \in 1 .. k
      BY <1>1, <3>1, <3>2, <3>3
    <3>4. CASE m \in k + 1 .. n - 1
      <4>1. text[m].item \in {"command", "none"} /\ m # n
        BY <1>4, <3>4
      <4> QED
        BY <3>1, <3>2, <4>1
    <3>5. CASE m = n
      BY <1>1, <1>5, <3>1, <3>2, <3>5
    <3> QED
      BY <1>6, <3>3, <3>4, <3>5
  <2>4. [i \in 1 .. 1 |-> <<Main, r[i]>>] = [i \in 1 .. 1 |-> <<Main, n>>]
    OBVIOUS
  <2> HIDE DEF r
  <2>5. AreLinesOf(lines, "end", 1, r)
    BY <1>2, <2>1, <2>2, <2>3, Zenon DEF AreLinesOf
  <2>6. MainPlaces(lines, "end")[n] = PlacesFrom(1, r)
    <3>1. n \in Nat /\ n = Len(lines)
      BY <1>1, <1>2
    <3>2. 1 \in Nat
      OBVIOUS
    <3> QED
      BY <2>5, <3>1, <3>2, PlacesAre
  <2> QED
    BY <1>3, <2>4, <2>6, Zenon DEF PlacesFrom
<1>10. Assembled!Places("bad") = [i \in 1 .. 0 |-> <<Main, i>>]
  <2> DEFINE r == [i \in 1 .. 0 |-> i]
  <2>1. r \in [1 .. 0 -> 1 .. n] /\ 0 \in Nat
    OBVIOUS
  <2>2. \A i, j \in 1 .. 0 : i < j => r[i] < r[j]
    OBVIOUS
  <2>3. \A m \in 1 .. n : lines[m].item = "bad" <=> \E i \in 1 .. 0 : r[i] = m
    <3> TAKE m \in 1 .. n
    <3>1. lines[m].item = text[m].item
      BY <1>2
    <3>2. ~\E i \in 1 .. 0 : r[i] = m
      OBVIOUS
    <3>3. text[m].item \in {"constant", "command", "none", "end"}
      BY <1>1, <1>4, <1>5, <1>6
    <3> QED
      BY <3>1, <3>2, <3>3
  <2>4. [i \in 1 .. 0 |-> <<Main, r[i]>>] = [i \in 1 .. 0 |-> <<Main, i>>]
    OBVIOUS
  <2> HIDE DEF r
  <2>5. AreLinesOf(lines, "bad", 0, r)
    BY <1>2, <2>1, <2>2, <2>3, Zenon DEF AreLinesOf
  <2>6. MainPlaces(lines, "bad")[n] = PlacesFrom(0, r)
    <3>1. n \in Nat /\ n = Len(lines)
      BY <1>1, <1>2
    <3>2. 0 \in Nat
      OBVIOUS
    <3> QED
      BY <2>5, <3>1, <3>2, PlacesAre
  <2> QED
    BY <1>3, <2>4, <2>6, Zenon DEF PlacesFrom
<1> QED
  BY <1>7, <1>8, <1>9, <1>10 DEF RelistedAt

-----------------------------------------------------------------------------
(***************************************************************************)
(* No two labels of a listing are the same.                                *)
(***************************************************************************)
\* No two commands have the same label, and only the entrypoint is main.
LEMMA CommandLabelsDiffer ==
    ASSUME data \in Data
    PROVE  /\ data.entrypoint \in DOMAIN CommandLabels
           /\ \A a \in DOMAIN CommandLabels :
                 /\ a = data.entrypoint \/ a \in 0 .. Len(data.code) - 1
                 /\ \E m : CommandLabels[a] = Numbered("main", m)
                           \/ CommandLabels[a] = Numbered("command", m)
                 /\ CommandLabels[a] = MainLabel <=> a = data.entrypoint
           /\ \A a, b \in DOMAIN CommandLabels :
                 CommandLabels[a] = CommandLabels[b] => a = b
           /\ DOMAIN CommandLabels = Referenced \cup {data.entrypoint}
<1> DEFINE addresses == Referenced \ {data.entrypoint}
           upTo(a) == {b \in addresses : b <= a}
           number(a) == Cardinality(upTo(a))
           labels == CommandLabels
<1>1. PICK e \in Nat, n \in Nat : e = data.entrypoint /\ n = Len(data.code)
  <2>1. data.entrypoint \in Nat
    BY FieldCounts DEF Data, Words
  <2> QED
    BY <2>1, SegmentSizes
<1>2. addresses \in SUBSET (0 .. n - 1) /\ e \notin addresses
      /\ addresses \cup {e} = Referenced \cup {e}
  BY <1>1 DEF Referenced
<1>3. labels = [a \in addresses \cup {e} |->
                   IF a = e THEN MainLabel ELSE Numbered("command", number(a))]
  BY <1>1, Zenon DEF CommandLabels
<1> HIDE DEF addresses, labels
<1>4. \A a, b \in addresses : number(a) = number(b) => a = b
  <2>1. ASSUME NEW a \in addresses, NEW b \in addresses, a <= b, number(a) = number(b)
        PROVE  a = b
    <3>1. PICK from, to \in Int : from = 0 /\ to = n - 1
      OBVIOUS
    <3>2. a \in Int /\ b \in Int /\ \A x \in addresses : x \in Int
      BY <1>2
    <3>3. upTo(b) \in SUBSET (from .. to) /\ upTo(a) \in SUBSET upTo(b) /\ b \in upTo(b)
      <4>1. \A x \in addresses : x <= a => x <= b
        BY <2>1, <3>2
      <4>2. b <= b
        BY <3>2
      <4>3. upTo(a) \in SUBSET upTo(b) /\ b \in upTo(b)
        BY <4>1, <4>2
      <4>4. addresses \in SUBSET (from .. to)
        BY <1>2, <3>1
      <4>5. upTo(b) \in SUBSET (from .. to)
        BY <4>4
      <4> QED
        BY <4>3, <4>5
    <3> DEFINE S == upTo(b)
               T == upTo(a)
    <3>4. IsFiniteSet(S)
      <4>1. to = from + n - 1 /\ S \in SUBSET (from .. to)
        BY <3>1, <3>3
      <4> HIDE DEF S
      <4> QED
        BY <4>1, SizeOfPart
    <3>5. Cardinality(S) = Cardinality(T) /\ T \in SUBSET S /\ b \in S
      BY <2>1, <3>3
    <3>6. S = T
      <4> HIDE DEF S, T
      <4> QED
        BY <3>4, <3>5, FS_Subset
    <3>7. b \in T
      BY <3>5, <3>6
    <3>8. b <= a
      BY <3>7
    <3> QED
      BY <2>1, <3>2, <3>8
  <2>2. \A a, b \in addresses : a <= b \/ b <= a
    BY <1>2
  <2> HIDE DEF number
  <2> QED
    BY <2>1, <2>2
<1> HIDE DEF number
<1>5. \A m : Numbered("command", m) # MainLabel
  <2>1. "command" # "main"
    OBVIOUS
  <2> QED
    BY <2>1 DEF Numbered, MainLabel
<1>6. \A x, y : Numbered("command", x) = Numbered("command", y) => x = y
  BY DEF Numbered
<1>7. DOMAIN labels = addresses \cup {e}
  BY <1>3
<1>8. labels[e] = MainLabel /\ \A a \in addresses : a # e /\ labels[a] = Numbered("command", number(a))
  BY <1>2, <1>3
<1>9. MainLabel = Numbered("main", 0)
  BY DEF MainLabel
<1>10. ASSUME NEW a \in DOMAIN labels
       PROVE  /\ a = e \/ a \in 0 .. n - 1
              /\ \E m : labels[a] = Numbered("main", m) \/ labels[a] = Numbered("command", m)
              /\ labels[a] = MainLabel <=> a = e
  BY <1>2, <1>5, <1>7, <1>8, <1>9
<1>11. ASSUME NEW a \in DOMAIN labels, NEW b \in DOMAIN labels, labels[a] = labels[b]
       PROVE  a = b
  <2>1. CASE a = e \/ b = e
    BY <1>5, <1>7, <1>8, <1>11, <2>1
  <2>2. CASE a \in addresses /\ b \in addresses
    BY <1>4, <1>6, <1>8, <1>11, <2>2
  <2> QED
    BY <1>7, <2>1, <2>2
<1>12. e \in DOMAIN labels /\ DOMAIN labels = Referenced \cup {e}
  BY <1>2, <1>7
<1> QED
  BY <1>1, <1>10, <1>11, <1>12 DEF labels

\* The labels of a listing are different from each other, and each is of a
\* command, or of a constant: none of something else if main is in the code.
CommandLabelsTell(k, c) ==
    /\ \A a \in 0 .. c - 1 : /\ LabelOf(a) \in MaybeLabel
                             /\ LabelOf(a) = MainLabel <=> a = data.entrypoint
                             /\ \A i \in 1 .. k : LabelOf(a) # Numbered("constant", i)
    /\ \A a, b \in 0 .. c - 1 : LabelOf(a) = LabelOf(b) /\ LabelOf(a) # NoLabel => a = b

\* the labels of constants are told apart, and stand for their values
ConstantLabelsTell(k, s, c) ==
    /\ \A i \in 1 .. k : /\ LabelOf(c + s[i - 1] + 1) = Numbered("constant", i)
                         /\ Numbered("constant", i) \in Labels
    /\ \A i : Numbered("constant", i) # MainLabel
    /\ \A i, j : Numbered("constant", i) = Numbered("constant", j) => i = j

\* a command, or the value of a constant, is at the address
IsItem(k, s, c, a) == a \in 0 .. c - 1 \/ \E i \in 1 .. k : a = c + s[i - 1] + 1
\* every label of a listing stands for one item
LabelsTell(k, s, c) ==
    /\ CommandLabelsTell(k, c) /\ ConstantLabelsTell(k, s, c)
    /\ data.entrypoint \in 0 .. c - 1 =>
          \A a : LabelOf(a) # NoLabel => IsItem(k, s, c, a)

\* The labels of the disassembler tell the items of the program apart.
LEMMA RelistedLabels ==
    ASSUME NEW k \in Nat, NEW s \in [0 .. k -> Nat], NEW c \in Nat,
           NEW q \in [0 .. c -> Nat], NEW n \in Nat, Relists(k, s, c, q, n)
    PROVE  LabelsTell(k, s, c)
<1>1. /\ data \in Data /\ FitsMemory(data)
      /\ commandLabels = CommandLabels
      /\ c = Len(data.code) /\ s[k] = Len(data.constants)
      /\ ConstantsListed(data, constantLabels, text, k, s)
  BY DEF Relists
<1>2. /\ DOMAIN constantLabels = {c + s[i - 1] + 1 : i \in 1 .. k}
      /\ \A i \in 1 .. k : constantLabels[c + s[i - 1] + 1] = Numbered("constant", i)
  BY <1>1, Zenon DEF ConstantsListed
<1>3. PICK e, commands : /\ e = data.entrypoint /\ commands = CommandLabels
                         /\ commandLabels = commands
  BY <1>1
<1>4. /\ e \in DOMAIN commands
      /\ \A a \in DOMAIN commands :
            /\ a = e \/ a \in 0 .. c - 1
            /\ \E m : commands[a] = Numbered("main", m)
                      \/ commands[a] = Numbered("command", m)
            /\ commands[a] = MainLabel <=> a = e
      /\ \A a, b \in DOMAIN commands : commands[a] = commands[b] => a = b
  BY <1>1, <1>3, CommandLabelsDiffer
<1>5. \A a \in DOMAIN commands : commands[a] \in Labels
  BY <1>1, <1>3, CommandLabelled DEF LabelsAreTyped, Range
<1>6. \A a : LabelOf(a) = IF a \in DOMAIN constantLabels THEN constantLabels[a]
                          ELSE IF a \in DOMAIN commands THEN commands[a]
                          ELSE NoLabel
  BY <1>3, Zenon DEF LabelOf, LabelBy
<1>7. \A i \in 1 .. k : s[i - 1] \in Nat /\ s[i - 1] \in 0 .. s[k] - 1
  BY RelistedConstant
<1>8. \A a \in 0 .. c - 1 : a \notin DOMAIN constantLabels
  <2> SUFFICES ASSUME NEW a \in 0 .. c - 1, NEW i \in 1 .. k, a = c + s[i - 1] + 1
               PROVE  FALSE
    BY <1>2
  <2> QED
    BY <1>7, SMTT(20)
<1>9. /\ \A i, j : Numbered("constant", i) = Numbered("constant", j) => i = j
      /\ \A i, m : /\ Numbered("constant", i) # Numbered("main", m)
                   /\ Numbered("constant", i) # Numbered("command", m)
      /\ \A i : Numbered("constant", i) # MainLabel
      /\ MainLabel \in Labels /\ NoLabel \notin Labels
  <2>1. "constant" # "main" /\ "constant" # "command"
    OBVIOUS
  <2> QED
    BY <2>1, LabelNamesAssumption, LinesAssumption DEF Numbered, MainLabel
<1>10. \A i \in 1 .. k : Numbered("constant", i) \in Labels
  <2>1. k <= MemorySize
    <3>1. \A i \in 0 .. k : s[i] >= i
      <4> DEFINE S == {i \in 0 .. k : s[i] >= i}
      <4>1. 0 \in S
        OBVIOUS
      <4>2. \A i \in 1 .. k : i - 1 \in S => i \in S
        <5> TAKE i \in 1 .. k
        <5>1. s[i - 1] \in Nat /\ s[i] \in Nat /\ s[i - 1] + 1 < s[i]
          BY RelistedConstant
        <5> QED
          BY <5>1
      <4> HIDE DEF S
      <4>3. 0 .. k \subseteq S
        BY <4>1, <4>2, UpTo, Zenon
      <4> QED
        BY <4>3 DEF S
    <3>2. PICK m \in Nat : m = Len(data.constants)
      BY <1>1, SegmentSizes
    <3>3. c + m <= MemorySize /\ MemorySize \in Nat
      BY <1>1, <3>2, FieldCounts DEF FitsMemory
    <3>4. k <= m
      <4>1. k \in 0 .. k
        OBVIOUS
      <4> QED
        BY <1>1, <3>1, <3>2, <4>1
    <3> QED
      BY <3>3, <3>4
  <2>2. 1 .. k \subseteq 1 .. MemorySize
    BY <2>1, FieldCounts
  <2> QED
    BY <2>2, LabelNamesAssumption
<1>11. ASSUME NEW a \in 0 .. c - 1
       PROVE  /\ LabelOf(a) = IF a \in DOMAIN commands THEN commands[a] ELSE NoLabel
              /\ LabelOf(a) \in MaybeLabel
              /\ LabelOf(a) = MainLabel <=> a = e
              /\ \A i : LabelOf(a) # Numbered("constant", i) \/ LabelOf(a) = NoLabel
  <2>1. LabelOf(a) = IF a \in DOMAIN commands THEN commands[a] ELSE NoLabel
    BY <1>6, <1>8
  <2>2. CASE a \in DOMAIN commands
    BY <1>4, <1>5, <1>9, <2>1, <2>2 DEF MaybeLabel
  <2>3. CASE a \notin DOMAIN commands
    BY <1>4, <1>9, <2>1, <2>3 DEF MaybeLabel
  <2> QED
    BY <2>1, <2>2, <2>3
<1>12. ASSUME NEW a \in 0 .. c - 1, NEW b \in 0 .. c - 1, LabelOf(a) = LabelOf(b),
              LabelOf(a) # NoLabel
       PROVE  a = b
  BY <1>4, <1>11, <1>12
<1>13. ASSUME NEW i \in 1 .. k PROVE LabelOf(c + s[i - 1] + 1) = Numbered("constant", i)
  <2>1. c + s[i - 1] + 1 \in DOMAIN constantLabels
    BY <1>2
  <2> QED
    BY <1>2, <1>6, <2>1
<1>14. ASSUME e \in 0 .. c - 1, NEW a, LabelOf(a) # NoLabel
       PROVE  a \in 0 .. c - 1 \/ \E i \in 1 .. k : a = c + s[i - 1] + 1
  BY <1>2, <1>4, <1>6, <1>14
<1>15. \A a \in 0 .. c - 1 : \A i \in 1 .. k : LabelOf(a) # Numbered("constant", i)
  BY <1>9, <1>10, <1>11
<1>16. \A a \in 0 .. c - 1 : /\ LabelOf(a) \in MaybeLabel
                             /\ LabelOf(a) = MainLabel <=> a = data.entrypoint
  BY <1>3, <1>11
<1>17. data.entrypoint \in 0 .. c - 1 =>
           \A a : LabelOf(a) # NoLabel => IsItem(k, s, c, a)
  BY <1>3, <1>14 DEF IsItem
<1>18. \A a \in 0 .. c - 1 : /\ LabelOf(a) \in MaybeLabel
                             /\ LabelOf(a) = MainLabel <=> a = data.entrypoint
                             /\ \A i \in 1 .. k : LabelOf(a) # Numbered("constant", i)
  BY <1>15, <1>16, Zenon
<1>19. \A a, b \in 0 .. c - 1 : LabelOf(a) = LabelOf(b) /\ LabelOf(a) # NoLabel => a = b
  BY <1>12
<1>20. \A i \in 1 .. k : /\ LabelOf(c + s[i - 1] + 1) = Numbered("constant", i)
                         /\ Numbered("constant", i) \in Labels
  BY <1>10, <1>13
<1>21. /\ \A i : Numbered("constant", i) # MainLabel
       /\ \A i, j : Numbered("constant", i) = Numbered("constant", j) => i = j
  BY <1>9, Zenon
<1>22. CommandLabelsTell(k, c)
  BY <1>18, <1>19 DEF CommandLabelsTell
<1>23. ConstantLabelsTell(k, s, c)
  BY <1>20, <1>21, Zenon DEF ConstantLabelsTell
<1> QED
  BY <1>17, <1>22, <1>23, Zenon DEF LabelsTell

-----------------------------------------------------------------------------
(***************************************************************************)
(* What the assembler finds in a listing.                                  *)
(***************************************************************************)
\* What the assembler sees of the lines of a text that are right.
LEMMA SeenLines ==
    ASSUME text \in Seq(Line), AllLinesValid
    PROVE  LET lines == SourceOf(text)[Main].lines
           IN  /\ Len(lines) = Len(text)
               /\ \A m \in 1 .. Len(text) :
                     /\ lines[m] = Parsed(text[m])
                     /\ lines[m].item = text[m].item /\ lines[m].label = text[m].label
                     /\ lines[m].use = text[m].use
                     /\ Assembled!LineAt(<<Main, m>>) = lines[m]
<1> DEFINE lines == SourceOf(text)[Main].lines
<1>1. lines = [m \in DOMAIN text |-> Parsed(text[m])]
  BY DEF SourceOf
<1>2. \A m \in DOMAIN text : /\ Parsed(text[m]).item = text[m].item
                             /\ Parsed(text[m]).label = text[m].label
                             /\ Parsed(text[m]).use = text[m].use
  BY DEF AllLinesValid, Parsed
<1>3. \A m : Assembled!LineAt(<<Main, m>>) = lines[m]
  <2> TAKE m
  <2>1. <<Main, m>>[1] = Main /\ <<Main, m>>[2] = m
    OBVIOUS
  <2>2. PICK p : p = <<Main, m>>
    OBVIOUS
  <2>3. Assembled!LineAt(p) = SourceOf(text)[p[1]].lines[p[2]]
    BY Zenon DEF Assembled!LineAt
  <2> HIDE DEF lines
  <2>4. p[1] = Main /\ p[2] = m
    BY <2>1, <2>2
  <2> QED
    BY <2>2, <2>3, <2>4, Zenon DEF lines
<1> HIDE DEF lines
<1>4. DOMAIN text = 1 .. Len(text) /\ Len(text) \in Nat
  OBVIOUS
<1>5. Len(lines) = Len(text) /\ \A m \in 1 .. Len(text) : lines[m] = Parsed(text[m])
  BY <1>1, <1>4
<1>6. \A m \in 1 .. Len(text) : /\ lines[m].item = text[m].item
                                /\ lines[m].label = text[m].label
                                /\ lines[m].use = text[m].use
  BY <1>2, <1>4, <1>5
<1> QED
  BY <1>3, <1>5, <1>6 DEF lines

\* the item and the label of every line of a listing
LineSorts(k, c, q, n) ==
    /\ DOMAIN text = 1 .. n /\ Len(text) = n /\ k < n
    /\ \A i \in 1 .. k : text[i].item = "constant" /\ text[i].label = Numbered("constant", i)
    /\ \A i \in 1 .. c : q[i] \in k + 1 .. n - 1
    /\ \A i \in 1 .. c : text[q[i]].item = "command" /\ text[q[i]].label = NoLabel
    /\ \A i, j \in 1 .. c : q[i] = q[j] => i = j
    /\ \A i \in 1 .. c : LabelOf(i - 1) # NoLabel =>
          /\ q[i] - 1 \in k + 1 .. n - 1
          /\ text[q[i] - 1].item = "none" /\ text[q[i] - 1].label = LabelOf(i - 1)
    /\ text[n].item = "end" /\ text[n].label = NoLabel /\ text[n].use = MainLabel
    /\ \A m \in k + 1 .. n - 1 :
          \/ \E i \in 1 .. c : m = q[i]
          \/ \E i \in 1 .. c : m = q[i] - 1 /\ LabelOf(i - 1) # NoLabel

\* The lines of a listing are of these sorts.
LEMMA RelistedSorts ==
    ASSUME NEW k \in Nat, NEW s \in [0 .. k -> Nat], NEW c \in Nat,
           NEW q \in [0 .. c -> Nat], NEW n \in Nat, Relists(k, s, c, q, n)
    PROVE  LineSorts(k, c, q, n)
<1>1. RelistedIn(k, c, q, n)
  BY RelistedLines
<1>2. /\ DOMAIN text = 1 .. n /\ k < n
      /\ \A i \in 1 .. k : text[i].item = "constant" /\ text[i].label = Numbered("constant", i)
      /\ \A i \in 1 .. c : q[i] \in k + 1 .. n - 1
      /\ \A i \in 1 .. c : text[q[i]].item = "command" /\ text[q[i]].label = NoLabel
      /\ \A i, j \in 1 .. c : i < j => q[i] < q[j]
      /\ \A i \in 1 .. c : LabelOf(i - 1) # NoLabel =>
            /\ q[i] - 1 \in k + 1 .. n - 1
            /\ text[q[i] - 1] = LoneLabel(LabelOf(i - 1))
      /\ text[n] = EndMain
      /\ \A m \in k + 1 .. n - 1 :
            \/ \E i \in 1 .. c : m = q[i]
            \/ \E i \in 1 .. c : m = q[i] - 1 /\ LabelOf(i - 1) # NoLabel
  BY <1>1 DEF RelistedIn
<1>3. \A i, j \in 1 .. c : q[i] = q[j] => i = j
  <2> SUFFICES ASSUME NEW i \in 1 .. c, NEW j \in 1 .. c, q[i] = q[j] PROVE i = j
    OBVIOUS
  <2>1. q[i] \in Int /\ q[j] \in Int
    BY <1>2
  <2>2. ~(i < j) /\ ~(j < i)
    BY <1>2, <2>1
  <2> QED
    BY <2>2
<1>4. \A i \in 1 .. c : LabelOf(i - 1) # NoLabel =>
         /\ q[i] - 1 \in k + 1 .. n - 1
         /\ text[q[i] - 1].item = "none" /\ text[q[i] - 1].label = LabelOf(i - 1)
  BY <1>2, LineFields
<1>5. text[n].item = "end" /\ text[n].label = NoLabel /\ text[n].use = MainLabel
  BY <1>2, LineFields
<1>6. Len(text) = n
  BY DEF Relists
<1> QED
  BY <1>2, <1>3, <1>4, <1>5, <1>6 DEF LineSorts

\* No line of a listing is blank: after each comes the next.
LEMMA NextRelisted ==
    ASSUME NEW k \in Nat, NEW c \in Nat, NEW q, NEW n \in Nat, LineSorts(k, c, q, n),
           text \in Seq(Line), AllLinesValid, NEW m \in 0 .. n - 1
    PROVE  Assembled!NextLine(Main, m) = m + 1
<1> DEFINE lines == SourceOf(text)[Main].lines
           later == {j \in m + 1 .. Len(lines) : ~Assembled!IsBlank(lines[j])}
<1>1. Assembled!NextLine(Main, m) = IF later = {} THEN 0 ELSE Assembled!Min(later)
  BY Zenon DEF Assembled!NextLine
<1>2. /\ Len(lines) = n
      /\ \A j \in 1 .. n : lines[j].item = text[j].item /\ lines[j].label = text[j].label
  BY SeenLines DEF LineSorts
<1> HIDE DEF lines
<1>3. \A j \in 1 .. n : text[j].item # "none" \/ text[j].label # NoLabel
  <2> TAKE j \in 1 .. n
  <2>1. j \in 1 .. k \/ j \in k + 1 .. n - 1 \/ j = n
    OBVIOUS
  <2>2. CASE j \in 1 .. k
    BY <2>2 DEF LineSorts
  <2>3. CASE j \in k + 1 .. n - 1
    <3>1. CASE \E i \in 1 .. c : j = q[i]
      BY <3>1 DEF LineSorts
    <3>2. CASE \E i \in 1 .. c : j = q[i] - 1 /\ LabelOf(i - 1) # NoLabel
      BY <3>2 DEF LineSorts
    <3> QED
      BY <2>3, <3>1, <3>2 DEF LineSorts
  <2>4. CASE j = n
    BY <2>4 DEF LineSorts
  <2> QED
    BY <2>1, <2>2, <2>3, <2>4
<1>4. \A j \in 1 .. n : ~Assembled!IsBlank(lines[j])
  BY <1>2, <1>3 DEF Assembled!IsBlank
<1>5. later = m + 1 .. n
  BY <1>2, <1>4
<1> HIDE DEF later
<1>6. later # {} /\ m + 1 \in later /\ \A y \in later : m + 1 <= y /\ y \in Int
  <2>1. m \in Nat /\ m + 1 \in m + 1 .. n
    OBVIOUS
  <2>2. \A y \in m + 1 .. n : m + 1 <= y /\ y \in Int
    BY <2>1
  <2> QED
    BY <1>5, <2>1, <2>2
<1>7. Assembled!Min(later) = m + 1
  <2>1. Assembled!Min(later) = CHOOSE x \in later : \A y \in later : x <= y
    BY Zenon DEF Assembled!Min
  <2>2. \E x \in later : \A y \in later : x <= y
    BY <1>6
  <2>3. PICK x : x = CHOOSE z \in later : \A y \in later : z <= y
    OBVIOUS
  <2>4. x \in later /\ \A y \in later : x <= y
    BY <2>2, <2>3
  <2>5. x = m + 1
    BY <1>6, <2>4
  <2> QED
    BY <2>1, <2>3, <2>5
<1> QED
  BY <1>1, <1>6, <1>7

\* Every label stands before its own item, and nowhere else.
DefinedInListing(k, c, q) ==
    \A l \in Labels : \A p :
        p \in Assembled!Defined(l) <=>
            \/ \E i \in 1 .. k : p = <<Main, i>> /\ l = Numbered("constant", i)
            \/ \E i \in 1 .. c : p = <<Main, q[i]>> /\ l = LabelOf(i - 1)

\* Labels are defined where the disassembler has put them.
LEMMA RelistedDefined ==
    ASSUME NEW k \in Nat, NEW s \in [0 .. k -> Nat], NEW c \in Nat,
           NEW q \in [0 .. c -> Nat], NEW n \in Nat, Relists(k, s, c, q, n),
           AllLinesValid
    PROVE  DefinedInListing(k, c, q)
<1>1. LineSorts(k, c, q, n) /\ RelistedAt(k, c, q, n) /\ text \in Seq(Line)
  BY RelistedSorts, RelistedPlacesAre DEF Relists
<1>2. LabelsTell(k, s, c)
  BY RelistedLabels
<1> DEFINE lines == SourceOf(text)[Main].lines
           Before(l, p) == \E m \in 1 .. p[2] - 1 :
                              /\ SourceOf(text)[p[1]].lines[m].label = l
                              /\ SourceOf(text)[p[1]].lines[m].item = "none"
                              /\ Assembled!NextLine(p[1], m) = p[2]
<1>3. \A l, p : p \in Assembled!Defined(l) <=>
                  /\ p \in Assembled!ToSet(Assembled!Places("command"))
                              \cup Assembled!ToSet(Assembled!Places("constant"))
                  /\ Assembled!LineAt(p).label = l \/ Before(l, p)
  BY Zenon DEF Assembled!Defined
<1>4. \A p : p \in Assembled!ToSet(Assembled!Places("command"))
               <=> \E i \in 1 .. c : p = <<Main, q[i]>>
  <2>1. PICK f : f = [i \in 1 .. c |-> <<Main, q[i]>>]
    OBVIOUS
  <2>0. Assembled!Places("command") = f
    BY <1>1, <2>1, Zenon DEF RelistedAt
  <2>2. Assembled!ToSet(Assembled!Places("command")) = {f[i] : i \in DOMAIN f}
    BY <2>0, Zenon DEF Assembled!ToSet
  <2>3. DOMAIN f = 1 .. c /\ \A i \in 1 .. c : f[i] = <<Main, q[i]>>
    BY <2>1
  <2> QED
    BY <2>2, <2>3, Zenon
<1>5. \A p : p \in Assembled!ToSet(Assembled!Places("constant"))
               <=> \E i \in 1 .. k : p = <<Main, i>>
  <2>1. PICK f : f = [i \in 1 .. k |-> <<Main, i>>]
    OBVIOUS
  <2>0. Assembled!Places("constant") = f
    BY <1>1, <2>1, Zenon DEF RelistedAt
  <2>2. Assembled!ToSet(Assembled!Places("constant")) = {f[i] : i \in DOMAIN f}
    BY <2>0, Zenon DEF Assembled!ToSet
  <2>3. DOMAIN f = 1 .. k /\ \A i \in 1 .. k : f[i] = <<Main, i>>
    BY <2>1
  <2> QED
    BY <2>2, <2>3, Zenon
<1>6. /\ Len(lines) = n
      /\ \A m \in 1 .. n : /\ lines[m].item = text[m].item
                           /\ lines[m].label = text[m].label
                           /\ Assembled!LineAt(<<Main, m>>) = lines[m]
  BY <1>1, SeenLines DEF LineSorts
<1>7. \A m \in 0 .. n - 1 : Assembled!NextLine(Main, m) = m + 1
  BY <1>1, NextRelisted
<1> HIDE DEF lines
<1>8. \A l : \A m \in 1 .. n : Before(l, <<Main, m>>) <=>
            m - 1 \in 1 .. n /\ text[m - 1].label = l /\ text[m - 1].item = "none"
  <2> TAKE l
  <2> TAKE m \in 1 .. n
  <2>1. <<Main, m>>[1] = Main /\ <<Main, m>>[2] = m
    OBVIOUS
  <2>2. PICK p : p = <<Main, m>>
    OBVIOUS
  <2>3. Before(l, p) <=> \E x \in 1 .. m - 1 : /\ lines[x].label = l
                                               /\ lines[x].item = "none"
                                               /\ Assembled!NextLine(Main, x) = m
    BY <2>1, <2>2, Zenon DEF lines
  <2>4. \A x \in 1 .. m - 1 : /\ x \in 1 .. n /\ x \in 0 .. n - 1
                              /\ x + 1 = m <=> x = m - 1
    OBVIOUS
  <2>5. \A x \in 1 .. m - 1 : /\ lines[x].label = text[x].label
                              /\ lines[x].item = text[x].item
                              /\ Assembled!NextLine(Main, x) = m <=> x = m - 1
    BY <1>6, <1>7, <2>4
  <2>6. m - 1 \in 1 .. m - 1 <=> m - 1 \in 1 .. n
    OBVIOUS
  <2> HIDE DEF Before
  <2> QED
    BY <2>2, <2>3, <2>5, <2>6
<1> HIDE DEF Before
<1>9. SUFFICES ASSUME NEW l \in Labels, NEW p
               PROVE  p \in Assembled!Defined(l) <=>
                        \/ \E i \in 1 .. k : p = <<Main, i>> /\ l = Numbered("constant", i)
                        \/ \E i \in 1 .. c : p = <<Main, q[i]>> /\ l = LabelOf(i - 1)
  BY Zenon DEF DefinedInListing
<1>10. l # NoLabel
  BY LinesAssumption
<1>11. ASSUME NEW i \in 1 .. k
       PROVE  <<Main, i>> \in Assembled!Defined(l) <=> l = Numbered("constant", i)
  <2>1. i \in 1 .. n /\ text[i].label = Numbered("constant", i)
    BY <1>1 DEF LineSorts
  <2>2. ~Before(l, <<Main, i>>)
    <3>1. ~(i - 1 \in 1 .. n /\ text[i - 1].item = "none")
      <4>1. i - 1 \in 1 .. n => i - 1 \in 1 .. k
        OBVIOUS
      <4> QED
        BY <1>1, <4>1 DEF LineSorts
    <3> QED
      BY <1>8, <2>1, <3>1
  <2>3. Assembled!LineAt(<<Main, i>>).label = Numbered("constant", i)
    BY <1>6, <2>1
  <2> QED
    BY <1>3, <1>5, <2>2, <2>3
<1>12. ASSUME NEW i \in 1 .. c
       PROVE  <<Main, q[i]>> \in Assembled!Defined(l) <=> l = LabelOf(i - 1)
  <2>1. /\ q[i] \in 1 .. n /\ q[i] \in k + 1 .. n - 1 /\ text[q[i]].label = NoLabel
        /\ text[q[i]].item = "command"
    BY <1>1 DEF LineSorts
  <2>2. Assembled!LineAt(<<Main, q[i]>>).label = NoLabel
    BY <1>6, <2>1
  <2>3. Before(l, <<Main, q[i]>>) <=> l = LabelOf(i - 1)
    <3>1. CASE LabelOf(i - 1) # NoLabel
      <4>1. /\ q[i] - 1 \in k + 1 .. n - 1
            /\ text[q[i] - 1].item = "none" /\ text[q[i] - 1].label = LabelOf(i - 1)
        BY <1>1, <3>1 DEF LineSorts
      <4>2. q[i] - 1 \in 1 .. n
        BY <4>1
      <4> QED
        BY <1>8, <2>1, <4>1, <4>2
    <3>2. CASE LabelOf(i - 1) = NoLabel
      <4>1. SUFFICES ASSUME q[i] - 1 \in 1 .. n, text[q[i] - 1].item = "none"
                     PROVE  FALSE
        BY <1>8, <1>10, <2>1, <3>2
      <4>2. q[i] - 1 \in 1 .. k \/ q[i] - 1 \in k + 1 .. n - 1
        BY <2>1, <4>1
      <4>3. CASE q[i] - 1 \in 1 .. k
        BY <1>1, <4>1, <4>3 DEF LineSorts
      <4>4. CASE q[i] - 1 \in k + 1 .. n - 1
        <5>1. PICK j \in 1 .. c : \/ q[i] - 1 = q[j]
                                  \/ q[i] - 1 = q[j] - 1 /\ LabelOf(j - 1) # NoLabel
          BY <1>1, <4>4 DEF LineSorts
        <5>2. CASE q[i] - 1 = q[j]
          BY <1>1, <4>1, <5>2 DEF LineSorts
        <5>3. CASE q[i] - 1 = q[j] - 1 /\ LabelOf(j - 1) # NoLabel
          <6>1. q[i] = q[j]
            <7>1. q[j] \in Nat /\ q[i] \in Nat
              OBVIOUS
            <7> QED
              BY <5>3, <7>1
          <6>2. i = j
            BY <1>1, <6>1 DEF LineSorts
          <6> QED
            BY <3>2, <5>3, <6>2
        <5> QED
          BY <5>1, <5>2, <5>3
      <4> QED
        BY <4>2, <4>3, <4>4
    <3> QED
      BY <3>1, <3>2
  <2>4. <<Main, q[i]>> \in Assembled!ToSet(Assembled!Places("command"))
    BY <1>4
  <2> QED
    BY <1>3, <1>10, <2>2, <2>3, <2>4
<1>13. p \in Assembled!Defined(l) => \/ \E i \in 1 .. k : p = <<Main, i>>
                                     \/ \E i \in 1 .. c : p = <<Main, q[i]>>
  BY <1>3, <1>4, <1>5
<1> QED
  BY <1>11, <1>12, <1>13, Zenon

\* the place the item at an address is written at
ItemAt(k, s, c, q, a, p) ==
    \/ a \in 0 .. c - 1 /\ p = <<Main, q[a + 1]>>
    \/ \E i \in 1 .. k : a = c + s[i - 1] + 1 /\ p = <<Main, i>>

\* A label of a listing is defined at most once.
LEMMA RelistedDefinedOnce ==
    ASSUME NEW k \in Nat, NEW s \in [0 .. k -> Nat], NEW c \in Nat,
           NEW q \in [0 .. c -> Nat], NEW n \in Nat, Relists(k, s, c, q, n),
           AllLinesValid, NEW l \in Labels, NEW o \in Assembled!Defined(l),
           NEW p \in Assembled!Defined(l)
    PROVE  o = p
<1>1. DefinedInListing(k, c, q) /\ LabelsTell(k, s, c) /\ LineSorts(k, c, q, n)
  BY RelistedDefined, RelistedLabels, RelistedSorts
<1>2. l # NoLabel
  BY LinesAssumption
<1>3. \A x : x \in Assembled!Defined(l) <=>
            \/ \E i \in 1 .. k : x = <<Main, i>> /\ l = Numbered("constant", i)
            \/ \E i \in 1 .. c : x = <<Main, q[i]>> /\ l = LabelOf(i - 1)
  BY <1>1, Zenon DEF DefinedInListing
<1>4. /\ \A i, j : Numbered("constant", i) = Numbered("constant", j) => i = j
      /\ \A a \in 0 .. c - 1 : \A i \in 1 .. k : LabelOf(a) # Numbered("constant", i)
      /\ \A a, b \in 0 .. c - 1 : LabelOf(a) = LabelOf(b) /\ LabelOf(a) # NoLabel => a = b
  BY <1>1, Zenon DEF LabelsTell, CommandLabelsTell, ConstantLabelsTell
<1>5. \A i \in 1 .. c : i - 1 \in 0 .. c - 1
  OBVIOUS
<1>6. CASE \E i \in 1 .. k : o = <<Main, i>> /\ l = Numbered("constant", i)
  BY <1>3, <1>4, <1>5, <1>6
<1>7. CASE \E i \in 1 .. c : o = <<Main, q[i]>> /\ l = LabelOf(i - 1)
  <2>1. PICK i \in 1 .. c : o = <<Main, q[i]>> /\ l = LabelOf(i - 1)
    BY <1>7
  <2>2. PICK j \in 1 .. c : p = <<Main, q[j]>> /\ l = LabelOf(j - 1)
    BY <1>3, <1>4, <1>5, <2>1
  <2>3. i - 1 = j - 1
    BY <1>2, <1>4, <1>5, <2>1, <2>2
  <2>4. i = j
    BY <2>3
  <2> QED
    BY <2>1, <2>2, <2>4
<1> QED
  BY <1>3, <1>6, <1>7

\* The label of an item is defined, and stands before that item.
LEMMA RelistedDefinition ==
    ASSUME NEW k \in Nat, NEW s \in [0 .. k -> Nat], NEW c \in Nat,
           NEW q \in [0 .. c -> Nat], NEW n \in Nat, Relists(k, s, c, q, n),
           AllLinesValid, NEW a, IsItem(k, s, c, a), LabelOf(a) # NoLabel
    PROVE  LabelOf(a) \in Labels /\ \E p \in Assembled!Defined(LabelOf(a)) :
                                        ItemAt(k, s, c, q, a, p)
<1>1. DefinedInListing(k, c, q) /\ LabelsTell(k, s, c)
  BY RelistedDefined, RelistedLabels
<1>2. CASE a \in 0 .. c - 1
  <2>1. LabelOf(a) \in Labels
    BY <1>1, <1>2 DEF LabelsTell, CommandLabelsTell, MaybeLabel
  <2>2. a + 1 \in 1 .. c /\ (a + 1) - 1 = a
    BY <1>2
  <2>3. \E i \in 1 .. c : <<Main, q[a + 1]>> = <<Main, q[i]>> /\ LabelOf(a) = LabelOf(i - 1)
    BY <2>2
  <2>4. <<Main, q[a + 1]>> \in Assembled!Defined(LabelOf(a))
    BY <1>1, <2>1, <2>3, Zenon DEF DefinedInListing
  <2>5. ItemAt(k, s, c, q, a, <<Main, q[a + 1]>>)
    BY <1>2, Zenon DEF ItemAt
  <2> QED
    BY <2>1, <2>4, <2>5, Zenon
<1>3. CASE \E i \in 1 .. k : a = c + s[i - 1] + 1
  <2>1. PICK i \in 1 .. k : a = c + s[i - 1] + 1
    BY <1>3
  <2>2. LabelOf(a) = Numbered("constant", i) /\ LabelOf(a) \in Labels
    BY <1>1, <2>1, Zenon DEF LabelsTell, ConstantLabelsTell
  <2>3. <<Main, i>> \in Assembled!Defined(LabelOf(a))
    BY <1>1, <2>2, Zenon DEF DefinedInListing
  <2>4. ItemAt(k, s, c, q, a, <<Main, i>>)
    BY <2>1, Zenon DEF ItemAt
  <2> QED
    BY <2>2, <2>3, <2>4, Zenon
<1> QED
  BY <1>2, <1>3 DEF IsItem

\* What the lines of a listing use: the label of an item, or main.
RelistedUses(n) ==
    /\ <<Main, n>> \in Assembled!Uses /\ Assembled!LineAt(<<Main, n>>).use = MainLabel
    /\ \A p \in Assembled!Uses :
          \/ Assembled!LineAt(p).use = MainLabel
          \/ \E a : Assembled!LineAt(p).use = LabelOf(a) /\ LabelOf(a) # NoLabel

\* The lines of a listing use no other labels.
LEMMA RelistedUsesAre ==
    ASSUME NEW k \in Nat, NEW s \in [0 .. k -> Nat], NEW c \in Nat,
           NEW q \in [0 .. c -> Nat], NEW n \in Nat, Relists(k, s, c, q, n),
           AllLinesValid
    PROVE  RelistedUses(n)
<1>1. LineSorts(k, c, q, n) /\ RelistedAt(k, c, q, n) /\ text \in Seq(Line)
  BY RelistedSorts, RelistedPlacesAre DEF Relists
<1>2. RelistedIn(k, c, q, n)
  BY RelistedLines
<1>3. /\ MainLabel # NoLabel
      /\ data.code \in Seq(Words) /\ c = Len(data.code)
      /\ \A w \in ToSet(data.code) : Known(w)
  BY LinesAssumption, LabelNamesAssumption DEF Relists, Data
<1>4. \A m \in 1 .. n : Assembled!LineAt(<<Main, m>>).use = text[m].use
  BY <1>1, SeenLines DEF LineSorts
<1>5. \A p : p \in Assembled!Uses <=>
              /\ p \in Assembled!ToSet(Assembled!Places("command"))
                         \cup Assembled!ToSet(Assembled!Places("end"))
              /\ Assembled!LineAt(p).use # NoLabel
  BY Zenon DEF Assembled!Uses
<1>6. \A p : p \in Assembled!ToSet(Assembled!Places("command"))
               <=> \E i \in 1 .. c : p = <<Main, q[i]>>
  <2>1. PICK f : f = [i \in 1 .. c |-> <<Main, q[i]>>]
    OBVIOUS
  <2>2. Assembled!Places("command") = f
    BY <1>1, <2>1, Zenon DEF RelistedAt
  <2>3. Assembled!ToSet(Assembled!Places("command")) = {f[i] : i \in DOMAIN f}
    BY <2>2, Zenon DEF Assembled!ToSet
  <2>4. DOMAIN f = 1 .. c /\ \A i \in 1 .. c : f[i] = <<Main, q[i]>>
    BY <2>1
  <2> QED
    BY <2>3, <2>4, Zenon
<1>7. \A p : p \in Assembled!ToSet(Assembled!Places("end")) <=> p = <<Main, n>>
  <2>1. PICK f : f = [i \in 1 .. 1 |-> <<Main, n>>]
    OBVIOUS
  <2>2. Assembled!Places("end") = f
    BY <1>1, <2>1, Zenon DEF RelistedAt
  <2>3. Assembled!ToSet(Assembled!Places("end")) = {f[i] : i \in DOMAIN f}
    BY <2>2, Zenon DEF Assembled!ToSet
  <2>4. DOMAIN f = {1} /\ f[1] = <<Main, n>>
    BY <2>1
  <2> QED
    BY <2>3, <2>4, Zenon
<1>8. n \in 1 .. n /\ text[n].use = MainLabel
  BY <1>1 DEF LineSorts
<1>9. ASSUME NEW i \in 1 .. c, text[q[i]].use # NoLabel
      PROVE  \E a : text[q[i]].use = LabelOf(a) /\ LabelOf(a) # NoLabel
  <2>1. data.code[i] \in Words /\ Known(data.code[i])
    <3>1. i \in DOMAIN data.code
      BY <1>3
    <3> QED
      BY <1>3, <3>1 DEF ToSet
  <2>2. text[q[i]] = CommandBy(data.code[i], LabelOf(Meaning(data.code[i]).arg))
    BY <1>2 DEF RelistedIn
  <2>3. LET label == LabelOf(Meaning(data.code[i]).arg)
            line  == CommandBy(data.code[i], label)
        IN  line.use = NoLabel \/ (line.use = label /\ label # NoLabel)
    BY <2>1, RelistedCommand
  <2> QED
    BY <1>9, <2>2, <2>3
<1>10. \A i \in 1 .. c : q[i] \in 1 .. n
  BY <1>1 DEF LineSorts
<1>11. <<Main, n>> \in Assembled!Uses /\ Assembled!LineAt(<<Main, n>>).use = MainLabel
  BY <1>3, <1>4, <1>5, <1>7, <1>8
<1>12. ASSUME NEW p \in Assembled!Uses
       PROVE  \/ Assembled!LineAt(p).use = MainLabel
              \/ \E a : Assembled!LineAt(p).use = LabelOf(a) /\ LabelOf(a) # NoLabel
  <2>1. CASE p = <<Main, n>>
    BY <1>11, <2>1
  <2>2. CASE \E i \in 1 .. c : p = <<Main, q[i]>>
    <3>1. PICK i \in 1 .. c : p = <<Main, q[i]>>
      BY <2>2
    <3>2. Assembled!LineAt(p).use = text[q[i]].use
      BY <1>4, <1>10, <3>1
    <3> QED
      BY <1>5, <1>9, <3>2
  <2> QED
    BY <1>5, <1>6, <1>7, <2>1, <2>2
<1> QED
  BY <1>11, <1>12, Zenon DEF RelistedUses

\* A listing that is accepted is the one of a program that starts in its code.
LEMMA RelistedEntry ==
    ASSUME NEW k \in Nat, NEW s \in [0 .. k -> Nat], NEW c \in Nat,
           NEW q \in [0 .. c -> Nat], NEW n \in Nat, Relists(k, s, c, q, n),
           AllLinesValid, Accepted
    PROVE  data.entrypoint \in 0 .. c - 1
<1>1. DefinedInListing(k, c, q) /\ LabelsTell(k, s, c) /\ RelistedUses(n)
  BY RelistedDefined, RelistedLabels, RelistedUsesAre
<1>2. Assembled!Defined(MainLabel) # {}
  BY <1>1, Zenon DEF RelistedUses, Accepted, Assembled!Valid
<1>3. PICK p : p \in Assembled!Defined(MainLabel)
  BY <1>2
<1>4. MainLabel \in Labels
  BY LabelNamesAssumption
<1>5. \/ \E i \in 1 .. k : p = <<Main, i>> /\ MainLabel = Numbered("constant", i)
      \/ \E i \in 1 .. c : p = <<Main, q[i]>> /\ MainLabel = LabelOf(i - 1)
  BY <1>1, <1>3, <1>4, Zenon DEF DefinedInListing
<1>6. PICK i \in 1 .. c : MainLabel = LabelOf(i - 1)
  BY <1>1, <1>5, Zenon DEF LabelsTell, ConstantLabelsTell
<1>7. i - 1 \in 0 .. c - 1
  OBVIOUS
<1>8. i - 1 = data.entrypoint
  BY <1>1, <1>6, <1>7, Zenon DEF LabelsTell, CommandLabelsTell
<1> QED
  BY <1>7, <1>8

-----------------------------------------------------------------------------
(***************************************************************************)
(* The assembler accepts a listing.                                        *)
(***************************************************************************)
\* The cardinality is the same one.
LEMMA SameCardinality ==
    ASSUME NEW S
    PROVE  Assembled!Cardinality(S) = Cardinality(S)
BY Zenon DEF Assembled!Cardinality, Cardinality

\* The only file is the whole program, and has nothing to include.
LEMMA OnlyFile ==
    \A f \in Assembled!Program : f = Main /\ Assembled!CanInclude(f)
<1>1. \A f \in Assembled!Program : f \in {Main}
  BY Zenon DEF Assembled!Program, Assembled!Reachable
<1>2. SourceOf(text)[Main].readable = TRUE /\ SourceOf(text)[Main].includes = <<>>
  BY DEF SourceOf
<1>3. Assembled!CanInclude(Main)
  <2>1. "none" \notin Assembled!ToSet(<<>>)
    <3>1. Assembled!ToSet(<<>>) = {<<>>[i] : i \in DOMAIN <<>>}
      BY Zenon DEF Assembled!ToSet
    <3>2. DOMAIN <<>> = {}
      OBVIOUS
    <3> QED
      BY <3>1, <3>2
  <2> QED
    BY <1>2, <2>1, Zenon DEF Assembled!CanInclude
<1> QED
  BY <1>1, <1>3

\* After every label of a listing comes an item.
LEMMA RelistedLabelsStand ==
    ASSUME NEW k \in Nat, NEW s \in [0 .. k -> Nat], NEW c \in Nat,
           NEW q \in [0 .. c -> Nat], NEW n \in Nat, Relists(k, s, c, q, n),
           AllLinesValid
    PROVE  Assembled!LabelsStandBeforeItems(Main)
<1>1. LineSorts(k, c, q, n) /\ text \in Seq(Line)
  BY RelistedSorts DEF Relists
<1> DEFINE lines == SourceOf(text)[Main].lines
           Stands(m) == LET next == Assembled!NextLine(Main, m)
                        IN  lines[m].label # NoLabel =>
                               \/ lines[m].item \in {"command", "constant"}
                               \/ /\ lines[m].item = "none"
                                  /\ next # 0
                                  /\ lines[next].label = NoLabel
                                  /\ lines[next].item \in {"command", "constant"}
<1>2. Assembled!LabelsStandBeforeItems(Main) <=> \A m \in DOMAIN lines : Stands(m)
  BY Zenon DEF Assembled!LabelsStandBeforeItems
<1>3. /\ Len(lines) = n
      /\ \A m \in 1 .. n : lines[m].item = text[m].item /\ lines[m].label = text[m].label
  BY <1>1, SeenLines DEF LineSorts
<1>4. \A m \in 0 .. n - 1 : Assembled!NextLine(Main, m) = m + 1
  BY <1>1, NextRelisted
<1>5. DOMAIN lines = 1 .. n
  <2>1. lines = [m \in DOMAIN text |-> Parsed(text[m])]
    BY DEF SourceOf
  <2> HIDE DEF lines
  <2>2. DOMAIN text = 1 .. n
    BY <1>1 DEF LineSorts
  <2> QED
    BY <2>1, <2>2
<1> HIDE DEF lines
<1>6. SUFFICES ASSUME NEW m \in 1 .. n, lines[m].label # NoLabel
               PROVE  Stands(m)
  BY <1>2, <1>5
<1>7. CASE m \in 1 .. k
  <2>1. text[m].item = "constant"
    BY <1>1, <1>7 DEF LineSorts
  <2> QED
    BY <1>3, <2>1
<1>8. CASE m \in k + 1 .. n - 1
  <2>1. CASE \E i \in 1 .. c : m = q[i]
    <3>1. text[m].label = NoLabel
      BY <1>1, <2>1 DEF LineSorts
    <3> QED
      BY <1>3, <1>6, <3>1
  <2>2. CASE \E i \in 1 .. c : m = q[i] - 1 /\ LabelOf(i - 1) # NoLabel
    <3>1. PICK i \in 1 .. c : m = q[i] - 1 /\ LabelOf(i - 1) # NoLabel
      BY <2>2
    <3>2. /\ q[i] \in k + 1 .. n - 1
          /\ text[q[i]].item = "command" /\ text[q[i]].label = NoLabel
          /\ text[q[i] - 1].item = "none"
      BY <1>1, <3>1 DEF LineSorts
    <3>3. m \in 0 .. n - 1 /\ m + 1 = q[i] /\ q[i] \in 1 .. n /\ q[i] # 0
      <4>1. PICK x : x = q[i]
        OBVIOUS
      <4>2. x \in k + 1 .. n - 1 /\ m = x - 1
        BY <3>1, <3>2, <4>1
      <4>3. m \in 0 .. n - 1 /\ m + 1 = x /\ x \in 1 .. n /\ x # 0
        BY <4>2
      <4> QED
        BY <4>1, <4>3
    <3>4. Assembled!NextLine(Main, m) = q[i]
      BY <1>4, <3>3
    <3>5. lines[m].item = "none" /\ lines[q[i]].item = "command" /\ lines[q[i]].label = NoLabel
      BY <1>3, <3>1, <3>2, <3>3
    <3> QED
      BY <3>3, <3>4, <3>5
  <2> QED
    BY <1>1, <1>8, <2>1, <2>2 DEF LineSorts
<1>9. CASE m = n
  BY <1>1, <1>3, <1>6, <1>9 DEF LineSorts
<1> QED
  BY <1>7, <1>8, <1>9

\* The listing of a program that starts in its code is accepted.
LEMMA RelistedAccepted ==
    ASSUME NEW k \in Nat, NEW s \in [0 .. k -> Nat], NEW c \in Nat,
           NEW q \in [0 .. c -> Nat], NEW n \in Nat, Relists(k, s, c, q, n),
           AllLinesValid, data.entrypoint \in 0 .. c - 1
    PROVE  Accepted
<1>1. \A f \in Assembled!Program : /\ Assembled!CanInclude(f)
                                   /\ Assembled!LabelsStandBeforeItems(f)
  BY OnlyFile, RelistedLabelsStand, Zenon
<1>2. Assembled!Places("bad") = <<>> /\ Len(Assembled!Places("end")) = 1
  <2>1. RelistedAt(k, c, q, n)
    BY RelistedPlacesAre
  <2>2. Assembled!Places("bad") = [i \in 1 .. 0 |-> <<Main, i>>]
    BY <2>1, Zenon DEF RelistedAt
  <2>3. Assembled!Places("end") = [i \in 1 .. 1 |-> <<Main, n>>]
    BY <2>1, Zenon DEF RelistedAt
  <2> QED
    BY <2>2, <2>3
<1>3. ASSUME NEW l \in Labels
      PROVE  Cardinality(Assembled!Defined(l)) <= 1
  <2>1. \A o, p \in Assembled!Defined(l) : o = p
    BY RelistedDefinedOnce
  <2>2. CASE Assembled!Defined(l) = {}
    BY <2>2, FS_EmptySet
  <2>3. CASE Assembled!Defined(l) # {}
    <3>1. PICK p : Assembled!Defined(l) = {p}
      BY <2>1, <2>3
    <3>2. Cardinality({p}) = 1 /\ 1 <= 1
      <4>1. Cardinality({p}) = 1
        BY FS_Singleton, Zenon
      <4>2. 1 <= 1
        OBVIOUS
      <4> QED
        BY <4>1, <4>2
    <3> QED
      BY <3>1, <3>2, Zenon
  <2> QED
    BY <2>2, <2>3
<1>4. ASSUME NEW p \in Assembled!Uses
      PROVE  Assembled!Defined(Assembled!LineAt(p).use) # {}
  <2>1. RelistedUses(n) /\ LabelsTell(k, s, c)
    BY RelistedUsesAre, RelistedLabels
  <2>2. ASSUME NEW a, IsItem(k, s, c, a), LabelOf(a) # NoLabel
        PROVE  Assembled!Defined(LabelOf(a)) # {}
    BY <2>2, RelistedDefinition
  <2>3. CASE Assembled!LineAt(p).use = MainLabel
    <3>1. IsItem(k, s, c, data.entrypoint)
      BY Zenon DEF IsItem
    <3>2. LabelOf(data.entrypoint) = MainLabel
      BY <2>1, Zenon DEF LabelsTell, CommandLabelsTell
    <3>3. MainLabel # NoLabel
      BY LinesAssumption, LabelNamesAssumption
    <3> QED
      BY <2>2, <2>3, <3>1, <3>2, <3>3
  <2>4. CASE \E a : Assembled!LineAt(p).use = LabelOf(a) /\ LabelOf(a) # NoLabel
    <3>1. PICK a : Assembled!LineAt(p).use = LabelOf(a) /\ LabelOf(a) # NoLabel
      BY <2>4
    <3>2. IsItem(k, s, c, a)
      BY <2>1, <3>1, Zenon DEF LabelsTell
    <3> QED
      BY <2>2, <3>1, <3>2
  <2> QED
    BY <2>1, <2>3, <2>4, Zenon DEF RelistedUses
<1>5. \A f \in Assembled!Program : Assembled!CanInclude(f)
  BY <1>1, Zenon
<1>6. \A f \in Assembled!Program : Assembled!LabelsStandBeforeItems(f)
  BY <1>1, Zenon
<1>7. \A l \in Labels : Assembled!Cardinality(Assembled!Defined(l)) <= 1
  BY <1>3, SameCardinality, Zenon
<1>8. \A p \in Assembled!Uses : Assembled!Defined(Assembled!LineAt(p).use) # {}
  BY <1>4, Zenon
<1> QED
  BY <1>2, <1>5, <1>6, <1>7, <1>8, Zenon DEF Accepted, Assembled!Valid

-----------------------------------------------------------------------------
(***************************************************************************)
(* Where the words of a listing are laid.                                  *)
(***************************************************************************)
\* the sequences end at the positions s of the sequence that is made of them
EndAt(ss, k, s) ==
    /\ k \in Nat /\ k = Len(ss) /\ s \in [0 .. k -> Nat] /\ s[0] = 0
    /\ \A i \in 1 .. k : s[i - 1] <= s[i] /\ Len(ss[i]) = s[i] - s[i - 1]

\* their elements are at these positions of it
LaidAt(ss, k, s, flat) ==
    /\ Len(flat) = s[k]
    /\ \A i \in 1 .. k : \A j \in 1 .. s[i] - s[i - 1] : flat[s[i - 1] + j] = ss[i][j]

\* Where the elements of sequences are after they are put one behind another.
LEMMA FlattenAt ==
    ASSUME NEW T, NEW ss \in Seq(Seq(T)), NEW k, NEW s, EndAt(ss, k, s)
    PROVE  LaidAt(ss, k, s, FlattenSeq(ss))
<1>1. PICK p \in [0 .. Len(ss) -> Seq(T)] :
         /\ p[0] = <<>> /\ p[Len(ss)] = FlattenSeq(ss)
         /\ \A i \in 1 .. Len(ss) : p[i] = p[i - 1] \o ss[i]
  BY FlattenSteps, Zenon
<1>2. k \in Nat /\ k = Len(ss) /\ s \in [0 .. k -> Nat] /\ s[0] = 0
  BY Zenon DEF EndAt
<1>3. \A i \in 1 .. k : s[i - 1] <= s[i] /\ Len(ss[i]) = s[i] - s[i - 1] /\ ss[i] \in Seq(T)
  BY <1>2 DEF EndAt
<1>4. \A i \in 0 .. k : p[i] \in Seq(T)
  BY <1>1, <1>2
<1>5. \A i \in 1 .. k : s[i] \in Nat /\ s[i - 1] \in Nat /\ i - 1 \in 0 .. k /\ i \in 0 .. k
  <2> TAKE i \in 1 .. k
  <2>1. i - 1 \in 0 .. k /\ i \in 0 .. k
    BY <1>2
  <2> QED
    BY <1>2, <2>1
<1>6. ASSUME NEW i \in 1 .. k
      PROVE  /\ Len(p[i]) = Len(p[i - 1]) + (s[i] - s[i - 1])
             /\ \A x \in 1 .. Len(p[i - 1]) : p[i][x] = p[i - 1][x]
             /\ \A y \in 1 .. s[i] - s[i - 1] : p[i][Len(p[i - 1]) + y] = ss[i][y]
  <2>1. /\ p[i - 1] \in Seq(T) /\ ss[i] \in Seq(T) /\ p[i] = p[i - 1] \o ss[i]
        /\ Len(ss[i]) = s[i] - s[i - 1]
    BY <1>1, <1>2, <1>3, <1>4, <1>5
  <2>2. PICK a, b, t : a = p[i - 1] /\ b = ss[i] /\ t = p[i] /\ t = a \o b
                    /\ a \in Seq(T) /\ b \in Seq(T)
    BY <2>1
  <2>3. /\ Len(t) = Len(a) + Len(b)
        /\ \A x \in 1 .. Len(a) : t[x] = a[x]
        /\ \A y \in 1 .. Len(b) : t[Len(a) + y] = b[y]
    <3>1. a \in Seq(T) /\ b \in Seq(T) /\ t = a \o b
      BY <2>2
    <3> QED
      BY <3>1
  <2> QED
    BY <2>1, <2>2, <2>3
<1>7. \A i \in 0 .. k : Len(p[i]) = s[i]
  <2> DEFINE S == {i \in 0 .. k : Len(p[i]) = s[i]}
  <2>1. 0 \in S
    BY <1>1, <1>2
  <2>2. ASSUME NEW i \in 1 .. k, i - 1 \in S PROVE i \in S
    BY <1>5, <1>6, <2>2
  <2> HIDE DEF S
  <2>3. 0 .. k \subseteq S
    BY <1>2, <2>1, <2>2, UpTo, Zenon
  <2> QED
    BY <2>3 DEF S
<1>8. ASSUME NEW i \in 1 .. k, NEW j \in 1 .. s[i] - s[i - 1]
      PROVE  p[k][s[i - 1] + j] = ss[i][j]
  <2> DEFINE x == s[i - 1] + j
             S == {m \in 0 .. k : m >= i => x \in 1 .. s[m] /\ p[m][x] = ss[i][j]}
  <2>1. 0 \in S
    BY <1>2
  <2>2. ASSUME NEW m \in 1 .. k, m - 1 \in S PROVE m \in S
    <3>1. CASE m < i
      BY <3>1
    <3>2. CASE m = i
      <4>1. x \in 1 .. s[i]
        BY <1>5
      <4>2. p[i][Len(p[i - 1]) + j] = ss[i][j]
        BY <1>6
      <4>3. Len(p[i - 1]) = s[i - 1]
        BY <1>5, <1>7
      <4> QED
        BY <3>2, <4>1, <4>2, <4>3
    <3>3. CASE m > i
      <4>1. x \in 1 .. s[m - 1] /\ p[m - 1][x] = ss[i][j]
        BY <2>2, <3>3
      <4>2. x \in 1 .. s[m]
        <5>1. s[m - 1] <= s[m] /\ s[m - 1] \in Nat /\ s[m] \in Nat
          BY <1>3, <1>5
        <5> HIDE DEF x
        <5> QED
          BY <4>1, <5>1
      <4>3. Len(p[m - 1]) = s[m - 1]
        BY <1>5, <1>7
      <4>4. p[m][x] = p[m - 1][x]
        BY <1>6, <4>1, <4>3
      <4> QED
        BY <4>1, <4>2, <4>4
    <3> QED
      BY <3>1, <3>2, <3>3
  <2> HIDE DEF S
  <2>3. 0 .. k \subseteq S
    BY <1>2, <2>1, <2>2, UpTo, Zenon
  <2>4. k \in 0 .. k /\ k >= i
    BY <1>2
  <2> QED
    BY <2>3, <2>4 DEF S
<1>9. k \in 0 .. k /\ p[k] = FlattenSeq(ss)
  BY <1>1, <1>2
<1> QED
  BY <1>7, <1>8, <1>9 DEF LaidAt

\* Every word before the last end stands in one of the constants.
LEMMA InOneConstant ==
    ASSUME NEW k \in Nat, NEW s \in [0 .. k -> Nat], s[0] = 0,
           NEW x \in 1 .. s[k]
    PROVE  \E i \in 1 .. k : x \in s[i - 1] + 1 .. s[i]
<1> DEFINE S == {i \in 0 .. k : x <= s[i] => \E j \in 1 .. i : x \in s[j - 1] + 1 .. s[j]}
<1>1. 0 \in S
  OBVIOUS
<1>2. ASSUME NEW m \in 1 .. k, m - 1 \in S PROVE m \in S
  <2>1. s[m - 1] \in Nat /\ s[m] \in Nat /\ x \in Nat
    OBVIOUS
  <2>2. CASE x <= s[m - 1]
    BY <1>2, <2>2
  <2>3. CASE ~(x <= s[m - 1])
    BY <2>1, <2>3
  <2> QED
    BY <2>2, <2>3
<1> HIDE DEF S
<1>3. 0 .. k \subseteq S
  BY <1>1, <1>2, UpTo, Zenon
<1>4. k \in 0 .. k /\ x <= s[k]
  OBVIOUS
<1> QED
  BY <1>3, <1>4 DEF S

\* The words of the constants of a listing, by their lines.
ConstantsLaidAt(k, s) ==
    /\ Assembled!ConstantsLayout \in Seq({Main} \X Nat \X Nat)
    /\ Len(Assembled!ConstantsLayout) = s[k]
    /\ \A i \in 1 .. k : \A j \in 1 .. s[i] - s[i - 1] :
          Assembled!ConstantsLayout[s[i - 1] + j] = <<Main, i, j - 1>>

\* The assembler lays out the constants of a listing as they were.
LEMMA RelistedConstantsLaid ==
    ASSUME NEW k \in Nat, NEW s \in [0 .. k -> Nat], NEW c \in Nat,
           NEW q \in [0 .. c -> Nat], NEW n \in Nat, Relists(k, s, c, q, n),
           AllLinesValid
    PROVE  ConstantsLaidAt(k, s)
<1> DEFINE places == Assembled!Places("constant")
           size(p) == Assembled!LineAt(p).arg
           words(p) == [j \in 1 .. size(p) + 1 |-> Append(p, j - 1)]
           parts == [i \in DOMAIN places |-> words(places[i])]
           T == {Main} \X Nat \X Nat
           part(i) == [j \in 1 .. s[i] - s[i - 1] |-> <<Main, i, j - 1>>]
<1>1. Assembled!ConstantsLayout = FlattenSeq(parts)
  BY Zenon DEF Assembled!ConstantsLayout, Assembled!FlattenSeq, FlattenSeq
<1>2. DOMAIN places = 1 .. k /\ \A i \in 1 .. k : places[i] = <<Main, i>>
  <2>1. RelistedAt(k, c, q, n)
    BY RelistedPlacesAre
  <2>2. places = [i \in 1 .. k |-> <<Main, i>>]
    BY <2>1, Zenon DEF RelistedAt
  <2> HIDE DEF places
  <2> QED
    BY <2>2
<1>3. \A i \in 1 .. k : /\ s[i - 1] \in Nat /\ s[i] \in Nat /\ s[i - 1] + 1 < s[i]
                        /\ Len(ValueAt(s, i)) = s[i] - s[i - 1] - 1
                        /\ ReadsBack(TypeAt(s, i), ValueAt(s, i), text[i])
  BY RelistedConstant
<1>4. \A i \in 1 .. k : /\ i \in DOMAIN text /\ text[i].item = "constant" /\ LineIsValid(text[i])
                        /\ Assembled!LineAt(<<Main, i>>) = Parsed(text[i])
  <2>1. LineSorts(k, c, q, n) /\ text \in Seq(Line)
    BY RelistedSorts DEF Relists
  <2>2. \A i \in 1 .. k : i \in 1 .. n /\ i \in DOMAIN text /\ text[i].item = "constant"
    BY <2>1 DEF LineSorts
  <2>3. Len(text) = n
    BY <2>1 DEF LineSorts
  <2>4. \A m \in 1 .. Len(text) : Assembled!LineAt(<<Main, m>>) = Parsed(text[m])
    BY <2>1, SeenLines
  <2> QED
    BY <2>2, <2>3, <2>4 DEF AllLinesValid
<1>5. \A i \in 1 .. k : size(<<Main, i>>) = s[i] - s[i - 1] - 1
  <2> TAKE i \in 1 .. k
  <2>1. Assembled!LineAt(<<Main, i>>).arg = Len(ValueWords(text[i]))
    BY <1>4, ParsedLine
  <2>2. Len(ValueWords(text[i])) = s[i] - s[i - 1] - 1
    BY <1>3 DEF ReadsBack
  <2> QED
    BY <2>1, <2>2
<1> HIDE DEF size, places
<1>6. \A i \in 1 .. k : words(places[i]) = part(i)
  <2> TAKE i \in 1 .. k
  <2>1. size(places[i]) + 1 = s[i] - s[i - 1]
    <3>1. size(places[i]) = s[i] - s[i - 1] - 1 /\ s[i] \in Nat /\ s[i - 1] \in Nat
      BY <1>2, <1>3, <1>5
    <3> QED
      BY <3>1
  <2>2. words(places[i]) = [j \in 1 .. s[i] - s[i - 1] |-> Append(places[i], j - 1)]
    BY <2>1
  <2>3. \A j : Append(places[i], j - 1) = <<Main, i, j - 1>>
    BY <1>2, PairAndOne
  <2> HIDE DEF words
  <2> QED
    BY <2>2, <2>3
<1>7. parts = [i \in 1 .. k |-> part(i)]
  BY <1>2, <1>6
<1>8. ASSUME NEW i \in 1 .. k
      PROVE  part(i) \in Seq(T) /\ Len(part(i)) = s[i] - s[i - 1]
  <2>1. PICK m \in Nat : m = s[i] - s[i - 1]
    BY <1>3
  <2>2. \A j \in 1 .. m : <<Main, i, j - 1>> \in T
    OBVIOUS
  <2> DEFINE one(j) == <<Main, i, j - 1>>
  <2>3. \A j \in 1 .. m : one(j) \in T
    BY <2>2
  <2> HIDE DEF one, T
  <2>4. [j \in 1 .. m |-> one(j)] \in Seq(T) /\ Len([j \in 1 .. m |-> one(j)]) = m
    BY <2>3
  <2> QED
    BY <2>1, <2>4 DEF one
<1> HIDE DEF T, parts
<1>9. PICK ss : ss = parts
  OBVIOUS
<1>10. ss \in Seq(Seq(T)) /\ Len(ss) = k /\ \A i \in 1 .. k : ss[i] = part(i)
  <2> DEFINE U == Seq(T)
  <2>1. \A i \in 1 .. k : part(i) \in U
    BY <1>8
  <2> HIDE DEF U, part
  <2>2. [i \in 1 .. k |-> part(i)] \in Seq(U) /\ Len([i \in 1 .. k |-> part(i)]) = k
    BY <2>1
  <2>3. ss = [i \in 1 .. k |-> part(i)]
    BY <1>7, <1>9
  <2> QED
    BY <2>2, <2>3 DEF U
<1>11. \A i \in 1 .. k : s[i - 1] <= s[i] /\ Len(ss[i]) = s[i] - s[i - 1]
  <2>1. \A i \in 1 .. k : Len(ss[i]) = s[i] - s[i - 1]
    BY <1>8, <1>10
  <2>2. \A i \in 1 .. k : s[i - 1] <= s[i]
    BY <1>3
  <2> QED
    BY <2>1, <2>2
<1>12. s[0] = 0
  BY DEF Relists, ConstantsListed
<1>13. EndAt(ss, k, s)
  BY <1>10, <1>11, <1>12 DEF EndAt
<1>14. LaidAt(ss, k, s, FlattenSeq(ss))
  BY <1>10, <1>13, FlattenAt
<1>15. \A i \in 1 .. k : \A j \in 1 .. s[i] - s[i - 1] : ss[i][j] = <<Main, i, j - 1>>
  BY <1>10
<1>16. Assembled!ConstantsLayout = FlattenSeq(ss)
  BY <1>1, <1>9
<1>17. FlattenSeq(ss) \in Seq(T)
  BY <1>10, FlattenType
<1> HIDE DEF part
<1> QED
  BY <1>14, <1>15, <1>16, <1>17 DEF ConstantsLaidAt, LaidAt, T

\* The words of the code and of the constants of a listing, by their lines.
LaidOut(k, s, c, q) ==
    /\ DOMAIN Assembled!Layout = 1 .. c + s[k]
    /\ \A i \in 1 .. c : Assembled!Layout[i] = <<Main, q[i], 0>>
    /\ \A i \in 1 .. k : \A j \in 1 .. s[i] - s[i - 1] :
          Assembled!Layout[c + (s[i - 1] + j)] = <<Main, i, j - 1>>

\* The assembler lays out the words of a listing as they were.
LEMMA RelistedLayout ==
    ASSUME NEW k \in Nat, NEW s \in [0 .. k -> Nat], NEW c \in Nat,
           NEW q \in [0 .. c -> Nat], NEW n \in Nat, Relists(k, s, c, q, n),
           AllLinesValid
    PROVE  LaidOut(k, s, c, q)
<1> DEFINE T == {Main} \X Nat \X Nat
<1>1. ConstantsLaidAt(k, s) /\ RelistedAt(k, c, q, n)
  BY RelistedConstantsLaid, RelistedPlacesAre
<1>2. PICK code, words, places : /\ code = Assembled!CodeLayout
                                 /\ words = Assembled!ConstantsLayout
                                 /\ places = Assembled!Places("command")
  OBVIOUS
<1>3. words \in Seq(T) /\ Len(words) = s[k]
  BY <1>1, <1>2 DEF ConstantsLaidAt
<1>4. code = [i \in 1 .. c |-> <<Main, q[i], 0>>]
  <2>1. code = [i \in DOMAIN places |-> Append(places[i], 0)]
    BY <1>2, Zenon DEF Assembled!CodeLayout
  <2>2. places = [i \in 1 .. c |-> <<Main, q[i]>>]
    BY <1>1, <1>2, Zenon DEF RelistedAt
  <2>3. DOMAIN places = 1 .. c /\ \A i \in 1 .. c : places[i] = <<Main, q[i]>>
    BY <2>2
  <2>4. \A i \in 1 .. c : Append(places[i], 0) = <<Main, q[i], 0>>
    BY <2>3, PairAndOne
  <2> QED
    BY <2>1, <2>3, <2>4
<1>5. code \in Seq(T) /\ Len(code) = c /\ \A i \in 1 .. c : code[i] = <<Main, q[i], 0>>
  <2>1. \A i \in 1 .. c : <<Main, q[i], 0>> \in T
    OBVIOUS
  <2> DEFINE one(i) == <<Main, q[i], 0>>
  <2>2. \A i \in 1 .. c : one(i) \in T
    BY <2>1
  <2> HIDE DEF one, T
  <2>3. \A t : t = [i \in 1 .. c |-> one(i)] =>
            t \in Seq(T) /\ Len(t) = c /\ \A i \in 1 .. c : t[i] = one(i)
    BY <2>2
  <2> QED
    BY <1>4, <2>3 DEF one
<1>6. PICK m \in Nat : m = s[k]
  OBVIOUS
<1>7. PICK layout : layout = Assembled!Layout
  OBVIOUS
<1>8. layout = code \o words
  BY <1>2, <1>7, Zenon DEF Assembled!Layout
<1> HIDE DEF T
<1>9. /\ DOMAIN layout = 1 .. c + m
      /\ \A i \in 1 .. c : layout[i] = code[i]
      /\ \A x \in 1 .. m : layout[c + x] = words[x]
  <2>1. /\ code \in Seq(T) /\ words \in Seq(T)
        /\ Len(code) = c /\ Len(words) = m
    BY <1>3, <1>5, <1>6
  <2>2. DOMAIN layout = 1 .. c + m
    <3>1. \A a, b \in Seq(T) : a \o b \in Seq(T) /\ Len(a \o b) = Len(a) + Len(b)
      OBVIOUS
    <3>2. layout \in Seq(T) /\ Len(layout) = Len(code) + Len(words)
      BY <1>8, <2>1, <3>1, Zenon
    <3>3. Len(layout) = c + m
      BY <2>1, <3>2
    <3>4. \A a \in Seq(T) : DOMAIN a = 1 .. Len(a)
      OBVIOUS
    <3> QED
      BY <3>2, <3>3, <3>4, Zenon
  <2>3. \A i \in 1 .. c : layout[i] = code[i]
    BY <1>8, <2>1
  <2>4. \A x \in 1 .. m : layout[c + x] = words[x]
    <3> TAKE x \in 1 .. m
    <3>1. c + x \in 1 .. c + m /\ ~(c + x <= c) /\ (c + x) - c = x
      OBVIOUS
    <3> QED
      BY <1>8, <2>1, <3>1
  <2> QED
    BY <2>2, <2>3, <2>4
<1>10. ASSUME NEW i \in 1 .. k, NEW j \in 1 .. s[i] - s[i - 1]
       PROVE  layout[c + (s[i - 1] + j)] = <<Main, i, j - 1>>
  <2>1. words[s[i - 1] + j] = <<Main, i, j - 1>>
    BY <1>1, <1>2 DEF ConstantsLaidAt
  <2>2. s[i - 1] \in Nat /\ s[i] \in Nat /\ s[i] <= s[k]
    BY RelistedConstant
  <2>3. s[i - 1] + j \in 1 .. m
    BY <1>6, <2>2
  <2> QED
    BY <1>9, <2>1, <2>3
<1> QED
  BY <1>5, <1>6, <1>7, <1>9, <1>10 DEF LaidOut

-----------------------------------------------------------------------------
(***************************************************************************)
(* A label gets the address it was made for.                               *)
(***************************************************************************)
\* The first word of a command, and of a value, stands at one address only.
WordsOnce(k, s, c, q) ==
    /\ \A a \in 0 .. c - 1 : \A x :
          x \in DOMAIN Assembled!Layout
              /\ Assembled!Layout[x] = <<Main, q[a + 1], 0>> <=> x = a + 1
    /\ \A i \in 1 .. k : \A x :
          x \in DOMAIN Assembled!Layout
              /\ Assembled!Layout[x] = <<Main, i, 1>> <=> x = c + s[i - 1] + 2

\* The words of a listing that labels may stand for are told apart.
LEMMA RelistedWordOnce ==
    ASSUME NEW k \in Nat, NEW s \in [0 .. k -> Nat], NEW c \in Nat,
           NEW q \in [0 .. c -> Nat], NEW n \in Nat, Relists(k, s, c, q, n),
           AllLinesValid
    PROVE  WordsOnce(k, s, c, q)
<1>1. LaidOut(k, s, c, q) /\ LineSorts(k, c, q, n)
  BY RelistedLayout, RelistedSorts
<1>2. PICK layout : layout = Assembled!Layout
  OBVIOUS
<1>3. PICK m \in Nat : m = s[k]
  OBVIOUS
<1>4. /\ DOMAIN layout = 1 .. c + m
      /\ \A i \in 1 .. c : layout[i] = <<Main, q[i], 0>>
      /\ \A i \in 1 .. k : \A j \in 1 .. s[i] - s[i - 1] :
            layout[c + (s[i - 1] + j)] = <<Main, i, j - 1>>
  BY <1>1, <1>2, <1>3 DEF LaidOut
<1>5. \A i \in 1 .. c : q[i] \in k + 1 .. n - 1
  BY <1>1 DEF LineSorts
<1>6. \A i, j \in 1 .. c : q[i] = q[j] => i = j
  BY <1>1 DEF LineSorts
<1>7. \A i \in 1 .. k : /\ s[i - 1] \in Nat /\ s[i] \in Nat /\ s[i - 1] + 1 < s[i]
                        /\ s[i] <= s[k]
  BY RelistedConstant
<1>8. s[0] = 0
  BY DEF Relists, ConstantsListed
<1>9. ASSUME NEW x \in 1 .. c + m
      PROVE  \/ x \in 1 .. c
             \/ \E i \in 1 .. k : \E j \in 1 .. s[i] - s[i - 1] : x = c + (s[i - 1] + j)
  <2>1. CASE ~(x <= c)
    <3>1. PICK y \in 1 .. m : x = c + y
      <4>1. x - c \in 1 .. m /\ x = c + (x - c)
        BY <2>1
      <4> QED
        BY <4>1
    <3>2. y \in 1 .. s[k]
      BY <1>3
    <3>3. PICK i \in 1 .. k : y \in s[i - 1] + 1 .. s[i]
      BY <1>8, <3>2, InOneConstant
    <3>4. s[i - 1] \in Nat /\ s[i] \in Nat
      BY <1>7
    <3>5. y - s[i - 1] \in 1 .. s[i] - s[i - 1] /\ y = s[i - 1] + (y - s[i - 1])
      BY <3>3, <3>4
    <3>6. x = c + (s[i - 1] + (y - s[i - 1]))
      BY <3>1, <3>5
    <3> QED
      BY <3>5, <3>6
  <2>2. CASE x <= c
    BY <2>2
  <2> QED
    BY <2>1, <2>2
<1>10. ASSUME NEW a \in 0 .. c - 1, NEW x
       PROVE  x \in DOMAIN layout /\ layout[x] = <<Main, q[a + 1], 0>> <=> x = a + 1
  <2>1. a + 1 \in 1 .. c /\ a + 1 \in 1 .. c + m
    OBVIOUS
  <2>2. layout[a + 1] = <<Main, q[a + 1], 0>>
    BY <1>4, <2>1
  <2>3. ASSUME x \in 1 .. c + m, layout[x] = <<Main, q[a + 1], 0>>
        PROVE  x = a + 1
    <3>1. CASE x \in 1 .. c
      <4>1. q[x] = q[a + 1]
        BY <1>4, <2>3, <3>1
      <4> QED
        BY <1>6, <2>1, <3>1, <4>1
    <3>2. CASE \E i \in 1 .. k : \E j \in 1 .. s[i] - s[i - 1] : x = c + (s[i - 1] + j)
      <4>1. PICK i \in 1 .. k : \E j \in 1 .. s[i] - s[i - 1] : x = c + (s[i - 1] + j)
        BY <3>2
      <4>5. PICK j \in 1 .. s[i] - s[i - 1] : x = c + (s[i - 1] + j)
        BY <4>1
      <4>2. layout[x] = <<Main, i, j - 1>>
        BY <1>4, <4>5
      <4>3. q[a + 1] = i
        BY <2>3, <4>2, SMTT(20)
      <4>4. q[a + 1] \in k + 1 .. n - 1
        BY <1>5, <2>1
      <4> QED
        BY <4>3, <4>4
    <3> QED
      BY <1>9, <2>3, <3>1, <3>2
  <2> QED
    BY <1>4, <2>1, <2>2, <2>3
<1>11. ASSUME NEW i \in 1 .. k, NEW x
       PROVE  x \in DOMAIN layout /\ layout[x] = <<Main, i, 1>> <=> x = c + s[i - 1] + 2
  <2>1. /\ s[i - 1] \in Nat /\ s[i] \in Nat /\ 2 \in 1 .. s[i] - s[i - 1]
        /\ c + s[i - 1] + 2 \in 1 .. c + m /\ c + s[i - 1] + 2 = c + (s[i - 1] + 2)
    <3>1. s[i - 1] \in Nat /\ s[i] \in Nat /\ s[i - 1] + 1 < s[i] /\ s[i] <= m
      BY <1>3, <1>7
    <3>2. PICK u, v : u = s[i - 1] /\ v = s[i]
      OBVIOUS
    <3>3. u \in Nat /\ v \in Nat /\ u + 1 < v /\ v <= m
      BY <3>1, <3>2
    <3>4. /\ 2 \in 1 .. v - u
          /\ c + u + 2 \in 1 .. c + m /\ c + u + 2 = c + (u + 2)
      BY <3>3
    <3> QED
      BY <3>1, <3>2, <3>4
  <2>2. layout[c + s[i - 1] + 2] = <<Main, i, 1>>
    <3>1. layout[c + (s[i - 1] + 2)] = <<Main, i, 2 - 1>>
      BY <1>4, <2>1
    <3>2. 2 - 1 = 1
      OBVIOUS
    <3> QED
      BY <2>1, <3>1, <3>2
  <2>3. ASSUME x \in 1 .. c + m, layout[x] = <<Main, i, 1>>
        PROVE  x = c + s[i - 1] + 2
    <3>1. CASE x \in 1 .. c
      <4>1. layout[x] = <<Main, q[x], 0>>
        BY <1>4, <3>1
      <4> QED
        BY <2>3, <4>1
    <3>2. CASE \E r \in 1 .. k : \E j \in 1 .. s[r] - s[r - 1] : x = c + (s[r - 1] + j)
      <4>1. PICK r \in 1 .. k : \E j \in 1 .. s[r] - s[r - 1] : x = c + (s[r - 1] + j)
        BY <3>2
      <4>6. PICK j \in 1 .. s[r] - s[r - 1] : x = c + (s[r - 1] + j)
        BY <4>1
      <4>2. layout[x] = <<Main, r, j - 1>>
        BY <1>4, <4>6
      <4>3. r = i /\ j - 1 = 1
        BY <2>3, <4>2
      <4>4. j = 2
        BY <4>3
      <4>5. x = c + (s[i - 1] + 2)
        BY <4>6, <4>3, <4>4
      <4> QED
        BY <2>1, <4>5
    <3> QED
      BY <1>9, <2>3, <3>1, <3>2
  <2> QED
    BY <1>4, <2>1, <2>2, <2>3
<1> QED
  BY <1>2, <1>10, <1>11, Zenon DEF WordsOnce

\* The label of an item is assembled to the address it was made for.
LEMMA RelistedAddress ==
    ASSUME NEW k \in Nat, NEW s \in [0 .. k -> Nat], NEW c \in Nat,
           NEW q \in [0 .. c -> Nat], NEW n \in Nat, Relists(k, s, c, q, n),
           AllLinesValid, NEW a, IsItem(k, s, c, a), LabelOf(a) # NoLabel
    PROVE  Assembled!LabelAddress(LabelOf(a)) = a
<1> DEFINE l == LabelOf(a)
           wordOf(p) == IF Assembled!LineAt(p).item = "command" THEN 0 ELSE 1
           IsWord(i, p) == /\ i \in DOMAIN Assembled!Layout
                           /\ Assembled!Layout[i] = Append(p, wordOf(p))
           IsPlace(p) == p \in Assembled!Defined(l)
           place == CHOOSE p : IsPlace(p)
<1>1. Assembled!LabelAddress(l) = (CHOOSE i : IsWord(i, place)) - 1
  BY Zenon DEF Assembled!LabelAddress
<1>2. PICK p : l \in Labels /\ p \in Assembled!Defined(l) /\ ItemAt(k, s, c, q, a, p)
  <2> HIDE DEF l
  <2> QED
    BY RelistedDefinition, Zenon DEF l
<1>3. place = p
  <2>1. IsPlace(place)
    <3>1. \E x : IsPlace(x)
      BY <1>2
    <3> HIDE DEF IsPlace
    <3> QED
      BY <3>1, Zenon
  <2> HIDE DEF place
  <2> QED
    BY <1>2, <2>1, RelistedDefinedOnce
<1>4. LineSorts(k, c, q, n) /\ text \in Seq(Line)
  BY RelistedSorts DEF Relists
<1>5. \A m \in 1 .. n : Assembled!LineAt(<<Main, m>>).item = text[m].item
  BY <1>4, SeenLines DEF LineSorts
<1>8. WordsOnce(k, s, c, q)
  BY RelistedWordOnce
<1> HIDE DEF place, l
<1>6. CASE a \in 0 .. c - 1 /\ p = <<Main, q[a + 1]>>
  <2>1. a + 1 \in 1 .. c
    BY <1>6
  <2>2. q[a + 1] \in k + 1 .. n - 1 /\ text[q[a + 1]].item = "command"
    BY <1>4, <2>1 DEF LineSorts
  <2>3. q[a + 1] \in 1 .. n
    BY <2>2
  <2>4. wordOf(p) = 0
    BY <1>5, <1>6, <2>2, <2>3
  <2>5. Append(p, wordOf(p)) = <<Main, q[a + 1], 0>>
    BY <1>6, <2>4, PairAndOne
  <2> HIDE DEF wordOf
  <2>6. \A x : IsWord(x, p) <=> x = a + 1
    BY <1>6, <1>8, <2>5, Zenon DEF WordsOnce
  <2> HIDE DEF IsWord
  <2>7. (CHOOSE i : IsWord(i, p)) = a + 1
    BY <2>6
  <2>8. Assembled!LabelAddress(l) = (a + 1) - 1
    BY <1>1, <1>3, <2>7
  <2> QED
    BY <1>6, <2>8 DEF l
<1>7. CASE \E i \in 1 .. k : a = c + s[i - 1] + 1 /\ p = <<Main, i>>
  <2>1. PICK i \in 1 .. k : a = c + s[i - 1] + 1 /\ p = <<Main, i>>
    BY <1>7
  <2>2. i \in 1 .. n /\ text[i].item = "constant"
    BY <1>4 DEF LineSorts
  <2>3. wordOf(p) = 1
    BY <1>5, <2>1, <2>2
  <2>4. Append(p, wordOf(p)) = <<Main, i, 1>>
    BY <2>1, <2>3, PairAndOne
  <2> HIDE DEF wordOf
  <2>5. \A x : IsWord(x, p) <=> x = c + s[i - 1] + 2
    BY <1>8, <2>4, Zenon DEF WordsOnce
  <2> HIDE DEF IsWord
  <2>6. (CHOOSE x : IsWord(x, p)) = c + s[i - 1] + 2
    BY <2>5
  <2>7. s[i - 1] \in Nat
    BY RelistedConstant
  <2>8. Assembled!LabelAddress(l) = (c + s[i - 1] + 2) - 1
    BY <1>1, <1>3, <2>6
  <2>9. (c + s[i - 1] + 2) - 1 = c + s[i - 1] + 1
    BY <2>7
  <2> QED
    BY <2>1, <2>8, <2>9 DEF l
<1> QED
  BY <1>2, <1>6, <1>7 DEF ItemAt

-----------------------------------------------------------------------------
(***************************************************************************)
(* The words, the entrypoint and the constants of a listing.               *)
(***************************************************************************)
\* What is assembled from the line of a command is its word again, as far as
\* the executor sees it.
LEMMA RelistedWord ==
    ASSUME NEW k \in Nat, NEW s \in [0 .. k -> Nat], NEW c \in Nat,
           NEW q \in [0 .. c -> Nat], NEW n \in Nat, Relists(k, s, c, q, n),
           AllLinesValid, data.entrypoint \in 0 .. c - 1, NEW i \in 1 .. c
    PROVE  Meaning(CommandOf(<<Main, q[i]>>)) = Meaning(data.code[i])
<1>1. PICK w : w = data.code[i]
  OBVIOUS
<1>2. w \in Words /\ Known(w)
  <2>1. data.code \in Seq(Words) /\ c = Len(data.code) /\ \A x \in ToSet(data.code) : Known(x)
    BY DEF Relists, Data
  <2>2. i \in DOMAIN data.code
    BY <2>1
  <2> QED
    BY <1>1, <2>1, <2>2 DEF ToSet
<1>3. Meaning(w) \in Operands
  BY <1>2, MeaningType
<1>4. PICK m : m = Meaning(w)
  OBVIOUS
<1>5. /\ LineSorts(k, c, q, n) /\ text \in Seq(Line) /\ RelistedIn(k, c, q, n)
      /\ LabelsTell(k, s, c)
  BY RelistedSorts, RelistedLines, RelistedLabels DEF Relists
<1>6. PICK line : line = text[q[i]]
  OBVIOUS
<1>7. PICK label : label = LabelOf(m.arg)
  OBVIOUS
<1>8. /\ line.code = m.code /\ line.reg = m.reg /\ line.src = m.src
      /\ IF m.code \in UsesAddress \ IgnoresAddress /\ label # NoLabel
         THEN line.use = label
         ELSE line.use = NoLabel /\ line.num = m.arg
  <2>1. line = CommandBy(w, label)
    BY <1>1, <1>4, <1>5, <1>6, <1>7 DEF RelistedIn
  <2> QED
    BY <1>2, <1>4, <2>1, RelistedCommand
<1>9. q[i] \in 1 .. n /\ line.item = "command" /\ LineIsValid(line)
  <2>1. q[i] \in 1 .. n /\ DOMAIN text = 1 .. n /\ line.item = "command"
    BY <1>5, <1>6 DEF LineSorts
  <2> QED
    BY <1>6, <2>1 DEF AllLinesValid
<1>10. PICK p : p = <<Main, q[i]>> /\ p[2] = q[i]
  <2>1. <<Main, q[i]>>[2] = q[i]
    OBVIOUS
  <2> QED
    BY <2>1
<1>11. /\ Assembled!LineAt(p).use = line.use
       /\ line.code \in UsesAddress => Assembled!LineAt(p).arg = line.num
  <2>1. Assembled!LineAt(p) = Parsed(line)
    <3>1. Len(text) = n
      BY <1>5 DEF LineSorts
    <3>2. \A x \in 1 .. Len(text) : /\ SourceOf(text)[Main].lines[x] = Parsed(text[x])
                                    /\ Assembled!LineAt(<<Main, x>>)
                                         = SourceOf(text)[Main].lines[x]
      BY <1>5, SeenLines
    <3> QED
      BY <1>6, <1>9, <1>10, <3>1, <3>2
  <2> QED
    BY <1>9, <2>1, ParsedLine
<1>12. Assembled!Operand(p) = IF Assembled!LineAt(p).use = NoLabel
                              THEN Assembled!LineAt(p).arg
                              ELSE Assembled!LabelAddress(Assembled!LineAt(p).use)
  BY Zenon DEF Assembled!Operand
<1>13. PICK arg : arg = IF line.code \in UsesAddress THEN Assembled!Operand(p) ELSE line.num
  OBVIOUS
<1>14. arg = m.arg
  <2>1. CASE m.code \in UsesAddress \ IgnoresAddress /\ label # NoLabel
    <3>1. IsItem(k, s, c, m.arg)
      BY <1>5, <1>7, <2>1, Zenon DEF LabelsTell
    <3>2. Assembled!LabelAddress(LabelOf(m.arg)) = m.arg
      BY <1>7, <2>1, <3>1, RelistedAddress
    <3>3. Assembled!Operand(p) = m.arg
      BY <1>7, <1>8, <1>11, <1>12, <2>1, <3>2
    <3> QED
      BY <1>8, <1>13, <2>1, <3>3
  <2>2. CASE ~(m.code \in UsesAddress \ IgnoresAddress /\ label # NoLabel)
    <3>1. line.use = NoLabel /\ line.num = m.arg
      BY <1>8, <2>2
    <3> QED
      BY <1>11, <1>12, <1>13, <3>1
  <2> QED
    BY <2>1, <2>2
<1>15. CommandOf(p) = CommandWord(line, arg)
  BY <1>6, <1>10, <1>13 DEF CommandOf
<1>16. CommandWord(line, arg) = Build(m)
  <2>1. m = [code |-> line.code, reg |-> line.reg, src |-> line.src, arg |-> arg]
    BY <1>3, <1>4, <1>8, <1>14 DEF Operands
  <2> QED
    BY <2>1 DEF CommandWord
<1>17. Meaning(Build(m)) = m
  BY <1>2, <1>4, RebuiltCommandsMeanTheSame
<1> QED
  BY <1>1, <1>4, <1>10, <1>15, <1>16, <1>17

\* The program starts where it started.
LEMMA RelistedStart ==
    ASSUME NEW k \in Nat, NEW s \in [0 .. k -> Nat], NEW c \in Nat,
           NEW q \in [0 .. c -> Nat], NEW n \in Nat, Relists(k, s, c, q, n),
           AllLinesValid, data.entrypoint \in 0 .. c - 1
    PROVE  Assembled!Operand(Assembled!Places("end")[1]) = data.entrypoint
<1>1. RelistedUses(n) /\ RelistedAt(k, c, q, n) /\ LabelsTell(k, s, c)
  BY RelistedUsesAre, RelistedPlacesAre, RelistedLabels
<1>2. Assembled!Places("end")[1] = <<Main, n>>
  <2>1. Assembled!Places("end") = [i \in 1 .. 1 |-> <<Main, n>>]
    BY <1>1, Zenon DEF RelistedAt
  <2> QED
    BY <2>1
<1>3. Assembled!LineAt(<<Main, n>>).use = MainLabel /\ MainLabel # NoLabel
  BY <1>1, LinesAssumption, LabelNamesAssumption DEF RelistedUses
<1>4. Assembled!Operand(<<Main, n>>) = Assembled!LabelAddress(MainLabel)
  BY <1>3, Zenon DEF Assembled!Operand
<1>5. LabelOf(data.entrypoint) = MainLabel
  BY <1>1, Zenon DEF LabelsTell, CommandLabelsTell
<1>6. IsItem(k, s, c, data.entrypoint)
  BY Zenon DEF IsItem
<1>7. Assembled!LabelAddress(LabelOf(data.entrypoint)) = data.entrypoint
  BY <1>3, <1>5, <1>6, RelistedAddress
<1> QED
  BY <1>2, <1>4, <1>5, <1>7

\* t is x and behind it v
StartsBehind(t, x, v) == t[1] = x /\ \A j \in 1 .. Len(v) : t[1 + j] = v[j]

\* A sequence behind one element.
LEMMA BehindOne ==
    ASSUME NEW T, NEW x, NEW v \in Seq(T), NEW t, t = <<x>> \o v
    PROVE  StartsBehind(t, x, v)
<1>1. PICK U : U = T \cup {x}
  OBVIOUS
<1>2. PICK e : e = <<x>>
  OBVIOUS
<1>3. e \in Seq(U) /\ Len(e) = 1 /\ e[1] = x
  BY <1>1, <1>2
<1>4. v \in Seq(U)
  BY <1>1
<1>5. t = e \o v
  BY <1>2
<1>6. \A a, b \in Seq(U) : \A i \in 1 .. Len(a) : (a \o b)[i] = a[i]
  OBVIOUS
<1>7. \A a, b \in Seq(U) : \A i \in 1 .. Len(b) : (a \o b)[Len(a) + i] = b[i]
  OBVIOUS
<1>8. t[1] = e[1]
  <2>1. 1 \in 1 .. Len(e)
    BY <1>3
  <2> QED
    BY <1>3, <1>4, <1>5, <1>6, <2>1
<1>9. \A i \in 1 .. Len(v) : t[Len(e) + i] = v[i]
  BY <1>3, <1>4, <1>5, <1>7, Zenon
<1> QED
  BY <1>3, <1>8, <1>9 DEF StartsBehind

\* What the constants of a listing are assembled to: the types again, and the
\* words of their values as they are read.
ConstantsAssembled(k, s) ==
    /\ Len(AssembledData.constants) = s[k]
    /\ \A i \in 1 .. k :
          /\ AssembledData.constants[s[i - 1] + 1] = TypeAt(s, i)
          /\ \A j \in 1 .. s[i] - s[i - 1] - 1 :
                AssembledData.constants[s[i - 1] + 1 + j] = ValueWords(text[i])[j]

\* The constants of a listing are assembled in their places.
LEMMA RelistedConstants ==
    ASSUME NEW k \in Nat, NEW s \in [0 .. k -> Nat], NEW c \in Nat,
           NEW q \in [0 .. c -> Nat], NEW n \in Nat, Relists(k, s, c, q, n),
           AllLinesValid
    PROVE  ConstantsAssembled(k, s)
<1>1. ConstantsLaidAt(k, s)
  BY RelistedConstantsLaid
<1>2. PICK words : words = Assembled!ConstantsLayout
  OBVIOUS
<1>3. /\ words \in Seq({Main} \X Nat \X Nat) /\ Len(words) = s[k]
      /\ \A i \in 1 .. k : \A j \in 1 .. s[i] - s[i - 1] :
            words[s[i - 1] + j] = <<Main, i, j - 1>>
  BY <1>1, <1>2 DEF ConstantsLaidAt
<1>4. PICK made : made = AssembledData.constants
  OBVIOUS
<1>5. made = [x \in DOMAIN words |-> WordOf(words[x])]
  <2>1. text \in Seq(Line)
    BY DEF Relists
  <2> QED
    BY <1>2, <1>4, <2>1, AssembledParts
<1>6. PICK m \in Nat : m = s[k] /\ DOMAIN words = 1 .. m
  BY <1>3
<1>7. Len(made) = m
  BY <1>5, <1>6
<1>8. ASSUME NEW i \in 1 .. k, NEW j \in 1 .. s[i] - s[i - 1]
      PROVE  made[s[i - 1] + j] = (<<text[i].type>> \o ValueWords(text[i]))[j]
  <2>1. s[i - 1] \in Nat /\ s[i] \in Nat /\ s[i] <= s[k]
    BY RelistedConstant
  <2>2. s[i - 1] + j \in 1 .. m
    BY <1>6, <2>1
  <2>3. made[s[i - 1] + j] = WordOf(<<Main, i, j - 1>>)
    BY <1>3, <1>5, <1>6, <2>2
  <2>4. PICK o : o = <<Main, i, j - 1>> /\ o[2] = i /\ o[3] = j - 1
    <3>1. <<Main, i, j - 1>>[2] = i /\ <<Main, i, j - 1>>[3] = j - 1
      OBVIOUS
    <3> QED
      BY <3>1
  <2>5. WordOf(o) = (<<text[i].type>> \o ValueWords(text[i]))[o[3] + 1]
    BY <2>4, Zenon DEF WordOf
  <2>6. o[3] + 1 = j
    BY <2>4
  <2> QED
    BY <2>3, <2>4, <2>5, <2>6
<1>9. ASSUME NEW i \in 1 .. k
      PROVE  /\ made[s[i - 1] + 1] = TypeAt(s, i)
             /\ \A j \in 1 .. s[i] - s[i - 1] - 1 :
                   made[s[i - 1] + 1 + j] = ValueWords(text[i])[j]
  <2>1. /\ s[i - 1] \in Nat /\ s[i] \in Nat /\ s[i - 1] + 1 < s[i]
        /\ Len(ValueAt(s, i)) = s[i] - s[i - 1] - 1
        /\ ReadsBack(TypeAt(s, i), ValueAt(s, i), text[i])
        /\ text[i].type = TypeAt(s, i)
    BY RelistedConstant
  <2>2. PICK v : v = ValueWords(text[i])
    OBVIOUS
  <2>3. PICK l \in Nat : l = s[i] - s[i - 1] - 1
    BY <2>1
  <2>4. v \in Seq(Words) /\ Len(v) = l
    BY <2>1, <2>2, <2>3 DEF ReadsBack
  <2>5. PICK t : t = <<text[i].type>> \o v
    OBVIOUS
  <2>6. t[1] = text[i].type /\ \A j \in 1 .. l : t[1 + j] = v[j]
    <3>1. StartsBehind(t, text[i].type, v)
      BY <2>4, <2>5, BehindOne, Zenon
    <3> QED
      BY <2>4, <3>1 DEF StartsBehind
  <2>7. 1 \in 1 .. s[i] - s[i - 1]
    BY <2>1
  <2>8. made[s[i - 1] + 1] = t[1]
    BY <1>8, <2>2, <2>5, <2>7
  <2>9. ASSUME NEW j \in 1 .. l
        PROVE  made[s[i - 1] + 1 + j] = v[j]
    <3>1. 1 + j \in 1 .. s[i] - s[i - 1] /\ s[i - 1] + (1 + j) = s[i - 1] + 1 + j
      <4>1. PICK a, b : a = s[i - 1] /\ b = s[i]
        OBVIOUS
      <4>2. a \in Nat /\ b \in Nat /\ a + 1 < b /\ l = b - a - 1
        BY <2>1, <2>3, <4>1
      <4>3. 1 + j \in 1 .. b - a /\ a + (1 + j) = a + 1 + j
        BY <4>2
      <4> QED
        BY <4>1, <4>3
    <3>2. made[s[i - 1] + (1 + j)] = t[1 + j]
      BY <1>8, <2>2, <2>5, <3>1
    <3> QED
      BY <2>6, <3>1, <3>2
  <2> QED
    BY <2>1, <2>2, <2>3, <2>6, <2>8, <2>9
<1> QED
  BY <1>4, <1>6, <1>7, <1>9, Zenon DEF ConstantsAssembled

\* the original is what the listing was made of
OriginalIs ==
    /\ text = listing
    /\ original = [data |-> data, constantLabels |-> constantLabels,
                   listing |-> listing]

\* The constants of a listing start, and have the types, where and as those of
\* the program it was made of.
StartsTold(k, s) ==
    /\ \A x : x \in OriginalStarts <=> \E i \in 1 .. k : x = s[i - 1] + 2
    /\ \A i \in 1 .. k : \A j \in 1 .. s[i] - s[i - 1] - 1 :
          /\ OriginalType(s[i - 1] + 1 + j) = TypeAt(s, i)
          /\ OriginalStart(s[i - 1] + 1 + j) = s[i - 1] + 2

\* What the labels of the original tell of its constants is so.
LEMMA RelistedStarts ==
    ASSUME NEW k \in Nat, NEW s \in [0 .. k -> Nat], NEW c \in Nat,
           NEW q \in [0 .. c -> Nat], NEW n \in Nat, Relists(k, s, c, q, n),
           OriginalIs
    PROVE  StartsTold(k, s)
<1>1. /\ original.data = data /\ original.constantLabels = constantLabels
      /\ original.listing = text
  BY DEF OriginalIs
<1>2. /\ c = Len(data.code)
      /\ DOMAIN constantLabels = {c + s[i - 1] + 1 : i \in 1 .. k}
      /\ \A i \in 1 .. k : constantLabels[c + s[i - 1] + 1] = Numbered("constant", i)
      /\ \A i, j \in 0 .. k : i < j => s[i] < s[j]
  BY DEF Relists, ConstantsListed
<1>3. \A i \in 1 .. k : /\ s[i - 1] \in Nat /\ s[i] \in Nat /\ s[i - 1] + 1 < s[i]
                        /\ text[i].type = TypeAt(s, i)
  BY RelistedConstant
<1>4. OriginalStarts = {a - c + 1 : a \in DOMAIN constantLabels}
  BY <1>1, <1>2, Zenon DEF OriginalStarts
<1>5. ASSUME NEW x
      PROVE  x \in OriginalStarts <=> \E i \in 1 .. k : x = s[i - 1] + 2
  <2>1. x \in OriginalStarts <=> \E i \in 1 .. k : x = (c + s[i - 1] + 1) - c + 1
    BY <1>2, <1>4, Zenon
  <2>2. \A i \in 1 .. k : (c + s[i - 1] + 1) - c + 1 = s[i - 1] + 2
    BY <1>3
  <2> QED
    BY <2>1, <2>2
<1>6. ASSUME NEW i \in 1 .. k, NEW j \in 1 .. s[i] - s[i - 1] - 1
      PROVE  /\ OriginalType(s[i - 1] + 1 + j) = TypeAt(s, i)
             /\ OriginalStart(s[i - 1] + 1 + j) = s[i - 1] + 2
  <2> DEFINE x == s[i - 1] + 1 + j
             before == {y \in OriginalStarts : y <= x}
             start == s[i - 1] + 2
             label(y) == original.constantLabels[Len(original.data.code) + y - 1]
  <2>1. /\ OriginalStart(x) = Max(before)
        /\ OriginalType(x) = original.listing[label(Max(before))[2]].type
    BY Zenon DEF OriginalType, OriginalStart
  <2>2. PICK a, b : a = s[i - 1] /\ b = s[i]
    OBVIOUS
  <2>3. a \in Nat /\ b \in Nat /\ a + 1 < b /\ j \in 1 .. b - a - 1
    BY <1>3, <2>2
  <2>4. start \in Int /\ start <= x /\ x <= b
    <3>1. a + 2 \in Int /\ a + 2 <= a + 1 + j /\ a + 1 + j <= b
      BY <2>3
    <3> QED
      BY <2>2, <3>1
  <2>5. start \in before
    BY <1>5, <2>4
  <2>6. ASSUME NEW y \in before
        PROVE  y \in Int /\ y <= start
    <3>1. PICK m \in 1 .. k : y = s[m - 1] + 2 /\ y <= x
      BY <1>5
    <3>2. s[m - 1] \in Nat
      BY <1>3
    <3>3. CASE m <= i
      <4>1. m - 1 \in 0 .. k /\ i - 1 \in 0 .. k
        OBVIOUS
      <4>2. m - 1 = i - 1 \/ m - 1 < i - 1
        BY <3>3
      <4>3. s[m - 1] = a \/ s[m - 1] < a
        BY <1>2, <2>2, <4>1, <4>2
      <4>4. PICK d : d = s[m - 1]
        OBVIOUS
      <4>5. d \in Nat /\ y = d + 2 /\ (d = a \/ d < a)
        BY <3>1, <3>2, <4>3, <4>4
      <4>6. y \in Int /\ y <= a + 2
        BY <2>3, <4>5
      <4> QED
        BY <2>2, <4>6
    <3>4. CASE m > i
      <4>1. m - 1 \in 0 .. k /\ i \in 0 .. k
        OBVIOUS
      <4>2. m - 1 = i \/ i < m - 1
        BY <3>4
      <4>3. s[m - 1] = b \/ b < s[m - 1]
        BY <1>2, <2>2, <4>1, <4>2
      <4>4. x \in Int /\ x <= b /\ s[m - 1] + 2 <= x
        <5>1. a + 1 + j \in Int
          BY <2>3
        <5> QED
          BY <2>2, <2>4, <3>1, <5>1
      <4>5. FALSE
        <5>1. PICK d, e : d = s[m - 1] /\ e = x
          OBVIOUS
        <5>2. /\ d \in Nat /\ e \in Int /\ e <= b /\ d + 2 <= e
              /\ d = b \/ b < d
          BY <3>2, <4>3, <4>4, <5>1
        <5> QED
          BY <2>3, <5>2
      <4> QED
        BY <4>5
    <3> QED
      BY <3>3, <3>4
  <2>7. Max(before) = start
    <3> HIDE DEF before, start
    <3>1. Max(before) = CHOOSE y \in before : \A z \in before : y >= z
      BY Zenon DEF Max
    <3>2. PICK y : y = CHOOSE u \in before : \A z \in before : u >= z
      OBVIOUS
    <3>3. \E u \in before : \A z \in before : u >= z
      BY <2>4, <2>5, <2>6
    <3>4. y \in before /\ \A z \in before : y >= z
      BY <3>2, <3>3
    <3>5. y = start
      BY <2>4, <2>5, <2>6, <3>4
    <3> QED
      BY <3>1, <3>2, <3>5
  <2>8. label(start) = Numbered("constant", i)
    <3>1. c + start - 1 = c + s[i - 1] + 1
      <4>1. c \in Nat /\ a \in Nat /\ c + (a + 2) - 1 = c + a + 1
        BY <2>3
      <4> QED
        BY <2>2, <4>1
    <3>2. label(start) = constantLabels[c + start - 1]
      BY <1>1, <1>2, Zenon
    <3> HIDE DEF start
    <3> QED
      BY <1>2, <3>1, <3>2, Zenon
  <2>9. Numbered("constant", i)[2] = i
    BY DEF Numbered
  <2> HIDE DEF label, before
  <2>10. OriginalType(x) = text[i].type /\ OriginalStart(x) = start
    <3> HIDE DEF start
    <3> QED
      BY <1>1, <2>1, <2>7, <2>8, <2>9, Zenon
  <2> QED
    BY <1>3, <2>10
<1> QED
  BY <1>5, <1>6, Zenon DEF StartsTold

\* What one word of a constant is read as.
LEMMA WordReadAs ==
    ASSUME NEW t \in Types, NEW v, NEW line, ReadsBack(t, v, line), NEW j \in DOMAIN v
    PROVE  CASE t = DoubleType -> ValueWords(line)[j] = Split(Digits(Double(v)))[j]
             [] t \in {CharType, StringType} ->
                   ValueWords(line)[j] = CharToWord(WordToChar(v[j]), WordCount)
             [] OTHER -> ValueWords(line)[j] = v[j]
<1>1. CASE t = DoubleType
  BY <1>1 DEF ReadsBack, DoubleType, CharType, StringType
<1>2. CASE t \in {CharType, StringType}
  BY <1>2 DEF ReadsBack, DoubleType, CharType, StringType
<1>3. CASE t \in {Uint32Type, Uint64Type}
  BY <1>3 DEF ReadsBack, Uint32Type, Uint64Type, DoubleType, CharType, StringType
<1> QED
  BY <1>1, <1>2, <1>3 DEF Types, Uint32Type, Uint64Type, DoubleType, CharType, StringType

\* Every word of the constants, assembled from a listing, is the one of the
\* original as far as the listing tells.
LEMMA RelistedSameWords ==
    ASSUME NEW k \in Nat, NEW s \in [0 .. k -> Nat], NEW c \in Nat,
           NEW q \in [0 .. c -> Nat], NEW n \in Nat, Relists(k, s, c, q, n),
           AllLinesValid, OriginalIs, data' = AssembledData, original' = original,
           NEW x \in 1 .. s[k]
    PROVE  SameConstantWord(x)'
<1>1. StartsTold(k, s) /\ ConstantsAssembled(k, s)
  BY RelistedStarts, RelistedConstants
<1>2. original.data = data /\ original.listing = text
  BY DEF OriginalIs
<1> DEFINE new == AssembledData.constants[x]
           old == data.constants[x]
           told(t) == CASE t = DoubleType -> new = PrintedWord(x)
                        [] t \in {CharType, StringType} ->
                              new = CharToWord(WordToChar(old), WordCount)
                        [] OTHER -> new = old
<1>3. SameConstantWord(x)' <=> IF x + 1 \in OriginalStarts THEN new = old
                               ELSE told(OriginalType(x))
  <2>1. /\ OriginalStarts' = OriginalStarts /\ OriginalType(x)' = OriginalType(x)
        /\ PrintedWord(x)' = PrintedWord(x)
    BY DEF OriginalStarts, OriginalStart, OriginalType, PrintedWord
  <2> QED
    BY <1>2, <2>1, Zenon DEF SameConstantWord
<1>4. s[0] = 0
  BY DEF Relists, ConstantsListed
<1>5. PICK i \in 1 .. k : x \in s[i - 1] + 1 .. s[i]
  BY <1>4, InOneConstant
<1>6. \A m \in 1 .. k : s[m - 1] \in Nat
  BY RelistedConstant
<1>7. /\ s[i - 1] \in Nat /\ s[i] \in Nat /\ s[i - 1] + 1 < s[i]
      /\ IsValue(TypeAt(s, i), ValueAt(s, i))
      /\ Len(ValueAt(s, i)) = s[i] - s[i - 1] - 1
      /\ \A j \in 1 .. s[i] - s[i - 1] - 1 :
            ValueAt(s, i)[j] = data.constants[s[i - 1] + 1 + j]
      /\ text[i].type = TypeAt(s, i)
      /\ ReadsBack(TypeAt(s, i), ValueAt(s, i), text[i])
  BY RelistedConstant
<1>8. \A m \in 1 .. k : x = s[m - 1] + 1 => new = old
  BY <1>1 DEF ConstantsAssembled, TypeAt
<1>9. CASE x + 1 \in OriginalStarts
  <2>1. PICK m \in 1 .. k : x + 1 = s[m - 1] + 2
    BY <1>1, <1>9, Zenon DEF StartsTold
  <2>2. x = s[m - 1] + 1
    BY <1>6, <2>1
  <2> QED
    BY <1>3, <1>8, <1>9, <2>2
<1>10. CASE x + 1 \notin OriginalStarts
  <2>1. x # s[i - 1] + 1
    <3>1. x = s[i - 1] + 1 => x + 1 = s[i - 1] + 2
      BY <1>7, SMTT(20)
    <3> QED
      BY <1>1, <1>10, <3>1, Zenon DEF StartsTold
  <2>2. PICK j \in 1 .. s[i] - s[i - 1] - 1 : x = s[i - 1] + 1 + j
    <3>1. PICK a, b : a = s[i - 1] /\ b = s[i]
      OBVIOUS
    <3>2. a \in Nat /\ b \in Nat /\ x \in a + 1 .. b /\ x # a + 1
      BY <1>5, <1>7, <2>1, <3>1
    <3>3. x - a - 1 \in 1 .. b - a - 1 /\ x = a + 1 + (x - a - 1)
      BY <3>2
    <3> QED
      BY <3>1, <3>3
  <2>3. OriginalType(x) = TypeAt(s, i) /\ OriginalStart(x) = s[i - 1] + 2
    BY <1>1, <2>2, Zenon DEF StartsTold
  <2>4. new = ValueWords(text[i])[j]
    BY <1>1, <2>2, Zenon DEF ConstantsAssembled
  <2>5. old = ValueAt(s, i)[j]
    BY <1>7, <2>2
  <2>6. TypeAt(s, i) \in Types /\ j \in DOMAIN ValueAt(s, i)
    BY <1>7 DEF IsValue
  <2>7. ASSUME TypeAt(s, i) = DoubleType
        PROVE  PrintedWord(x) = Split(Digits(Double(ValueAt(s, i))))[j]
    <3>1. PICK a, v, w : a = s[i - 1] /\ v = ValueAt(s, i) /\ w = data.constants
      OBVIOUS
    <3>2. v[1] = w[a + 2] /\ v[2] = w[a + 2 + 1]
      <4>1. PICK m : m = s[i] - s[i - 1] - 1
        OBVIOUS
      <4>2. Len(v) = m /\ \A e \in 1 .. m : v[e] = w[a + 1 + e]
        BY <1>7, <3>1, <4>1, Zenon
      <4>3. m = 2
        BY <1>7, <2>7, <3>1, <4>2, Zenon DEF IsValue
      <4>4. /\ 1 \in 1 .. m /\ 2 \in 1 .. m
            /\ a + 1 + 1 = a + 2 /\ a + 1 + 2 = a + 2 + 1
        <5>1. a \in Nat
          BY <1>7, <3>1
        <5> QED
          BY <4>3, <5>1
      <4> QED
        BY <4>2, <4>4, Zenon
    <3>3. OriginalStart(x) = a + 2 /\ x - (a + 2) + 1 = j
      <4>1. OriginalStart(x) = a + 2
        BY <2>3, <3>1
      <4>2. a \in Nat /\ j \in Int /\ x = a + 1 + j
        BY <1>7, <2>2, <3>1
      <4> QED
        BY <4>1, <4>2
    <3>4. Double(<<w[a + 2], w[a + 2 + 1]>>) = Double(v)
      BY <3>2 DEF Double
    <3> QED
      BY <1>2, <3>1, <3>3, <3>4, Zenon DEF PrintedWord
  <2> HIDE DEF new, old
  <2>8. told(TypeAt(s, i))
    BY <1>7, <2>4, <2>5, <2>6, <2>7, WordReadAs
  <2> HIDE DEF told
  <2> QED
    BY <1>3, <1>10, <2>3, <2>8
<1> QED
  BY <1>9, <1>10

-----------------------------------------------------------------------------
(***************************************************************************)
(* The program of a listing is the program that was listed.                *)
(***************************************************************************)
\* the text is the listing of the data
IsRelisted ==
    \E k \in Nat : \E s \in [0 .. k -> Nat] : \E c \in Nat : \E q \in [0 .. c -> Nat] :
        \E n \in Nat : Relists(k, s, c, q, n)

\* A finished listing that is compiled is one of its data.
LEMMA ListedIsRelisted ==
    ASSUME text \in Seq(Line), data \in Data, FitsMemory(data),
           \A w \in ToSet(data.code) : Known(w), commandLabels = CommandLabels,
           ListingOf(data, constantLabels, commandLabels, text)
    PROVE  IsRelisted
<1>1. PICK k \in Nat, l \in Nat :
        /\ ConstantsUpTo(data, constantLabels, text, k, Len(data.constants))
        /\ CommandsUpTo(data, constantLabels, commandLabels, text, k, Len(data.code), l)
        /\ Len(text) = l + 1 /\ text[l + 1] = EndMain
  BY DEF ListingOf
<1>2. PICK s \in [0 .. k -> Nat] :
         s[k] = Len(data.constants) /\ ConstantsListed(data, constantLabels, text, k, s)
  BY <1>1, Zenon DEF ConstantsUpTo
<1>3. PICK c \in Nat : c = Len(data.code)
  BY SegmentSizes
<1>4. PICK q \in [0 .. c -> Nat] :
         q[c] = l /\ CommandsListed(data, constantLabels, commandLabels, text, k, c, q)
  BY <1>1, <1>3, Zenon DEF CommandsUpTo
<1>5. l + 1 \in Nat
  OBVIOUS
<1>6. Relists(k, s, c, q, l + 1)
  BY <1>1, <1>2, <1>3, <1>4 DEF Relists
<1> QED
  BY <1>5, <1>6, Zenon DEF IsRelisted

\* Commands and constants that are assembled from a listing.
SameProgram ==
    LET first == original.data
    IN  /\ first.entrypoint < Len(first.code) /\ data.entrypoint = first.entrypoint
        /\ Len(data.code) = Len(first.code)
        /\ \A i \in DOMAIN first.code :
              Meaning(data.code[i]) = Meaning(first.code[i])
        /\ Len(data.constants) = Len(first.constants)
        /\ \A i \in DOMAIN first.constants : SameConstantWord(i)

\* A listing that is accepted is compiled to the same program.
LEMMA RelistedCompiles ==
    ASSUME IsRelisted, OriginalIs, Accepted, data' = AssembledData, original' = original
    PROVE  SameProgram'
<1>1. PICK k \in Nat : \E s \in [0 .. k -> Nat] : \E c \in Nat :
              \E q \in [0 .. c -> Nat] : \E n \in Nat : Relists(k, s, c, q, n)
  BY Zenon DEF IsRelisted
<1>2. PICK s \in [0 .. k -> Nat] : \E c \in Nat :
              \E q \in [0 .. c -> Nat] : \E n \in Nat : Relists(k, s, c, q, n)
  BY <1>1, Zenon
<1>3. PICK c \in Nat : \E q \in [0 .. c -> Nat] : \E n \in Nat : Relists(k, s, c, q, n)
  BY <1>2, Zenon
<1>4. PICK q \in [0 .. c -> Nat] : \E n \in Nat : Relists(k, s, c, q, n)
  BY <1>3, Zenon
<1>5. PICK n \in Nat : Relists(k, s, c, q, n)
  BY <1>4, Zenon
<1>6. /\ text \in Seq(Line) /\ data \in Data /\ c = Len(data.code)
      /\ s[k] = Len(data.constants)
  BY <1>5 DEF Relists
<1>7. AllLinesValid
  BY <1>6, AcceptedLines DEF AllLinesValid
<1>8. data.entrypoint \in 0 .. c - 1
  BY <1>5, <1>7, RelistedEntry
<1>9. original'.data = data
  BY DEF OriginalIs
<1>10. /\ AssembledData.entrypoint = data.entrypoint
       /\ Len(AssembledData.code) = c
       /\ \A i \in 1 .. c : AssembledData.code[i] = CommandOf(<<Main, q[i]>>)
  <2>1. PICK places, words : /\ places = Assembled!Places("command")
                             /\ words = Assembled!ConstantsLayout
    OBVIOUS
  <2>2. AssembledData =
            [entrypoint   |-> Assembled!Operand(Assembled!Places("end")[1]),
             initialStack |-> MemorySize - 1,
             code         |-> [i \in DOMAIN places |-> CommandOf(places[i])],
             constants    |-> [i \in DOMAIN words |-> WordOf(words[i])]]
    BY <1>6, <2>1, AssembledParts
  <2>3. AssembledData.entrypoint = data.entrypoint
    BY <1>5, <1>7, <1>8, <2>2, RelistedStart
  <2>4. places = [i \in 1 .. c |-> <<Main, q[i]>>]
    <3>1. RelistedAt(k, c, q, n)
      BY <1>5, <1>7, RelistedPlacesAre
    <3> QED
      BY <2>1, <3>1, Zenon DEF RelistedAt
  <2>5. DOMAIN places = 1 .. c /\ \A i \in 1 .. c : places[i] = <<Main, q[i]>>
    BY <2>4
  <2>6. PICK made : made = AssembledData.code
    OBVIOUS
  <2>7. made = [i \in 1 .. c |-> CommandOf(places[i])]
    BY <2>2, <2>5, <2>6
  <2>8. Len(made) = c /\ \A i \in 1 .. c : made[i] = CommandOf(places[i])
    BY <2>7
  <2> QED
    BY <2>3, <2>5, <2>6, <2>8, Zenon
<1>11. \A i \in 1 .. c : Meaning(AssembledData.code[i]) = Meaning(data.code[i])
  <2>1. \A i \in 1 .. c : Meaning(CommandOf(<<Main, q[i]>>)) = Meaning(data.code[i])
    BY <1>5, <1>7, <1>8, RelistedWord
  <2> QED
    BY <1>10, <2>1, Zenon
<1>12. Len(AssembledData.constants) = s[k]
  BY <1>5, <1>7, RelistedConstants, Zenon DEF ConstantsAssembled
<1>13. \A i \in 1 .. s[k] : SameConstantWord(i)'
  BY <1>5, <1>7, RelistedSameWords
<1>14. DOMAIN data.code = 1 .. c /\ DOMAIN data.constants = 1 .. s[k]
  BY <1>6 DEF Data
<1>15. data.entrypoint < c
  BY <1>8
<1> QED
  BY <1>6, <1>9, <1>10, <1>11, <1>12, <1>13, <1>14, <1>15, Zenon DEF SameProgram

\* A listing that is refused is the one of a program that starts outside its
\* code, or holds a double that is not read again.
LEMMA RelistedRefused ==
    ASSUME IsRelisted, OriginalIs, ~Accepted
    PROVE  \/ ~(original.data.entrypoint < Len(original.data.code))
           \/ HasDouble(original.listing, Unreadable)
<1>1. PICK k \in Nat : \E s \in [0 .. k -> Nat] : \E c \in Nat :
              \E q \in [0 .. c -> Nat] : \E n \in Nat : Relists(k, s, c, q, n)
  BY Zenon DEF IsRelisted
<1>2. PICK s \in [0 .. k -> Nat] : \E c \in Nat :
              \E q \in [0 .. c -> Nat] : \E n \in Nat : Relists(k, s, c, q, n)
  BY <1>1, Zenon
<1>3. PICK c \in Nat : \E q \in [0 .. c -> Nat] : \E n \in Nat : Relists(k, s, c, q, n)
  BY <1>2, Zenon
<1>4. PICK q \in [0 .. c -> Nat] : \E n \in Nat : Relists(k, s, c, q, n)
  BY <1>3, Zenon
<1>5. PICK n \in Nat : Relists(k, s, c, q, n)
  BY <1>4, Zenon
<1>6. original.data = data /\ original.listing = text
  BY DEF OriginalIs
<1>7. c = Len(data.code) /\ data.entrypoint \in Nat
  <2>1. data \in Data /\ c = Len(data.code)
    BY <1>5 DEF Relists
  <2> QED
    BY <2>1, FieldCounts DEF Data, Words
<1>8. SUFFICES ASSUME data.entrypoint < c, ~HasDouble(text, Unreadable)
               PROVE  FALSE
  BY <1>6, <1>7
<1>9. data.entrypoint \in 0 .. c - 1
  BY <1>7, <1>8
<1>10. AllLinesValid
  BY <1>5, <1>8, RelistedValid
<1> QED
  BY <1>5, <1>9, <1>10, RelistedAccepted

\* The data that was read fits the memory while its listing is compiled.
RelistedInv ==
    /\ ListedInv
    /\ phase = "compile" /\ Recompiled => FitsMemory(data)
    /\ RecompilesToTheSame

\* It holds before anything is listed.
LEMMA RelistedInvInit ==
    ASSUME Init
    PROVE  RelistedInv
<1>1. original.listing = <<>>
  BY DEF Init, NoListing
<1>2. ~Recompiled
  BY <1>1 DEF Recompiled
<1> QED
  BY <1>2, ListedInvInit DEF RelistedInv, RecompilesToTheSame

\* Every step keeps it: compiling a listing, by what is assembled from it.
LEMMA RelistedInvNext ==
    ASSUME RelistedInv, TypesInv, phase \in Reading => FitsMemory(data), TypeOK',
           [Next]_vars
    PROVE  RelistedInv'
<1>1. ListedInv'
  BY ListedInvNext DEF RelistedInv
<1>2. ASSUME phase = "compile", Recompiled
      PROVE  IsRelisted /\ OriginalIs
  <2>1. /\ commandLabels = CommandLabels
        /\ \A w \in ToSet(data.code) : Known(w)
        /\ ListingOf(data, constantLabels, commandLabels, listing)
        /\ text = listing
        /\ original = [data |-> data, constantLabels |-> constantLabels,
                       listing |-> listing]
        /\ FitsMemory(data)
    BY <1>2 DEF RelistedInv, ListedInv
  <2>2. data \in Data /\ text \in Seq(Line)
    BY DEF TypesInv, TypeOK
  <2> QED
    BY <2>1, <2>2, ListedIsRelisted DEF OriginalIs
<1>3. (phase = "compile" /\ Recompiled => FitsMemory(data))'
  <2>1. CASE CompileListing
    BY <2>1 DEF CompileListing, Reading, FitsMemory
  <2>2. CASE Compile \/ RefuseText \/ Write \/ Read \/ RefuseFile
    <3>1. phase' # "compile"
      BY <2>2 DEF Compile, RefuseText, Write, Read, RefuseFile, Fail, StartDisassembly
    <3> QED
      BY <3>1
  <2>3. CASE Disassemble
    <3>1. phase' # "compile"
      BY <2>3 DEF Disassemble, UnknownConstantType, TruncatedConstant, DisassembleConstant,
                  PrepareCommandLabels, UnknownCommand, DisassembleCommand, EndListing,
                  Fail, AtConstant
    <3> QED
      BY <3>1
  <2>4. CASE UNCHANGED vars
    BY <2>4 DEF vars, disasmVars, RelistedInv, Recompiled, FitsMemory
  <2> QED
    BY <2>1, <2>2, <2>3, <2>4 DEF Next
<1>4. RecompilesToTheSame'
  <2>1. ASSUME phase' \notin {"refused", "write"} PROVE RecompilesToTheSame'
    BY <2>1 DEF RecompilesToTheSame
  <2>2. CASE Compile
    <3>1. /\ phase = "compile" /\ Accepted /\ data' = AssembledData
          /\ phase' = "write" /\ original' = original
      BY <2>2 DEF Compile
    <3>2. Recompiled' <=> Recompiled
      BY <3>1 DEF Recompiled
    <3>3. CASE Recompiled
      <4>1. SameProgram'
        BY <1>2, <3>1, <3>3, RelistedCompiles
      <4>2. phase' # "refused"
        BY <3>1
      <4> QED
        BY <4>1, <4>2, Zenon DEF SameProgram, RecompilesToTheSame
    <3>4. CASE ~Recompiled
      BY <3>2, <3>4 DEF RecompilesToTheSame
    <3> QED
      BY <3>3, <3>4
  <2>3. CASE RefuseText
    <3>1. /\ phase = "compile" /\ ~Accepted /\ phase' = "refused" /\ original' = original
      BY <2>3 DEF RefuseText
    <3>2. Recompiled' <=> Recompiled
      BY <3>1 DEF Recompiled
    <3>3. CASE Recompiled
      <4>1. \/ ~(original.data.entrypoint < Len(original.data.code))
            \/ HasDouble(original.listing, Unreadable)
        BY <1>2, <3>1, <3>3, RelistedRefused
      <4>2. HasDouble(original'.listing, Unreadable)
               <=> HasDouble(original.listing, Unreadable)
        BY <3>1
      <4> QED
        BY <3>1, <4>1, <4>2 DEF RecompilesToTheSame
    <3>4. CASE ~Recompiled
      BY <3>2, <3>4 DEF RecompilesToTheSame
    <3> QED
      BY <3>3, <3>4
  <2>4. CASE Write \/ Read \/ RefuseFile \/ CompileListing
    <3>1. phase' \notin {"refused", "write"}
      BY <2>4 DEF Write, Read, RefuseFile, Fail, StartDisassembly, CompileListing
    <3> QED
      BY <2>1, <3>1
  <2>5. CASE Disassemble
    <3>1. phase' \notin {"refused", "write"}
      BY <2>5 DEF Disassemble, UnknownConstantType, TruncatedConstant, DisassembleConstant,
                  PrepareCommandLabels, UnknownCommand, DisassembleCommand, EndListing,
                  Fail, AtConstant
    <3> QED
      BY <2>1, <3>1
  <2>6. CASE UNCHANGED vars
    <3>1. UNCHANGED <<phase, data, original>>
      BY <2>6 DEF vars, disasmVars
    <3>2. RecompilesToTheSame
      BY DEF RelistedInv
    <3>3. \A i : SameConstantWord(i)' <=> SameConstantWord(i)
      BY <3>1 DEF SameConstantWord, OriginalStarts, OriginalStart, OriginalType,
                  PrintedWord
    <3> QED
      BY <3>1, <3>2, <3>3 DEF RecompilesToTheSame, Recompiled
  <2> QED
    BY <2>2, <2>3, <2>4, <2>5, <2>6 DEF Next
<1> QED
  BY <1>1, <1>3, <1>4, Zenon DEF RelistedInv

\* The listing of a program is compiled to the same program (Disassembler::Impl
\* and Compiler::Impl undo each other): for every program that is read, whatever
\* its labels, strings and doubles, the executor sees the same commands, the
\* same entrypoint and the same constants, as far as printing a double and
\* cutting a character to a char keep them; and it is refused only when the
\* entrypoint is outside the code or a double cannot be read.
THEOREM ListingsRecompile == Spec /\ []AssembledFits => []RecompilesToTheSame
<1>1. Init => RelistedInv
  BY RelistedInvInit
<1>2. ProgramInv /\ ProgramInv' /\ RelistedInv /\ [Next]_vars => RelistedInv'
  <2> SUFFICES ASSUME ProgramInv, ProgramInv', RelistedInv, [Next]_vars
               PROVE  RelistedInv'
    OBVIOUS
  <2>1. TypesInv /\ ReadInv
    BY DEF ProgramInv
  <2>2. TypeOK'
    BY DEF ProgramInv, TypesInv
  <2>3. phase \in Reading => FitsMemory(data)
    BY <2>1, ReadFits
  <2> QED
    BY <2>1, <2>2, <2>3, RelistedInvNext
<1>3. RelistedInv => RecompilesToTheSame
  BY DEF RelistedInv
<1> QED
  BY <1>1, <1>2, <1>3, ProgramInvariance, PTL DEF Spec

-----------------------------------------------------------------------------
(***************************************************************************)
(* What is compiled from a listing is a program of that listing.           *)
(***************************************************************************)
\* A zero among the characters is still there when they are escaped.
LEMMA ZeroStaysInEscaped ==
    ASSUME NEW str \in Seq(Chars), NEW i \in DOMAIN str, str[i] = StringEnd
    PROVE  \E j \in DOMAIN Escape(str) : Escape(str)[j] = StringEnd
<1> DEFINE n == Len(str)
           all == Escape(str)
           Has(t) == \E j \in DOMAIN t : t[j] = StringEnd
<1>1. n \in Nat /\ i \in 1 .. n /\ \A m \in 1 .. n : str[m] \in Chars
  OBVIOUS
<1>2. PICK p \in [0 .. n -> Seq(Chars)] :
          /\ p[0] = <<>> /\ p[n] = all
          /\ \A m \in 1 .. n : p[m] = p[m - 1] \o EscapedOf(str[m])
  BY EscapeSteps, Zenon
<1> HIDE DEF n, all
<1> DEFINE S == {m \in 0 .. n : m < i \/ Has(p[m])}
<1>3. 0 \in S
  BY <1>1
<1>4. ASSUME NEW m \in 1 .. n, m - 1 \in S
      PROVE  m \in S
  <2>1. PICK s \in Seq(Chars), c \in Chars : s = p[m - 1] /\ c = str[m]
    <3>1. m - 1 \in 0 .. n
      BY <1>1
    <3> QED
      BY <1>1, <1>2, <3>1
  <2>2. PICK e \in Seq(Chars) : e = EscapedOf(c)
    BY EscapedOfType
  <2>3. p[m] = s \o e
    BY <1>2, <2>1, <2>2
  <2>4. m \in 0 .. n
    BY <1>1
  <2>5. CASE m < i
    BY <2>4, <2>5
  <2>6. CASE m = i
    <3>1. c = StringEnd /\ c \notin Range(EscapeSequences)
      BY <2>1, <2>6, CharsAssumption
    <3>2. e = <<c>>
      BY <2>2, <3>1 DEF EscapedOf
    <3>3. 1 \in DOMAIN e /\ e[1] = StringEnd
      BY <3>1, <3>2
    <3>4. Len(s) + 1 \in DOMAIN (s \o e) /\ (s \o e)[Len(s) + 1] = StringEnd
      BY <3>3, JoinedRight
    <3>5. Has(p[m])
      BY <2>3, <3>4
    <3> QED
      BY <2>4, <3>5
  <2>7. CASE m > i
    <3>1. Has(s)
      BY <1>1, <1>4, <2>1, <2>7
    <3>2. PICK j \in DOMAIN s : s[j] = StringEnd
      BY <3>1
    <3>3. j \in DOMAIN (s \o e) /\ (s \o e)[j] = StringEnd
      BY <3>2, JoinedLeft
    <3>4. Has(p[m])
      BY <2>3, <3>3
    <3> QED
      BY <2>4, <3>4
  <2> QED
    BY <1>1, <2>5, <2>6, <2>7
<1>5. 0 .. n \subseteq S
  <2> HIDE DEF S
  <2> QED
    BY <1>1, <1>3, <1>4, UpTo
<1>6. n \in S /\ ~(n < i)
  BY <1>1, <1>5
<1> QED
  BY <1>2, <1>6 DEF all

\* A constant read from its line is written to the same line: the digits of a
\* double are those of the number they are.
LEMMA WrittenAgain ==
    ASSUME NEW t, NEW v, IsValue(t, v), NEW label
    PROVE  ConstantAs(label, t, ValueWords(ConstantAs(label, t, v)))
             = ConstantAs(label, t, v)
<1> DEFINE line == ConstantAs(label, t, v)
<1>1. ReadsBack(t, v, line)
  BY ConstantReadsBack, Zenon
<1>2. line.type = t /\ t \in Types
  <2>1. t \in Types
    BY DEF IsValue
  <2> QED
    BY <2>1, LineFields
<1>t. /\ Uint32Type = 0 /\ Uint64Type = 1 /\ DoubleType = 2 /\ CharType = 3
      /\ StringType = 4 /\ Types = 0 .. 4
  BY DEF Uint32Type, Uint64Type, DoubleType, CharType, StringType, Types
<1>3. CASE t \in {Uint32Type, Uint64Type}
  <2>1. ValueWords(line) = v
    BY <1>1, <1>3 DEF ReadsBack
  <2> QED
    BY <2>1, Zenon
<1>4. CASE t = DoubleType
  <2>1. PICK x \in TwoWords : x = Double(v)
    <3>1. v \in Seq(Words) /\ Len(v) = 2
      BY <1>4 DEF IsValue
    <3>2. v[1] \in Words /\ v[2] \in Words /\ v = <<v[1], v[2]>>
      BY <3>1
    <3> QED
      BY <3>2, SplitOfWords, Zenon
  <2>2. PICK d \in TwoWords : d = Digits(x) /\ Digits(d) = d
    <3>1. CASE x \in DOMAIN Rounded
      <4>1. Rounded[x] \in TwoWords \ DOMAIN Rounded
        BY <3>1, LinesAssumption
      <4> QED
        BY <3>1, <4>1 DEF Digits
    <3>2. CASE x \notin DOMAIN Rounded
      BY <3>2 DEF Digits
    <3> QED
      BY <3>1, <3>2
  <2>3. line = ConstantOf(label, t, d, <<>>)
    BY <1>4, <2>1, <2>2, ConstantFields, Zenon
  <2>4. line.num = d
    BY <2>3 DEF ConstantOf
  <2> HIDE DEF line
  <2>5. ValueWords(line) = Split(d % WordCount ^ 2)
    BY <1>2, <1>4, <2>4, WordsByType
  <2>6. d % WordCount ^ 2 = d /\ Double(Split(d)) = d
    BY DoubleOfSplit
  <2>7. PICK new : new = ValueWords(line)
    OBVIOUS
  <2>8. Digits(Double(new)) = d
    BY <2>2, <2>5, <2>6, <2>7, Zenon
  <2>9. ConstantAs(label, t, new) = ConstantOf(label, t, Digits(Double(new)), <<>>)
    BY <1>4, ConstantFields, Zenon
  <2> QED
    BY <2>3, <2>7, <2>8, <2>9, Zenon DEF line
<1>5. CASE t = CharType
  <2>1. v \in Seq(Words)
    BY DEF IsValue
  <2>2. line = ConstantOf(label, t, 0, Quoted(Text(v), CharQuote))
    BY <1>5, ConstantFields, Zenon
  <2>3. line.text = Quoted(Text(v), CharQuote)
    BY <2>2 DEF ConstantOf
  <2> HIDE DEF line
  <2>4. CharsOf(line) = CharsIn(v)
    BY <2>1, <2>3, QuotedReadsBack
  <2>5. CharsIn(v) \in Seq(Chars) /\ Text(v) = Escape(CharsIn(v))
    BY <2>1, CharsInWords
  <2>6. ValueWords(line) = WordsOf(CharsIn(v))
    BY <1>2, <1>5, <2>4, WordsByType
  <2>7. PICK new : new = ValueWords(line)
    OBVIOUS
  <2>8. Text(new) = Text(v)
    BY <2>5, <2>6, <2>7, TextOfWords, Zenon
  <2>9. ConstantAs(label, t, new) = ConstantOf(label, t, 0, Quoted(Text(new), CharQuote))
    BY <1>5, ConstantFields, Zenon
  <2> QED
    BY <2>2, <2>7, <2>8, <2>9, Zenon DEF line
<1>6. CASE t = StringType
  <2> DEFINE s == Front(v)
  <2>1. s \in Seq(Words)
    <3>1. PICK n \in Nat : n = Len(v) /\ n >= 1 /\ v \in Seq(Words)
      BY <1>6 DEF IsValue
    <3>2. SubSeq(v, 1, n - 1) \in Seq(Words)
      BY <3>1
    <3> QED
      BY <3>1, <3>2 DEF Front
  <2>2. line = ConstantOf(label, t, 0, Quoted(Text(s), StringQuote))
    BY <1>6, ConstantFields, Zenon
  <2>3. line.text = Quoted(Text(s), StringQuote)
    BY <2>2 DEF ConstantOf
  <2> HIDE DEF line, s
  <2>4. CharsOf(line) = CharsIn(s)
    BY <2>1, <2>3, QuotedReadsBack
  <2>5. CharsIn(s) \in Seq(Chars) /\ Text(s) = Escape(CharsIn(s))
    BY <2>1, CharsInWords
  <2>6. PICK words \in Seq(Words) : words = WordsOf(CharsIn(s)) /\ Text(words) = Text(s)
    BY <2>5, TextOfWords
  <2>7. PICK new : new = ValueWords(line)
    OBVIOUS
  <2>8. new = Append(words, StringEnd)
    BY <1>2, <1>6, <2>4, <2>6, <2>7, WordsByType
  <2>9. Front(new) = words
    <3>1. PICK T : T = Words \cup {StringEnd}
      OBVIOUS
    <3>2. \A a \in Seq(T) : \A e \in T :
             Len(Append(a, e)) = Len(a) + 1 /\ SubSeq(Append(a, e), 1, Len(a)) = a
      OBVIOUS
    <3>3. words \in Seq(T) /\ StringEnd \in T /\ Len(words) \in Nat
      BY <3>1
    <3>4. Len(new) - 1 = Len(words)
      BY <2>8, <3>2, <3>3
    <3> QED
      BY <2>8, <3>2, <3>3, <3>4 DEF Front
  <2>10. ConstantAs(label, t, new)
           = ConstantOf(label, t, 0, Quoted(Text(Front(new)), StringQuote))
    BY <1>6, ConstantFields, Zenon
  <2>11. Text(Front(new)) = Text(s)
    BY <2>6, <2>9, Zenon
  <2> QED
    BY <2>2, <2>7, <2>10, <2>11, Zenon DEF line
<1> QED
  BY <1>2, <1>3, <1>4, <1>5, <1>6, <1>t

\* A string without a zero among its characters has none among its words but the
\* one that ends it.
LEMMA WholeIsReadBack ==
    ASSUME NEW v, IsValue(StringType, v), NEW label,
           StringEnd \notin ToSet(ConstantAs(label, StringType, v).text)
    PROVE  LET new == ValueWords(ConstantAs(label, StringType, v))
           IN  /\ new[Len(v)] = StringEnd
               /\ \A j \in 1 .. Len(v) - 1 : new[j] # StringEnd
<1> DEFINE line == ConstantAs(label, StringType, v)
           s == Front(v)
<1>1. v \in Seq(Words) /\ Len(v) >= 1 /\ v[Len(v)] = StringEnd
  BY DEF IsValue
<1>2. s \in Seq(Words) /\ Len(s) = Len(v) - 1 /\ \A i \in 1 .. Len(v) - 1 : s[i] = v[i]
  <2>1. PICK n \in Nat : n = Len(v) /\ n >= 1
    BY <1>1
  <2>2. SubSeq(v, 1, n - 1) \in Seq(Words) /\ Len(SubSeq(v, 1, n - 1)) = n - 1
        /\ \A i \in 1 .. n - 1 : SubSeq(v, 1, n - 1)[i] = v[i]
    BY <1>1, <2>1
  <2>3. s = SubSeq(v, 1, n - 1)
    BY <2>1 DEF Front
  <2> HIDE DEF s
  <2> QED
    BY <2>1, <2>2, <2>3
<1>3. line = ConstantOf(label, StringType, 0, Quoted(Text(s), StringQuote))
  BY ConstantFields
<1>4. line.text = Quoted(Text(s), StringQuote)
  BY <1>3 DEF ConstantOf
<1>5. ReadsBack(StringType, v, line)
  BY ConstantReadsBack, Zenon
<1> HIDE DEF line, s
<1>6. \A j \in DOMAIN v : ValueWords(line)[j] = CharToWord(WordToChar(v[j]), WordCount)
  BY <1>5 DEF ReadsBack
<1>7. CharToWord(WordToChar(StringEnd), WordCount) = StringEnd
  <2>1. 2 ^ CharBits \in Nat \ {0} /\ 2 ^ (CharBits - 1) \in Nat \ {0}
    BY CharCounts
  <2>2. 0 % 2 ^ CharBits = 0 /\ 0 < 2 ^ (CharBits - 1)
    BY <2>1
  <2> QED
    BY <2>2 DEF StringEnd, WordToChar, CharToWord
<1>8. ValueWords(line)[Len(v)] = StringEnd
  <2>1. Len(v) \in DOMAIN v
    BY <1>1
  <2> QED
    BY <1>1, <1>6, <1>7, <2>1
<1>9. ASSUME NEW j \in 1 .. Len(v) - 1
      PROVE  ValueWords(line)[j] # StringEnd
  <2>1. j \in DOMAIN s /\ j \in DOMAIN v /\ s[j] = v[j]
    BY <1>1, <1>2
  <2>2. PICK str \in Seq(Chars) : str = CharsIn(s) /\ Text(s) = Escape(str)
    BY <1>2, CharsInWords
  <2>3. j \in DOMAIN str /\ str[j] = WordToChar(v[j]) /\ str[j] \in Chars
    BY <1>2, <2>1, <2>2, CharsInWords
  <2>4. str[j] # StringEnd
    <3>1. SUFFICES ASSUME str[j] = StringEnd PROVE FALSE
      OBVIOUS
    <3>2. PICK all \in Seq(Chars) : all = Escape(str)
      BY EscapeType
    <3>3. PICK x \in DOMAIN all : all[x] = StringEnd
      BY <2>3, <3>1, <3>2, ZeroStaysInEscaped
    <3>4. PICK quote \in Chars : quote = StringQuote
      BY CharsAssumption
    <3>5. PICK shown : shown = <<quote>> \o all \o <<quote>>
      OBVIOUS
    <3>6. x + 1 \in DOMAIN shown /\ shown[x + 1] = all[x]
      BY <3>5
    <3>7. line.text = shown
      BY <1>4, <2>2, <3>2, <3>4, <3>5, Zenon DEF Quoted
    <3>8. StringEnd \in ToSet(line.text)
      BY <3>3, <3>6, <3>7 DEF ToSet
    <3> QED
      BY <3>8 DEF line
  <2>5. ValueWords(line)[j] = CharToWord(str[j], WordCount)
    BY <1>6, <2>1, <2>3
  <2> QED
    BY <2>3, <2>4, <2>5, CharBack
<1> QED
  BY <1>8, <1>9 DEF line

\* the addresses in the code of a program that its commands refer to, and the
\* labels of its commands
ReferencedIn(d) ==
    {Address(w) : w \in {x \in ToSet(d.code) : GetCode(x) \in UsesAddress \ IgnoresAddress}}
        \cap 0 .. Len(d.code) - 1
\* the labels of the entrypoint and of these addresses
LabelsAt(entrypoint, addresses) ==
    LET number(a) == Cardinality({b \in addresses : b <= a})
    IN  [a \in addresses \cup {entrypoint} |->
            IF a = entrypoint THEN MainLabel ELSE Numbered("command", number(a))]
\* the labels of the commands of a program
CommandLabelsOf(d) == LabelsAt(d.entrypoint, ReferencedIn(d) \ {d.entrypoint})

\* These are the ones the disassembler makes.
LEMMA CommandLabelsAre == CommandLabels = CommandLabelsOf(data)
BY Zenon DEF CommandLabels, CommandLabelsOf, LabelsAt, Referenced, ReferencedIn

\* What the executor sees of a word holds its code, and the address if one is read.
LEMMA MeaningTells ==
    ASSUME NEW w
    PROVE  /\ Meaning(w).code = GetCode(w)
           /\ GetCode(w) \in UsesAddress \ IgnoresAddress => Meaning(w).arg = Address(w)
<1>1. Parse(w).code = GetCode(w)
  BY DEF Parse
<1>2. [Parse(w) EXCEPT !.arg = 0].code = GetCode(w)
  BY DEF Parse
<1>3. Meaning(w).code = GetCode(w)
  BY <1>1, <1>2 DEF Meaning
<1>4. ASSUME GetCode(w) \in UsesAddress \ IgnoresAddress
      PROVE  Meaning(w).arg = Address(w)
  <2>1. Format[GetCode(w)] # "RR" /\ Format[GetCode(w)] # "RI"
    BY <1>4 DEF UsesAddress
  <2>2. Parse(w).arg = Address(w)
    BY <2>1 DEF Parse
  <2>3. Meaning(w) = Parse(w)
    BY <1>4 DEF Meaning
  <2> QED
    BY <2>2, <2>3
<1> QED
  BY <1>3, <1>4

\* Two programs whose commands mean the same
MeanTheSame(d, e) ==
    /\ Len(e.code) = Len(d.code) /\ e.entrypoint = d.entrypoint
    /\ \A i \in 1 .. Len(d.code) : Meaning(e.code[i]) = Meaning(d.code[i])

\* refer to the same addresses,
LEMMA SameReferences ==
    ASSUME NEW d \in Data, NEW e \in Data, MeanTheSame(d, e)
    PROVE  ReferencedIn(e) \subseteq ReferencedIn(d)
<1>1. PICK c \in Nat : c = Len(d.code) /\ c = Len(e.code)
  BY SegmentSizes DEF MeanTheSame
<1>2. DOMAIN d.code = 1 .. c /\ DOMAIN e.code = 1 .. c
  <2>1. PICK x \in Seq(Words), y \in Seq(Words) : x = d.code /\ y = e.code
    BY DEF Data
  <2>2. \A z \in Seq(Words) : DOMAIN z = 1 .. Len(z)
    OBVIOUS
  <2> QED
    BY <1>1, <2>1, <2>2, Zenon
<1>3. SUFFICES ASSUME NEW a \in ReferencedIn(e)
               PROVE  a \in ReferencedIn(d)
  OBVIOUS
<1>4. a \in 0 .. Len(d.code) - 1
  BY <1>1 DEF ReferencedIn
<1>5. PICK w \in ToSet(e.code) :
         a = Address(w) /\ GetCode(w) \in UsesAddress \ IgnoresAddress
  BY DEF ReferencedIn
<1>6. PICK i \in 1 .. c : w = e.code[i]
  BY <1>2, <1>5 DEF ToSet
<1>7. PICK x : x = d.code[i] /\ x \in ToSet(d.code)
  BY <1>2, <1>6 DEF ToSet
<1>8. Meaning(w) = Meaning(x)
  BY <1>1, <1>6, <1>7 DEF MeanTheSame
<1>9. GetCode(x) = GetCode(w)
  BY <1>8, MeaningTells
<1>10. Address(x) = Address(w)
  BY <1>5, <1>8, <1>9, MeaningTells
<1> QED
  BY <1>4, <1>5, <1>7, <1>9, <1>10 DEF ReferencedIn

\* so that the labels of their commands are the same.
LEMMA SameCommandLabels ==
    ASSUME NEW d \in Data, NEW e \in Data, MeanTheSame(d, e)
    PROVE  CommandLabelsOf(e) = CommandLabelsOf(d)
<1>1. MeanTheSame(e, d)
  BY DEF MeanTheSame
<1>2. ReferencedIn(e) = ReferencedIn(d)
  BY <1>1, SameReferences
<1>3. e.entrypoint = d.entrypoint
  BY DEF MeanTheSame
<1> QED
  BY <1>2, <1>3, Zenon DEF CommandLabelsOf

\* After word a of w comes the type t, then the value v up to word b.
StandsAt(w, a, b, t, v) ==
    /\ a + 1 < b /\ b <= Len(w) /\ w[a + 1] = t /\ Len(v) = b - a - 1
    /\ \A j \in 1 .. b - a - 1 : w[a + 1 + j] = v[j]
    /\ IsValue(t, v)
    /\ t = StringType => \A j \in 1 .. b - a - 2 : v[j] # StringEnd

\* Words that follow their type are a constant.
LEMMA ConstantInPlace ==
    ASSUME NEW w \in Seq(Words), NEW a \in Nat, NEW b \in Nat, NEW t, NEW v,
           StandsAt(w, a, b, t, v)
    PROVE  SubSeq(w, a + 2, b) = v /\ IsConstant(w, a + 1, b)
<1>0. /\ a + 1 < b /\ b <= Len(w) /\ w[a + 1] = t /\ Len(v) = b - a - 1
      /\ \A j \in 1 .. b - a - 1 : w[a + 1 + j] = v[j]
      /\ t = StringType => \A j \in 1 .. b - a - 2 : v[j] # StringEnd
  BY DEF StandsAt
<1>v. v \in Seq(Words) /\ t \in Types
  BY DEF StandsAt, IsValue
<1>c. PICK l \in Nat : l = Len(w)
  OBVIOUS
<1>b. a + 1 < b /\ b <= l
  BY <1>0, <1>c
<1>1. SubSeq(w, a + 2, b) = v
  <2>1. PICK part : part = SubSeq(w, a + 2, b)
    OBVIOUS
  <2>2. part \in Seq(Words) /\ Len(part) = b - a - 1
    BY <1>b, <1>c, <2>1
  <2>3. \A j \in 1 .. b - a - 1 : part[j] = w[a + 1 + j]
    BY <1>b, <1>c, <2>1
  <2>4. \A x, y \in Seq(Words) :
           Len(x) = Len(y) /\ (\A j \in 1 .. Len(x) : x[j] = y[j]) => x = y
    OBVIOUS
  <2>5. Len(part) = Len(v) /\ \A j \in 1 .. Len(part) : part[j] = v[j]
    BY <1>0, <2>2, <2>3
  <2> QED
    BY <1>v, <2>1, <2>2, <2>4, <2>5
<1>2. /\ t \in {Uint32Type, CharType} => b = a + 1 + 1
      /\ t \in {Uint64Type, DoubleType} => b = a + 1 + 2
      /\ t = StringType => v[b - a - 1] = StringEnd
  <2>1. /\ t \in {Uint32Type, CharType} => Len(v) = 1
        /\ t \in {Uint64Type, DoubleType} => Len(v) = 2
        /\ t = StringType => v[Len(v)] = StringEnd
    BY DEF StandsAt, IsValue
  <2> QED
    BY <1>0, <1>b, <2>1
<1>3. ASSUME t = StringType
      PROVE  w[b] = StringEnd /\ \A m \in a + 2 .. b - 1 : w[m] # StringEnd
  <2>1. b - a - 1 \in 1 .. b - a - 1 /\ a + 1 + (b - a - 1) = b
    BY <1>b
  <2>2. w[b] = StringEnd
    BY <1>0, <1>2, <1>3, <2>1
  <2>3. ASSUME NEW m \in a + 2 .. b - 1
        PROVE  w[m] # StringEnd
    <3>1. /\ m - a - 1 \in 1 .. b - a - 2 /\ m - a - 1 \in 1 .. b - a - 1
          /\ a + 1 + (m - a - 1) = m
      BY <1>b
    <3> QED
      BY <1>0, <1>3, <3>1
  <2> QED
    BY <2>2, <2>3
<1>4. a + 1 + 1 = a + 2
  OBVIOUS
<1> QED
  BY <1>0, <1>v, <1>1, <1>2, <1>3, <1>4, Zenon DEF IsConstant

\* A listing whose characters are whole lists the constants that are assembled
\* from it.
LEMMA AssembledConstant ==
    ASSUME NEW k \in Nat, NEW s \in [0 .. k -> Nat], NEW c \in Nat,
           NEW q \in [0 .. c -> Nat], NEW n \in Nat, Relists(k, s, c, q, n),
           ConstantsAssembled(k, s), CharactersAreWhole(text),
           NEW w \in Seq(Words), w = AssembledData.constants, NEW i \in 1 .. k
    PROVE  /\ IsConstant(w, s[i - 1] + 1, s[i])
           /\ text[i] = ConstantAs(Numbered("constant", i), w[s[i - 1] + 1],
                                   SubSeq(w, s[i - 1] + 2, s[i]))
<1>0. /\ s[i - 1] \in Nat /\ s[i] \in Nat /\ s[i - 1] + 1 < s[i] /\ s[i] <= s[k]
      /\ IsValue(TypeAt(s, i), ValueAt(s, i))
      /\ Len(ValueAt(s, i)) = s[i] - s[i - 1] - 1
      /\ text[i] = ConstantAs(Numbered("constant", i), TypeAt(s, i), ValueAt(s, i))
      /\ text[i].type = TypeAt(s, i)
      /\ ReadsBack(TypeAt(s, i), ValueAt(s, i), text[i])
  BY RelistedConstant
<1>1. PICK a \in Nat, b \in Nat : a = s[i - 1] /\ b = s[i]
  BY <1>0
<1>2. PICK t, v : t = TypeAt(s, i) /\ v = ValueAt(s, i)
  OBVIOUS
<1>3. /\ a + 1 < b /\ b <= s[k]
      /\ IsValue(t, v) /\ Len(v) = b - a - 1
      /\ text[i] = ConstantAs(Numbered("constant", i), t, v)
      /\ text[i].type = t
      /\ ReadsBack(t, v, text[i])
  BY <1>0, <1>1, <1>2, Zenon
<1>4. t \in Types
  BY <1>3 DEF IsValue
<1>5. PICK new \in Seq(Words) : new = ValueWords(text[i]) /\ Len(new) = b - a - 1
  BY <1>3 DEF ReadsBack
<1>6. /\ Len(w) = s[k] /\ w[a + 1] = t
      /\ \A j \in 1 .. b - a - 1 : w[a + 1 + j] = new[j]
  BY <1>1, <1>2, <1>5, Zenon DEF ConstantsAssembled
<1>7. text[i] = ConstantAs(Numbered("constant", i), t, new)
  BY <1>3, <1>5, WrittenAgain, ZenonT(40)
<1>8. ASSUME t = StringType
      PROVE  /\ new[Len(new)] = StringEnd
             /\ \A j \in 1 .. b - a - 2 : new[j] # StringEnd
  <2>1. StringEnd \notin ToSet(text[i].text)
    <3>1. i \in DOMAIN text
      <4>1. RelistedIn(k, c, q, n)
        BY RelistedLines
      <4>2. DOMAIN text = 1 .. n /\ i < n
        BY <4>1 DEF RelistedIn
      <4> QED
        BY <4>2
    <3> QED
      BY <1>3, <1>8, <3>1, Zenon DEF CharactersAreWhole
  <2>2. PICK line : line = ConstantAs(Numbered("constant", i), StringType, v)
    OBVIOUS
  <2>3. IsValue(StringType, v) /\ line = text[i]
    BY <1>3, <1>8, <2>2, Zenon
  <2>4. /\ ValueWords(line)[Len(v)] = StringEnd
        /\ \A j \in 1 .. Len(v) - 1 : ValueWords(line)[j] # StringEnd
    BY <2>1, <2>2, <2>3, WholeIsReadBack, Zenon
  <2>5. Len(v) - 1 = b - a - 2 /\ Len(v) = Len(new)
    BY <1>3, <1>5
  <2> QED
    BY <1>5, <2>3, <2>4, <2>5, Zenon
<1>9. IsValue(t, new)
  <2>1. /\ t \in {Uint32Type, CharType} => Len(v) = 1
        /\ t \in {Uint64Type, DoubleType} => Len(v) = 2
        /\ t = StringType => Len(v) >= 1
    BY <1>3 DEF IsValue
  <2>2. Len(new) = Len(v)
    BY <1>3, <1>5, Zenon
  <2> QED
    BY <1>4, <1>5, <1>8, <2>1, <2>2, Zenon DEF IsValue
<1>10. SubSeq(w, a + 2, b) = new /\ IsConstant(w, a + 1, b)
  <2>1. b <= Len(w)
    BY <1>3, <1>6, Zenon
  <2>2. t = StringType => \A j \in 1 .. b - a - 2 : new[j] # StringEnd
    BY <1>8
  <2> QED
    <3>1. StandsAt(w, a, b, t, new)
      BY <1>3, <1>5, <1>6, <1>9, <2>1, <2>2, Zenon DEF StandsAt
    <3> QED
      BY <3>1, ConstantInPlace, Zenon
<1> QED
  BY <1>1, <1>6, <1>7, <1>10, Zenon

\* A listing whose characters are whole is one of the program assembled from it.
LEMMA RelistedIsListing ==
    ASSUME NEW k \in Nat, NEW s \in [0 .. k -> Nat], NEW c \in Nat,
           NEW q \in [0 .. c -> Nat], NEW n \in Nat, Relists(k, s, c, q, n),
           AllLinesValid, CharactersAreWhole(text),
           NEW d \in Data, d = AssembledData, MeanTheSame(data, d)
    PROVE  ListingOf(d, constantLabels, CommandLabelsOf(d), text)
<1>1. /\ data \in Data /\ commandLabels = CommandLabels
      /\ c = Len(data.code) /\ s[k] = Len(data.constants)
      /\ ConstantsListed(data, constantLabels, text, k, s)
      /\ CommandsListed(data, constantLabels, commandLabels, text, k, c, q)
      /\ n = q[c] + 1 /\ Len(text) = n /\ text[n] = EndMain
  BY DEF Relists
<1>2. CommandLabelsOf(d) = commandLabels
  BY <1>1, CommandLabelsAre, SameCommandLabels
<1>3. ConstantsAssembled(k, s)
  BY RelistedConstants
<1>4. PICK w \in Seq(Words) : w = d.constants
  BY DEF Data
<1>5. Len(w) = s[k]
  BY <1>3, <1>4 DEF ConstantsAssembled
<1>6. Len(d.code) = c
  BY <1>1 DEF MeanTheSame
<1>7. ConstantsListed(d, constantLabels, text, k, s)
  <2>1. \A i \in 1 .. k :
           /\ IsConstant(w, s[i - 1] + 1, s[i])
           /\ text[i] = ConstantAs(Numbered("constant", i), w[s[i - 1] + 1],
                                   SubSeq(w, s[i - 1] + 2, s[i]))
    BY <1>3, <1>4, AssembledConstant
  <2>2. Len(d.code) = Len(data.code)
    BY <1>1, <1>6
  <2>3. /\ s[0] = 0
        /\ \A i, j \in 0 .. k : i < j => s[i] < s[j]
        /\ DOMAIN constantLabels = {Len(d.code) + s[i - 1] + 1 : i \in 1 .. k}
        /\ \A i \in 1 .. k :
              constantLabels[Len(d.code) + s[i - 1] + 1] = Numbered("constant", i)
        /\ IsFiniteSet(DOMAIN constantLabels) /\ Cardinality(DOMAIN constantLabels) = k
    BY <1>1, <2>2, Zenon DEF ConstantsListed
  <2> QED
    BY <1>4, <2>1, <2>3, Zenon DEF ConstantsListed
<1>8. CommandsListed(d, constantLabels, commandLabels, text, k, c, q)
  <2>1. \A i \in 1 .. c : Meaning(d.code[i]) = Meaning(data.code[i])
    BY <1>1 DEF MeanTheSame
  <2>2. \A i \in 1 .. c : \A label : CommandBy(d.code[i], label) = CommandBy(data.code[i], label)
    BY <2>1, Zenon DEF CommandBy
  <2>3. /\ q[0] = k
        /\ \A i, j \in 0 .. c : i < j => q[i] < q[j]
        /\ \A m \in k + 1 .. q[c] : \E i \in 1 .. c : m = q[i] \/ m = q[i] - 1
        /\ \A i \in 1 .. c :
              /\ text[q[i]] = CommandBy(data.code[i],
                                  LabelBy(constantLabels, commandLabels,
                                          Meaning(data.code[i]).arg))
              /\ LabelBy(constantLabels, commandLabels, i - 1) = NoLabel
                    => q[i] = q[i - 1] + 1
              /\ LabelBy(constantLabels, commandLabels, i - 1) # NoLabel
                    => /\ q[i] = q[i - 1] + 2
                       /\ text[q[i] - 1]
                            = LoneLabel(LabelBy(constantLabels, commandLabels, i - 1))
    BY <1>1, Zenon DEF CommandsListed
  <2>4. \A i \in 1 .. c :
           text[q[i]] = CommandBy(d.code[i], LabelBy(constantLabels, commandLabels,
                                                     Meaning(d.code[i]).arg))
    <3> TAKE i \in 1 .. c
    <3>1. Meaning(d.code[i]) = Meaning(data.code[i])
      BY <2>1
    <3>2. CommandBy(d.code[i], LabelBy(constantLabels, commandLabels,
                                       Meaning(data.code[i]).arg))
            = CommandBy(data.code[i], LabelBy(constantLabels, commandLabels,
                                              Meaning(data.code[i]).arg))
      BY <2>2, Zenon
    <3>3. text[q[i]] = CommandBy(data.code[i], LabelBy(constantLabels, commandLabels,
                                                       Meaning(data.code[i]).arg))
      BY <2>3, Zenon
    <3> QED
      BY <3>1, <3>2, <3>3, Zenon
  <2> QED
    BY <2>3, <2>4, Zenon DEF CommandsListed
<1>9. ConstantsUpTo(d, constantLabels, text, k, Len(d.constants))
  BY <1>4, <1>5, <1>7 DEF ConstantsUpTo
<1>10. PICK l \in Nat : l = q[c]
  OBVIOUS
<1>11. CommandsUpTo(d, constantLabels, commandLabels, text, k, Len(d.code), l)
  BY <1>6, <1>8, <1>10, Zenon DEF CommandsUpTo
<1>12. Len(text) = l + 1 /\ text[l + 1] = EndMain
  BY <1>1, <1>10
<1> QED
  BY <1>2, <1>9, <1>10, <1>11, <1>12, Zenon DEF ListingOf

-----------------------------------------------------------------------------
(***************************************************************************)
(* A program has one listing.                                              *)
(***************************************************************************)
\* A constant ends where its type or its first zero says.
LEMMA OneEnd ==
    ASSUME NEW w \in Seq(Words), NEW a \in Nat, NEW b \in Nat, NEW e \in Nat,
           IsConstant(w, a, b), IsConstant(w, a, e)
    PROVE  b = e
<1>1. PICK t : t = w[a]
  OBVIOUS
<1>2. /\ a < b /\ t \in Types
      /\ t \in {Uint32Type, CharType} => b = a + 1
      /\ t \in {Uint64Type, DoubleType} => b = a + 2
      /\ t = StringType => w[b] = StringEnd /\ \A m \in a + 1 .. b - 1 : w[m] # StringEnd
  BY <1>1 DEF IsConstant
<1>3. /\ a < e
      /\ t \in {Uint32Type, CharType} => e = a + 1
      /\ t \in {Uint64Type, DoubleType} => e = a + 2
      /\ t = StringType => w[e] = StringEnd /\ \A m \in a + 1 .. e - 1 : w[m] # StringEnd
  BY <1>1 DEF IsConstant
<1>4. t \in {Uint32Type, CharType} \/ t \in {Uint64Type, DoubleType} \/ t = StringType
  BY <1>2 DEF Types, Uint32Type, Uint64Type, DoubleType, CharType, StringType
<1>5. ASSUME t = StringType
      PROVE  b = e
  <2>1. b \notin a + 1 .. e - 1 /\ e \notin a + 1 .. b - 1
    BY <1>2, <1>3, <1>5
  <2> QED
    BY <1>2, <1>3, <2>1
<1> QED
  BY <1>2, <1>3, <1>4, <1>5

\* Two sequences of the same length and elements are one.
LEMMA SameSequence ==
    ASSUME NEW T, NEW a \in Seq(T), NEW b \in Seq(T), Len(a) = Len(b),
           \A n \in 1 .. Len(a) : a[n] = b[n]
    PROVE  a = b
OBVIOUS

\* two tables with the same labels at the same places
SameTable(T, U) == DOMAIN T = DOMAIN U /\ \A a \in DOMAIN T : T[a] = U[a]
\* two texts with the same lines from n to m
SameBetween(lines, others, n, m) == \A i \in n .. m : lines[i] = others[i]

\* Two listings of the constants of one program cut them at the same places, so
\* they are as many, and have the same labels and lines.
LEMMA SameConstants ==
    ASSUME NEW d, d.constants \in Seq(Words), NEW T, NEW U, NEW lines, NEW others,
           NEW k \in Nat, NEW s \in [0 .. k -> Nat], NEW m \in Nat, NEW r \in [0 .. m -> Nat],
           ConstantsListed(d, T, lines, k, s), ConstantsListed(d, U, others, m, r),
           s[k] = r[m]
    PROVE  k = m /\ SameBetween(lines, others, 1, k) /\ SameTable(T, U)
<1>1. /\ \A i, j \in 0 .. k : i < j => s[i] < s[j]
      /\ \A i \in 1 .. k :
            lines[i] = ConstantAs(Numbered("constant", i), d.constants[s[i - 1] + 1],
                                  SubSeq(d.constants, s[i - 1] + 2, s[i]))
      /\ DOMAIN T = {Len(d.code) + s[i - 1] + 1 : i \in 1 .. k}
      /\ \A i \in 1 .. k : T[Len(d.code) + s[i - 1] + 1] = Numbered("constant", i)
  BY Zenon DEF ConstantsListed
<1>2. /\ \A i, j \in 0 .. m : i < j => r[i] < r[j]
      /\ \A i \in 1 .. m :
            others[i] = ConstantAs(Numbered("constant", i), d.constants[r[i - 1] + 1],
                                   SubSeq(d.constants, r[i - 1] + 2, r[i]))
      /\ DOMAIN U = {Len(d.code) + r[i - 1] + 1 : i \in 1 .. m}
      /\ \A i \in 1 .. m : U[Len(d.code) + r[i - 1] + 1] = Numbered("constant", i)
  BY Zenon DEF ConstantsListed
<1>8. ASSUME NEW n \in Nat, n <= k, n <= m
      PROVE  \A i \in 0 .. n : s[i] = r[i]
  <2>1. s[0] = 0 /\ \A i \in 1 .. k : IsConstant(d.constants, s[i - 1] + 1, s[i])
    BY Zenon DEF ConstantsListed
  <2>2. r[0] = 0 /\ \A i \in 1 .. m : IsConstant(d.constants, r[i - 1] + 1, r[i])
    BY Zenon DEF ConstantsListed
  <2> DEFINE S == {i \in 0 .. n : s[i] = r[i]}
  <2>3. 0 \in S
    BY <2>1, <2>2
  <2>4. ASSUME NEW i \in 1 .. n, i - 1 \in S
        PROVE  i \in S
    <3>1. i \in 1 .. k /\ i \in 1 .. m /\ i \in 0 .. n
      BY <1>8
    <3>2. PICK a \in Nat, b \in Nat, e \in Nat :
              a = s[i - 1] + 1 /\ a = r[i - 1] + 1 /\ b = s[i] /\ e = r[i]
      <4>1. s[i - 1] = r[i - 1] /\ s[i - 1] \in Nat /\ s[i] \in Nat /\ r[i] \in Nat
        BY <2>4, <3>1
      <4>2. s[i - 1] + 1 \in Nat
        BY <4>1
      <4> QED
        BY <4>1, <4>2
    <3>3. IsConstant(d.constants, a, b)
      BY <2>1, <3>1, <3>2, Zenon
    <3>4. IsConstant(d.constants, a, e)
      BY <2>2, <3>1, <3>2, Zenon
    <3>5. b = e
      BY <3>3, <3>4, OneEnd, Zenon
    <3> QED
      BY <3>1, <3>2, <3>5
  <2>5. 0 .. n \subseteq S
    <3> HIDE DEF S
    <3> QED
      BY <2>3, <2>4, UpTo
  <2> QED
    BY <2>5
<1>3. k = m
  <2>1. CASE k < m
    <3>1. s[k] = r[k]
      <4>1. k <= k /\ k <= m /\ k \in 0 .. k
        BY <2>1
      <4>2. \A i \in 0 .. k : s[i] = r[i]
        BY <4>1, <1>8
      <4> QED
        BY <4>1, <4>2
    <3>2. k \in 0 .. m /\ m \in 0 .. m
      BY <2>1
    <3>3. r[k] < r[m] /\ r[k] \in Nat /\ r[m] \in Nat
      BY <1>2, <2>1, <3>2
    <3> QED
      BY <3>1, <3>3
  <2>2. CASE m < k
    <3>1. s[m] = r[m]
      <4>1. m <= k /\ m <= m /\ m \in 0 .. m
        BY <2>2
      <4>2. \A i \in 0 .. m : s[i] = r[i]
        BY <4>1, <1>8
      <4> QED
        BY <4>1, <4>2
    <3>2. m \in 0 .. k /\ k \in 0 .. k
      BY <2>2
    <3>3. s[m] < s[k] /\ s[m] \in Nat /\ s[k] \in Nat
      BY <1>1, <2>2, <3>2
    <3> QED
      BY <3>1, <3>3
  <2> QED
    BY <2>1, <2>2
<1>4. \A i \in 1 .. k : s[i] = r[i] /\ s[i - 1] = r[i - 1]
  <2>1. k <= k /\ k <= m
    BY <1>3
  <2>2. \A i \in 0 .. k : s[i] = r[i]
    BY <2>1, <1>8
  <2>3. \A i \in 1 .. k : i \in 0 .. k /\ i - 1 \in 0 .. k
    OBVIOUS
  <2> QED
    BY <2>2, <2>3
<1>5. \A i \in 1 .. k : lines[i] = others[i]
  BY <1>1, <1>2, <1>3, <1>4, Zenon
<1>6. DOMAIN T = DOMAIN U
  BY <1>1, <1>2, <1>3, <1>4
<1>7. ASSUME NEW a \in DOMAIN T
      PROVE  T[a] = U[a]
  <2>1. PICK i \in 1 .. k : a = Len(d.code) + s[i - 1] + 1
    BY <1>1
  <2> QED
    BY <1>1, <1>2, <1>3, <1>4, <2>1, Zenon
<1> QED
  BY <1>3, <1>5, <1>6, <1>7, Zenon DEF SameBetween, SameTable

\* Two listings of the commands of one program, with the same labels, are the
\* same lines.
LEMMA SameCommands ==
    ASSUME NEW d, NEW T, NEW U, NEW C, NEW lines, NEW others, NEW k \in Nat,
           NEW c \in Nat, NEW q \in [0 .. c -> Nat], NEW p \in [0 .. c -> Nat],
           CommandsListed(d, T, C, lines, k, c, q), CommandsListed(d, U, C, others, k, c, p),
           SameTable(T, U)
    PROVE  q[c] = p[c] /\ SameBetween(lines, others, k + 1, q[c])
<1>1. \A a : LabelBy(T, C, a) = LabelBy(U, C, a)
  BY Zenon DEF LabelBy, SameTable
<1>2. /\ q[0] = k
      /\ \A n \in k + 1 .. q[c] : \E i \in 1 .. c : n = q[i] \/ n = q[i] - 1
      /\ \A i \in 1 .. c :
            /\ lines[q[i]] = CommandBy(d.code[i], LabelBy(T, C, Meaning(d.code[i]).arg))
            /\ LabelBy(T, C, i - 1) = NoLabel => q[i] = q[i - 1] + 1
            /\ LabelBy(T, C, i - 1) # NoLabel =>
                  /\ q[i] = q[i - 1] + 2
                  /\ lines[q[i] - 1] = LoneLabel(LabelBy(T, C, i - 1))
  BY Zenon DEF CommandsListed
<1>3. /\ p[0] = k
      /\ \A i \in 1 .. c :
            /\ others[p[i]] = CommandBy(d.code[i], LabelBy(U, C, Meaning(d.code[i]).arg))
            /\ LabelBy(U, C, i - 1) = NoLabel => p[i] = p[i - 1] + 1
            /\ LabelBy(U, C, i - 1) # NoLabel =>
                  /\ p[i] = p[i - 1] + 2
                  /\ others[p[i] - 1] = LoneLabel(LabelBy(U, C, i - 1))
  BY Zenon DEF CommandsListed
<1> DEFINE S == {i \in 0 .. c : q[i] = p[i]}
<1>4. 0 \in S
  BY <1>2, <1>3
<1>5. ASSUME NEW i \in 1 .. c, i - 1 \in S
      PROVE  i \in S
  <2>1. i \in 0 .. c
    OBVIOUS
  <2>2. q[i - 1] = p[i - 1]
    BY <1>5
  <2>3. q[i] = p[i]
    <3>1. CASE LabelBy(T, C, i - 1) = NoLabel
      <4>1. LabelBy(U, C, i - 1) = NoLabel
        BY <1>1, <3>1, Zenon
      <4>2. q[i] = q[i - 1] + 1
        BY <1>2, <3>1, Zenon
      <4>3. p[i] = p[i - 1] + 1
        BY <1>3, <4>1, Zenon
      <4> QED
        BY <2>2, <4>2, <4>3, Zenon
    <3>2. CASE LabelBy(T, C, i - 1) # NoLabel
      <4>1. LabelBy(U, C, i - 1) # NoLabel
        BY <1>1, <3>2, Zenon
      <4>2. q[i] = q[i - 1] + 2
        BY <1>2, <3>2, Zenon
      <4>3. p[i] = p[i - 1] + 2
        BY <1>3, <4>1, Zenon
      <4> QED
        BY <2>2, <4>2, <4>3, Zenon
    <3> QED
      BY <3>1, <3>2, Zenon
  <2> QED
    BY <2>1, <2>3
<1>6. 0 .. c \subseteq S
  <2> HIDE DEF S
  <2> QED
    BY <1>4, <1>5, UpTo
<1>7. \A i \in 0 .. c : q[i] = p[i]
  BY <1>6
<1>8. \A i \in 1 .. c : i \in 0 .. c
  OBVIOUS
<1>9. ASSUME NEW i \in 1 .. c
      PROVE  lines[q[i]] = others[q[i]]
  <2>1. lines[q[i]] = CommandBy(d.code[i], LabelBy(T, C, Meaning(d.code[i]).arg))
    BY <1>2, Zenon
  <2>2. others[p[i]] = CommandBy(d.code[i], LabelBy(U, C, Meaning(d.code[i]).arg))
    BY <1>3, Zenon
  <2>3. LabelBy(T, C, Meaning(d.code[i]).arg) = LabelBy(U, C, Meaning(d.code[i]).arg)
    BY <1>1, Zenon
  <2>4. q[i] = p[i]
    BY <1>7, <1>8, Zenon
  <2> QED
    BY <2>1, <2>2, <2>3, <2>4, Zenon
<1>10. ASSUME NEW i \in 1 .. c, q[i] - 1 \in k + 1 .. q[c]
       PROVE  lines[q[i] - 1] = others[q[i] - 1]
  <2>1. CASE LabelBy(T, C, i - 1) # NoLabel
    <3>1. LabelBy(U, C, i - 1) # NoLabel
      BY <1>1, <2>1, Zenon
    <3>2. lines[q[i] - 1] = LoneLabel(LabelBy(T, C, i - 1))
      BY <1>2, <2>1, Zenon
    <3>3. others[p[i] - 1] = LoneLabel(LabelBy(U, C, i - 1))
      BY <1>3, <3>1, Zenon
    <3> QED
      BY <1>1, <1>7, <1>8, <3>2, <3>3, Zenon
  <2>2. CASE LabelBy(T, C, i - 1) = NoLabel
    <3>1. q[i] = q[i - 1] + 1
      BY <1>2, <2>2, Zenon
    <3>2. PICK x \in Nat : x = q[i - 1]
      OBVIOUS
    <3>3. q[i] - 1 = x /\ x # k
      BY <1>10, <3>1, <3>2
    <3>4. i - 1 \in 1 .. c
      BY <1>2, <3>2, <3>3
    <3> QED
      BY <1>9, <3>2, <3>3, <3>4
  <2> QED
    BY <2>1, <2>2
<1>11. \A n \in k + 1 .. q[c] : lines[n] = others[n]
  <2> TAKE n \in k + 1 .. q[c]
  <2>1. PICK i \in 1 .. c : n = q[i] \/ n = q[i] - 1
    BY <1>2
  <2>2. CASE n = q[i]
    BY <1>9, <2>2
  <2>3. CASE n = q[i] - 1
    BY <1>10, <2>3
  <2> QED
    BY <2>1, <2>2, <2>3
<1>12. q[c] = p[c]
  BY <1>7
<1> QED
  BY <1>11, <1>12, Zenon DEF SameBetween

\* A program has one listing.
LEMMA OneListing ==
    ASSUME NEW d \in Data, NEW T, NEW U, NEW C, NEW lines \in Seq(Line),
           NEW others \in Seq(Line),
           ListingOf(d, T, C, lines), ListingOf(d, U, C, others)
    PROVE  lines = others
<1>1. PICK k \in Nat, l \in Nat :
        /\ ConstantsUpTo(d, T, lines, k, Len(d.constants))
        /\ CommandsUpTo(d, T, C, lines, k, Len(d.code), l)
        /\ Len(lines) = l + 1 /\ lines[l + 1] = EndMain
  BY DEF ListingOf
<1>2. PICK m \in Nat, o \in Nat :
        /\ ConstantsUpTo(d, U, others, m, Len(d.constants))
        /\ CommandsUpTo(d, U, C, others, m, Len(d.code), o)
        /\ Len(others) = o + 1 /\ others[o + 1] = EndMain
  BY DEF ListingOf
<1>3. PICK s \in [0 .. k -> Nat] :
         s[k] = Len(d.constants) /\ ConstantsListed(d, T, lines, k, s)
  BY <1>1, Zenon DEF ConstantsUpTo
<1>4. PICK r \in [0 .. m -> Nat] :
         r[m] = Len(d.constants) /\ ConstantsListed(d, U, others, m, r)
  BY <1>2, Zenon DEF ConstantsUpTo
<1>5. d.constants \in Seq(Words) /\ s[k] = r[m]
  BY <1>3, <1>4 DEF Data
<1>6. k = m /\ SameBetween(lines, others, 1, k) /\ SameTable(T, U)
  BY <1>3, <1>4, <1>5, SameConstants
<1>7. PICK c \in Nat : c = Len(d.code)
  BY SegmentSizes
<1>8. PICK q \in [0 .. c -> Nat] : q[c] = l /\ CommandsListed(d, T, C, lines, k, c, q)
  BY <1>1, <1>7, Zenon DEF CommandsUpTo
<1>9. PICK p \in [0 .. c -> Nat] : p[c] = o /\ CommandsListed(d, U, C, others, k, c, p)
  BY <1>2, <1>6, <1>7, Zenon DEF CommandsUpTo
<1>10. l = o /\ SameBetween(lines, others, k + 1, l)
  <2>1. SameTable(T, U)
    BY <1>6
  <2>2. CommandsListed(d, T, C, lines, k, c, q)
    BY <1>8
  <2>3. CommandsListed(d, U, C, others, k, c, p)
    BY <1>9
  <2>4. q[c] = p[c] /\ SameBetween(lines, others, k + 1, q[c])
    BY <2>1, <2>2, <2>3, SameCommands
  <2> QED
    BY <1>8, <1>9, <2>4, Zenon
<1>11. Len(lines) = l + 1 /\ Len(others) = l + 1
  BY <1>1, <1>2, <1>10
<1>12. lines[l + 1] = others[l + 1]
  BY <1>1, <1>2, <1>10
<1>13. \A n \in 1 .. l + 1 : lines[n] = others[n]
  <2> TAKE n \in 1 .. l + 1
  <2>1. n \in 1 .. k \/ n \in k + 1 .. l \/ n = l + 1
    OBVIOUS
  <2> QED
    BY <1>6, <1>10, <1>12, <2>1 DEF SameBetween
<1> QED
  BY <1>11, <1>13, SameSequence

-----------------------------------------------------------------------------
(***************************************************************************)
(* Disassembling what a listing was compiled to gives the listing again.   *)
(***************************************************************************)
\* the last listing that was compiled is one of the program
ListedAs(d) ==
    ListingOf(d, original.constantLabels, CommandLabelsOf(d), original.listing)

\* What is compiled from a listing, written and read again is a program of that
\* listing, if its characters are whole.
StableInv ==
    Recompiled /\ CharactersAreWhole(original.listing) =>
        /\ phase = "write" => ListedAs(data)
        /\ phase = "read" => round > 0 /\ ListedAs(compiled)
        /\ phase \in Reading => ListedAs(data)

\* Compiling a listing gives a program of that listing.
LEMMA CompiledAsListed ==
    ASSUME IsRelisted, OriginalIs, Accepted, CharactersAreWhole(original.listing),
           data' = AssembledData, data' \in Data, original' = original
    PROVE  ListedAs(data)'
<1>1. PICK k \in Nat : \E s \in [0 .. k -> Nat] : \E c \in Nat :
              \E q \in [0 .. c -> Nat] : \E n \in Nat : Relists(k, s, c, q, n)
  BY Zenon DEF IsRelisted
<1>2. PICK s \in [0 .. k -> Nat] : \E c \in Nat :
              \E q \in [0 .. c -> Nat] : \E n \in Nat : Relists(k, s, c, q, n)
  BY <1>1, Zenon
<1>3. PICK c \in Nat : \E q \in [0 .. c -> Nat] : \E n \in Nat : Relists(k, s, c, q, n)
  BY <1>2, Zenon
<1>4. PICK q \in [0 .. c -> Nat] : \E n \in Nat : Relists(k, s, c, q, n)
  BY <1>3, Zenon
<1>5. PICK n \in Nat : Relists(k, s, c, q, n)
  BY <1>4, Zenon
<1>6. text \in Seq(Line) /\ data \in Data
  BY <1>5 DEF Relists
<1>7. AllLinesValid
  BY <1>6, AcceptedLines DEF AllLinesValid
<1>8. /\ original.data = data /\ original.listing = text
      /\ original.constantLabels = constantLabels
  BY DEF OriginalIs
<1>9. PICK d \in Data : d = AssembledData /\ d = data'
  OBVIOUS
<1>10. MeanTheSame(data, d)
  <2>1. SameProgram'
    BY RelistedCompiles
  <2>2. original'.data = data
    BY <1>8
  <2>3. /\ data'.entrypoint = data.entrypoint /\ Len(data'.code) = Len(data.code)
        /\ \A i \in DOMAIN data.code : Meaning(data'.code[i]) = Meaning(data.code[i])
    BY <2>1, <2>2, Zenon DEF SameProgram
  <2>4. DOMAIN data.code = 1 .. Len(data.code)
    BY <1>6 DEF Data
  <2> QED
    BY <1>9, <2>3, <2>4, Zenon DEF MeanTheSame
<1>11. CharactersAreWhole(text)
  BY <1>8
<1>12. ListingOf(d, constantLabels, CommandLabelsOf(d), text)
  BY <1>5, <1>7, <1>9, <1>10, <1>11, RelistedIsListing
<1>13. ListingOf(data', original'.constantLabels, CommandLabelsOf(data'), original'.listing)
  BY <1>8, <1>9, <1>12, Zenon
<1> QED
  BY <1>13, Zenon DEF ListedAs

\* Every step keeps it.
LEMMA StableInvNext ==
    ASSUME StableInv, RelistedInv, TypeOK, TypeOK', OnlyWholeFilesAreRead', [Next]_vars
    PROVE  StableInv'
<1>1. CASE Compile
  <2>1. /\ phase = "compile" /\ Accepted /\ data' = AssembledData
        /\ phase' = "write" /\ original' = original
    BY <1>1 DEF Compile
  <2>2. SUFFICES ASSUME Recompiled', CharactersAreWhole(original'.listing)
                 PROVE  ListedAs(data)'
    BY <2>1, Zenon DEF StableInv, Reading
  <2>3. Recompiled /\ CharactersAreWhole(original.listing)
    BY <2>1, <2>2 DEF Recompiled
  <2>4. IsRelisted /\ OriginalIs
    <3>1. /\ commandLabels = CommandLabels
          /\ \A w \in ToSet(data.code) : Known(w)
          /\ ListingOf(data, constantLabels, commandLabels, listing)
          /\ text = listing
          /\ original = [data |-> data, constantLabels |-> constantLabels,
                         listing |-> listing]
          /\ FitsMemory(data)
      BY <2>1, <2>3 DEF RelistedInv, ListedInv
    <3>2. data \in Data /\ text \in Seq(Line)
      BY DEF TypeOK
    <3> QED
      BY <3>1, <3>2, ListedIsRelisted DEF OriginalIs
  <2>5. data' \in Data
    BY DEF TypeOK
  <2> QED
    BY <2>1, <2>3, <2>4, <2>5, CompiledAsListed
<1>2. CASE Write
  <2>1. /\ phase = "write" /\ phase' = "read" /\ compiled' = data
        /\ round' = round + 1 /\ original' = original
    BY <1>2 DEF Write
  <2>2. round' > 0
    <3>1. round \in 0 .. MaxRounds
      BY DEF TypeOK
    <3> QED
      BY <2>1, <3>1
  <2>3. SUFFICES ASSUME Recompiled', CharactersAreWhole(original'.listing)
                 PROVE  ListedAs(compiled)'
    BY <2>1, <2>2, Zenon DEF StableInv, Reading
  <2>4. ListedAs(data)
    BY <2>1, <2>3 DEF StableInv, Recompiled
  <2> QED
    BY <2>1, <2>4, Zenon DEF ListedAs
<1>3. CASE Read
  <2>1. /\ phase = "read" /\ phase' \in Reading /\ compiled' = compiled
        /\ round' = round /\ original' = original
    BY <1>3 DEF Read, StartDisassembly, Reading
  <2>2. SUFFICES ASSUME Recompiled', CharactersAreWhole(original'.listing)
                 PROVE  ListedAs(data)'
    BY <2>1, Zenon DEF StableInv, Reading
  <2>3. round > 0 /\ ListedAs(compiled)
    BY <2>1, <2>2 DEF StableInv, Recompiled
  <2>4. data' = compiled
    <3>1. (phase \in Reading /\ round > 0 => data = compiled)'
      BY DEF OnlyWholeFilesAreRead
    <3> QED
      BY <2>1, <2>3, <3>1 DEF Reading
  <2> QED
    BY <2>1, <2>3, <2>4, Zenon DEF ListedAs
<1>4. CASE RefuseText \/ RefuseFile \/ CompileListing
  <2>1. phase' \notin {"write", "read"} \cup Reading
    BY <1>4 DEF RefuseText, RefuseFile, CompileListing, Fail, Reading
  <2> QED
    BY <2>1 DEF StableInv
<1>5. CASE Disassemble /\ UNCHANGED <<text, file, round, compiled, original>>
  <2>1. phase \in Reading /\ phase' \notin {"write", "read"} /\ data' = data
    BY <1>5 DEF Disassemble, UnknownConstantType, TruncatedConstant, DisassembleConstant,
                PrepareCommandLabels, UnknownCommand, DisassembleCommand, EndListing,
                Fail, AtConstant, Reading
  <2>2. SUFFICES ASSUME Recompiled', CharactersAreWhole(original'.listing)
                 PROVE  ListedAs(data)'
    BY <2>1, Zenon DEF StableInv
  <2>3. ListedAs(data)
    BY <1>5, <2>1, <2>2 DEF StableInv, Recompiled
  <2> QED
    BY <1>5, <2>1, <2>3, Zenon DEF ListedAs
<1>6. CASE UNCHANGED vars
  <2>1. UNCHANGED <<phase, data, round, compiled, original>>
    BY <1>6 DEF vars, disasmVars
  <2> QED
    BY <2>1 DEF StableInv, ListedAs, Recompiled
<1> QED
  BY <1>1, <1>2, <1>3, <1>4, <1>5, <1>6 DEF Next

\* What is read back is listed as it was: a program has one listing.
LEMMA ListedAgain ==
    ASSUME StableInv, RelistedInv, TypeOK
    PROVE  ListingIsStable
<1>1. SUFFICES ASSUME phase = "listed", Recompiled, CharactersAreWhole(original.listing)
               PROVE  listing = original.listing
  BY DEF ListingIsStable
<1>2. ListedAs(data)
  BY <1>1 DEF StableInv, Reading
<1>3. commandLabels = CommandLabels /\ ListingOf(data, constantLabels, commandLabels, listing)
  BY <1>1 DEF RelistedInv, ListedInv
<1>4. ListingOf(data, constantLabels, CommandLabelsOf(data), listing)
  BY <1>3, CommandLabelsAre
<1>5. data \in Data /\ listing \in Seq(Line) /\ original.listing \in Seq(Line)
  BY DEF TypeOK
<1>6. ListingOf(data, original.constantLabels, CommandLabelsOf(data), original.listing)
  BY <1>2 DEF ListedAs
<1> QED
  BY <1>4, <1>5, <1>6, OneListing

\* A listing that is compiled, written, read and disassembled again comes out as
\* it was, line for line and label for label (Disassembler::Impl): for every
\* program whose strings hold no zero inside, and whose listing was accepted.
THEOREM ListingsAreStable == Spec /\ []AssembledFits => []ListingIsStable
<1>1. Init => RelistedInv /\ StableInv
  <2> SUFFICES ASSUME Init
               PROVE  RelistedInv /\ StableInv
    OBVIOUS
  <2>1. original.listing = <<>>
    BY DEF Init, NoListing
  <2>2. ~Recompiled
    BY <2>1 DEF Recompiled
  <2> QED
    BY <2>2, RelistedInvInit DEF StableInv
<1>2. ProgramInv /\ ProgramInv' /\ OnlyWholeFilesAreRead' /\ RelistedInv /\ StableInv
         /\ [Next]_vars => RelistedInv' /\ StableInv'
  <2> SUFFICES ASSUME ProgramInv, ProgramInv', OnlyWholeFilesAreRead',
                      RelistedInv, StableInv, [Next]_vars
               PROVE  RelistedInv' /\ StableInv'
    OBVIOUS
  <2>1. TypesInv /\ ReadInv
    BY DEF ProgramInv
  <2>2. TypeOK /\ TypeOK'
    BY DEF ProgramInv, TypesInv
  <2>3. phase \in Reading => FitsMemory(data)
    BY <2>1, ReadFits
  <2>4. RelistedInv'
    BY <2>1, <2>2, <2>3, RelistedInvNext
  <2>5. StableInv'
    BY <2>2, StableInvNext
  <2> QED
    BY <2>4, <2>5
<1>3. ProgramInv /\ RelistedInv /\ StableInv => ListingIsStable
  <2> SUFFICES ASSUME ProgramInv, RelistedInv, StableInv
               PROVE  ListingIsStable
    OBVIOUS
  <2>1. TypeOK
    BY DEF ProgramInv, TypesInv
  <2> QED
    BY <2>1, ListedAgain
<1> QED
  BY <1>1, <1>2, <1>3, ProgramInvariance, OnlyWholeFiles, PTL DEF Spec
=============================================================================
