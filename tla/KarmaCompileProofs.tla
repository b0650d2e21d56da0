-------------------------- MODULE KarmaCompileProofs --------------------------
(***************************************************************************)
(* Proofs about a compilation, for every set of files and labels, every    *)
(* program and every number of workers: the types, that the search for     *)
(* includes puts each file once and after the files it includes, and that  *)
(* the workers together leave the whole result of every file.              *)
(*                                                                         *)
(* The inductive invariant has a part per thread of control: what the      *)
(* stack of the search has to do with the sets it fills, how the slices of *)
(* the workers follow one another, what an open file holds so far, and     *)
(* that every slot below the last slice is finished or still to come.      *)
(* What depends on the program only is written as an operator of the       *)
(* program, which no step changes.                                         *)
(*                                                                         *)
(* The second half is about the order of the files: the traversal that     *)
(* defines it for the abstract assembler is a function, and the search     *)
(* with its stack of calls ends with the order of that function.           *)
(***************************************************************************)
EXTENDS KarmaCompile, SequenceTheorems, WellFoundedInduction, FiniteSetTheorems, TLAPS

\* Reachable(f) and ItemLines(f) of the program s.
Within(s, f) ==
    {g \in Files : \A files \in SUBSET Files :
        /\ f \in files
        /\ \A h \in files : Files \cap ToSet(s[h].includes) \subseteq files
        => g \in files}

ItemsOf(s, f) ==
    {<<f, n>> : n \in {k \in DOMAIN s[f].lines :
                           s[f].lines[k].item \in {"command", "constant"}}}

\* What the phases have done and not done yet.
PhasesInv ==
    /\ phase = "start" => visiting = <<>> /\ files_ = <<>> /\ all_includes_ = {}
    /\ phase = "includes" => visiting # <<>>
    /\ phase \in {"start", "includes"} => workers = <<>>
    /\ phase \in {"join", "merge", "write"} => workers # <<>> /\ Len(workers) = NWorkers
    /\ phase \in {"merge", "write"} =>
          \A w \in DOMAIN workers : workers[w].next > workers[w].last

FilesOf(calls) == {calls[i].file : i \in DOMAIN calls}

\* The search is at a chain of files each of which includes the next one.  What
\* a file on the chain includes is entered or waits in its call; what a file
\* that was left includes is entered.
SearchInv ==
    phase \in {"start", "includes"} =>
    /\ \A i, j \in DOMAIN visiting :
          i <= j => visiting[j].file \in Within(source, visiting[i].file)
    /\ \A i, j \in DOMAIN visiting : visiting[i].file = visiting[j].file => i = j
    /\ visiting # <<>> => visiting[1].file = Root
    /\ \A i \in DOMAIN visiting :
          LET includes == ToSet(source[visiting[i].file].includes)
          IN  /\ ToSet(visiting[i].rest) \subseteq includes
              /\ includes \subseteq ToSet(visiting[i].rest) \cup all_includes_
    /\ \A f \in ToSet(files_) : ToSet(source[f].includes) \subseteq all_includes_
    /\ all_includes_ \subseteq Within(source, Root)
    /\ phase = "includes" => Root \in all_includes_
    /\ \A i \in DOMAIN visiting : visiting[i].file \notin ToSet(files_)
    /\ all_includes_ = FilesOf(visiting) \cup ToSet(files_)

\* What IncludedFirst says of the files that were left.
OrderInv ==
    /\ \A i, j \in DOMAIN files_ : files_[i] = files_[j] => i = j
    /\ \A i \in DOMAIN files_ : \A g \in ToSet(source[files_[i]].includes) :
          \/ \E j \in 1 .. i : files_[j] = g
          \/ files_[i] \in Within(source, g)
    /\ phase \in {"spawn", "join", "merge", "write"} =>
          ToSet(files_) = Within(source, Root) /\ Last(files_) = Root

\* The slices follow one another: the first ones have one file more.
SliceEnd(n, k, length) ==
    k * (length \div n) + (IF k < length % n THEN k ELSE length % n)

SlicesInv ==
    workers # <<>> =>
        /\ Len(workers) <= NWorkers
        /\ Len(files_data) = Len(files_)
        /\ Last(workers).last = SliceEnd(NWorkers, Len(workers), Len(files_))

\* The lines an open file gave words for are those before the current one.
OpenFilesInv ==
    \A w \in DOMAIN workers : workers[w].line > 0 =>
        /\ workers[w].next <= workers[w].last
        /\ LinesIn(workers[w].data)
             = {p \in ItemsOf(source, files_[workers[w].next]) :
                    p[2] < workers[w].line}

\* A slot below the last slice is complete, or a worker has still to come to it.
SlotsInv ==
    workers # <<>> =>
        \A i \in 1 .. Last(workers).last :
            \/ LinesIn(files_data[i]) = ItemsOf(source, files_[i])
            \/ \E w \in DOMAIN workers : workers[w].next <= i /\ i <= workers[w].last

IInv == /\ TypeOK /\ PhasesInv /\ SearchInv /\ OrderInv
        /\ SlicesInv /\ OpenFilesInv /\ SlotsInv
-----------------------------------------------------------------------------
(***************************************************************************)
(* Sequences.                                                              *)
(***************************************************************************)
\* The elements of a sequence with one more.
LEMMA ElementsOfAppend ==
    ASSUME NEW S, NEW s \in Seq(S), NEW e \in S
    PROVE  ToSet(Append(s, e)) = ToSet(s) \cup {e}
BY AppendProperties DEF ToSet

\* The elements of two sequences put together.
LEMMA ElementsOfConcat ==
    ASSUME NEW S, NEW s \in Seq(S), NEW t \in Seq(S)
    PROVE  ToSet(s \o t) = ToSet(s) \cup ToSet(t)
<1>1. /\ s \o t \in Seq(S) /\ Len(s \o t) = Len(s) + Len(t)
      /\ \A i \in 1 .. Len(s) + Len(t) :
            (s \o t)[i] = IF i <= Len(s) THEN s[i] ELSE t[i - Len(s)]
  BY ConcatProperties
<1>2. DOMAIN s = 1 .. Len(s) /\ DOMAIN t = 1 .. Len(t)
      /\ DOMAIN (s \o t) = 1 .. Len(s) + Len(t)
      /\ Len(s) \in Nat /\ Len(t) \in Nat
  BY <1>1, LenProperties
<1>3. ASSUME NEW i \in DOMAIN (s \o t) PROVE (s \o t)[i] \in ToSet(s) \cup ToSet(t)
  BY <1>1, <1>2 DEF ToSet
<1>4. ASSUME NEW i \in DOMAIN s PROVE s[i] \in ToSet(s \o t)
  <2>1. i \in DOMAIN (s \o t) /\ (s \o t)[i] = s[i]
    BY <1>1, <1>2
  <2> QED
    BY <2>1 DEF ToSet
<1>5. ASSUME NEW i \in DOMAIN t PROVE t[i] \in ToSet(s \o t)
  <2>1. Len(s) + i \in DOMAIN (s \o t) /\ (s \o t)[Len(s) + i] = t[i]
    BY <1>1, <1>2
  <2> QED
    BY <2>1 DEF ToSet
<1> QED
  BY <1>3, <1>4, <1>5 DEF ToSet

\* A sequence that is not empty has a first element.
LEMMA NonEmpty ==
    ASSUME NEW S, NEW s \in Seq(S)
    PROVE  s # <<>> <=> 1 \in DOMAIN s
<1>1. DOMAIN s = 1 .. Len(s) /\ Len(s) \in Nat
  BY LenProperties
<1>2. s # <<>> => Len(s) \in Nat \ {0}
  BY EmptySeq
<1>3. s = <<>> => Len(s) = 0
  BY EmptySeq
<1> QED
  BY <1>1, <1>2, <1>3

\* A sequence is its front and its last element.
LEMMA FrontAndLast ==
    ASSUME NEW S, NEW s \in Seq(S), s # <<>>
    PROVE  /\ Len(s) \in Nat \ {0} /\ Last(s) = s[Len(s)] /\ Last(s) \in S
           /\ Front(s) \in Seq(S) /\ Len(Front(s)) = Len(s) - 1
           /\ \A i \in 1 .. Len(s) - 1 : Front(s)[i] = s[i]
<1>1. Len(s) \in Nat \ {0}
  BY EmptySeq
<1>2. \A i \in 1 .. Len(s) - 1 : s[i] \in S
  BY <1>1, ElementOfSeq
<1> DEFINE n == Len(s) - 1
<1>3. n \in Nat /\ 1 \in Int /\ n \in Int
  BY <1>1
<1> HIDE DEF n
<1>4. /\ SubSeq(s, 1, n) \in Seq(S)
      /\ Len(SubSeq(s, 1, n)) = IF 1 <= n THEN n - 1 + 1 ELSE 0
      /\ \A i \in 1 .. n - 1 + 1 : SubSeq(s, 1, n)[i] = s[1 + i - 1]
  <2>1. \A i \in 1 .. n : s[i] \in S
    BY <1>2 DEF n
  <2> QED
    BY <1>3, <2>1, SubSeqProperties
<1>5. /\ Len(SubSeq(s, 1, n)) = n
      /\ \A i \in 1 .. n : SubSeq(s, 1, n)[i] = s[i]
  BY <1>3, <1>4
<1> QED
  BY <1>1, <1>4, <1>5, ElementOfSeq DEF Front, Last, n
-----------------------------------------------------------------------------
(***************************************************************************)
(* The inclusion graph.                                                    *)
(***************************************************************************)
\* The operators of the program are those of the module.
LEMMA OfTheProgram ==
    ASSUME NEW f
    PROVE  Reachable(f) = Within(source, f) /\ ItemLines(f) = ItemsOf(source, f)
BY DEF Reachable, IsClosed, Within, ItemLines, ItemsOf

\* A file reaches itself.
LEMMA WithinSelf ==
    ASSUME NEW s, NEW f \in Files
    PROVE  f \in Within(s, f)
BY DEF Within

\* What is included by a file that is reached is reached.
LEMMA WithinStep ==
    ASSUME NEW s, NEW f, NEW g \in Within(s, f),
           NEW h \in Files, h \in ToSet(s[g].includes)
    PROVE  h \in Within(s, f)
<1> SUFFICES ASSUME NEW files \in SUBSET Files, f \in files,
                    \A k \in files : Files \cap ToSet(s[k].includes) \subseteq files
             PROVE  h \in files
  BY DEF Within
<1>1. g \in files
  BY DEF Within
<1> QED
  BY <1>1

\* Reaching is transitive.
LEMMA WithinTransitive ==
    ASSUME NEW s, NEW f, NEW g \in Within(s, f), NEW h \in Within(s, g)
    PROVE  h \in Within(s, f)
BY DEF Within

\* What is reached is in every set that has the file and is closed.
LEMMA WithinLeast ==
    ASSUME NEW s, NEW f, NEW files \in SUBSET Files, f \in files,
           \A h \in files : Files \cap ToSet(s[h].includes) \subseteq files
    PROVE  Within(s, f) \subseteq files
BY DEF Within
-----------------------------------------------------------------------------
(***************************************************************************)
(* The types of the data and what each line adds.                          *)
(***************************************************************************)
\* Every program has its types, whatever file and line is looked at.
LEMMA SourceFacts ==
    ASSUME TypeOK, NEW f \in Files
    PROVE  /\ source[f] \in SourceFile
           /\ source[f].lines \in Seq(Line)
           /\ DOMAIN source[f].lines = 1 .. Len(source[f].lines)
           /\ Len(source[f].lines) \in Nat
           /\ \A n \in DOMAIN source[f].lines : source[f].lines[n] \in Line
           /\ source[f].includes \in Seq(Files \cup {NoFile})
<1>1. source[f] \in SourceFile
  BY DEF TypeOK
<1>2. source[f].lines \in Seq(Line) /\ source[f].includes \in Seq(Files \cup {NoFile})
  BY <1>1 DEF SourceFile
<1> QED
  BY <1>1, <1>2, LenProperties, ElementOfSeq

\* A label that stands before an item gives an entry of a table.
LEMMA AtType ==
    ASSUME NEW label \in MaybeLabel, NEW position \in Nat
    PROVE  At(label, position) \in Table
BY DEF At, Table, MaybeLabel

\* Nothing collected yet.
LEMMA EmptyDataType == EmptyData \in DataType /\ LinesIn(EmptyData) = {}
<1>1. EmptyData \in DataType
  BY EmptySeq DEF EmptyData, DataType, Table, MaybeLabel
<1>2. EmptyData.code \o EmptyData.constants = <<>>
  BY ConcatEmptySeq, EmptySeq DEF EmptyData
<1>3. ToSet(<<>>) = {}
  BY DEF ToSet
<1> QED
  BY <1>1, <1>2, <1>3 DEF LinesIn

\* The lines of a set of words.
LinesOf(cells) == {<<c.origin[1], c.origin[2]>> : c \in cells}

\* The lines of two sets of words.
LEMMA LinesOfUnion ==
    ASSUME NEW A, NEW B
    PROVE  LinesOf(A \cup B) = LinesOf(A) \cup LinesOf(B)
BY DEF LinesOf

\* The lines of code and constants put together.
LEMMA LinesOfParts ==
    ASSUME NEW d \in DataType
    PROVE  LinesIn(d) = LinesOf(ToSet(d.code)) \cup LinesOf(ToSet(d.constants))
<1>1. d.code \in Seq(Cell) /\ d.constants \in Seq(Cell)
  BY DEF DataType
<1>2. ToSet(d.code \o d.constants) = ToSet(d.code) \cup ToSet(d.constants)
  BY <1>1, ElementsOfConcat
<1> QED
  BY <1>2, LinesOfUnion DEF LinesIn, LinesOf

\* A command adds one word, of its line.
LEMMA AddCommandFacts ==
    ASSUME TypeOK, NEW d \in DataType, NEW label \in MaybeLabel,
           NEW f \in Files, NEW n \in DOMAIN source[f].lines
    PROVE  /\ AddCommand(d, label, f, n) \in DataType
           /\ LinesIn(AddCommand(d, label, f, n)) = LinesIn(d) \cup {<<f, n>>}
<1> DEFINE line == source[f].lines[n]
           cell == [origin |-> <<f, n, 0>>,
                    addr |-> IF line.use = NoLabel THEN line.arg ELSE 0]
           more == [d EXCEPT !.commandsLabels = @ \cup At(label, Len(d.code)),
                             !.usages = @ \cup At(line.use, Len(d.code)),
                             !.code = Append(@, cell)]
<1>1. line \in Line /\ n \in Nat \ {0}
  BY SourceFacts
<1>2. cell \in Cell
  BY <1>1 DEF Line, Cell, Origins
<1>3. AddCommand(d, label, f, n) = more
  BY DEF AddCommand
<1>4. /\ d.code \in Seq(Cell) /\ Len(d.code) \in Nat
      /\ d.commandsLabels \in Table /\ d.usages \in Table
  BY LenProperties DEF DataType
<1>5. At(label, Len(d.code)) \in Table /\ At(line.use, Len(d.code)) \in Table
  BY <1>1, <1>4, AtType DEF Line
<1>6. /\ Append(d.code, cell) \in Seq(Cell)
      /\ ToSet(Append(d.code, cell)) = ToSet(d.code) \cup {cell}
  BY <1>2, <1>4, AppendProperties, ElementsOfAppend
<1>7. cell.origin[1] = f /\ cell.origin[2] = n
  OBVIOUS
<1> HIDE DEF cell, line
<1>8. more \in DataType
  BY <1>4, <1>5, <1>6 DEF DataType, Table
<1>9. more.code = Append(d.code, cell) /\ more.constants = d.constants
  BY DEF DataType
<1> HIDE DEF more
<1>10. LinesIn(more) = LinesIn(d) \cup {<<f, n>>}
  <2>1. LinesOf({cell}) = {<<f, n>>}
    BY <1>7 DEF LinesOf
  <2>2. LinesOf(ToSet(more.code)) = LinesOf(ToSet(d.code)) \cup {<<f, n>>}
    BY <1>6, <1>9, <2>1, LinesOfUnion
  <2> QED
    BY <1>8, <1>9, <2>2, LinesOfParts
<1> QED
  BY <1>3, <1>8, <1>10

\* A constant adds the word of its type and those of its value, all of its line.
LEMMA AddConstantFacts ==
    ASSUME TypeOK, NEW d \in DataType, NEW label \in MaybeLabel,
           NEW f \in Files, NEW n \in DOMAIN source[f].lines
    PROVE  /\ AddConstant(d, label, f, n) \in DataType
           /\ LinesIn(AddConstant(d, label, f, n)) = LinesIn(d) \cup {<<f, n>>}
<1> DEFINE size  == source[f].lines[n].arg + 1
           words == [k \in 1 .. size |-> [origin |-> <<f, n, k - 1>>, addr |-> 0]]
           more  == [d EXCEPT
                        !.constantsLabels = @ \cup At(label, Len(d.constants) + 1),
                        !.constants = @ \o words]
<1>1. source[f].lines[n] \in Line /\ n \in Nat \ {0}
  BY SourceFacts
<1>2. size \in Nat /\ size > 0
  BY <1>1 DEF Line
<1> HIDE DEF size
<1>3. words \in Seq(Cell) /\ DOMAIN words = 1 .. size
  <2>1. \A k \in 1 .. size : [origin |-> <<f, n, k - 1>>, addr |-> 0] \in Cell
    BY <1>1, <1>2 DEF Cell, Origins
  <2>2. words \in [1 .. size -> Cell]
    BY <2>1
  <2> QED
    BY <1>2, <2>2, SeqDef
<1>4. \A k \in 1 .. size : words[k].origin[1] = f /\ words[k].origin[2] = n
  OBVIOUS
<1>5. AddConstant(d, label, f, n) = more
  BY DEF AddConstant, size
<1>6. /\ d.constants \in Seq(Cell) /\ Len(d.constants) + 1 \in Nat
      /\ d.constantsLabels \in Table
  BY LenProperties DEF DataType
<1>7. At(label, Len(d.constants) + 1) \in Table
  BY <1>6, AtType
<1> HIDE DEF words
<1>8. /\ d.constants \o words \in Seq(Cell)
      /\ ToSet(d.constants \o words) = ToSet(d.constants) \cup ToSet(words)
  BY <1>3, <1>6, ConcatProperties, ElementsOfConcat
<1>9. more \in DataType
  BY <1>6, <1>7, <1>8 DEF DataType, Table
<1>10. more.code = d.code /\ more.constants = d.constants \o words
  BY DEF DataType
<1> HIDE DEF more
<1>11. LinesOf(ToSet(words)) = {<<f, n>>}
  <2>1. \A c \in ToSet(words) : c.origin[1] = f /\ c.origin[2] = n
    BY <1>3, <1>4 DEF ToSet
  <2>2. words[1] \in ToSet(words)
    BY <1>2, <1>3 DEF ToSet
  <2> QED
    BY <2>1, <2>2 DEF LinesOf
<1>12. LinesIn(more) = LinesIn(d) \cup {<<f, n>>}
  <2>1. LinesOf(ToSet(more.constants)) = LinesOf(ToSet(d.constants)) \cup {<<f, n>>}
    BY <1>8, <1>10, <1>11, LinesOfUnion
  <2> QED
    BY <1>9, <1>10, <2>1, LinesOfParts
<1> QED
  BY <1>5, <1>9, <1>12

\* The entrypoint directive adds no word.
LEMMA AddEntrypointFacts ==
    ASSUME NEW d \in DataType, NEW line \in Line
    PROVE  /\ AddEntrypoint(d, line) \in DataType
           /\ LinesIn(AddEntrypoint(d, line)) = LinesIn(d)
<1>1. AddEntrypoint(d, line) \in DataType
  BY DEF AddEntrypoint, DataType, Line
<1>2. /\ AddEntrypoint(d, line).code = d.code
      /\ AddEntrypoint(d, line).constants = d.constants
  BY DEF AddEntrypoint, DataType
<1> QED
  BY <1>1, <1>2, LinesOfParts

\* A table that is moved is a table.
LEMMA ShiftType ==
    ASSUME NEW table \in Table, NEW by \in Nat
    PROVE  Shift(table, by) \in Table
<1>1. \A e \in table : <<e[1], e[2] + by>> \in Labels \X Nat
  BY DEF Table
<1> QED
  BY <1>1 DEF Shift, Table

\* Two results merged are a result.
LEMMA MergeType ==
    ASSUME NEW d \in DataType, NEW used \in DataType
    PROVE  Merge(d, used) \in DataType
<1>1. /\ d.code \in Seq(Cell) /\ used.code \in Seq(Cell)
      /\ d.constants \in Seq(Cell) /\ used.constants \in Seq(Cell)
      /\ Len(d.code) \in Nat /\ Len(d.constants) \in Nat
  BY LenProperties DEF DataType
<1>2. /\ d.code \o used.code \in Seq(Cell)
      /\ d.constants \o used.constants \in Seq(Cell)
  BY <1>1, ConcatProperties
<1>3. /\ Shift(used.commandsLabels, Len(d.code)) \in Table
      /\ Shift(used.usages, Len(d.code)) \in Table
      /\ Shift(used.constantsLabels, Len(d.constants)) \in Table
  BY <1>1, ShiftType DEF DataType
<1> QED
  BY <1>2, <1>3 DEF Merge, MergedConstantsLabels, DataType, Table

\* A label that is defined has an address.
LEMMA AddressType ==
    ASSUME NEW d \in DataType, NEW label, TryGetDefinition(d, label) # {}
    PROVE  AddressOf(d, label) \in Nat
<1>1. \A table \in Table : Positions(table, label) \subseteq Nat
  BY DEF Table, Positions
<1>2. Len(d.code) \in Nat /\ d.commandsLabels \in Table /\ d.constantsLabels \in Table
  BY LenProperties DEF DataType
<1>3. TryGetDefinition(d, label) \subseteq Nat
  BY <1>1, <1>2 DEF TryGetDefinition
<1>4. AddressOf(d, label) \in TryGetDefinition(d, label)
  BY DEF AddressOf
<1> QED
  BY <1>3, <1>4

\* The executable of a program whose labels are all defined.
LEMMA ToExecDataType ==
    ASSUME NEW d \in DataType, CanSubstitute(d)
    PROVE  ToExecData(d) \in [entrypoint : Nat, code : Seq(Cell),
                              constants : Seq(Cell)]
<1>1. /\ d.code \in Seq(Cell) /\ d.constants \in Seq(Cell)
      /\ Len(d.code) \in Nat /\ DOMAIN d.code = 1 .. Len(d.code)
      /\ \A i \in DOMAIN d.code : d.code[i] \in Cell
  BY LenProperties, ElementOfSeq DEF DataType
<1>2. ASSUME NEW u \in d.usages PROVE AddressOf(d, u[1]) \in Nat
  BY <1>2, AddressType DEF CanSubstitute
<1>3. ASSUME NEW i \in DOMAIN d.code
      PROVE  SubstituteLabels(d)[i] \in Cell
  <2> DEFINE used == {u \in d.usages : u[2] = i - 1}
             here == CHOOSE u \in used : TRUE
  <2>1. SubstituteLabels(d)[i]
          = IF used = {} THEN d.code[i]
            ELSE [d.code[i] EXCEPT !.addr = AddressOf(d, here[1])]
    BY DEF SubstituteLabels
  <2>2. CASE used = {}
    BY <1>1, <2>1, <2>2
  <2>3. CASE used # {}
    <3>1. here \in d.usages
      BY <2>3
    <3> HIDE DEF here, used
    <3>2. AddressOf(d, here[1]) \in Nat
      BY <1>2, <3>1
    <3> QED
      BY <1>1, <2>1, <2>3, <3>2 DEF Cell
  <2> QED
    BY <2>2, <2>3
<1>4. SubstituteLabels(d) \in Seq(Cell)
  <2>1. DOMAIN SubstituteLabels(d) = 1 .. Len(d.code)
    BY <1>1 DEF SubstituteLabels
  <2>2. SubstituteLabels(d) \in [1 .. Len(d.code) -> Cell]
    BY <1>1, <1>3, <2>1 DEF SubstituteLabels
  <2> QED
    BY <1>1, <2>2, SeqDef
<1>5. (IF d.entrypointLabel = NoLabel THEN d.entrypoint
       ELSE AddressOf(d, d.entrypointLabel)) \in Nat
  <2>1. CASE d.entrypointLabel = NoLabel
    BY <2>1 DEF CanSubstitute, DataType
  <2>2. CASE d.entrypointLabel # NoLabel
    BY <2>2, AddressType DEF CanSubstitute
  <2> QED
    BY <2>1, <2>2
<1> QED
  BY <1>1, <1>4, <1>5 DEF ToExecData
-----------------------------------------------------------------------------
(***************************************************************************)
(* The search for includes.                                                *)
(***************************************************************************)
Call == [file : Files, rest : Seq(Files)]

\* What a file that can be included names are files.
LEMMA IncludesAreFiles ==
    ASSUME TypeOK, NEW f \in Files, CanInclude(f)
    PROVE  source[f].includes \in Seq(Files)
<1>1. source[f].includes \in Seq(Files \cup {NoFile})
  BY SourceFacts
<1> DEFINE s == source[f].includes
<1>2. \A i \in 1 .. Len(s) : s[i] \in Files
  <2>1. \A i \in 1 .. Len(s) : s[i] \in Files \cup {NoFile}
    BY <1>1, ElementOfSeq
  <2>2. DOMAIN s = 1 .. Len(s)
    BY <1>1, LenProperties
  <2> QED
    BY <2>1, <2>2 DEF CanInclude, ToSet
<1>3. Len(s) \in Nat /\ s \in [1 .. Len(s) -> Files]
  BY <1>1, <1>2, LenProperties
<1> QED
  BY <1>3, SeqDef

\* Before the workers are started nothing is asked of them.
LEMMA NoWorkers ==
    ASSUME workers' = <<>>
    PROVE  SlicesInv' /\ OpenFilesInv' /\ SlotsInv'
BY DEF SlicesInv, OpenFilesInv, SlotsInv

\* Entering a file: callers are the calls it is entered from, f is new and is
\* included by the last of them.
LEMMA EnterInv ==
    ASSUME IInv, phase \in {"start", "includes"},
           NEW f \in Files, f \notin all_includes_, NEW callers \in Seq(Call),
           ProcessFileIncludes(f, callers),
           DOMAIN callers = DOMAIN visiting,
           \A i \in DOMAIN callers :
              /\ callers[i].file = visiting[i].file
              /\ ToSet(callers[i].rest) \subseteq ToSet(visiting[i].rest)
              /\ ToSet(visiting[i].rest) \subseteq ToSet(callers[i].rest) \cup {f}
              /\ f \in Within(source, callers[i].file),
           f \in Within(source, Root),
           callers = <<>> => f = Root,
           phase = "includes" \/ f = Root
    PROVE  IInv'
<1> DEFINE call  == [file |-> f, rest |-> source[f].includes]
           calls == Append(callers, call)
<1>1. /\ TypeOK /\ PhasesInv /\ SearchInv /\ OrderInv
      /\ workers = <<>>
  BY DEF IInv, PhasesInv
<1>2. /\ all_includes_' = all_includes_ \cup {f}
      /\ UNCHANGED <<source, files_, n_workers, files_data, workers, data, merged,
                     exec>>
  BY DEF ProcessFileIncludes, resultVars
<1>3. SlicesInv' /\ OpenFilesInv' /\ SlotsInv'
  BY <1>1, <1>2, NoWorkers
<1>4. CASE ~CanInclude(f)
  <2>1. phase' = "failed" /\ UNCHANGED visiting
    BY <1>4 DEF ProcessFileIncludes
  <2>2. TypeOK'
    BY <1>1, <1>2, <2>1 DEF TypeOK, Ended
  <2>3. PhasesInv' /\ SearchInv'
    BY <2>1 DEF PhasesInv, SearchInv
  <2>4. OrderInv'
    BY <1>1, <1>2, <2>1 DEF OrderInv
  <2> QED
    BY <1>3, <2>2, <2>3, <2>4 DEF IInv
<1>5. CASE CanInclude(f)
  <2>1. visiting' = calls /\ phase' = "includes"
    BY <1>5 DEF ProcessFileIncludes
  <2>2. source[f].includes \in Seq(Files) /\ call \in Call
    BY <1>1, <1>5, IncludesAreFiles DEF Call
  <2> DEFINE n == Len(callers)
  <2>3. n \in Nat /\ DOMAIN callers = 1 .. n
    BY LenProperties
  <2>4. /\ calls \in Seq(Call) /\ calls # <<>> /\ DOMAIN calls = 1 .. n + 1
        /\ \A i \in 1 .. n : calls[i] = callers[i]
        /\ calls[n + 1] = call
    BY <2>2, <2>3, AppendProperties, LenProperties
  <2>5. call.file = f /\ call.rest = source[f].includes
    OBVIOUS
  <2> HIDE DEF n, call, calls
  <2>6. TypeOK'
    BY <1>1, <1>2, <2>1, <2>4 DEF TypeOK, Call
  <2>7. PhasesInv'
    BY <1>1, <1>2, <2>1, <2>4 DEF PhasesInv
  <2>8. OrderInv'
    BY <1>1, <1>2, <2>1 DEF OrderInv
  <2>9. SearchInv'
    <3>1. \A i \in 1 .. n : calls[i].file = visiting[i].file /\ i \in DOMAIN visiting
      BY <2>3, <2>4
    <3>2. f \notin FilesOf(visiting) /\ f \notin ToSet(files_)
      BY <1>1 DEF SearchInv
    <3>3. \A i, j \in 1 .. n + 1 :
             i <= j => calls[j].file \in Within(source, calls[i].file)
      <4> SUFFICES ASSUME NEW i \in 1 .. n + 1, NEW j \in 1 .. n + 1, i <= j
                   PROVE  calls[j].file \in Within(source, calls[i].file)
        OBVIOUS
      <4>1. CASE j \in 1 .. n
        BY <1>1, <2>3, <3>1, <4>1 DEF SearchInv
      <4>2. CASE j = n + 1 /\ i \in 1 .. n
        BY <2>3, <2>4, <2>5, <4>2
      <4>3. CASE j = n + 1 /\ i = n + 1
        BY <2>4, <2>5, <4>3, WithinSelf
      <4> QED
        BY <2>3, <4>1, <4>2, <4>3
    <3>4. \A i, j \in 1 .. n + 1 : calls[i].file = calls[j].file => i = j
      <4>1. \A i \in 1 .. n : calls[i].file # f
        BY <3>1, <3>2 DEF FilesOf
      <4>2. \A i, j \in 1 .. n : calls[i].file = calls[j].file => i = j
        BY <1>1, <3>1 DEF SearchInv
      <4>3. calls[n + 1].file = f
        BY <2>4, <2>5
      <4> QED
        BY <2>3, <4>1, <4>2, <4>3
    <3>5. calls[1].file = Root
      <4>1. CASE n = 0
        <5>1. callers = <<>>
          BY <4>1, EmptySeq DEF n
        <5> QED
          BY <2>3, <2>4, <2>5, <4>1, <5>1
      <4>2. CASE n > 0
        <5>1. 1 \in DOMAIN visiting /\ visiting # <<>>
          <6>1. 1 \in DOMAIN visiting
            BY <2>3, <4>2
          <6>2. visiting \in Seq([file : Files, rest : Seq(Files)])
            BY <1>1 DEF TypeOK
          <6> QED
            BY <6>1, <6>2, NonEmpty
        <5> QED
          BY <1>1, <2>3, <3>1, <4>2, <5>1 DEF SearchInv
      <4> QED
        BY <2>3, <4>1, <4>2
    <3>6. \A i \in 1 .. n + 1 :
             LET includes == ToSet(source[calls[i].file].includes)
             IN  /\ ToSet(calls[i].rest) \subseteq includes
                 /\ includes \subseteq ToSet(calls[i].rest) \cup all_includes_ \cup {f}
      <4> SUFFICES ASSUME NEW i \in 1 .. n + 1
                   PROVE  LET includes == ToSet(source[calls[i].file].includes)
                          IN  /\ ToSet(calls[i].rest) \subseteq includes
                              /\ includes \subseteq
                                    ToSet(calls[i].rest) \cup all_includes_ \cup {f}
        OBVIOUS
      <4>1. CASE i \in 1 .. n
        <5>1. calls[i].file = visiting[i].file /\ i \in DOMAIN visiting
              /\ calls[i].rest = callers[i].rest /\ i \in DOMAIN callers
          BY <2>3, <2>4, <3>1, <4>1
        <5>2. /\ ToSet(visiting[i].rest) \subseteq ToSet(source[visiting[i].file].includes)
              /\ ToSet(source[visiting[i].file].includes)
                   \subseteq ToSet(visiting[i].rest) \cup all_includes_
          BY <1>1, <5>1 DEF SearchInv
        <5> QED
          BY <5>1, <5>2
      <4>2. CASE i = n + 1
        BY <2>4, <2>5, <4>2
      <4> QED
        BY <2>3, <4>1, <4>2
    <3>7. \A g \in ToSet(files_) :
             ToSet(source[g].includes) \subseteq all_includes_ \cup {f}
      BY <1>1 DEF SearchInv
    <3>8. all_includes_ \cup {f} \subseteq Within(source, Root)
      BY <1>1 DEF SearchInv
    <3>9. Root \in all_includes_ \cup {f}
      BY <1>1 DEF SearchInv
    <3>10. \A i \in 1 .. n + 1 : calls[i].file \notin ToSet(files_)
      BY <1>1, <2>3, <2>4, <2>5, <3>1, <3>2 DEF SearchInv
    <3>11. all_includes_ \cup {f} = FilesOf(calls) \cup ToSet(files_)
      <4>1. FilesOf(calls) = {calls[i].file : i \in 1 .. n} \cup {f}
        BY <2>3, <2>4, <2>5 DEF FilesOf
      <4>2. {calls[i].file : i \in 1 .. n} = FilesOf(visiting)
        <5>1. DOMAIN visiting = 1 .. n
          BY <2>3
        <5> QED
          BY <3>1, <5>1 DEF FilesOf
      <4>3. all_includes_ = FilesOf(visiting) \cup ToSet(files_)
        BY <1>1 DEF SearchInv
      <4> QED
        BY <4>1, <4>2, <4>3
    <3> QED
      BY <1>2, <2>1, <2>4, <3>3, <3>4, <3>5, <3>6, <3>7, <3>8, <3>9, <3>10, <3>11
      DEF SearchInv
  <2> QED
    BY <1>3, <2>6, <2>7, <2>8, <2>9 DEF IInv
<1> QED
  BY <1>4, <1>5

\* The search begins with the file given to the compiler.
LEMMA GetFilesInv ==
    ASSUME IInv, GetFiles
    PROVE  IInv'
<1>1. /\ phase = "start" /\ visiting = <<>> /\ all_includes_ = {}
      /\ ProcessFileIncludes(Root, <<>>)
  BY DEF GetFiles, IInv, PhasesInv
<1>2. Root \in Files /\ Root \in Within(source, Root)
  BY FilesAssumption, WithinSelf
<1>3. <<>> \in Seq(Call) /\ DOMAIN <<>> = {}
  BY EmptySeq
<1> QED
  BY <1>1, <1>2, <1>3, EnterInv

\* What is left of the call at the end of the chain.
LEMMA WithoutNextFacts ==
    ASSUME IInv, phase = "includes", Current.rest # <<>>
    PROVE  /\ WithoutNext \in Seq(Call) /\ DOMAIN WithoutNext = DOMAIN visiting
           /\ WithoutNext # <<>>
           /\ NextInclude \in Files
           /\ \A i \in DOMAIN visiting :
                 /\ WithoutNext[i].file = visiting[i].file
                 /\ ToSet(WithoutNext[i].rest) \subseteq ToSet(visiting[i].rest)
                 /\ ToSet(visiting[i].rest)
                      \subseteq ToSet(WithoutNext[i].rest) \cup {NextInclude}
                 /\ NextInclude \in Within(source, visiting[i].file)
           /\ NextInclude \in Within(source, Root)
<1> DEFINE n == Len(visiting)
           last == [Current EXCEPT !.rest = Tail(@)]
           calls == Append(Front(visiting), last)
<1>1. visiting \in Seq(Call) /\ visiting # <<>> /\ SearchInv
  BY DEF IInv, TypeOK, PhasesInv, Call
<1>2. /\ n \in Nat \ {0} /\ Current = visiting[n] /\ Current \in Call
      /\ Front(visiting) \in Seq(Call) /\ Len(Front(visiting)) = n - 1
      /\ \A i \in 1 .. n - 1 : Front(visiting)[i] = visiting[i]
      /\ DOMAIN visiting = 1 .. n
  BY <1>1, FrontAndLast, LenProperties DEF Current
<1> HIDE DEF n
<1>3. Current.rest \in Seq(Files) /\ Current.file \in Files
  BY <1>2 DEF Call
<1>4. /\ NextInclude \in Files /\ Tail(Current.rest) \in Seq(Files)
      /\ NextInclude \in ToSet(Current.rest)
      /\ ToSet(Current.rest) = ToSet(Tail(Current.rest)) \cup {NextInclude}
  <2> DEFINE r == Current.rest
             t == Tail(r)
  <2>1. /\ Head(r) \in Files /\ t \in Seq(Files) /\ Len(t) = Len(r) - 1
        /\ \A i \in 1 .. Len(t) : t[i] = r[i + 1]
    BY <1>3, HeadTailProperties
  <2>2. /\ DOMAIN r = 1 .. Len(r) /\ DOMAIN t = 1 .. Len(t)
        /\ Len(r) \in Nat \ {0} /\ Head(r) = r[1]
    BY <1>3, <2>1, LenProperties, EmptySeq
  <2> HIDE DEF r, t
  <2>3. \A i \in DOMAIN r : r[i] \in ToSet(t) \cup {Head(r)}
    <3> SUFFICES ASSUME NEW i \in DOMAIN r, i # 1 PROVE r[i] \in ToSet(t)
      BY <2>2
    <3>1. i - 1 \in DOMAIN t /\ t[i - 1] = r[i]
      BY <2>1, <2>2
    <3> QED
      BY <3>1 DEF ToSet
  <2>4. \A i \in DOMAIN t : t[i] \in ToSet(r)
    <3> SUFFICES ASSUME NEW i \in DOMAIN t PROVE t[i] \in ToSet(r)
      OBVIOUS
    <3>1. i + 1 \in DOMAIN r /\ t[i] = r[i + 1]
      BY <2>1, <2>2
    <3> QED
      BY <3>1 DEF ToSet
  <2>5. Head(r) \in ToSet(r)
    BY <2>2 DEF ToSet
  <2>6. ToSet(r) = ToSet(t) \cup {Head(r)}
    BY <2>3, <2>4, <2>5 DEF ToSet
  <2> QED
    BY <2>1, <2>5, <2>6 DEF NextInclude, r, t
<1>5. last \in Call /\ last.file = Current.file /\ last.rest = Tail(Current.rest)
  BY <1>2, <1>3, <1>4 DEF Call
<1>6. /\ calls \in Seq(Call) /\ calls # <<>> /\ DOMAIN calls = 1 .. n
      /\ \A i \in 1 .. n - 1 : calls[i] = visiting[i]
      /\ calls[n] = last
  <2>1. /\ calls \in Seq(Call) /\ calls # <<>> /\ Len(calls) = n
        /\ \A i \in 1 .. n - 1 : calls[i] = Front(visiting)[i]
        /\ calls[n] = last
    BY <1>2, <1>5, AppendProperties
  <2> QED
    BY <1>2, <2>1, LenProperties
<1>7. WithoutNext = calls
  BY DEF WithoutNext
<1> HIDE DEF calls, last
<1>8. NextInclude \in Within(source, Current.file)
  <2>1. NextInclude \in ToSet(source[Current.file].includes)
    <3>1. \A i \in DOMAIN visiting :
             ToSet(visiting[i].rest) \subseteq ToSet(source[visiting[i].file].includes)
      BY <1>1 DEF SearchInv
    <3>2. n \in DOMAIN visiting
      BY <1>2
    <3>3. ToSet(Current.rest) \subseteq ToSet(source[Current.file].includes)
      BY <1>2, <3>1, <3>2
    <3> QED
      BY <1>4, <3>3
  <2> QED
    BY <1>3, <1>4, <2>1, WithinSelf, WithinStep
<1>9. \A i \in DOMAIN visiting : NextInclude \in Within(source, visiting[i].file)
  <2> SUFFICES ASSUME NEW i \in DOMAIN visiting
               PROVE  NextInclude \in Within(source, visiting[i].file)
    OBVIOUS
  <2>1. Current.file \in Within(source, visiting[i].file)
    BY <1>1, <1>2 DEF SearchInv
  <2> QED
    BY <1>8, <2>1, WithinTransitive
<1>10. visiting[1].file = Root /\ 1 \in DOMAIN visiting
  BY <1>1, <1>2 DEF SearchInv
<1>11. ASSUME NEW i \in DOMAIN visiting
       PROVE  /\ calls[i].file = visiting[i].file
              /\ ToSet(calls[i].rest) \subseteq ToSet(visiting[i].rest)
              /\ ToSet(visiting[i].rest) \subseteq ToSet(calls[i].rest) \cup {NextInclude}
  <2>1. CASE i \in 1 .. n - 1
    BY <1>6, <2>1
  <2>2. CASE i = n
    BY <1>2, <1>4, <1>5, <1>6, <2>2
  <2> QED
    BY <1>2, <2>1, <2>2
<1> QED
  BY <1>2, <1>4, <1>6, <1>7, <1>9, <1>10, <1>11

\* An include that was entered before is passed over.
LEMMA SkipIncludeInv ==
    ASSUME IInv, SkipInclude
    PROVE  IInv'
<1> DEFINE calls == WithoutNext
<1>1. /\ phase = "includes" /\ Current.rest # <<>> /\ NextInclude \in all_includes_
      /\ visiting' = calls
      /\ UNCHANGED <<source, phase, all_includes_, files_, n_workers, files_data,
                     workers, data, merged, exec>>
  BY DEF SkipInclude, resultVars
<1>2. /\ calls \in Seq(Call) /\ DOMAIN calls = DOMAIN visiting /\ calls # <<>>
      /\ \A i \in DOMAIN visiting :
            /\ calls[i].file = visiting[i].file
            /\ ToSet(calls[i].rest) \subseteq ToSet(visiting[i].rest)
            /\ ToSet(visiting[i].rest) \subseteq ToSet(calls[i].rest) \cup {NextInclude}
  BY <1>1, WithoutNextFacts
<1> HIDE DEF calls
<1>3. /\ TypeOK /\ PhasesInv /\ SearchInv /\ OrderInv /\ workers = <<>>
  BY <1>1 DEF IInv, PhasesInv
<1>4. SlicesInv' /\ OpenFilesInv' /\ SlotsInv'
  BY <1>1, <1>3, NoWorkers
<1>5. TypeOK'
  BY <1>1, <1>2, <1>3 DEF TypeOK, Call
<1>6. PhasesInv'
  BY <1>1, <1>2, <1>3 DEF PhasesInv
<1>7. OrderInv'
  BY <1>1, <1>3 DEF OrderInv
<1>8. SearchInv'
  <2>1. FilesOf(calls) = FilesOf(visiting)
    BY <1>2 DEF FilesOf
  <2>2. visiting # <<>> /\ visiting[1].file = Root /\ 1 \in DOMAIN visiting
    <3>1. visiting \in Seq([file : Files, rest : Seq(Files)])
      BY <1>3 DEF TypeOK
    <3> QED
      BY <1>1, <1>3, <3>1, NonEmpty DEF PhasesInv, SearchInv
  <2>3. ASSUME NEW i \in DOMAIN calls
        PROVE  LET includes == ToSet(source[calls[i].file].includes)
               IN  /\ ToSet(calls[i].rest) \subseteq includes
                   /\ includes \subseteq ToSet(calls[i].rest) \cup all_includes_
    <3>1. /\ ToSet(visiting[i].rest) \subseteq ToSet(source[visiting[i].file].includes)
          /\ ToSet(source[visiting[i].file].includes)
               \subseteq ToSet(visiting[i].rest) \cup all_includes_
      BY <1>1, <1>2, <1>3 DEF SearchInv
    <3> QED
      BY <1>1, <1>2, <3>1
  <2> QED
    BY <1>1, <1>2, <1>3, <2>1, <2>2, <2>3 DEF SearchInv
<1> QED
  BY <1>4, <1>5, <1>6, <1>7, <1>8 DEF IInv

\* An include that is new is entered.
LEMMA FollowIncludeInv ==
    ASSUME IInv, FollowInclude
    PROVE  IInv'
<1>1. /\ phase = "includes" /\ Current.rest # <<>> /\ NextInclude \notin all_includes_
      /\ ProcessFileIncludes(NextInclude, WithoutNext)
  BY DEF FollowInclude
<1> QED
  BY <1>1, WithoutNextFacts, EnterInv
-----------------------------------------------------------------------------
(***************************************************************************)
(* Leaving a file: the end of the search.                                  *)
(***************************************************************************)
\* A file that is left follows the files before it, and those it includes are
\* among them or are the callers it is entered from.
LEMMA LeaveFileInv ==
    ASSUME IInv, LeaveFile
    PROVE  IInv'
<1> DEFINE n == Len(visiting)
           m == Len(files_)
           f == Current.file
           calls == Front(visiting)
           more == Append(files_, f)
<1>1. /\ phase = "includes" /\ Current.rest = <<>>
      /\ files_' = more /\ visiting' = calls
      /\ phase' = IF calls = <<>> THEN "spawn" ELSE "includes"
      /\ UNCHANGED <<source, all_includes_, n_workers, files_data, workers, data,
                     merged, exec>>
  BY DEF LeaveFile, resultVars
<1>2. /\ TypeOK /\ PhasesInv /\ SearchInv /\ OrderInv
      /\ workers = <<>> /\ visiting # <<>> /\ visiting \in Seq(Call)
      /\ files_ \in Seq(Files)
  BY <1>1 DEF IInv, PhasesInv, TypeOK, Call
<1>3. /\ n \in Nat \ {0} /\ Current = visiting[n] /\ f \in Files
      /\ DOMAIN visiting = 1 .. n
      /\ calls \in Seq(Call) /\ DOMAIN calls = 1 .. n - 1
      /\ \A i \in 1 .. n - 1 : calls[i] = visiting[i]
  <2>1. /\ n \in Nat \ {0} /\ Current = visiting[n] /\ Current \in Call
        /\ calls \in Seq(Call) /\ Len(calls) = n - 1
        /\ \A i \in 1 .. n - 1 : calls[i] = visiting[i]
    BY <1>2, FrontAndLast DEF Current
  <2> QED
    BY <1>2, <2>1, LenProperties DEF Call
<1>4. n \in DOMAIN visiting /\ visiting[n].file = f
  BY <1>3
<1>5. calls = <<>> <=> n = 1
  BY <1>3, NonEmpty
<1>6. /\ more \in Seq(Files) /\ m \in Nat /\ Len(more) = m + 1
      /\ DOMAIN more = 1 .. m + 1 /\ DOMAIN files_ = 1 .. m
      /\ \A i \in 1 .. m : more[i] = files_[i]
      /\ more[m + 1] = f
      /\ ToSet(more) = ToSet(files_) \cup {f}
  BY <1>2, <1>3, AppendProperties, LenProperties, ElementsOfAppend
<1>7. Last(more) = f
  BY <1>6 DEF Last
<1> HIDE DEF n, m, f, calls, more
<1>8. ToSet(source[f].includes) \subseteq all_includes_
  <2>1. ToSet(source[visiting[n].file].includes)
          \subseteq ToSet(visiting[n].rest) \cup all_includes_
    BY <1>1, <1>2, <1>4 DEF SearchInv
  <2>2. ToSet(visiting[n].rest) = {}
    BY <1>1, <1>3 DEF ToSet
  <2> QED
    BY <1>4, <2>1, <2>2
<1>9. f \notin ToSet(files_)
  BY <1>1, <1>2, <1>4 DEF SearchInv
<1>10. all_includes_ = FilesOf(calls) \cup ToSet(more)
  <2>1. FilesOf(visiting) = FilesOf(calls) \cup {f}
    BY <1>3, <1>4 DEF FilesOf
  <2>2. all_includes_ = FilesOf(visiting) \cup ToSet(files_)
    BY <1>1, <1>2 DEF SearchInv
  <2> QED
    BY <1>6, <2>1, <2>2
<1>11. SlicesInv' /\ OpenFilesInv' /\ SlotsInv'
  BY <1>1, <1>2, NoWorkers
<1>12. TypeOK'
  BY <1>1, <1>2, <1>3, <1>6 DEF TypeOK, Call, m
<1>13. PhasesInv'
  BY <1>1, <1>2 DEF PhasesInv
<1>14. SearchInv'
  <2>1. CASE calls = <<>>
    BY <1>1, <2>1 DEF SearchInv
  <2>2. CASE calls # <<>>
    <3>1. n - 1 \in Nat /\ \A i \in 1 .. n - 1 : i \in DOMAIN visiting
      BY <1>3
    <3>2. \A i, j \in DOMAIN calls :
             i <= j => calls[j].file \in Within(source, calls[i].file)
      BY <1>1, <1>2, <1>3, <3>1 DEF SearchInv
    <3>3. \A i, j \in DOMAIN calls : calls[i].file = calls[j].file => i = j
      BY <1>1, <1>2, <1>3, <3>1 DEF SearchInv
    <3>4. calls[1].file = Root
      <4>1. 1 \in 1 .. n - 1
        BY <1>3, <1>5, <2>2
      <4> QED
        BY <1>1, <1>2, <1>3, <4>1 DEF SearchInv
    <3>5. \A i \in DOMAIN calls :
             LET includes == ToSet(source[calls[i].file].includes)
             IN  /\ ToSet(calls[i].rest) \subseteq includes
                 /\ includes \subseteq ToSet(calls[i].rest) \cup all_includes_
      BY <1>1, <1>2, <1>3, <3>1 DEF SearchInv
    <3>6. \A g \in ToSet(more) : ToSet(source[g].includes) \subseteq all_includes_
      BY <1>1, <1>2, <1>6, <1>8 DEF SearchInv
    <3>7. all_includes_ \subseteq Within(source, Root) /\ Root \in all_includes_
      BY <1>1, <1>2 DEF SearchInv
    <3>8. \A i \in DOMAIN calls : calls[i].file \notin ToSet(more)
      <4> SUFFICES ASSUME NEW i \in DOMAIN calls
                   PROVE  calls[i].file \notin ToSet(more)
        OBVIOUS
      <4>1. i \in DOMAIN visiting /\ calls[i] = visiting[i] /\ i # n
        BY <1>3, <3>1
      <4>2. visiting[i].file # f
        BY <1>1, <1>2, <1>4, <4>1 DEF SearchInv
      <4>3. visiting[i].file \notin ToSet(files_)
        BY <1>1, <1>2, <4>1 DEF SearchInv
      <4> QED
        BY <1>6, <4>1, <4>2, <4>3
    <3> QED
      BY <1>1, <1>10, <3>2, <3>3, <3>4, <3>5, <3>6, <3>7, <3>8 DEF SearchInv
  <2> QED
    BY <2>1, <2>2
<1>15. OrderInv'
  <2>1. \A i, j \in 1 .. m + 1 : more[i] = more[j] => i = j
    <3>1. \A i, j \in 1 .. m : more[i] = more[j] => i = j
      BY <1>2, <1>6 DEF OrderInv
    <3>2. \A i \in 1 .. m : more[i] # more[m + 1]
      BY <1>6, <1>9 DEF ToSet
    <3> QED
      BY <1>6, <3>1, <3>2
  <2>2. ASSUME NEW i \in 1 .. m + 1, NEW g \in ToSet(source[more[i]].includes)
        PROVE  (\E j \in 1 .. i : more[j] = g) \/ more[i] \in Within(source, g)
    <3>1. CASE i \in 1 .. m
      <4>1. (\E j \in 1 .. i : files_[j] = g) \/ files_[i] \in Within(source, g)
        BY <1>2, <1>6, <3>1 DEF OrderInv
      <4> QED
        BY <1>6, <3>1, <4>1
    <3>2. CASE i = m + 1
      <4>1. g \in FilesOf(calls) \cup ToSet(more)
        BY <1>6, <1>8, <1>10, <3>2
      <4>2. CASE g \in ToSet(more)
        BY <1>6, <3>2, <4>2 DEF ToSet
      <4>3. CASE g \in FilesOf(calls)
        <5>1. PICK k \in DOMAIN calls : calls[k].file = g
          BY <4>3 DEF FilesOf
        <5>2. k \in DOMAIN visiting /\ visiting[k].file = g /\ k <= n
          BY <1>3, <5>1
        <5>3. f \in Within(source, g)
          BY <1>1, <1>2, <1>4, <5>2 DEF SearchInv
        <5> QED
          BY <1>6, <3>2, <5>3
      <4> QED
        BY <4>1, <4>2, <4>3
    <3> QED
      BY <1>6, <3>1, <3>2
  <2>3. ASSUME calls = <<>>
        PROVE  ToSet(more) = Within(source, Root) /\ Last(more) = Root
    <3>1. f = Root
      BY <1>1, <1>2, <1>4, <1>5, <2>3 DEF SearchInv
    <3>2. FilesOf(calls) = {}
      BY <2>3 DEF FilesOf
    <3>3. all_includes_ = ToSet(more) /\ Root \in ToSet(more)
      BY <1>6, <1>10, <3>1, <3>2
    <3>4. \A g \in ToSet(more) : Files \cap ToSet(source[g].includes) \subseteq ToSet(more)
      BY <1>1, <1>2, <1>6, <1>8, <3>3 DEF SearchInv
    <3>5. ToSet(more) \in SUBSET Files
      BY <1>2, <3>3 DEF TypeOK
    <3>6. Within(source, Root) \subseteq ToSet(more)
      BY <3>3, <3>4, <3>5, WithinLeast
    <3>7. ToSet(more) \subseteq Within(source, Root)
      BY <1>1, <1>2, <3>3 DEF SearchInv
    <3> QED
      BY <1>7, <3>1, <3>6, <3>7
  <2> QED
    BY <1>1, <1>6, <2>1, <2>2, <2>3 DEF OrderInv
<1> QED
  BY <1>11, <1>12, <1>13, <1>14, <1>15 DEF IInv
-----------------------------------------------------------------------------
(***************************************************************************)
(* The main thread after the search.                                       *)
(***************************************************************************)
Image == [entrypoint : Nat, code : Seq(Cell), constants : Seq(Cell)]

\* A call that ends leaves everything as it was.
LEMMA EndInv ==
    ASSUME IInv, phase' \in Ended, exec' \in Image,
           UNCHANGED <<source, mainVars, files_data, workers, data>>
    PROVE  IInv'
<1>1. UNCHANGED <<source, n_workers, all_includes_, visiting, files_, files_data,
                  workers, data, merged>>
  BY DEF mainVars, includesVars
<1>2. TypeOK'
  BY <1>1 DEF IInv, TypeOK, Image
<1>3. PhasesInv' /\ SearchInv'
  BY DEF PhasesInv, SearchInv, Ended
<1>4. OrderInv'
  BY <1>1 DEF IInv, OrderInv, Ended
<1>5. SlicesInv' /\ OpenFilesInv' /\ SlotsInv'
  BY <1>1 DEF IInv, SlicesInv, OpenFilesInv, SlotsInv, NWorkers
<1> QED
  BY <1>2, <1>3, <1>4, <1>5 DEF IInv

\* The division into slices: they cover the files and follow one another.
LEMMA SliceFacts ==
    ASSUME NEW n \in Nat \ {0}, NEW length \in Nat, NEW k \in 0 .. n
    PROVE  /\ SliceEnd(n, k, length) \in 0 .. length
           /\ SliceEnd(n, 0, length) = 0
           /\ SliceEnd(n, n, length) = length
           /\ k < n => SliceEnd(n, k + 1, length)
                         = SliceEnd(n, k, length)
                             + (length \div n + (IF k < length % n THEN 1 ELSE 0))
           /\ length \div n \in Nat
<1> DEFINE q == length \div n
           r == length % n
<1>1. q \in Nat /\ r \in 0 .. n - 1 /\ length = n * q + r
  OBVIOUS
<1> HIDE DEF q, r
<1>2. SliceEnd(n, k, length) = k * q + (IF k < r THEN k ELSE r)
      /\ SliceEnd(n, 0, length) = 0 * q + (IF 0 < r THEN 0 ELSE r)
      /\ SliceEnd(n, n, length) = n * q + (IF n < r THEN n ELSE r)
      /\ SliceEnd(n, k + 1, length) = (k + 1) * q + (IF k + 1 < r THEN k + 1 ELSE r)
  BY DEF SliceEnd, q, r
<1>3. k * q \in Nat /\ n * q \in Nat /\ 0 * q = 0 /\ (k + 1) * q = k * q + q
  BY <1>1
<1>4. k * q <= n * q
  <2>1. (n - k) * q \in Nat /\ (n - k) * q = n * q - k * q
    BY <1>1
  <2> QED
    BY <1>3, <2>1
<1> DEFINE kq == k * q
           nq == n * q
<1>5. /\ SliceEnd(n, k, length) = kq + (IF k < r THEN k ELSE r)
      /\ SliceEnd(n, 0, length) = 0 + (IF 0 < r THEN 0 ELSE r)
      /\ SliceEnd(n, n, length) = nq + (IF n < r THEN n ELSE r)
      /\ SliceEnd(n, k + 1, length) = (kq + q) + (IF k + 1 < r THEN k + 1 ELSE r)
      /\ kq \in Nat /\ nq \in Nat /\ kq <= nq /\ length = nq + r
  BY <1>1, <1>2, <1>3, <1>4
<1> HIDE DEF kq, nq
<1>6. SliceEnd(n, k, length) \in 0 .. length
  BY <1>1, <1>5
<1>7. SliceEnd(n, 0, length) = 0 /\ SliceEnd(n, n, length) = length
  BY <1>1, <1>5
<1>8. k < n => SliceEnd(n, k + 1, length)
                 = SliceEnd(n, k, length) + (q + (IF k < r THEN 1 ELSE 0))
  BY <1>1, <1>5
<1> QED
  BY <1>1, <1>6, <1>7, <1>8 DEF q, r

\* The number of workers that are started.
LEMMA NWorkersFacts ==
    ASSUME TypeOK
    PROVE  NWorkers \in Nat /\ NWorkers <= Len(files_) /\ Len(files_) \in Nat
<1>1. Len(files_) \in Nat /\ n_workers \in Nat
  BY LenProperties DEF TypeOK
<1> QED
  BY <1>1 DEF NWorkers

\* The slice of a new worker follows those of the workers before it.
LEMMA StartWorkerInv ==
    ASSUME IInv, StartWorker
    PROVE  IInv'
<1> DEFINE k == Len(workers)
           n == NWorkers
           length == Len(files_)
           start == SliceStart
           size == SliceSize(k)
           worker == Worker(start, start + size - 1)
           more == Append(workers, worker)
<1>1. /\ phase = "spawn" /\ k < n /\ workers' = more
      /\ files_data' = IF workers = <<>> THEN [i \in DOMAIN files_ |-> EmptyData]
                                         ELSE files_data
      /\ phase' = IF Len(more) = n THEN "join" ELSE "spawn"
      /\ UNCHANGED <<source, n_workers, all_includes_, visiting, files_, merged,
                     data, exec>>
  BY DEF StartWorker, mainVars, includesVars
<1>2. /\ TypeOK /\ PhasesInv /\ OrderInv /\ SlicesInv /\ OpenFilesInv /\ SlotsInv
      /\ workers \in Seq(WorkerType) /\ files_ \in Seq(Files)
      /\ files_data \in Seq(DataType)
  BY DEF IInv, TypeOK
<1>3. /\ k \in Nat /\ DOMAIN workers = 1 .. k /\ (k = 0 <=> workers = <<>>)
      /\ n \in Nat \ {0} /\ length \in Nat /\ DOMAIN files_ = 1 .. length
      /\ n' = n
      /\ k \in 0 .. n
  <2>1. k \in Nat /\ DOMAIN workers = 1 .. k /\ (k = 0 <=> workers = <<>>)
    BY <1>2, LenProperties, EmptySeq
  <2>2. NWorkers \in Nat /\ length \in Nat /\ DOMAIN files_ = 1 .. length
    BY <1>2, NWorkersFacts, LenProperties
  <2>3. n' = n
    BY <1>1 DEF NWorkers
  <2> QED
    BY <1>1, <2>1, <2>2, <2>3
<1>4. start = SliceEnd(n, k, length) + 1
  <2>1. CASE workers = <<>>
    <3>1. SliceEnd(n, 0, length) = 0
      BY <1>3, SliceFacts
    <3> QED
      BY <1>3, <2>1, <3>1 DEF SliceStart
  <2>2. CASE workers # <<>>
    BY <1>2, <2>2 DEF SliceStart, SlicesInv
  <2> QED
    BY <2>1, <2>2
<1> DEFINE end == SliceEnd(n, k + 1, length)
<1>5. /\ end = start + size - 1
      /\ start \in Nat \ {0} /\ end \in Nat /\ start <= end + 1 /\ end <= length
  <2> DEFINE before == SliceEnd(n, k, length)
             part == length \div n + (IF k < length % n THEN 1 ELSE 0)
  <2>1. /\ before \in 0 .. length /\ end = before + part
        /\ length \div n \in Nat
    BY <1>1, <1>3, SliceFacts
  <2>2. k + 1 \in 0 .. n
    BY <1>1, <1>3
  <2>3. end \in 0 .. length
    BY <1>3, <2>2, SliceFacts
  <2>4. size = part
    BY DEF SliceSize
  <2>5. part \in Nat
    BY <2>1
  <2> HIDE DEF before, part, end, size, start
  <2>6. start = before + 1
    BY <1>4 DEF before
  <2> QED
    BY <1>3, <2>1, <2>3, <2>4, <2>5, <2>6
<1>6. /\ worker.next = start /\ worker.last = end /\ worker.line = 0
      /\ worker \in WorkerType
  BY <1>5, EmptyDataType DEF Worker, WorkerType, MaybeLabel
<1> HIDE DEF worker, start, end, size
<1>7. /\ more \in Seq(WorkerType) /\ more # <<>> /\ Len(more) = k + 1
      /\ DOMAIN more = 1 .. k + 1
      /\ \A w \in 1 .. k : more[w] = workers[w]
      /\ more[k + 1] = worker
  BY <1>2, <1>3, <1>6, AppendProperties, LenProperties
<1>8. Last(more) = worker
  BY <1>7 DEF Last
<1> HIDE DEF more
<1>9. files_data' \in Seq(DataType) /\ Len(files_data') = length
  <2>1. CASE workers = <<>>
    <3> DEFINE slots == [i \in 1 .. length |-> EmptyData]
    <3>1. slots \in [1 .. length -> DataType]
      BY EmptyDataType
    <3>2. slots \in Seq(DataType)
      BY <1>3, <3>1, SeqDef
    <3>3. Len(slots) = length
      BY <1>3, <3>2, LenProperties
    <3>4. files_data' = slots
      BY <1>1, <1>3, <2>1
    <3> QED
      BY <3>2, <3>3, <3>4
  <2>2. CASE workers # <<>>
    BY <1>1, <1>2, <2>2 DEF SlicesInv
  <2> QED
    BY <2>1, <2>2
<1>10. TypeOK'
  <2>1. \A w \in DOMAIN more : /\ more[w].next <= more[w].last + 1
                               /\ more[w].last <= length
    <3>1. \A w \in 1 .. k : /\ workers[w].next <= workers[w].last + 1
                            /\ workers[w].last <= length
      BY <1>2, <1>3 DEF TypeOK
    <3>2. /\ more[k + 1].next <= more[k + 1].last + 1
          /\ more[k + 1].last <= length
      BY <1>5, <1>6, <1>7
    <3> HIDE DEF k, length
    <3> QED
      BY <1>3, <1>7, <3>1, <3>2
  <2>2. phase' \in {"join", "spawn"}
    BY <1>1
  <2> QED
    BY <1>1, <1>2, <1>7, <1>9, <2>1, <2>2 DEF TypeOK
<1>11. PhasesInv'
  BY <1>1, <1>3, <1>7 DEF PhasesInv
<1>12. SearchInv'
  BY <1>1 DEF SearchInv
<1>13. OrderInv'
  BY <1>1, <1>2 DEF OrderInv
<1>14. SlicesInv'
  <2>1. Last(workers').last = SliceEnd(n, k + 1, length)
    BY <1>1, <1>6, <1>8 DEF end
  <2>2. Len(workers') = k + 1 /\ k + 1 <= n
    BY <1>1, <1>3, <1>7
  <2>3. length' = length
    BY <1>1
  <2> QED
    BY <1>3, <1>9, <2>1, <2>2, <2>3 DEF SlicesInv
<1>15. OpenFilesInv'
  <2>1. ASSUME NEW w \in DOMAIN more, more[w].line > 0
        PROVE  /\ more[w].next <= more[w].last
               /\ LinesIn(more[w].data) = {p \in ItemsOf(source, files_[more[w].next]) :
                                               p[2] < more[w].line}
    <3>1. w \in 1 .. k
      BY <1>3, <1>6, <1>7, <2>1
    <3>2. w \in DOMAIN workers /\ more[w] = workers[w]
      BY <1>3, <1>7, <3>1
    <3> QED
      BY <1>2, <2>1, <3>2 DEF OpenFilesInv
  <2> QED
    BY <1>1, <2>1 DEF OpenFilesInv
<1>16. SlotsInv'
  <2>1. ASSUME NEW i \in 1 .. end
        PROVE  \/ LinesIn(files_data'[i]) = ItemsOf(source, files_[i])
               \/ \E w \in DOMAIN more : more[w].next <= i /\ i <= more[w].last
    <3>1. CASE i >= start
      <4>1. k + 1 \in DOMAIN more /\ more[k + 1].next <= i /\ i <= more[k + 1].last
        BY <1>3, <1>5, <1>6, <1>7, <3>1
      <4> QED
        BY <4>1
    <3>2. CASE i < start
      <4>1. workers # <<>>
        <5>1. workers = <<>> => start = 1
          BY DEF start, SliceStart
        <5> QED
          BY <3>2, <5>1
      <4>2. start = Last(workers).last + 1
        BY <4>1 DEF start, SliceStart
      <4>3. Last(workers).last \in Nat
        <5>1. Last(workers) \in WorkerType
          BY <1>2, <4>1, FrontAndLast
        <5> QED
          BY <5>1 DEF WorkerType
      <4>4. i \in 1 .. Last(workers).last
        BY <1>5, <3>2, <4>2, <4>3
      <4>5. \/ LinesIn(files_data[i]) = ItemsOf(source, files_[i])
            \/ \E w \in DOMAIN workers : workers[w].next <= i /\ i <= workers[w].last
        BY <1>2, <4>1, <4>4 DEF SlotsInv
      <4>6. files_data' = files_data
        BY <1>1, <4>1
      <4>7. \A w \in DOMAIN workers : w \in DOMAIN more /\ more[w] = workers[w]
        BY <1>3, <1>7
      <4> QED
        BY <4>5, <4>6, <4>7
    <3> QED
      BY <1>5, <3>1, <3>2
  <2>2. Last(workers').last = end
    BY <1>1, <1>6, <1>8
  <2>3. UNCHANGED <<source, files_>> /\ workers' = more
    BY <1>1
  <2> QED
    BY <2>1, <2>2, <2>3 DEF SlotsInv
<1> QED
  BY <1>10, <1>11, <1>12, <1>13, <1>14, <1>15, <1>16 DEF IInv
-----------------------------------------------------------------------------
(***************************************************************************)
(* The steps of a worker.                                                  *)
(***************************************************************************)
\* The first of a set of lines.
LEMMA MinFacts ==
    ASSUME NEW S \in SUBSET Nat, S # {}
    PROVE  Min(S) \in S /\ \A x \in S : Min(S) <= x
<1> DEFINE less == {p \in Nat \X Nat : p[1] < p[2]}
<1>1. IsWellFoundedOn(less, Nat)
  BY NatLessThanWellFounded DEF OpToRel
<1>2. S \subseteq Nat
  OBVIOUS
<1> HIDE DEF less
<1>3. PICK x \in S : \A y \in S : ~(<<y, x>> \in less)
  BY <1>1, <1>2, WFMin, Zenon
<1>4. \A y \in S : x <= y
  <2> SUFFICES ASSUME NEW y \in S, y < x PROVE FALSE
    BY <1>2
  <2>1. <<y, x>> \in Nat \X Nat /\ <<y, x>>[1] < <<y, x>>[2]
    BY <1>2
  <2>2. <<y, x>> \in less
    BY <2>1 DEF less
  <2> QED
    BY <1>3, <2>2
<1> QED
  BY <1>4 DEF Min

\* What the lines of a file before line n give words for.
ItemsBefore(s, f, n) == {p \in ItemsOf(s, f) : p[2] < n}

\* A line that gives words is added to those before it; the last line is
\* followed by the end of the file.
LEMMA ItemsBeforeFacts ==
    ASSUME TypeOK, NEW f \in Files, NEW n \in Nat
    PROVE  /\ n \in DOMAIN source[f].lines =>
                ItemsBefore(source, f, n + 1)
                  = ItemsBefore(source, f, n)
                      \cup (IF source[f].lines[n].item \in {"command", "constant"}
                            THEN {<<f, n>>} ELSE {})
           /\ n > Len(source[f].lines) => ItemsBefore(source, f, n) = ItemsOf(source, f)
           /\ (\A k \in DOMAIN source[f].lines :
                   k < n => source[f].lines[k].item = "none")
                => ItemsBefore(source, f, n) = {}
<1>1. /\ DOMAIN source[f].lines = 1 .. Len(source[f].lines)
      /\ Len(source[f].lines) \in Nat
  BY SourceFacts
<1> DEFINE length == Len(source[f].lines)
           items == {k \in 1 .. length :
                         source[f].lines[k].item \in {"command", "constant"}}
<1>2. ItemsOf(source, f) = {<<f, k>> : k \in items}
  BY <1>1 DEF ItemsOf
<1>3. \A m \in Nat : ItemsBefore(source, f, m) = {<<f, k>> : k \in {i \in items : i < m}}
  BY <1>2 DEF ItemsBefore
<1> HIDE DEF length
<1>4. length \in Nat /\ \A k \in items : k \in Nat /\ k <= length
  BY <1>1 DEF length
<1>5. ASSUME n \in 1 .. length
      PROVE  {i \in items : i < n + 1}
               = {i \in items : i < n}
                   \cup (IF source[f].lines[n].item \in {"command", "constant"}
                         THEN {n} ELSE {})
  BY <1>4, <1>5
<1>6. ASSUME n \in 1 .. length
      PROVE  ItemsBefore(source, f, n + 1)
               = ItemsBefore(source, f, n)
                   \cup (IF source[f].lines[n].item \in {"command", "constant"}
                         THEN {<<f, n>>} ELSE {})
  <2>1. n + 1 \in Nat
    OBVIOUS
  <2>2. ItemsBefore(source, f, n + 1) = {<<f, k>> : k \in {i \in items : i < n + 1}}
    BY <1>3, <2>1
  <2>3. ItemsBefore(source, f, n) = {<<f, k>> : k \in {i \in items : i < n}}
    BY <1>3
  <2> QED
    BY <1>5, <1>6, <2>2, <2>3
<1>7. ASSUME n > length PROVE ItemsBefore(source, f, n) = ItemsOf(source, f)
  <2>1. {i \in items : i < n} = items
    BY <1>4, <1>7
  <2> QED
    BY <1>2, <1>3, <2>1
<1>8. ASSUME \A k \in DOMAIN source[f].lines :
                 k < n => source[f].lines[k].item = "none"
      PROVE  ItemsBefore(source, f, n) = {}
  <2>1. \A i \in items : ~(i < n)
    BY <1>1, <1>8 DEF length
  <2>2. {i \in items : i < n} = {}
    BY <2>1
  <2> QED
    BY <1>3, <2>2
<1> QED
  BY <1>1, <1>6, <1>7, <1>8 DEF length

\* What is known of a worker that runs.
LEMMA RunningFacts ==
    ASSUME IInv, NEW w \in DOMAIN workers, Runs(w)
    PROVE  /\ phase \in {"spawn", "join"}
           /\ workers # <<>> /\ w \in 1 .. Len(workers) /\ Len(workers) \in Nat
           /\ DOMAIN workers = 1 .. Len(workers)
           /\ workers[w] \in WorkerType
           /\ workers[w].next <= workers[w].last
           /\ workers[w].next \in 1 .. Len(files_) /\ Len(files_) \in Nat
           /\ workers[w].last <= Len(files_)
           /\ Len(files_data) = Len(files_)
           /\ File(w) \in Files
<1>1. TypeOK /\ SlicesInv
  BY DEF IInv
<1>2. /\ workers \in Seq(WorkerType) /\ files_ \in Seq(Files)
      /\ workers[w].last <= Len(files_)
  BY <1>1 DEF TypeOK
<1>3. /\ DOMAIN workers = 1 .. Len(workers) /\ Len(workers) \in Nat
      /\ Len(files_) \in Nat
  BY <1>2, LenProperties
<1>4. workers # <<>> /\ workers[w] \in WorkerType
  BY <1>2, <1>3, ElementOfSeq, EmptySeq
<1>5. workers[w].next \in Nat \ {0} /\ workers[w].last \in Nat
  BY <1>4 DEF WorkerType
<1>6. workers[w].next <= workers[w].last
  BY <1>5 DEF Runs, IsDone
<1>7. workers[w].next \in 1 .. Len(files_)
  BY <1>2, <1>3, <1>5, <1>6
<1>8. File(w) \in Files
  BY <1>2, <1>7, ElementOfSeq DEF File
<1> QED
  BY <1>1, <1>2, <1>3, <1>4, <1>6, <1>7, <1>8 DEF Runs, SlicesInv

\* A worker that goes on in its file keeps the invariant if it has collected
\* the lines before its current one.
LEMMA GoesOnInv ==
    ASSUME IInv, NEW w \in DOMAIN workers, Runs(w),
           NEW state \in WorkerType, Becomes(w, state),
           state.next = workers[w].next, state.last = workers[w].last,
           LinesIn(state.data) = ItemsBefore(source, File(w), state.line)
    PROVE  IInv'
<1> DEFINE k == Len(workers)
           more == [workers EXCEPT ![w] = state]
<1>1. /\ workers' = more
      /\ UNCHANGED <<source, phase, n_workers, all_includes_, visiting, files_,
                     merged, files_data, data, exec>>
  BY DEF Becomes, mainVars, includesVars
<1>2. /\ TypeOK /\ PhasesInv /\ SearchInv /\ OrderInv
      /\ SlicesInv /\ OpenFilesInv /\ SlotsInv
      /\ workers \in Seq(WorkerType)
  BY DEF IInv, TypeOK
<1>3. /\ phase \in {"spawn", "join"} /\ workers # <<>> /\ w \in 1 .. k
      /\ k \in Nat /\ DOMAIN workers = 1 .. k
      /\ workers[w].next <= workers[w].last
  BY RunningFacts
<1>4. /\ more \in Seq(WorkerType) /\ Len(more) = k /\ DOMAIN more = 1 .. k
      /\ \A v \in 1 .. k : more[v] = IF v = w THEN state ELSE workers[v]
  BY <1>2, <1>3, ExceptSeq
<1> HIDE DEF more, k
<1>5. \A v \in 1 .. k : more[v].next = workers[v].next /\ more[v].last = workers[v].last
  BY <1>4
<1>6. /\ more # <<>> /\ Last(more).last = Last(workers).last
  <2>1. k \in 1 .. k /\ more # <<>>
    BY <1>3, <1>4, NonEmpty
  <2> QED
    BY <1>4, <1>5, <2>1 DEF Last, k
<1>7. TypeOK'
  <2>1. \A v \in DOMAIN more : /\ more[v].next <= more[v].last + 1
                               /\ more[v].last <= Len(files_)
    BY <1>2, <1>3, <1>4, <1>5 DEF TypeOK
  <2> QED
    BY <1>1, <1>2, <1>4, <2>1 DEF TypeOK
<1>8. PhasesInv'
  BY <1>1, <1>2, <1>3, <1>4, <1>6 DEF PhasesInv, NWorkers, k
<1>9. SearchInv' /\ OrderInv'
  <2>1. SearchInv'
    BY <1>1, <1>3 DEF SearchInv
  <2>2. OrderInv'
    BY <1>1, <1>2 DEF OrderInv
  <2> QED
    BY <2>1, <2>2
<1>10. SlicesInv'
  BY <1>1, <1>2, <1>3, <1>4, <1>6 DEF SlicesInv, NWorkers, k
<1>11. OpenFilesInv'
  <2> SUFFICES ASSUME NEW v \in 1 .. k, more[v].line > 0
               PROVE  /\ more[v].next <= more[v].last
                      /\ LinesIn(more[v].data)
                           = {p \in ItemsOf(source, files_[more[v].next]) :
                                  p[2] < more[v].line}
    BY <1>1, <1>4 DEF OpenFilesInv
  <2>1. CASE v = w
    BY <1>3, <1>4, <2>1 DEF ItemsBefore, File
  <2>2. CASE v # w
    <3>1. more[v] = workers[v]
      BY <1>4, <2>2
    <3> QED
      BY <1>2, <1>3, <3>1 DEF OpenFilesInv
  <2> QED
    BY <2>1, <2>2
<1>12. SlotsInv'
  <2>1. ASSUME NEW i \in 1 .. Last(workers).last
        PROVE  \/ LinesIn(files_data[i]) = ItemsOf(source, files_[i])
               \/ \E v \in DOMAIN more : more[v].next <= i /\ i <= more[v].last
    BY <1>2, <1>3, <1>4, <1>5 DEF SlotsInv
  <2> QED
    BY <1>1, <1>6, <2>1 DEF SlotsInv
<1> QED
  BY <1>7, <1>8, <1>9, <1>10, <1>11, <1>12 DEF IInv
-----------------------------------------------------------------------------
(***************************************************************************)
(* What a worker does with its file.                                       *)
(***************************************************************************)
\* A worker goes on to the next line with what the line adds.
LEMMA NextLineInv ==
    ASSUME IInv, NEW w \in DOMAIN workers, Runs(w),
           workers[w].line \in DOMAIN Lines(w),
           NEW label \in MaybeLabel, NEW d \in DataType,
           LinesIn(d) = LinesIn(workers[w].data)
                          \cup (IF CurrLine(w).item \in {"command", "constant"}
                                THEN {<<File(w), workers[w].line>>} ELSE {}),
           NextLine(w, label, d)
    PROVE  IInv'
<1> DEFINE n == workers[w].line
           state == [workers[w] EXCEPT !.line = @ + 1, !.label = label, !.data = d]
<1>1. TypeOK /\ OpenFilesInv
  BY DEF IInv
<1>2. workers[w] \in WorkerType /\ File(w) \in Files
  BY RunningFacts
<1>3. n \in Nat \ {0} /\ n \in DOMAIN source[File(w)].lines
  BY <1>1, <1>2, SourceFacts DEF Lines
<1>4. LinesIn(workers[w].data) = ItemsBefore(source, File(w), n)
  <2>1. workers[w].line > 0
    BY <1>3
  <2> QED
    BY <1>1, <2>1 DEF OpenFilesInv, ItemsBefore, File
<1>5. /\ state \in WorkerType /\ state.next = workers[w].next
      /\ state.last = workers[w].last /\ state.line = n + 1 /\ state.data = d
  <2>1. workers[w].line + 1 \in Nat
    BY <1>3
  <2> QED
    BY <1>2, <2>1 DEF WorkerType
<1>6. Becomes(w, state)
  BY DEF NextLine
<1> HIDE DEF n, state
<1>7. ItemsBefore(source, File(w), n + 1)
        = ItemsBefore(source, File(w), n)
            \cup (IF source[File(w)].lines[n].item \in {"command", "constant"}
                  THEN {<<File(w), n>>} ELSE {})
  BY <1>1, <1>2, <1>3, ItemsBeforeFacts
<1>8. CurrLine(w) = source[File(w)].lines[n]
  BY DEF CurrLine, Lines, n
<1>9. LinesIn(state.data) = ItemsBefore(source, File(w), state.line)
  BY <1>4, <1>5, <1>7, <1>8 DEF n
<1> QED
  BY <1>5, <1>6, <1>9, GoesOnInv

\* What is known of a worker at a line.
LEMMA AtItemFacts ==
    ASSUME IInv, NEW w \in DOMAIN workers, NEW item, AtItem(w, item)
    PROVE  /\ Runs(w) /\ workers[w].line \in DOMAIN Lines(w)
           /\ CurrLine(w) \in Line /\ CurrLine(w).item = item
           /\ TypeOK /\ File(w) \in Files
           /\ workers[w].line \in DOMAIN source[File(w)].lines
           /\ workers[w].data \in DataType
           /\ LabelBefore(w) \in MaybeLabel
<1>1. /\ Runs(w) /\ workers[w].line \in DOMAIN Lines(w) /\ CurrLine(w).item = item
      /\ TypeOK
  BY DEF AtItem, IInv
<1>2. workers[w] \in WorkerType /\ File(w) \in Files
  BY <1>1, RunningFacts
<1>3. workers[w].line \in DOMAIN source[File(w)].lines
  BY <1>1 DEF Lines
<1>4. CurrLine(w) \in Line
  BY <1>1, <1>2, <1>3, SourceFacts DEF CurrLine, Lines
<1>5. workers[w].data \in DataType /\ workers[w].label \in MaybeLabel
  BY <1>2 DEF WorkerType
<1> QED
  BY <1>1, <1>2, <1>3, <1>4, <1>5 DEF LabelBefore, Line

\* A worker opens its next file at the first line that is not blank.
LEMMA OpenFileInv ==
    ASSUME IInv, NEW w \in DOMAIN workers, OpenFile(w)
    PROVE  IInv'
<1> DEFINE first == FirstLines(w)
           n == Min(first)
           state == [workers[w] EXCEPT !.line = n, !.data = EmptyData]
<1>1. Runs(w) /\ first # {} /\ Becomes(w, state)
  BY DEF OpenFile
<1>2. TypeOK /\ workers[w] \in WorkerType /\ File(w) \in Files
  BY <1>1, RunningFacts DEF IInv
<1>3. /\ DOMAIN Lines(w) = 1 .. Len(Lines(w)) /\ Len(Lines(w)) \in Nat
      /\ Lines(w) = source[File(w)].lines
  BY <1>2, SourceFacts DEF Lines
<1>4. first = {k \in 1 .. Len(Lines(w)) : ~IsBlank(Lines(w)[k])}
  BY <1>3 DEF FirstLines
<1>5. n \in first /\ \A k \in first : n <= k
  <2>1. first \in SUBSET Nat
    BY <1>3, <1>4
  <2> HIDE DEF first
  <2> QED
    BY <1>1, <2>1, MinFacts
<1>6. n \in Nat
  BY <1>3, <1>4, <1>5
<1> HIDE DEF first, n
<1>7. /\ state \in WorkerType /\ state.next = workers[w].next
      /\ state.last = workers[w].last /\ state.line = n /\ state.data = EmptyData
  BY <1>2, <1>6, EmptyDataType DEF WorkerType
<1>8. \A k \in DOMAIN source[File(w)].lines :
         k < n => source[File(w)].lines[k].item = "none"
  <2> SUFFICES ASSUME NEW k \in DOMAIN source[File(w)].lines, k < n
               PROVE  source[File(w)].lines[k].item = "none"
    OBVIOUS
  <2>1. k \in 1 .. Len(Lines(w)) /\ k \notin first
    BY <1>3, <1>5, <1>6
  <2>2. IsBlank(Lines(w)[k])
    BY <1>4, <2>1
  <2> QED
    BY <1>3, <2>2 DEF IsBlank
<1>9. ItemsBefore(source, File(w), n) = {}
  BY <1>2, <1>6, <1>8, ItemsBeforeFacts
<1>10. LinesIn(state.data) = ItemsBefore(source, File(w), state.line)
  BY <1>7, <1>9, EmptyDataType
<1> HIDE DEF state
<1> QED
  BY <1>1, <1>7, <1>10, GoesOnInv

\* Each of the four kinds of line a worker accepts.
LEMMA ProcessLineInv ==
    ASSUME IInv, NEW w \in DOMAIN workers,
           \/ ProcessLabel(w) \/ ProcessCommand(w)
           \/ ProcessConstant(w) \/ ProcessEntrypoint(w)
    PROVE  IInv'
<1> DEFINE d == workers[w].data
           label == LabelBefore(w)
           n == workers[w].line
<1>1. NoLabel \in MaybeLabel
  BY DEF MaybeLabel
<1>2. CASE ProcessLabel(w)
  <2>1. AtItem(w, "none") /\ NextLine(w, label, d)
    BY <1>2 DEF ProcessLabel
  <2>2. /\ Runs(w) /\ n \in DOMAIN Lines(w) /\ CurrLine(w).item = "none"
        /\ d \in DataType /\ label \in MaybeLabel
    BY <2>1, AtItemFacts
  <2>3. LinesIn(d) = LinesIn(d) \cup (IF CurrLine(w).item \in {"command", "constant"}
                                      THEN {<<File(w), n>>} ELSE {})
    BY <2>2
  <2> QED
    BY <2>1, <2>2, <2>3, NextLineInv
<1>3. CASE ProcessCommand(w)
  <2> DEFINE more == AddCommand(d, label, File(w), n)
  <2>1. AtItem(w, "command") /\ NextLine(w, NoLabel, more)
    BY <1>3 DEF ProcessCommand
  <2>2. /\ Runs(w) /\ n \in DOMAIN Lines(w) /\ CurrLine(w).item = "command"
        /\ d \in DataType /\ label \in MaybeLabel /\ TypeOK /\ File(w) \in Files
        /\ n \in DOMAIN source[File(w)].lines
    BY <2>1, AtItemFacts
  <2>3. more \in DataType /\ LinesIn(more) = LinesIn(d) \cup {<<File(w), n>>}
    BY <2>2, AddCommandFacts
  <2> HIDE DEF more
  <2> QED
    BY <1>1, <2>1, <2>2, <2>3, NextLineInv
<1>4. CASE ProcessConstant(w)
  <2> DEFINE more == AddConstant(d, label, File(w), n)
  <2>1. AtItem(w, "constant") /\ NextLine(w, NoLabel, more)
    BY <1>4 DEF ProcessConstant
  <2>2. /\ Runs(w) /\ n \in DOMAIN Lines(w) /\ CurrLine(w).item = "constant"
        /\ d \in DataType /\ label \in MaybeLabel /\ TypeOK /\ File(w) \in Files
        /\ n \in DOMAIN source[File(w)].lines
    BY <2>1, AtItemFacts
  <2>3. more \in DataType /\ LinesIn(more) = LinesIn(d) \cup {<<File(w), n>>}
    BY <2>2, AddConstantFacts
  <2> HIDE DEF more
  <2> QED
    BY <1>1, <2>1, <2>2, <2>3, NextLineInv
<1>5. CASE ProcessEntrypoint(w)
  <2> DEFINE more == AddEntrypoint(d, CurrLine(w))
  <2>1. AtItem(w, "end") /\ NextLine(w, NoLabel, more)
    BY <1>5 DEF ProcessEntrypoint
  <2>2. /\ Runs(w) /\ n \in DOMAIN Lines(w) /\ CurrLine(w).item = "end"
        /\ d \in DataType /\ CurrLine(w) \in Line
    BY <2>1, AtItemFacts
  <2>3. more \in DataType /\ LinesIn(more) = LinesIn(d)
    BY <2>2, AddEntrypointFacts
  <2> HIDE DEF more
  <2>4. LinesIn(more)
          = LinesIn(d) \cup (IF CurrLine(w).item \in {"command", "constant"}
                             THEN {<<File(w), n>>} ELSE {})
    BY <2>2, <2>3
  <2> QED
    BY <1>1, <2>1, <2>2, <2>3, <2>4, NextLineInv
<1> QED
  BY <1>2, <1>3, <1>4, <1>5

\* The slot of a finished file is complete, and those after it in the slice
\* are still to come.
LEMMA FinishFileInv ==
    ASSUME IInv, NEW w \in DOMAIN workers, FinishFile(w)
    PROVE  IInv'
<1> DEFINE k == Len(workers)
           i == workers[w].next
           d == workers[w].data
           slots == [files_data EXCEPT ![i] = d]
           state == [workers[w] EXCEPT !.next = @ + 1, !.line = 0]
           more == [workers EXCEPT ![w] = state]
<1>1. /\ Runs(w) /\ workers[w].line > Len(Lines(w))
      /\ files_data' = slots /\ workers' = more
      /\ UNCHANGED <<source, phase, n_workers, all_includes_, visiting, files_,
                     merged, data, exec>>
  BY DEF FinishFile, AtEnd, mainVars, includesVars
<1>2. /\ TypeOK /\ PhasesInv /\ SearchInv /\ OrderInv
      /\ SlicesInv /\ OpenFilesInv /\ SlotsInv
      /\ workers \in Seq(WorkerType) /\ files_data \in Seq(DataType)
  BY DEF IInv, TypeOK
<1>3. /\ phase \in {"spawn", "join"} /\ workers # <<>> /\ w \in 1 .. k
      /\ k \in Nat /\ DOMAIN workers = 1 .. k
      /\ workers[w] \in WorkerType
      /\ i <= workers[w].last
      /\ i \in 1 .. Len(files_) /\ Len(files_) \in Nat
      /\ workers[w].last <= Len(files_)
      /\ Len(files_data) = Len(files_)
      /\ File(w) \in Files
  BY <1>1, RunningFacts
<1>4. d \in DataType /\ workers[w].last \in Nat /\ workers[w].line \in Nat
  BY <1>3 DEF WorkerType
<1>5. /\ slots \in Seq(DataType) /\ Len(slots) = Len(files_)
      /\ \A j \in 1 .. Len(files_) : slots[j] = IF j = i THEN d ELSE files_data[j]
  BY <1>2, <1>3, <1>4, ExceptSeq
<1>6. /\ state \in WorkerType /\ state.next = i + 1
      /\ state.last = workers[w].last /\ state.line = 0
  <2>1. workers[w].next + 1 \in Nat \ {0}
    BY <1>3
  <2> QED
    BY <1>3, <2>1 DEF WorkerType
<1>7. /\ more \in Seq(WorkerType) /\ Len(more) = k /\ DOMAIN more = 1 .. k
      /\ \A v \in 1 .. k : more[v] = IF v = w THEN state ELSE workers[v]
  <2> HIDE DEF state
  <2> QED
    BY <1>2, <1>3, <1>6, ExceptSeq
<1>8. LinesIn(d) = ItemsOf(source, files_[i])
  <2>1. Lines(w) = source[File(w)].lines /\ Len(Lines(w)) \in Nat
    BY <1>2, <1>3, SourceFacts DEF Lines
  <2>2. workers[w].line > 0
    BY <1>1, <1>4, <2>1
  <2>3. LinesIn(d) = ItemsBefore(source, File(w), workers[w].line)
    BY <1>2, <2>2 DEF OpenFilesInv, ItemsBefore, File
  <2>4. ItemsBefore(source, File(w), workers[w].line) = ItemsOf(source, File(w))
    <3> DEFINE n == workers[w].line
    <3>1. n \in Nat /\ n > Len(source[File(w)].lines)
      BY <1>1, <1>4, <2>1
    <3> HIDE DEF n
    <3>2. ItemsBefore(source, File(w), n) = ItemsOf(source, File(w))
      BY <1>2, <1>3, <3>1, ItemsBeforeFacts
    <3> QED
      BY <3>2 DEF n
  <2> QED
    BY <2>3, <2>4 DEF File
<1> HIDE DEF slots, state, more, k, i, d
<1>9. \A v \in 1 .. k : more[v].last = workers[v].last
  BY <1>6, <1>7
<1>10. /\ more # <<>> /\ Last(more).last = Last(workers).last
       /\ Last(workers).last <= Len(files_)
  <2>1. k \in 1 .. k /\ more # <<>>
    BY <1>3, <1>7, NonEmpty
  <2>2. Last(workers) = workers[k] /\ workers[k].last <= Len(files_)
    BY <1>2, <1>3, <2>1 DEF TypeOK, Last, k
  <2> QED
    BY <1>7, <1>9, <2>1, <2>2 DEF Last
<1>11. TypeOK'
  <2>1. ASSUME NEW v \in 1 .. k
        PROVE  more[v].next <= more[v].last + 1 /\ more[v].last <= Len(files_)
    <3>1. CASE v = w
      BY <1>3, <1>4, <1>6, <1>7, <3>1
    <3>2. CASE v # w
      BY <1>2, <1>3, <1>7, <3>2 DEF TypeOK
    <3> QED
      BY <3>1, <3>2
  <2> QED
    BY <1>1, <1>2, <1>5, <1>7, <2>1 DEF TypeOK
<1>12. PhasesInv'
  BY <1>1, <1>2, <1>3, <1>7, <1>10 DEF PhasesInv, NWorkers, k
<1>13. SearchInv'
  BY <1>1, <1>3 DEF SearchInv
<1>14. OrderInv'
  BY <1>1, <1>2 DEF OrderInv
<1>15. SlicesInv'
  BY <1>1, <1>2, <1>3, <1>5, <1>7, <1>10 DEF SlicesInv, NWorkers, k
<1>16. OpenFilesInv'
  <2> SUFFICES ASSUME NEW v \in 1 .. k, more[v].line > 0
               PROVE  /\ more[v].next <= more[v].last
                      /\ LinesIn(more[v].data)
                           = {p \in ItemsOf(source, files_[more[v].next]) :
                                  p[2] < more[v].line}
    BY <1>1, <1>7 DEF OpenFilesInv
  <2>1. more[v] = workers[v]
    BY <1>6, <1>7
  <2> QED
    BY <1>2, <1>3, <2>1 DEF OpenFilesInv
<1>17. SlotsInv'
  <2>1. ASSUME NEW j \in 1 .. Last(workers).last
        PROVE  \/ LinesIn(slots[j]) = ItemsOf(source, files_[j])
               \/ \E v \in DOMAIN more : more[v].next <= j /\ j <= more[v].last
    <3>1. j \in 1 .. Len(files_)
      <4>1. Last(workers) \in WorkerType
        BY <1>2, <1>3, FrontAndLast
      <4> QED
        BY <1>3, <1>10, <4>1 DEF WorkerType
    <3>2. CASE j = i
      BY <1>5, <1>8, <3>1, <3>2
    <3>3. CASE j # i
      <4>1. slots[j] = files_data[j]
        BY <1>5, <3>1, <3>3
      <4>2. CASE LinesIn(files_data[j]) = ItemsOf(source, files_[j])
        BY <4>1, <4>2
      <4>3. ASSUME NEW v \in 1 .. k, workers[v].next <= j, j <= workers[v].last
            PROVE  more[v].next <= j /\ j <= more[v].last
        <5>1. CASE v = w
          BY <1>3, <1>6, <1>7, <3>1, <3>3, <4>3, <5>1 DEF i
        <5>2. CASE v # w
          BY <1>7, <4>3, <5>2
        <5> QED
          BY <5>1, <5>2
      <4> QED
        BY <1>2, <1>3, <1>7, <4>2, <4>3 DEF SlotsInv
    <3> QED
      BY <3>2, <3>3
  <2> QED
    BY <1>1, <1>10, <2>1 DEF SlotsInv
<1> QED
  BY <1>11, <1>12, <1>13, <1>14, <1>15, <1>16, <1>17 DEF IInv
-----------------------------------------------------------------------------
(***************************************************************************)
(* The theorems.                                                           *)
(***************************************************************************)
\* A call that begins has its invariant.
LEMMA InitInv == Init => IInv
<1> SUFFICES ASSUME Init PROVE IInv
  OBVIOUS
<1>1. /\ source \in Sources /\ phase = "start" /\ n_workers \in WorkerCounts
      /\ all_includes_ = {} /\ visiting = <<>> /\ files_ = <<>>
      /\ files_data = <<>> /\ workers = <<>> /\ data = EmptyData /\ merged = 0
      /\ exec = NoImage
  BY DEF Init
<1>2. source \in [Files -> SourceFile] /\ n_workers \in Nat
  BY <1>1, SourcesAssumption, WorkersAssumption
<1>3. Len(<<>>) = 0 /\ \A S : <<>> \in Seq(S)
  BY EmptySeq
<1>4. TypeOK
  <2>1. exec \in [entrypoint : Nat, code : Seq(Cell), constants : Seq(Cell)]
    BY <1>1, <1>3 DEF NoImage
  <2> QED
    BY <1>1, <1>2, <1>3, <2>1, EmptyDataType DEF TypeOK
<1>5. PhasesInv
  BY <1>1 DEF PhasesInv
<1>6. SearchInv
  <2>1. ToSet(files_) = {} /\ FilesOf(visiting) = {}
    BY <1>1 DEF ToSet, FilesOf
  <2> QED
    BY <1>1, <2>1 DEF SearchInv
<1>7. OrderInv /\ SlicesInv /\ OpenFilesInv /\ SlotsInv
  BY <1>1 DEF OrderInv, SlicesInv, OpenFilesInv, SlotsInv
<1> QED
  BY <1>4, <1>5, <1>6, <1>7 DEF IInv

\* The steps that end the call or wait for it to go on.
LEMMA EndsInv ==
    ASSUME IInv,
           \/ DivideByZero \/ CannotStartWorker \/ MergeFails \/ Write
           \/ \E w \in DOMAIN workers : \/ OpenEmptyFile(w) \/ CannotReopen(w)
                                        \/ RejectLine(w) \/ FileEndsWithLabel(w)
    PROVE  IInv'
<1>1. exec \in Image
  BY DEF IInv, TypeOK, Image
<1>2. /\ phase' \in Ended /\ exec' = exec
      /\ UNCHANGED <<source, mainVars, files_data, workers, data>>
  <2>1. CASE DivideByZero
    BY <2>1 DEF DivideByZero, Ended
  <2>2. CASE CannotStartWorker
    BY <2>2 DEF CannotStartWorker, Ended
  <2>3. CASE MergeFails
    BY <2>3 DEF MergeFails, Ended, mergeVars, mainVars
  <2>4. CASE Write
    BY <2>4 DEF Write, Ended, mergeVars, mainVars
  <2>5. ASSUME NEW w \in DOMAIN workers,
               \/ OpenEmptyFile(w) \/ RejectLine(w) \/ FileEndsWithLabel(w)
        PROVE  /\ phase' \in Ended /\ exec' = exec
               /\ UNCHANGED <<source, mainVars, files_data, workers, data>>
    <3>1. Terminate
      BY <2>5 DEF OpenEmptyFile, RejectLine, FileEndsWithLabel
    <3> QED
      BY <3>1 DEF Terminate, Ended
  <2>6. ASSUME NEW w \in DOMAIN workers, CannotReopen(w)
        PROVE  /\ phase' \in Ended /\ exec' = exec
               /\ UNCHANGED <<source, mainVars, files_data, workers, data>>
    BY <2>6 DEF CannotReopen, Ended
  <2> QED
    BY <2>1, <2>2, <2>3, <2>4, <2>5, <2>6
<1> QED
  BY <1>1, <1>2, EndInv

\* Joining the workers, merging their results and substituting the labels.
LEMMA MergeInv ==
    ASSUME IInv, JoinWorkers \/ MergeFile \/ Substitute
    PROVE  IInv'
<1>1. /\ TypeOK /\ PhasesInv /\ SearchInv /\ OrderInv
      /\ SlicesInv /\ OpenFilesInv /\ SlotsInv
  BY DEF IInv
<1>2. CASE JoinWorkers
  <2>1. /\ phase = "join" /\ phase' = "merge"
        /\ \A w \in DOMAIN workers : workers[w].next > workers[w].last
        /\ UNCHANGED <<source, n_workers, all_includes_, visiting, files_, merged,
                       files_data, workers, data, exec>>
    BY <1>2 DEF JoinWorkers, IsDone, mainVars, includesVars
  <2>2. TypeOK'
    BY <1>1, <2>1 DEF TypeOK
  <2>3. PhasesInv'
    BY <1>1, <2>1 DEF PhasesInv, NWorkers
  <2>4. SearchInv'
    BY <2>1 DEF SearchInv
  <2>5. OrderInv'
    BY <1>1, <2>1 DEF OrderInv
  <2>6. SlicesInv' /\ OpenFilesInv' /\ SlotsInv'
    BY <1>1, <2>1 DEF SlicesInv, OpenFilesInv, SlotsInv, NWorkers
  <2> QED
    BY <2>2, <2>3, <2>4, <2>5, <2>6 DEF IInv
<1>3. CASE MergeFile
  <2> DEFINE more == Merge(data, files_data[merged + 1])
  <2>1. /\ phase = "merge" /\ phase' = phase /\ merged < Len(files_)
        /\ data' = more /\ merged' = merged + 1
        /\ UNCHANGED <<source, n_workers, all_includes_, visiting, files_,
                       files_data, workers, exec>>
    BY <1>3 DEF MergeFile, mergeVars, includesVars
  <2>2. /\ files_data \in Seq(DataType) /\ Len(files_data) = Len(files_)
        /\ Len(files_) \in Nat /\ merged \in 0 .. Len(files_)
    BY <1>1, <2>1, LenProperties DEF TypeOK, PhasesInv, SlicesInv
  <2>3. merged + 1 \in 1 .. Len(files_)
    BY <2>1, <2>2
  <2>4. files_data[merged + 1] \in DataType
    BY <2>2, <2>3, ElementOfSeq
  <2>5. more \in DataType
    BY <1>1, <2>4, MergeType DEF TypeOK
  <2> HIDE DEF more
  <2>6. TypeOK'
    BY <1>1, <2>1, <2>3, <2>5 DEF TypeOK
  <2>7. PhasesInv'
    BY <1>1, <2>1 DEF PhasesInv, NWorkers
  <2>8. SearchInv'
    BY <2>1 DEF SearchInv
  <2>9. OrderInv'
    BY <1>1, <2>1 DEF OrderInv
  <2>10. SlicesInv' /\ OpenFilesInv' /\ SlotsInv'
    BY <1>1, <2>1 DEF SlicesInv, OpenFilesInv, SlotsInv, NWorkers
  <2> QED
    BY <2>6, <2>7, <2>8, <2>9, <2>10 DEF IInv
<1>4. CASE Substitute
  <2>1. /\ phase = "merge"
        /\ UNCHANGED <<source, n_workers, all_includes_, visiting, files_,
                       files_data, workers, data, merged>>
    BY <1>4 DEF Substitute, mergeVars, includesVars
  <2>2. exec \in Image /\ data \in DataType
    BY <1>1 DEF TypeOK, Image
  <2>3. CASE ~CanSubstitute(data)
    <3>1. phase' \in Ended /\ exec' = exec
      BY <1>4, <2>3 DEF Substitute, Ended
    <3> QED
      BY <2>1, <2>2, <3>1, EndInv DEF mainVars, includesVars
  <2>4. CASE CanSubstitute(data)
    <3>1. phase' = "write" /\ exec' = ToExecData(data)
      BY <1>4, <2>4 DEF Substitute
    <3>2. exec' \in Image
      BY <2>2, <2>4, <3>1, ToExecDataType DEF Image
    <3>3. TypeOK'
      BY <1>1, <2>1, <3>1, <3>2 DEF TypeOK, Image
    <3>4. PhasesInv'
      BY <1>1, <2>1, <3>1 DEF PhasesInv, NWorkers
    <3>5. SearchInv'
      BY <3>1 DEF SearchInv
    <3>6. OrderInv'
      BY <1>1, <2>1, <3>1 DEF OrderInv
    <3>7. SlicesInv' /\ OpenFilesInv' /\ SlotsInv'
      BY <1>1, <2>1 DEF SlicesInv, OpenFilesInv, SlotsInv, NWorkers
    <3> QED
      BY <3>3, <3>4, <3>5, <3>6, <3>7 DEF IInv
  <2> QED
    BY <2>3, <2>4
<1> QED
  BY <1>2, <1>3, <1>4

\* Nothing changes between two steps.
LEMMA StutterInv ==
    ASSUME IInv, UNCHANGED vars
    PROVE  IInv'
<1>1. UNCHANGED <<source, phase, n_workers, all_includes_, visiting, files_,
                  files_data, workers, data, merged, exec>>
  BY DEF vars
<1> QED
  BY <1>1 DEF IInv, TypeOK, PhasesInv, SearchInv, OrderInv, SlicesInv,
              OpenFilesInv, SlotsInv, NWorkers

\* Every step keeps the invariant.
LEMMA NextInv == IInv /\ [Next]_vars => IInv'
<1> SUFFICES ASSUME IInv, [Next]_vars PROVE IInv'
  OBVIOUS
<1>1. CASE MainStep
  BY <1>1, GetFilesInv, SkipIncludeInv, FollowIncludeInv, LeaveFileInv,
     StartWorkerInv, EndsInv, MergeInv DEF MainStep
<1>2. ASSUME NEW w \in DOMAIN workers, WorkerStep(w) PROVE IInv'
  <2>1. CASE OpenFile(w)
    BY <2>1, OpenFileInv
  <2>2. CASE \/ OpenEmptyFile(w) \/ CannotReopen(w)
             \/ RejectLine(w) \/ FileEndsWithLabel(w)
    BY <2>2, EndsInv
  <2>3. CASE \/ ProcessLabel(w) \/ ProcessCommand(w)
             \/ ProcessConstant(w) \/ ProcessEntrypoint(w)
    BY <2>3, ProcessLineInv
  <2>4. CASE FinishFile(w)
    BY <2>4, FinishFileInv
  <2> QED
    BY <1>2, <2>1, <2>2, <2>3, <2>4 DEF WorkerStep
<1>3. CASE Stopped \/ UNCHANGED vars
  BY <1>3, StutterInv DEF Stopped
<1> QED
  BY <1>1, <1>2, <1>3 DEF Next

\* Along every compilation the search, the order of the files, the slices of
\* the workers and their slots are as the invariant says.
THEOREM CompileInvariance == Spec => []IInv
BY InitInv, NextInv, PTL DEF Spec

\* Every slot, every result of a worker and the executable have their types: no
\* address is taken of a label that has none and no slot is written outside
\* the vector of results.
THEOREM CompileTypeCorrect == Spec => []TypeOK
<1>1. IInv => TypeOK
  BY DEF IInv
<1> QED
  BY <1>1, CompileInvariance, PTL

\* For every inclusion graph, with shared includes and with cycles: each file
\* of the program is compiled once, and after the files it includes unless
\* they include it in turn.
THEOREM IncludesComeFirst == Spec => []IncludedFirst
<1>1. ASSUME IInv PROVE IncludedFirst
  <2>1. SearchInv /\ OrderInv
    BY <1>1 DEF IInv
  <2>2. \A f : Reachable(f) = Within(source, f)
    BY OfTheProgram
  <2>3. IsInjective(files_)
    BY <2>1 DEF OrderInv, IsInjective
  <2>4. phase = "includes" =>
           /\ FilesOf(visiting) \cap ToSet(files_) = {}
           /\ all_includes_ = FilesOf(visiting) \cup ToSet(files_)
    BY <2>1 DEF SearchInv, FilesOf
  <2> QED
    BY <2>1, <2>2, <2>3, <2>4 DEF IncludedFirst, OrderInv, FilesOf
<1> QED
  BY <1>1, CompileInvariance, PTL

\* For every number of files and of workers and every schedule: when the
\* workers are joined every slot holds the whole result of its own file.
THEOREM SlotsAreComplete == Spec => []JoinedResultsAreComplete
<1>1. ASSUME IInv PROVE JoinedResultsAreComplete
  <2> SUFFICES ASSUME phase \in {"merge", "write"}, NEW i \in DOMAIN files_
               PROVE  LinesIn(files_data[i]) = ItemLines(files_[i])
    BY DEF JoinedResultsAreComplete
  <2>1. TypeOK /\ PhasesInv /\ SlicesInv /\ SlotsInv
    BY <1>1 DEF IInv
  <2>2. /\ workers # <<>> /\ Len(workers) = NWorkers
        /\ \A w \in DOMAIN workers : workers[w].next > workers[w].last
    BY <2>1 DEF PhasesInv
  <2>3. NWorkers \in Nat \ {0} /\ Len(files_) \in Nat
    <3>1. Len(workers) \in Nat \ {0}
      BY <2>1, <2>2, EmptySeq DEF TypeOK
    <3> QED
      BY <2>1, <2>2, <3>1, NWorkersFacts
  <2>4. Last(workers).last = Len(files_)
    <3>1. NWorkers \in 0 .. NWorkers
      BY <2>3
    <3>2. SliceEnd(NWorkers, NWorkers, Len(files_)) = Len(files_)
      BY <2>3, <3>1, SliceFacts
    <3> QED
      BY <2>1, <2>2, <3>2 DEF SlicesInv
  <2>5. i \in 1 .. Last(workers).last
    BY <2>1, <2>4, LenProperties DEF TypeOK
  <2>6. ~ \E w \in DOMAIN workers : workers[w].next <= i /\ i <= workers[w].last
    <3> SUFFICES ASSUME NEW w \in DOMAIN workers,
                        workers[w].next <= i, i <= workers[w].last
                 PROVE  FALSE
      OBVIOUS
    <3>1. workers[w] \in WorkerType
      BY <2>1, LenProperties, ElementOfSeq DEF TypeOK
    <3>2. workers[w].next \in Nat /\ workers[w].last \in Nat /\ i \in Nat
      BY <2>3, <2>4, <2>5, <3>1 DEF WorkerType
    <3> QED
      BY <2>2, <3>2
  <2> QED
    BY <2>1, <2>2, <2>5, <2>6, OfTheProgram DEF SlotsInv
<1> QED
  BY <1>1, CompileInvariance, PTL
-----------------------------------------------------------------------------
(***************************************************************************)
(* Functions that are computed one number after the other, and sequences   *)
(* joined by one.                                                          *)
(***************************************************************************)
\* A set of natural numbers has a least one.
LEMMA Least ==
    ASSUME NEW S \in SUBSET Nat, S # {}
    PROVE  \E x \in S : \A y \in S : x <= y
<1> DEFINE less == {p \in Nat \X Nat : p[1] < p[2]}
<1>1. IsWellFoundedOn(less, Nat)
  BY NatLessThanWellFounded DEF OpToRel
<1>2. S \subseteq Nat
  OBVIOUS
<1> HIDE DEF less
<1>3. PICK x \in S : \A y \in S : ~(<<y, x>> \in less)
  BY <1>1, <1>2, WFMin, Zenon
<1>4. \A y \in S : x <= y
  <2> SUFFICES ASSUME NEW y \in S, y < x PROVE FALSE
    BY <1>2
  <2>1. <<y, x>> \in Nat \X Nat /\ <<y, x>>[1] < <<y, x>>[2]
    BY <1>2
  <2>2. <<y, x>> \in less
    BY <2>1 DEF less
  <2> QED
    BY <1>3, <2>2
<1> QED
  BY <1>4

\* A set of natural numbers that holds 0, and the next of each, up to n, holds
\* all numbers up to n.
LEMMA UpTo ==
    ASSUME NEW n \in Nat, NEW S, 0 \in S,
           \A m \in 1 .. n : m - 1 \in S => m \in S
    PROVE  0 .. n \subseteq S
<1> DEFINE missing == {m \in 0 .. n : m \notin S}
<1>1. missing \in SUBSET Nat
  OBVIOUS
<1>2. ASSUME missing # {}
      PROVE  FALSE
  <2>1. PICK m \in missing : \A k \in missing : m <= k
    <3> HIDE DEF missing
    <3> QED
      BY <1>1, <1>2, Least
  <2>2. m \in 0 .. n /\ m \notin S /\ m # 0
    BY <2>1
  <2>3. m \in 1 .. n /\ m - 1 \in 0 .. n /\ ~(m <= m - 1)
    BY <2>2
  <2>4. m - 1 \notin missing
    <3> HIDE DEF missing
    <3> QED
      BY <2>1, <2>3
  <2> QED
    BY <2>2, <2>3, <2>4
<1> QED
  BY <1>2

\* f starts with a, and h makes every value from the one before.
IsRecursion(f, X, a, n, h) ==
    /\ f \in [0 .. n -> X]
    /\ f[0] = a
    /\ \A i \in 1 .. n : f[i] = h[<<f[i - 1], i>>]

\* There is such a function for every first value and step.
LEMMA Recursion ==
    ASSUME NEW X, NEW a \in X, NEW n \in Nat, NEW h \in [X \X (1 .. n) -> X]
    PROVE  \E f : IsRecursion(f, X, a, n, h)
<1> DEFINE Is(f, m) == /\ f \in [0 .. m -> X] /\ f[0] = a
                       /\ \A i \in 1 .. m : f[i] = h[<<f[i - 1], i>>]
           S == {m \in 0 .. n : \E f : Is(f, m)}
<1>1. 0 \in S
  <2> DEFINE f == [i \in 0 .. 0 |-> a]
  <2>1. f \in [0 .. 0 -> X] /\ f[0] = a /\ 1 .. 0 = {}
    BY DEF f
  <2> HIDE DEF f
  <2>2. Is(f, 0)
    BY <2>1
  <2> QED
    BY <2>2
<1>2. ASSUME NEW m \in 1 .. n, m - 1 \in S
      PROVE  m \in S
  <2>1. PICK f : Is(f, m - 1)
    BY <1>2
  <2> DEFINE g == [i \in 0 .. m |-> IF i = m THEN h[<<f[m - 1], m>>] ELSE f[i]]
  <2>2. f \in [0 .. m - 1 -> X]
    BY <2>1
  <2>3. f[m - 1] \in X /\ h[<<f[m - 1], m>>] \in X
    BY <2>2
  <2>4. g \in [0 .. m -> X]
    BY <2>2, <2>3
  <2>5. g[0] = a
    BY <2>1
  <2>6. ASSUME NEW i \in 1 .. m
        PROVE  g[i] = h[<<g[i - 1], i>>]
    <3>1. CASE i = m
      <4>1. m \in 0 .. m /\ m - 1 \in 0 .. m /\ m - 1 # m
        OBVIOUS
      <4>2. g[m] = h[<<f[m - 1], m>>] /\ g[m - 1] = f[m - 1]
        BY <4>1
      <4> QED
        BY <3>1, <4>2
    <3>2. CASE i # m
      <4>1. i \in 1 .. m - 1 /\ i \in 0 .. m /\ i - 1 \in 0 .. m /\ i - 1 # m
        BY <3>2
      <4>2. f[i] = h[<<f[i - 1], i>>]
        BY <2>1, <4>1
      <4> QED
        BY <3>2, <4>1, <4>2
    <3> QED
      BY <3>1, <3>2
  <2> HIDE DEF g
  <2>7. Is(g, m)
    BY <2>4, <2>5, <2>6
  <2> HIDE DEF Is
  <2> QED
    BY <2>7
<1> HIDE DEF S
<1>3. 0 .. n \subseteq S
  BY <1>1, <1>2, UpTo
<1>4. PICK f : Is(f, n)
  <2>1. n \in S
    BY <1>3
  <2> HIDE DEF Is
  <2> QED
    BY <2>1, Zenon DEF S
<1>5. IsRecursion(f, X, a, n, h)
  BY <1>4, Zenon DEF IsRecursion
<1> QED
  BY <1>5

\* Elements keep their places, or move by the length of what is before.
LEMMA JoinedType ==
    ASSUME NEW T, NEW s \in Seq(T), NEW t \in Seq(T)
    PROVE  s \o t \in Seq(T)
OBVIOUS

\* The first sequence comes first, element by element,
LEMMA JoinedLeft ==
    ASSUME NEW T, NEW s \in Seq(T), NEW t \in Seq(T), NEW k \in DOMAIN s
    PROVE  k \in DOMAIN (s \o t) /\ (s \o t)[k] = s[k]
OBVIOUS

\* and the second after it.
LEMMA JoinedRight ==
    ASSUME NEW T, NEW s \in Seq(T), NEW t \in Seq(T), NEW k \in DOMAIN t
    PROVE  Len(s) + k \in DOMAIN (s \o t) /\ (s \o t)[Len(s) + k] = t[k]
OBVIOUS

\* A sequence flattened is built up sequence by sequence.
LEMMA FlattenSteps ==
    ASSUME NEW T, NEW ss \in Seq(Seq(T))
    PROVE  \E p \in [0 .. Len(ss) -> Seq(T)] :
              /\ p[0] = <<>> /\ p[Len(ss)] = FlattenSeq(ss)
              /\ \A i \in 1 .. Len(ss) : p[i] = p[i - 1] \o ss[i]
<1> DEFINE n == Len(ss)
           IsFlat(f) == f = [i \in 1 .. n |-> IF i = 1 THEN ss[i] ELSE f[i - 1] \o ss[i]]
           flat == CHOOSE f : IsFlat(f)
           h == [p \in Seq(T) \X (1 .. n) |-> p[1] \o ss[p[2]]]
           a == <<>>
           Steps(f) == /\ f \in [0 .. n -> Seq(T)] /\ f[0] = a
                       /\ \A i \in 1 .. n : f[i] = f[i - 1] \o ss[i]
<1>1. n \in Nat /\ \A i \in 1 .. n : ss[i] \in Seq(T)
  OBVIOUS
<1>2. h \in [Seq(T) \X (1 .. n) -> Seq(T)]
  BY <1>1
<1>3. a \in Seq(T)
  OBVIOUS
<1> HIDE DEF n, h, a
<1>4. PICK f : Steps(f)
  <2>1. PICK f : IsRecursion(f, Seq(T), a, n, h)
    BY <1>1, <1>2, <1>3, Recursion, Zenon
  <2>2. f \in [0 .. n -> Seq(T)] /\ f[0] = a /\ \A i \in 1 .. n : f[i] = h[<<f[i - 1], i>>]
    BY <2>1, Zenon DEF IsRecursion
  <2>3. \A i \in 1 .. n : f[i] = f[i - 1] \o ss[i]
    <3> SUFFICES ASSUME NEW i \in 1 .. n PROVE f[i] = f[i - 1] \o ss[i]
      OBVIOUS
    <3>1. f[i - 1] \in Seq(T)
      BY <1>1, <2>2
    <3>2. h[<<f[i - 1], i>>] = f[i - 1] \o ss[i]
      BY <3>1 DEF h
    <3> QED
      BY <2>2, <3>2
  <2>4. Steps(f)
    BY <2>2, <2>3
  <2> HIDE DEF Steps
  <2> QED
    BY <2>4
<1>5. f[n] = FlattenSeq(ss)
  <2>1. CASE n = 0
    <3>1. ss = <<>>
      BY <2>1 DEF n
    <3>2. FlattenSeq(ss) = ss
      BY <2>1 DEF FlattenSeq, n
    <3> QED
      BY <1>4, <2>1, <3>1, <3>2 DEF a
  <2>2. CASE n # 0
    <3> DEFINE g == [i \in 1 .. n |-> f[i]]
    <3>1. FlattenSeq(ss) = flat[n]
      BY <2>2, Zenon DEF FlattenSeq, n
    <3>2. f[1] = ss[1]
      <4>1. 1 \in 1 .. n /\ 1 - 1 = 0
        BY <1>1, <2>2
      <4>2. f[1] = a \o ss[1] /\ ss[1] \in Seq(T)
        BY <1>1, <1>4, <4>1
      <4> QED
        BY <4>2 DEF a
    <3>3. \A i \in 1 .. n : g[i] = IF i = 1 THEN ss[i] ELSE g[i - 1] \o ss[i]
      <4> SUFFICES ASSUME NEW i \in 1 .. n
                   PROVE  g[i] = IF i = 1 THEN ss[i] ELSE g[i - 1] \o ss[i]
        OBVIOUS
      <4>1. CASE i = 1
        BY <3>2, <4>1
      <4>2. CASE i # 1
        <5>1. i - 1 \in 1 .. n
          BY <1>1, <4>2
        <5> QED
          BY <1>4, <4>2, <5>1
      <4> QED
        BY <4>1, <4>2
    <3>4. IsFlat(g)
      BY <3>3
    <3>5. IsFlat(flat)
      <4> HIDE DEF IsFlat, g
      <4> QED
        BY <3>4, Zenon
    <3> HIDE DEF flat, g
    <3>6. /\ flat[1] = ss[1]
          /\ \A i \in 2 .. n : flat[i] = flat[i - 1] \o ss[i]
      <4> DEFINE joined(i) == flat[i - 1] \o ss[i]
      <4>1. flat = [i \in 1 .. n |-> IF i = 1 THEN ss[i] ELSE joined(i)]
        BY <3>5
      <4> HIDE DEF joined
      <4>2. flat[1] = ss[1] /\ \A i \in 2 .. n : flat[i] = joined(i)
        BY <1>1, <2>2, <4>1
      <4> QED
        BY <4>2 DEF joined
    <3> DEFINE S == {m \in 0 .. n : m = 0 \/ flat[m] = f[m]}
    <3>7. 0 \in S
      BY <1>1
    <3>8. ASSUME NEW m \in 1 .. n, m - 1 \in S
          PROVE  m \in S
      <4>1. CASE m = 1
        BY <1>1, <3>2, <3>6, <4>1
      <4>2. CASE m # 1
        <5>1. m \in 2 .. n /\ m - 1 # 0 /\ m \in 0 .. n
          BY <1>1, <4>2
        <5>2. flat[m] = flat[m - 1] \o ss[m] /\ f[m] = f[m - 1] \o ss[m]
          BY <1>4, <3>6, <5>1
        <5>3. flat[m - 1] = f[m - 1]
          BY <3>8, <5>1
        <5> QED
          BY <5>1, <5>2, <5>3
      <4> QED
        BY <4>1, <4>2
    <3> HIDE DEF S
    <3>9. 0 .. n \subseteq S
      BY <1>1, <3>7, <3>8, UpTo
    <3>10. n \in S
      BY <1>1, <3>9
    <3> QED
      BY <2>2, <3>1, <3>10 DEF S
  <2> QED
    BY <2>1, <2>2
<1> HIDE DEF flat, IsFlat
<1> QED
  BY <1>4, <1>5 DEF n, a
-----------------------------------------------------------------------------
(***************************************************************************)
(* The traversal of the inclusion graph.                                   *)
(***************************************************************************)
Names   == Files \cup {NoFile}
Visits  == Seq(Names) \X SUBSET Files
Visited == [order : Seq(Files), entered : SUBSET Files]

\* A file with the files it includes before it and what comes next after it.
Between(below, f, after) ==
    [order |-> Append(below.order, f) \o after.order, entered |-> after.entered]

\* What a visit makes of the visits v it leads to, in the program s.
Enters(s, v, at) ==
    LET f     == Head(at[1])
        below == v[<<s[f].includes, at[2] \cup {f}>>]
        after == v[<<Tail(at[1]), below.entered>>]
    IN  Between(below, f, after)

VisitStep(s, v, at) ==
    IF at[1] = <<>> THEN [order |-> <<>>, entered |-> at[2]]
    ELSE IF Head(at[1]) \in at[2] \cup {NoFile} THEN v[<<Tail(at[1]), at[2]>>]
    ELSE Enters(s, v, at)

IsVisit(s, v) == v = [at \in Visits |-> VisitStep(s, v, at)]

\* Assembler!visit of the program s
VisitOf(s) == CHOOSE v : IsVisit(s, v)

\* a visit that leads to another one has less left to enter
Leads(at, to) == /\ at[2] \subseteq to[2]
                 /\ at[2] # to[2] \/ Len(to[1]) < Len(at[1])

\* A function can be iterated.
LEMMA Iterates ==
    ASSUME NEW X, NEW a \in X, NEW step \in [X -> X]
    PROVE  \E f \in [Nat -> X] : f[0] = a /\ \A n \in Nat : f[n + 1] = step[f[n]]
<1> DEFINE h(n) == [p \in X \X (1 .. n) |-> step[p[1]]]
           Is(w, n) == /\ w \in [0 .. n -> X] /\ w[0] = a
                       /\ \A i \in 1 .. n : w[i] = step[w[i - 1]]
           W(n) == CHOOSE w : Is(w, n)
           f == [n \in Nat |-> W(n)[n]]
<1>1. ASSUME NEW n \in Nat
      PROVE  Is(W(n), n)
  <2>1. h(n) \in [X \X (1 .. n) -> X]
    OBVIOUS
  <2>2. PICK w : IsRecursion(w, X, a, n, h(n))
    <3> HIDE DEF h
    <3> QED
      BY <2>1, Recursion, Zenon
  <2>3. w \in [0 .. n -> X] /\ w[0] = a /\ \A i \in 1 .. n : w[i] = h(n)[<<w[i - 1], i>>]
    <3> HIDE DEF h
    <3> QED
      BY <2>2, Zenon DEF IsRecursion
  <2>4. \A i \in 1 .. n : w[i] = step[w[i - 1]]
    <3> SUFFICES ASSUME NEW i \in 1 .. n PROVE w[i] = step[w[i - 1]]
      OBVIOUS
    <3>1. w[i - 1] \in X
      BY <2>3
    <3> QED
      BY <2>3, <3>1
  <2>5. Is(w, n)
    BY <2>3, <2>4
  <2> HIDE DEF Is
  <2> QED
    BY <2>5, Zenon
<1>2. ASSUME NEW n \in Nat, NEW v, Is(v, n), NEW w, Is(w, n + 1)
      PROVE  \A i \in 0 .. n : v[i] = w[i]
  <2> DEFINE S == {i \in 0 .. n : v[i] = w[i]}
  <2>1. 0 \in S
    BY <1>2
  <2>2. ASSUME NEW m \in 1 .. n, m - 1 \in S
        PROVE  m \in S
    <3>1. m \in 1 .. n + 1 /\ m \in 0 .. n
      OBVIOUS
    <3>2. v[m] = step[v[m - 1]] /\ w[m] = step[w[m - 1]]
      BY <1>2, <3>1
    <3> QED
      BY <2>2, <3>1, <3>2
  <2> HIDE DEF S
  <2>3. 0 .. n \subseteq S
    BY <2>1, <2>2, UpTo
  <2> QED
    BY <2>3 DEF S
<1>3. \A n \in Nat : f[n] = W(n)[n] /\ f[n] \in X
  <2> SUFFICES ASSUME NEW n \in Nat PROVE f[n] = W(n)[n] /\ W(n)[n] \in X
    OBVIOUS
  <2>1. Is(W(n), n)
    BY <1>1
  <2> HIDE DEF W
  <2>2. W(n) \in [0 .. n -> X] /\ n \in 0 .. n
    BY <2>1
  <2> QED
    BY <2>2
<1>4. f[0] = a
  <2>1. W(0)[0] = a
    BY <1>1
  <2> HIDE DEF W
  <2> QED
    BY <1>3, <2>1
<1>5. \A n \in Nat : f[n + 1] = step[f[n]]
  <2> SUFFICES ASSUME NEW n \in Nat PROVE f[n + 1] = step[f[n]]
    OBVIOUS
  <2>1. n + 1 \in Nat /\ n \in 0 .. n /\ n + 1 \in 1 .. n + 1 /\ (n + 1) - 1 = n
    OBVIOUS
  <2>2. Is(W(n), n) /\ Is(W(n + 1), n + 1)
    BY <1>1, <2>1
  <2> HIDE DEF W, f
  <2>3. W(n)[n] = W(n + 1)[n]
    <3> HIDE DEF Is
    <3> QED
      BY <1>2, <2>1, <2>2
  <2>4. W(n + 1)[n + 1] = step[W(n + 1)[(n + 1) - 1]]
    BY <2>1, <2>2
  <2> QED
    BY <1>3, <2>1, <2>3, <2>4
<1>6. f \in [Nat -> X]
  <2>1. f = [n \in Nat |-> f[n]]
    OBVIOUS
  <2> HIDE DEF f
  <2> QED
    BY <1>3, <2>1
<1> HIDE DEF f
<1> QED
  BY <1>4, <1>5, <1>6

\* Whatever holds of a visit when it holds of those it can lead to holds of all.
LEMMA VisitInduction ==
    ASSUME NEW S \in SUBSET Visits,
           \A at \in Visits : (\A to \in Visits : Leads(at, to) => to \in S) => at \in S
    PROVE  Visits \subseteq S
<1> DEFINE card(at) == Cardinality(Files \ at[2])
           bad == Visits \ S
           cards == {card(at) : at \in bad}
<1>1. \A at \in Visits : card(at) \in Nat /\ Len(at[1]) \in Nat /\ IsFiniteSet(Files \ at[2])
  <2> SUFFICES ASSUME NEW at \in Visits
               PROVE  card(at) \in Nat /\ Len(at[1]) \in Nat /\ IsFiniteSet(Files \ at[2])
    OBVIOUS
  <2>1. at[1] \in Seq(Names)
    BY DEF Visits
  <2>2. Files \ at[2] \in SUBSET Files
    OBVIOUS
  <2>3. IsFiniteSet(Files \ at[2])
    BY <2>2, FilesAssumption, FS_Subset
  <2> QED
    BY <2>1, <2>3, FS_CardinalityType
<1>2. ASSUME NEW at \in Visits, NEW to \in Visits, Leads(at, to)
      PROVE  \/ card(to) < card(at)
             \/ card(to) = card(at) /\ Len(to[1]) < Len(at[1])
  <2>1. Files \ to[2] \in SUBSET (Files \ at[2])
    BY <1>2 DEF Leads
  <2>2. card(to) <= card(at) /\ (card(at) = card(to) => Files \ at[2] = Files \ to[2])
    BY <1>1, <2>1, FS_Subset
  <2>3. at[2] \in SUBSET Files /\ to[2] \in SUBSET Files
    BY DEF Visits
  <2>4. Files \ at[2] = Files \ to[2] => at[2] = to[2]
    BY <2>3
  <2>5. card(to) \in Nat /\ card(at) \in Nat
    BY <1>1
  <2> HIDE DEF card
  <2> QED
    BY <1>2, <2>2, <2>4, <2>5 DEF Leads
<1> SUFFICES ASSUME bad # {} PROVE FALSE
  OBVIOUS
<1> HIDE DEF card
<1>3. cards \in SUBSET Nat /\ cards # {}
  <2>1. \A at \in bad : card(at) \in Nat
    BY <1>1
  <2> HIDE DEF bad
  <2> QED
    BY <2>1
<1> HIDE DEF bad, cards
<1>4. PICK k \in cards : \A j \in cards : k <= j
  BY <1>3, Least
<1> DEFINE least == {at \in bad : card(at) = k}
           lens  == {Len(at[1]) : at \in least}
<1>5. lens \in SUBSET Nat /\ lens # {}
  <2>1. \A at \in least : Len(at[1]) \in Nat
    BY <1>1 DEF bad
  <2>2. least # {}
    BY <1>4 DEF cards
  <2> HIDE DEF least
  <2> QED
    BY <2>1, <2>2
<1> HIDE DEF lens
<1>6. PICK l \in lens : \A j \in lens : l <= j
  BY <1>5, Least
<1>7. PICK at \in bad : card(at) = k /\ Len(at[1]) = l
  BY <1>6 DEF lens
<1>8. PICK to \in bad : Leads(at, to)
  BY <1>7 DEF bad
<1>9. at \in Visits /\ to \in Visits
  BY DEF bad
<1>10. card(to) \in cards
  BY <1>8 DEF cards
<1>11. k <= card(to) /\ card(to) \in Nat /\ k \in Nat
  BY <1>1, <1>3, <1>4, <1>9, <1>10
<1>12. card(to) = k /\ Len(to[1]) < l
  <2>1. \/ card(to) < k
        \/ card(to) = k /\ Len(to[1]) < l
    BY <1>2, <1>7, <1>8, <1>9
  <2> QED
    BY <1>11, <2>1
<1>13. Len(to[1]) \in lens
  BY <1>8, <1>12 DEF lens
<1>14. l <= Len(to[1]) /\ l \in Nat /\ Len(to[1]) \in Nat
  BY <1>1, <1>5, <1>6, <1>9, <1>13
<1> QED
  BY <1>12, <1>14

\* What a file includes is a file, or NoFile where there is none.
IncludesNames(s) == \A f \in Files : s[f].includes \in Seq(Names)

\* The visits that a visit leads to.
LEMMA VisitLeads ==
    ASSUME NEW s, IncludesNames(s), NEW at \in Visits, at[1] # <<>>
    PROVE  /\ at[1] \in Seq(Names) /\ at[2] \in SUBSET Files
           /\ Head(at[1]) \in Names
           /\ \A e \in SUBSET Files : at[2] \subseteq e =>
                 <<Tail(at[1]), e>> \in Visits /\ Leads(at, <<Tail(at[1]), e>>)
           /\ Head(at[1]) \notin at[2] \cup {NoFile} =>
                 LET f  == Head(at[1])
                     to == <<s[f].includes, at[2] \cup {f}>>
                 IN  f \in Files /\ to \in Visits /\ Leads(at, to)
<1>1. at[1] \in Seq(Names) /\ at[2] \in SUBSET Files
  BY DEF Visits
<1>2. Head(at[1]) \in Names /\ Tail(at[1]) \in Seq(Names) /\ Len(Tail(at[1])) < Len(at[1])
  BY <1>1
<1>3. ASSUME NEW e \in SUBSET Files, at[2] \subseteq e
      PROVE  <<Tail(at[1]), e>> \in Visits /\ Leads(at, <<Tail(at[1]), e>>)
  BY <1>1, <1>2, <1>3 DEF Visits, Leads
<1>4. ASSUME NEW f, f = Head(at[1]), f \notin at[2] \cup {NoFile}
      PROVE  LET to == <<s[f].includes, at[2] \cup {f}>>
             IN  f \in Files /\ to \in Visits /\ Leads(at, to)
  <2>1. f \in Files
    BY <1>2, <1>4 DEF Names
  <2>2. s[f].includes \in Seq(Names)
    BY <2>1 DEF IncludesNames
  <2>3. at[2] \cup {f} \in SUBSET Files /\ at[2] # at[2] \cup {f}
    BY <1>1, <1>4, <2>1
  <2> QED
    BY <2>1, <2>2, <2>3 DEF Visits, Leads
<1> QED
  BY <1>1, <1>2, <1>3, <1>4

\* What a visit makes has its type when what it leads to has.
LEMMA BetweenType ==
    ASSUME NEW f \in Files, NEW below \in Visited, NEW after \in Visited
    PROVE  Between(below, f, after) \in Visited
           /\ Between(below, f, after).entered = after.entered
<1>1. PICK x, y, e : x = below.order /\ y = after.order /\ e = after.entered
  OBVIOUS
<1>2. x \in Seq(Files) /\ y \in Seq(Files) /\ e \in SUBSET Files
  BY <1>1 DEF Visited
<1>3. Append(x, f) \in Seq(Files)
  BY <1>2
<1>4. Append(x, f) \o y \in Seq(Files)
  BY <1>2, <1>3
<1>5. Between(below, f, after) = [order |-> Append(x, f) \o y, entered |-> e]
  BY <1>1 DEF Between
<1> QED
  BY <1>1, <1>2, <1>4, <1>5 DEF Visited

GoodVisit(v, at) == v[at] \in Visited /\ at[2] \subseteq v[at].entered

\* The three kinds of visit: nothing is left, the next name is passed over, or
\* it is a file that is entered.
LEMMA VisitStepCases ==
    ASSUME NEW s, IncludesNames(s), NEW v, NEW at \in Visits,
           \A to \in Visits : Leads(at, to) => GoodVisit(v, to)
    PROVE  /\ VisitStep(s, v, at) \in Visited /\ at[2] \subseteq VisitStep(s, v, at).entered
           /\ at[1] = <<>> => VisitStep(s, v, at) = [order |-> <<>>, entered |-> at[2]]
           /\ at[1] # <<>> /\ Head(at[1]) \in at[2] \cup {NoFile} =>
                  VisitStep(s, v, at) = v[<<Tail(at[1]), at[2]>>]
           /\ at[1] # <<>> /\ Head(at[1]) \notin at[2] \cup {NoFile} =>
                  LET f    == Head(at[1])
                      b    == <<s[f].includes, at[2] \cup {f}>>
                      next == <<Tail(at[1]), v[b].entered>>
                  IN  /\ f \in Files /\ b \in Visits /\ Leads(at, b)
                      /\ next \in Visits /\ Leads(at, next)
                      /\ VisitStep(s, v, at) = Between(v[b], f, v[next])
<1> DEFINE w == VisitStep(s, v, at)
<1>0. at[2] \in SUBSET Files
  BY DEF Visits
<1>1. CASE at[1] = <<>>
  <2>1. w = [order |-> <<>>, entered |-> at[2]]
    BY <1>1 DEF VisitStep
  <2> HIDE DEF w
  <2>2. w \in Visited /\ at[2] \subseteq w.entered
    BY <1>0, <2>1 DEF Visited
  <2> QED
    BY <1>1, <2>1, <2>2 DEF w
<1>2. CASE at[1] # <<>> /\ Head(at[1]) \in at[2] \cup {NoFile}
  <2> DEFINE to == <<Tail(at[1]), at[2]>>
  <2>1. w = v[to]
    BY <1>2 DEF VisitStep
  <2>2. to \in Visits /\ Leads(at, to)
    BY <1>0, <1>2, VisitLeads
  <2>3. v[to] \in Visited /\ to[2] \subseteq v[to].entered /\ to[2] = at[2]
    BY <2>2 DEF GoodVisit
  <2> HIDE DEF to, w
  <2> QED
    BY <1>2, <2>1, <2>3 DEF w, to
<1>3. CASE at[1] # <<>> /\ Head(at[1]) \notin at[2] \cup {NoFile}
  <2>1. PICK f : f = Head(at[1])
    OBVIOUS
  <2> DEFINE b == <<s[f].includes, at[2] \cup {f}>>
  <2>2. f \in Files /\ b \in Visits /\ Leads(at, b)
    BY <1>3, <2>1, VisitLeads
  <2>3. PICK below : below = v[b]
    OBVIOUS
  <2>4. below \in Visited /\ at[2] \subseteq below.entered
    <3>1. v[b] \in Visited /\ b[2] \subseteq v[b].entered /\ b[2] = at[2] \cup {f}
      BY <2>2 DEF GoodVisit
    <3> HIDE DEF b
    <3> QED
      BY <2>3, <3>1
  <2> DEFINE next == <<Tail(at[1]), below.entered>>
  <2>5. next \in Visits /\ Leads(at, next)
    <3>1. below.entered \in SUBSET Files
      BY <2>4 DEF Visited
    <3> QED
      BY <1>3, <2>4, <3>1, VisitLeads
  <2>6. PICK after : after = v[next]
    OBVIOUS
  <2>7. after \in Visited /\ below.entered \subseteq after.entered
    <3>1. v[next] \in Visited /\ next[2] \subseteq v[next].entered /\ next[2] = below.entered
      BY <2>5 DEF GoodVisit
    <3> HIDE DEF next
    <3> QED
      BY <2>6, <3>1
  <2>8. w = Between(below, f, after)
    BY <1>3, <2>1, <2>3, <2>6 DEF VisitStep, Enters
  <2> HIDE DEF w
  <2>9. w \in Visited /\ at[2] \subseteq w.entered
    BY <2>2, <2>4, <2>7, <2>8, BetweenType
  <2>10. v[b] = below /\ v[next] = after /\ next = <<Tail(at[1]), v[b].entered>>
    BY <2>3, <2>6
  <2> HIDE DEF next, b
  <2> QED
    BY <1>3, <2>1, <2>2, <2>5, <2>8, <2>9, <2>10 DEF w, b
<1> QED
  BY <1>1, <1>2, <1>3

\* What a visit that exists gives: files, and what was entered stays so.
LEMMA VisitsHaveType ==
    ASSUME NEW s, IncludesNames(s), NEW v, IsVisit(s, v)
    PROVE  \A at \in Visits : v[at] = VisitStep(s, v, at) /\ GoodVisit(v, at)
<1> DEFINE S == {at \in Visits : GoodVisit(v, at)}
<1>1. \A at \in Visits : v[at] = VisitStep(s, v, at)
  <2> DEFINE e(at) == VisitStep(s, v, at)
  <2>1. v = [at \in Visits |-> e(at)]
    BY DEF IsVisit
  <2> HIDE DEF e
  <2>2. \A at \in Visits : v[at] = e(at)
    BY <2>1
  <2> QED
    BY <2>2 DEF e
<1>2. ASSUME NEW at \in Visits, \A to \in Visits : Leads(at, to) => to \in S
      PROVE  at \in S
  <2>1. \A to \in Visits : Leads(at, to) => GoodVisit(v, to)
    BY <1>2
  <2>2. VisitStep(s, v, at) \in Visited /\ at[2] \subseteq VisitStep(s, v, at).entered
    BY <2>1, VisitStepCases
  <2>3. v[at] = VisitStep(s, v, at)
    BY <1>1
  <2> QED
    BY <2>2, <2>3 DEF GoodVisit
<1>3. S \in SUBSET Visits
  OBVIOUS
<1> HIDE DEF S
<1>4. Visits \subseteq S
  BY <1>2, <1>3, VisitInduction
<1> QED
  BY <1>1, <1>4 DEF S

\* There is such a function: the limit, for each visit, of the functions that
\* go a bounded number of steps.
LEMMA VisitExists ==
    ASSUME NEW s, IncludesNames(s)
    PROVE  \E v : IsVisit(s, v)
<1> DEFINE X == {v \in [Visits -> Visited] : \A at \in Visits : GoodVisit(v, at)}
           next(v) == [at \in Visits |-> VisitStep(s, v, at)]
           step == [v \in X |-> next(v)]
           first == [at \in Visits |-> [order |-> <<>>, entered |-> at[2]]]
<1>1. first \in X
  <2> SUFFICES ASSUME NEW at \in Visits
               PROVE  first[at] \in Visited /\ at[2] \subseteq first[at].entered
    BY DEF GoodVisit
  <2>1. at[2] \in SUBSET Files
    BY DEF Visits
  <2> QED
    BY <2>1 DEF Visited
<1>2. ASSUME NEW v \in X
      PROVE  next(v) \in X
  <2> SUFFICES ASSUME NEW at \in Visits
               PROVE  next(v)[at] \in Visited /\ at[2] \subseteq next(v)[at].entered
    BY DEF GoodVisit
  <2>1. VisitStep(s, v, at) \in Visited /\ at[2] \subseteq VisitStep(s, v, at).entered
    BY VisitStepCases
  <2> QED
    BY <2>1
<1>3. step \in [X -> X]
  <2> HIDE DEF X, next
  <2> QED
    BY <1>2
<1>4. PICK W \in [Nat -> X] : W[0] = first /\ \A n \in Nat : W[n + 1] = step[W[n]]
  <2> HIDE DEF X, first, step
  <2> QED
    BY <1>1, <1>3, Iterates
<1>5. \A n \in Nat : \A at \in Visits : W[n + 1][at] = VisitStep(s, W[n], at)
  <2> SUFFICES ASSUME NEW n \in Nat, NEW at \in Visits
               PROVE  W[n + 1][at] = VisitStep(s, W[n], at)
    OBVIOUS
  <2>1. W[n] \in X
    OBVIOUS
  <2> HIDE DEF X
  <2>2. W[n + 1] = next(W[n])
    BY <1>4, <2>1
  <2> QED
    BY <2>2
<1>6. \A n \in Nat : \A at \in Visits : GoodVisit(W[n], at)
  OBVIOUS
<1> DEFINE From(at, N) == \A n \in Nat : n >= N => W[n][at] = W[N][at]
           Settles(at) == \E N \in Nat : From(at, N)
           limit(at) == W[CHOOSE N \in Nat : From(at, N)][at]
           V == [at \in Visits |-> limit(at)]
           S == {at \in Visits : Settles(at)}
<1> HIDE DEF X, step, next, first
<1>7. ASSUME NEW at \in Visits, NEW N \in Nat, From(at, N)
      PROVE  \A n \in Nat : n >= N => V[at] = W[n][at]
  <2>1. PICK M \in Nat : M = CHOOSE k \in Nat : From(at, k)
    <3> HIDE DEF From
    <3> QED
      BY <1>7, Zenon
  <2>2. From(at, M)
    <3> HIDE DEF From
    <3> QED
      BY <1>7, <2>1, Zenon
  <2>3. V[at] = W[M][at]
    BY <2>1
  <2> HIDE DEF V
  <2> SUFFICES ASSUME NEW n \in Nat, n >= N PROVE V[at] = W[n][at]
    OBVIOUS
  <2>4. PICK k \in Nat : k >= n /\ k >= M
    OBVIOUS
  <2>5. W[k][at] = W[N][at] /\ W[k][at] = W[M][at] /\ W[n][at] = W[N][at]
    BY <1>7, <2>2, <2>4
  <2> QED
    BY <2>3, <2>5
<1>8. ASSUME NEW at \in Visits, Settles(at)
      PROVE  GoodVisit(V, at) /\ \E N \in Nat : \A n \in Nat : n >= N => V[at] = W[n][at]
  <2>1. PICK N \in Nat : From(at, N)
    BY <1>8
  <2>2. \A n \in Nat : n >= N => V[at] = W[n][at]
    <3> HIDE DEF From, V
    <3> QED
      BY <1>7, <2>1
  <2>3. V[at] = W[N][at]
    <3> HIDE DEF V
    <3> QED
      BY <2>2
  <2> HIDE DEF V
  <2>4. GoodVisit(V, at)
    BY <1>6, <2>3 DEF GoodVisit
  <2> QED
    BY <2>2, <2>4
<1> HIDE DEF V
<1>9. ASSUME NEW at \in Visits, \A to \in Visits : Leads(at, to) => Settles(to)
      PROVE  \E N \in Nat : \A n \in Nat : n >= N => W[n + 1][at] = VisitStep(s, V, at)
  <2> HIDE DEF Settles
  <2>1. \A to \in Visits : Leads(at, to) => GoodVisit(V, to)
    BY <1>8, <1>9
  <2>2. \A n \in Nat : \A to \in Visits : Leads(at, to) => GoodVisit(W[n], to)
    BY <1>6
  <2>3. CASE at[1] = <<>>
    <3>1. \A n \in Nat : W[n + 1][at] = VisitStep(s, V, at)
      BY <1>5, <2>3 DEF VisitStep
    <3> QED
      BY <3>1
  <2>4. CASE at[1] # <<>> /\ Head(at[1]) \in at[2] \cup {NoFile}
    <3> DEFINE to == <<Tail(at[1]), at[2]>>
    <3>1. to \in Visits /\ Leads(at, to)
      <4>1. at[2] \in SUBSET Files
        BY DEF Visits
      <4> QED
        BY <2>4, <4>1, VisitLeads
    <3>2. \A v : VisitStep(s, v, at) = v[to]
      BY <2>4 DEF VisitStep
    <3> HIDE DEF to
    <3>3. PICK N \in Nat : \A n \in Nat : n >= N => V[to] = W[n][to]
      BY <1>8, <1>9, <3>1
    <3>4. \A n \in Nat : n >= N => W[n + 1][at] = VisitStep(s, V, at)
      <4> SUFFICES ASSUME NEW n \in Nat, n >= N
                   PROVE  W[n + 1][at] = VisitStep(s, V, at)
        OBVIOUS
      <4>1. W[n + 1][at] = VisitStep(s, W[n], at)
        BY <1>5
      <4>2. V[to] = W[n][to]
        BY <3>3
      <4> QED
        BY <3>2, <4>1, <4>2
    <3> QED
      BY <3>4
  <2>5. CASE at[1] # <<>> /\ Head(at[1]) \notin at[2] \cup {NoFile}
    <3>1. PICK f : f = Head(at[1])
      OBVIOUS
    <3>2. PICK b : b = <<s[f].includes, at[2] \cup {f}>>
      OBVIOUS
    <3>3. PICK a : a = <<Tail(at[1]), V[b].entered>>
      OBVIOUS
    <3>4. /\ b \in Visits /\ Leads(at, b) /\ a \in Visits /\ Leads(at, a)
          /\ VisitStep(s, V, at) = Between(V[b], f, V[a])
      BY <2>1, <2>5, <3>1, <3>2, <3>3, VisitStepCases
    <3>5. PICK N \in Nat : \A n \in Nat : n >= N => V[b] = W[n][b]
      BY <1>8, <1>9, <3>4
    <3>6. PICK M \in Nat : \A n \in Nat : n >= M => V[a] = W[n][a]
      BY <1>8, <1>9, <3>4
    <3>7. \A n \in Nat : n >= N + M => W[n + 1][at] = VisitStep(s, V, at)
      <4> SUFFICES ASSUME NEW n \in Nat, n >= N + M
                   PROVE  W[n + 1][at] = VisitStep(s, V, at)
        OBVIOUS
      <4>1. V[b] = W[n][b] /\ V[a] = W[n][a]
        <5>1. n >= N /\ n >= M
          OBVIOUS
        <5> QED
          BY <3>5, <3>6, <5>1
      <4>2. PICK w : w = W[n]
        OBVIOUS
      <4>3. VisitStep(s, w, at) = Between(w[b], f, w[<<Tail(at[1]), w[b].entered>>])
        <5>1. \A to \in Visits : Leads(at, to) => GoodVisit(w, to)
          BY <2>2, <4>2
        <5> QED
          BY <2>5, <3>1, <3>2, <5>1, VisitStepCases
      <4>4. W[n + 1][at] = VisitStep(s, w, at)
        BY <1>5, <4>2
      <4>5. w[b] = V[b] /\ w[a] = V[a]
        BY <4>1, <4>2
      <4> QED
        BY <3>3, <3>4, <4>3, <4>4, <4>5
    <3>8. N + M \in Nat
      OBVIOUS
    <3> QED
      BY <3>7, <3>8
  <2> QED
    BY <2>3, <2>4, <2>5
<1>10. ASSUME NEW at \in Visits, NEW N \in Nat,
              \A n \in Nat : n >= N => W[n + 1][at] = VisitStep(s, V, at)
       PROVE  From(at, N + 1)
  <2> SUFFICES ASSUME NEW n \in Nat, n >= N + 1
               PROVE  W[n][at] = W[N + 1][at]
    OBVIOUS
  <2>1. n - 1 \in Nat /\ n - 1 >= N /\ (n - 1) + 1 = n /\ N >= N
    OBVIOUS
  <2> QED
    BY <1>10, <2>1
<1>11. \A at \in Visits : (\A to \in Visits : Leads(at, to) => to \in S) => at \in S
  <2> SUFFICES ASSUME NEW at \in Visits, \A to \in Visits : Leads(at, to) => to \in S
               PROVE  Settles(at)
    OBVIOUS
  <2>1. \A to \in Visits : Leads(at, to) => Settles(to)
    OBVIOUS
  <2> HIDE DEF Settles
  <2>2. PICK N \in Nat : \A n \in Nat : n >= N => W[n + 1][at] = VisitStep(s, V, at)
    BY <1>9, <2>1
  <2>3. N + 1 \in Nat /\ From(at, N + 1)
    <3> HIDE DEF From
    <3> QED
      BY <1>10, <2>2
  <2> HIDE DEF From
  <2> QED
    BY <2>3 DEF Settles
<1>12. S \in SUBSET Visits
  OBVIOUS
<1>13. \A at \in Visits : Settles(at)
  <2> HIDE DEF S
  <2>1. Visits \subseteq S
    BY <1>11, <1>12, VisitInduction
  <2> HIDE DEF Settles
  <2> QED
    BY <2>1 DEF S
<1>14. \A at \in Visits : V[at] = VisitStep(s, V, at)
  <2> SUFFICES ASSUME NEW at \in Visits PROVE V[at] = VisitStep(s, V, at)
    OBVIOUS
  <2> HIDE DEF Settles, From
  <2>1. PICK N \in Nat : \A n \in Nat : n >= N => W[n + 1][at] = VisitStep(s, V, at)
    BY <1>9, <1>13
  <2>2. PICK M \in Nat : \A n \in Nat : n >= M => V[at] = W[n][at]
    BY <1>8, <1>13
  <2>3. N + M \in Nat /\ N + M >= N /\ (N + M) + 1 \in Nat /\ (N + M) + 1 >= M
    OBVIOUS
  <2> QED
    BY <2>1, <2>2, <2>3
<1>15. V = [at \in Visits |-> VisitStep(s, V, at)]
  <2>1. V = [at \in Visits |-> V[at]]
    BY DEF V
  <2> QED
    BY <1>14, <2>1
<1> QED
  BY <1>15 DEF IsVisit
-----------------------------------------------------------------------------
(***************************************************************************)
(* The order of the files: the search that the compiler makes with a stack of*)
(* calls is on the way to the order of the traversal.                      *)
(***************************************************************************)
\* What the traversal says of the three kinds of visit.
VisitLaws(s, v) ==
    \A e \in SUBSET Files :
        /\ v[<<<<>>, e>>] = [order |-> <<>>, entered |-> e]
        /\ \A rest \in Seq(Names) \ {<<>>} :
              IF Head(rest) \in e \cup {NoFile} THEN v[<<rest, e>>] = v[<<Tail(rest), e>>]
              ELSE LET f     == Head(rest)
                       below == v[<<s[f].includes, e \cup {f}>>]
                   IN  v[<<rest, e>>] = Between(below, f, v[<<Tail(rest), below.entered>>])

\* The traversal obeys its laws, and says files and which are entered.
LEMMA VisitFacts ==
    ASSUME NEW s, IncludesNames(s)
    PROVE  /\ VisitLaws(s, VisitOf(s))
           /\ \A rest \in Seq(Names) : \A e \in SUBSET Files :
                 VisitOf(s)[<<rest, e>>] \in Visited
<1>1. PICK v : v = VisitOf(s)
  OBVIOUS
<1>2. IsVisit(s, v)
  BY <1>1, VisitExists, Zenon DEF VisitOf
<1>3. \A at \in Visits : v[at] = VisitStep(s, v, at) /\ GoodVisit(v, at)
  BY <1>2, VisitsHaveType
<1>4. ASSUME NEW e \in SUBSET Files
      PROVE  v[<<<<>>, e>>] = [order |-> <<>>, entered |-> e]
  <2> DEFINE at == <<<<>>, e>>
  <2>1. at \in Visits /\ at[1] = <<>> /\ at[2] = e
    <3>1. <<>> \in Seq(Names)
      OBVIOUS
    <3> QED
      BY <3>1 DEF Visits
  <2> HIDE DEF at
  <2>2. v[at] = [order |-> <<>>, entered |-> e]
    BY <1>3, <2>1 DEF VisitStep
  <2> QED
    BY <2>2 DEF at
<1>5. ASSUME NEW e \in SUBSET Files, NEW rest \in Seq(Names) \ {<<>>}
      PROVE  IF Head(rest) \in e \cup {NoFile} THEN v[<<rest, e>>] = v[<<Tail(rest), e>>]
             ELSE LET f     == Head(rest)
                      below == v[<<s[f].includes, e \cup {f}>>]
                  IN  v[<<rest, e>>] = Between(below, f, v[<<Tail(rest), below.entered>>])
  <2> DEFINE at == <<rest, e>>
  <2>1. at \in Visits /\ at[1] = rest /\ at[2] = e /\ at[1] # <<>>
    BY DEF Visits
  <2>2. PICK x : x = at
    OBVIOUS
  <2>3. v[x] = VisitStep(s, v, x) /\ x[1] = rest /\ x[2] = e /\ x[1] # <<>>
    BY <1>3, <2>1, <2>2
  <2> HIDE DEF at
  <2>4. CASE Head(rest) \in e \cup {NoFile}
    <3>1. v[x] = v[<<Tail(rest), e>>]
      BY <2>3, <2>4 DEF VisitStep
    <3> QED
      BY <2>2, <2>4, <3>1 DEF at
  <2>5. CASE Head(rest) \notin e \cup {NoFile}
    <3>1. PICK f : f = Head(rest)
      OBVIOUS
    <3>2. PICK below : below = v[<<s[f].includes, e \cup {f}>>]
      OBVIOUS
    <3>3. v[x] = Between(below, f, v[<<Tail(rest), below.entered>>])
      BY <2>3, <2>5, <3>1, <3>2 DEF VisitStep, Enters
    <3> QED
      BY <2>2, <2>5, <3>1, <3>2, <3>3 DEF at
  <2> QED
    BY <2>4, <2>5
<1>6. VisitLaws(s, v)
  BY <1>4, <1>5 DEF VisitLaws
<1>7. ASSUME NEW rest \in Seq(Names), NEW e \in SUBSET Files
      PROVE  v[<<rest, e>>] \in Visited
  <2>1. <<rest, e>> \in Visits
    BY DEF Visits
  <2> QED
    BY <1>3, <2>1 DEF GoodVisit
<1> QED
  BY <1>1, <1>6, <1>7

Enterable(rest, e) == /\ rest \in Seq(Names) \ {<<>>} /\ e \in SUBSET Files
                      /\ Head(rest) \notin e \cup {NoFile}

\* The law for a file that is entered.
LEMMA VisitEnters ==
    ASSUME NEW s, NEW v, VisitLaws(s, v), NEW e, NEW rest, Enterable(rest, e)
    PROVE  v[<<rest, e>>] = Enters(s, v, <<rest, e>>)
<1>1. LET f     == Head(rest)
          below == v[<<s[f].includes, e \cup {f}>>]
      IN  v[<<rest, e>>] = Between(below, f, v[<<Tail(rest), below.entered>>])
  BY Zenon DEF VisitLaws, Enterable
<1> QED
  BY <1>1 DEF Enters

\* Assembler!Order of the program s
OrderOf(s) == VisitOf(s)[<<<<Root>>, {}>>].order

\* It is the one the abstract assembler defines.
LEMMA AbstractOrder == Abstract!visit = VisitOf(source) /\ Abstract!Order = OrderOf(source)
<1>1. Abstract!visit = VisitOf(source)
  BY Zenon DEF Abstract!visit, VisitOf, IsVisit, VisitStep, Enters, Between, Visits, Names
<1> QED
  BY <1>1, Zenon DEF Abstract!Order, OrderOf

\* The search begins with the main file, which ends the order.
LEMMA OrderFromRoot ==
    ASSUME NEW s, IncludesNames(s)
    PROVE  OrderOf(s)
             = Append(VisitOf(s)[<<s[Root].includes, {Root}>>].order, Root)
<1>1. PICK v : v = VisitOf(s)
  OBVIOUS
<1>2. PICK rest : rest = <<Root>>
  OBVIOUS
<1>3. Root \in Files /\ Root # NoFile
  BY FilesAssumption
<1>4. rest \in Seq(Names) \ {<<>>} /\ Head(rest) = Root /\ Tail(rest) = <<>>
  BY <1>2, <1>3 DEF Names
<1>5. PICK none : none = {}
  OBVIOUS
<1>6. none \in SUBSET Files /\ Root \notin none \cup {NoFile} /\ none \cup {Root} = {Root}
  BY <1>3, <1>5
<1>7. PICK below : below = v[<<s[Root].includes, {Root}>>]
  OBVIOUS
<1>8. VisitLaws(s, v)
  BY <1>1, VisitFacts
<1>9. v[<<rest, none>>] = Between(below, Root, v[<<<<>>, below.entered>>])
  <2>1. PICK a : a = v[<<Tail(rest), below.entered>>]
    OBVIOUS
  <2>2. below = v[<<s[Root].includes, none \cup {Root}>>]
        /\ a = v[<<Tail(rest), below.entered>>]
        /\ Root = Head(rest) /\ Root \notin none \cup {NoFile}
    BY <1>4, <1>6, <1>7, <2>1
  <2>3. Enterable(rest, none)
    BY <1>4, <1>6 DEF Enterable
  <2>4. v[<<rest, none>>] = Enters(s, v, <<rest, none>>)
    BY <1>8, <2>3, VisitEnters
  <2>5. v[<<rest, none>>] = Between(below, Root, a)
    BY <2>2, <2>4 DEF Enters
  <2> QED
    BY <1>4, <2>1, <2>5
<1>10. below \in Visited
  <2>1. s[Root].includes \in Seq(Names) /\ {Root} \in SUBSET Files
    BY <1>3 DEF IncludesNames
  <2> QED
    BY <1>1, <1>7, <2>1, VisitFacts
<1>11. below.order \in Seq(Files) /\ below.entered \in SUBSET Files
  BY <1>10 DEF Visited
<1>12. v[<<<<>>, below.entered>>] = [order |-> <<>>, entered |-> below.entered]
  BY <1>8, <1>11 DEF VisitLaws
<1>13. Append(below.order, Root) \o <<>> = Append(below.order, Root)
  <2>1. PICK x : x = below.order
    OBVIOUS
  <2>2. Append(x, Root) \in Seq(Files)
    BY <1>3, <1>11, <2>1
  <2> QED
    BY <2>1, <2>2
<1>14. v[<<rest, none>>].order = Append(below.order, Root)
  BY <1>9, <1>12, <1>13 DEF Between
<1> QED
  BY <1>1, <1>2, <1>5, <1>7, <1>14 DEF OrderOf

\* Where a call of the search leaves the order: x is what was entered when it
\* goes on.
Returns(s, call, x) ==
    LET more == VisitOf(s)[<<call.rest, x.entered>>]
    IN  [order |-> Append(x.order \o more.order, call.file), entered |-> more.entered]

\* The calls that are open, resumed from the last one to the first, lead from
\* the files listed so far to the whole order.
IsResumption(s, calls, files, entered, r) ==
    /\ r \in [1 .. Len(calls) + 1 -> Visited]
    /\ r[Len(calls) + 1] = [order |-> files, entered |-> entered]
    /\ \A i \in 1 .. Len(calls) : r[i] = Returns(s, calls[i], r[i + 1])
    /\ r[1].order = OrderOf(s)

LeadsToOrder(s, calls, files, entered) ==
    \E r : IsResumption(s, calls, files, entered, r)

\* A call returns files.
LEMMA ReturnsType ==
    ASSUME NEW s, IncludesNames(s), NEW call \in Call, NEW x \in Visited
    PROVE  Returns(s, call, x) \in Visited
<1>1. PICK more : more = VisitOf(s)[<<call.rest, x.entered>>]
  OBVIOUS
<1>2. call.rest \in Seq(Names) /\ call.file \in Files
  BY DEF Call, Names
<1>3. x.order \in Seq(Files) /\ x.entered \in SUBSET Files
  BY DEF Visited
<1>4. more \in Visited
  BY <1>1, <1>2, <1>3, VisitFacts
<1>5. PICK a, b, c, f : a = x.order /\ b = more.order /\ c = more.entered /\ f = call.file
  OBVIOUS
<1>6. a \in Seq(Files) /\ b \in Seq(Files) /\ c \in SUBSET Files /\ f \in Files
  BY <1>2, <1>3, <1>4, <1>5 DEF Visited
<1>7. a \o b \in Seq(Files)
  BY <1>6
<1>8. Append(a \o b, f) \in Seq(Files)
  BY <1>6, <1>7
<1>9. Returns(s, call, x) = [order |-> Append(a \o b, f), entered |-> c]
  BY <1>1, <1>5 DEF Returns
<1> QED
  BY <1>6, <1>8, <1>9 DEF Visited

\* A name that is passed over is left out of the last call.
LEMMA ResumedSkipping ==
    ASSUME NEW s, IncludesNames(s), NEW calls \in Seq(Call), NEW n \in Nat \ {0},
           n = Len(calls), NEW files, NEW entered \in SUBSET Files,
           LeadsToOrder(s, calls, files, entered),
           calls[n].rest # <<>>, Head(calls[n].rest) \in entered,
           NEW next \in Seq(Call), Len(next) = n,
           \A i \in 1 .. n - 1 : next[i] = calls[i],
           next[n].file = calls[n].file, next[n].rest = Tail(calls[n].rest)
    PROVE  LeadsToOrder(s, next, files, entered)
<1>1. PICK r : IsResumption(s, calls, files, entered, r)
  BY DEF LeadsToOrder
<1>2. PICK v : v = VisitOf(s)
  OBVIOUS
<1>3. VisitLaws(s, v)
  BY <1>2, VisitFacts
<1>4. PICK rest : rest = calls[n].rest
  OBVIOUS
<1>5. rest \in Seq(Names) \ {<<>>} /\ Head(rest) \in entered
  <2>1. calls[n] \in Call
    OBVIOUS
  <2> QED
    BY <1>4, <2>1 DEF Call, Names
<1>6. v[<<rest, entered>>] = v[<<Tail(rest), entered>>]
  BY <1>3, <1>5 DEF VisitLaws
<1>7. PICK x : x = r[n + 1]
  OBVIOUS
<1>8. x = [order |-> files, entered |-> entered]
  BY <1>1, <1>7 DEF IsResumption
<1>9. Returns(s, next[n], x) = Returns(s, calls[n], x)
  <2>1. x.entered = entered
    BY <1>8
  <2> QED
    BY <1>2, <1>4, <1>6, <2>1 DEF Returns
<1>10. ASSUME NEW i \in 1 .. n
       PROVE  r[i] = Returns(s, next[i], r[i + 1])
  <2>1. r[i] = Returns(s, calls[i], r[i + 1])
    BY <1>1 DEF IsResumption
  <2>2. CASE i = n
    BY <1>7, <1>9, <2>1, <2>2
  <2>3. CASE i # n
    <3>1. next[i] = calls[i]
      BY <2>3
    <3> QED
      BY <2>1, <3>1
  <2> QED
    BY <2>2, <2>3
<1>11. IsResumption(s, next, files, entered, r)
  BY <1>1, <1>10 DEF IsResumption
<1> QED
  BY <1>11 DEF LeadsToOrder

\* Sequences put together in either order.
LEMMA JoinedAround ==
    ASSUME NEW a \in Seq(Files), NEW b \in Seq(Files), NEW c \in Seq(Files),
           NEW f \in Files
    PROVE  a \o (Append(b, f) \o c) = Append(a \o b, f) \o c
  OBVIOUS

\* A file that is entered is a call of its own, and what is left of the call it
\* is entered from waits for it.
LEMMA ResumedEntering ==
    ASSUME NEW s, IncludesNames(s), NEW calls \in Seq(Call), NEW n \in Nat \ {0},
           n = Len(calls), NEW files \in Seq(Files), NEW entered \in SUBSET Files,
           LeadsToOrder(s, calls, files, entered),
           NEW f \in Files, f \notin entered,
           calls[n].rest # <<>>, Head(calls[n].rest) = f,
           NEW next \in Seq(Call), Len(next) = n + 1,
           \A i \in 1 .. n - 1 : next[i] = calls[i],
           next[n].file = calls[n].file, next[n].rest = Tail(calls[n].rest),
           next[n + 1].file = f, next[n + 1].rest = s[f].includes
    PROVE  LeadsToOrder(s, next, files, entered \cup {f})
<1>1. PICK r : IsResumption(s, calls, files, entered, r)
  BY DEF LeadsToOrder
<1>2. PICK v : v = VisitOf(s)
  OBVIOUS
<1>3. VisitLaws(s, v)
  BY <1>2, VisitFacts
<1>4. PICK rest : rest = calls[n].rest
  OBVIOUS
<1>5. rest \in Seq(Names) \ {<<>>} /\ Head(rest) = f
  <2>1. calls[n] \in Call
    OBVIOUS
  <2> QED
    BY <1>4, <2>1 DEF Call, Names
<1>6. PICK below : below = v[<<s[f].includes, entered \cup {f}>>]
  OBVIOUS
<1>7. PICK after : after = v[<<Tail(rest), below.entered>>]
  OBVIOUS
<1>8. f # NoFile
  BY FilesAssumption
<1>9. v[<<rest, entered>>] = Between(below, f, after)
  <2>1. f \notin entered \cup {NoFile} /\ f = Head(rest)
    BY <1>5, <1>8
  <2>2. Enterable(rest, entered)
    BY <1>5, <2>1 DEF Enterable
  <2>3. v[<<rest, entered>>] = Enters(s, v, <<rest, entered>>)
    BY <1>3, <2>2, VisitEnters
  <2> QED
    BY <1>6, <1>7, <2>1, <2>3 DEF Enters
<1>10. below \in Visited /\ after \in Visited
  <2>1. s[f].includes \in Seq(Names) /\ entered \cup {f} \in SUBSET Files
    BY DEF IncludesNames
  <2>2. below \in Visited
    BY <1>2, <1>6, <2>1, VisitFacts
  <2>3. Tail(rest) \in Seq(Names) /\ below.entered \in SUBSET Files
    BY <1>5, <2>2 DEF Visited
  <2> QED
    BY <1>2, <1>7, <2>2, <2>3, VisitFacts
<1>11. PICK a, b, e, g : a = below.order /\ b = after.order /\ e = below.entered
                         /\ g = calls[n].file
  OBVIOUS
<1>12. a \in Seq(Files) /\ b \in Seq(Files) /\ e \in SUBSET Files
  BY <1>10, <1>11 DEF Visited
<1> DEFINE first == [order |-> files, entered |-> entered \cup {f}]
           second == [order |-> Append(files \o a, f), entered |-> e]
<1>13. first \in Visited /\ second \in Visited
  <2>1. files \o a \in Seq(Files)
    BY <1>12
  <2>2. Append(files \o a, f) \in Seq(Files)
    BY <2>1
  <2> QED
    BY <1>12, <2>2 DEF Visited
<1>14. Returns(s, next[n + 1], first) = second
  <2>1. v[<<next[n + 1].rest, first.entered>>] = below
    BY <1>6
  <2>2. first.order = files /\ next[n + 1].file = f
    OBVIOUS
  <2> HIDE DEF first
  <2> QED
    BY <1>2, <1>11, <2>1, <2>2 DEF Returns
<1>15. Returns(s, next[n], second)
         = [order |-> Append(Append(files \o a, f) \o b, g), entered |-> after.entered]
  <2>1. v[<<next[n].rest, second.entered>>] = after
    BY <1>4, <1>7, <1>11
  <2>2. second.order = Append(files \o a, f) /\ next[n].file = g
    BY <1>11
  <2> HIDE DEF second
  <2> QED
    BY <1>2, <1>11, <2>1, <2>2 DEF Returns
<1>16. Returns(s, calls[n], r[n + 1])
         = [order |-> Append(files \o (Append(a, f) \o b), g), entered |-> after.entered]
  <2>1. PICK x : x = r[n + 1]
    OBVIOUS
  <2>2. x.order = files /\ x.entered = entered
    BY <1>1, <2>1 DEF IsResumption
  <2>3. PICK more : more = v[<<rest, entered>>]
    OBVIOUS
  <2>4. more.order = Append(a, f) \o b /\ more.entered = after.entered
    <3>1. Between(below, f, after) = [order |-> Append(a, f) \o b, entered |-> after.entered]
      BY <1>11 DEF Between
    <3>2. more = Between(below, f, after)
      BY <1>9, <2>3, Zenon
    <3> QED
      BY <3>1, <3>2
  <2> QED
    BY <1>2, <1>4, <1>11, <2>1, <2>2, <2>3, <2>4 DEF Returns
<1>17. r[n] = Returns(s, next[n], second)
  <2>1. r[n] = Returns(s, calls[n], r[n + 1])
    BY <1>1 DEF IsResumption
  <2>2. files \o (Append(a, f) \o b) = Append(files \o a, f) \o b
    BY <1>12, JoinedAround
  <2> QED
    BY <1>15, <1>16, <2>1, <2>2
<1> DEFINE q == [i \in 1 .. n + 2 |-> IF i = n + 2 THEN first
                                      ELSE IF i = n + 1 THEN second ELSE r[i]]
<1> HIDE DEF first, second
<1>18. r \in [1 .. n + 1 -> Visited] /\ r[1].order = OrderOf(s)
       /\ \A i \in 1 .. n : r[i] = Returns(s, calls[i], r[i + 1])
  BY <1>1 DEF IsResumption
<1>19. q \in [1 .. n + 2 -> Visited]
  BY <1>13, <1>18
<1>20. /\ q[n + 2] = first /\ q[n + 1] = second
       /\ \A i \in 1 .. n : q[i] = r[i]
  OBVIOUS
<1> HIDE DEF q
<1>21. ASSUME NEW i \in 1 .. n + 1
       PROVE  q[i] = Returns(s, next[i], q[i + 1])
  <2>1. CASE i = n + 1
    <3>1. i + 1 = n + 2
      BY <2>1
    <3> QED
      BY <1>14, <1>20, <2>1, <3>1
  <2>2. CASE i = n
    BY <1>17, <1>20, <2>2
  <2>3. CASE i \in 1 .. n - 1
    <3>1. i \in 1 .. n /\ i + 1 \in 1 .. n /\ next[i] = calls[i]
      BY <2>3
    <3> QED
      BY <1>18, <1>20, <3>1
  <2> QED
    BY <2>1, <2>2, <2>3
<1>22. q[1].order = OrderOf(s) /\ Len(next) + 1 = n + 2
  BY <1>18, <1>20
<1>23. IsResumption(s, next, files, entered \cup {f}, q)
  BY <1>19, <1>20, <1>21, <1>22 DEF IsResumption, first
<1> QED
  BY <1>23 DEF LeadsToOrder

\* A call with nothing left adds its file; the first one ends the order.
LEMMA ResumedLeaving ==
    ASSUME NEW s, IncludesNames(s), NEW calls \in Seq(Call), NEW n \in Nat \ {0},
           n = Len(calls), NEW files \in Seq(Files), NEW entered \in SUBSET Files,
           LeadsToOrder(s, calls, files, entered),
           calls[n].rest = <<>>,
           NEW next \in Seq(Call), Len(next) = n - 1,
           \A i \in 1 .. n - 1 : next[i] = calls[i]
    PROVE  /\ LeadsToOrder(s, next, Append(files, calls[n].file), entered)
           /\ n = 1 => Append(files, calls[n].file) = OrderOf(s)
<1>1. PICK r : IsResumption(s, calls, files, entered, r)
  BY DEF LeadsToOrder
<1>2. PICK v : v = VisitOf(s)
  OBVIOUS
<1>3. VisitLaws(s, v)
  BY <1>2, VisitFacts
<1>4. r \in [1 .. n + 1 -> Visited] /\ r[1].order = OrderOf(s)
      /\ r[n + 1] = [order |-> files, entered |-> entered]
      /\ \A i \in 1 .. n : r[i] = Returns(s, calls[i], r[i + 1])
  BY <1>1 DEF IsResumption
<1>5. PICK f : f = calls[n].file
  OBVIOUS
<1>6. r[n] = [order |-> Append(files, f), entered |-> entered]
  <2>1. v[<<<<>>, entered>>] = [order |-> <<>>, entered |-> entered]
    BY <1>3 DEF VisitLaws
  <2>2. PICK x, more : x = r[n + 1] /\ more = v[<<<<>>, entered>>]
    OBVIOUS
  <2>3. x.order = files /\ x.entered = entered /\ more.order = <<>>
        /\ more.entered = entered
    BY <1>4, <2>1, <2>2
  <2>4. Returns(s, calls[n], x) = [order |-> Append(x.order \o more.order, f),
                                   entered |-> more.entered]
    BY <1>2, <1>5, <2>2, <2>3 DEF Returns
  <2>5. files \o <<>> = files
    OBVIOUS
  <2>6. n \in 1 .. n
    OBVIOUS
  <2> QED
    BY <1>4, <2>2, <2>3, <2>4, <2>5, <2>6
<1> DEFINE q == [i \in 1 .. n |-> r[i]]
<1>7. q \in [1 .. n -> Visited] /\ \A i \in 1 .. n : q[i] = r[i]
  BY <1>4
<1> HIDE DEF q
<1>8. ASSUME NEW i \in 1 .. n - 1
      PROVE  q[i] = Returns(s, next[i], q[i + 1])
  <2>1. i \in 1 .. n /\ i + 1 \in 1 .. n /\ next[i] = calls[i]
    OBVIOUS
  <2> QED
    BY <1>4, <1>7, <2>1
<1>9. Len(next) + 1 = n /\ 1 \in 1 .. n /\ n \in 1 .. n
  OBVIOUS
<1>10. IsResumption(s, next, Append(files, f), entered, q)
  BY <1>4, <1>6, <1>7, <1>8, <1>9 DEF IsResumption
<1>11. n = 1 => Append(files, f) = OrderOf(s)
  BY <1>4, <1>6
<1> QED
  BY <1>5, <1>10, <1>11 DEF LeadsToOrder

\* The first call is that of the main file.
LEMMA ResumedStarting ==
    ASSUME NEW s, IncludesNames(s), NEW call \in Call,
           call.file = Root, call.rest = s[Root].includes
    PROVE  LeadsToOrder(s, <<call>>, <<>>, {Root})
<1>1. PICK v, below : v = VisitOf(s) /\ below = v[<<s[Root].includes, {Root}>>]
  OBVIOUS
<1>2. Root \in Files
  BY FilesAssumption
<1>3. PICK calls : calls = <<call>>
  OBVIOUS
<1>4. calls \in Seq(Call) /\ Len(calls) = 1 /\ calls[1] = call
  BY <1>3
<1> DEFINE x == [order |-> <<>>, entered |-> {Root}]
           y == Returns(s, call, x)
           r == [i \in 1 .. 2 |-> IF i = 1 THEN y ELSE x]
<1>5. x \in Visited
  <2>1. <<>> \in Seq(Files)
    OBVIOUS
  <2> QED
    BY <1>2, <2>1 DEF Visited
<1>6. x.order = <<>> /\ x.entered = {Root}
  OBVIOUS
<1> HIDE DEF x
<1>7. y \in Visited
  BY <1>5, ReturnsType
<1>8. y.order = OrderOf(s)
  <2>1. OrderOf(s) = Append(below.order, Root)
    BY <1>1, OrderFromRoot
  <2>2. y = [order |-> Append(x.order \o below.order, Root), entered |-> below.entered]
    BY <1>1, <1>6 DEF Returns
  <2>3. below \in Visited
    <3>1. s[Root].includes \in Seq(Names) /\ {Root} \in SUBSET Files
      BY <1>2 DEF IncludesNames
    <3> QED
      BY <1>1, <3>1, VisitFacts
  <2>4. PICK o : o = below.order
    OBVIOUS
  <2>5. o \in Seq(Files)
    BY <2>3, <2>4 DEF Visited
  <2>6. <<>> \o o = o
    BY <2>5
  <2> HIDE DEF y
  <2> QED
    BY <1>6, <2>1, <2>2, <2>4, <2>6
<1>9. /\ r \in [1 .. 2 -> Visited] /\ r[1] = y /\ r[2] = x
  <2> HIDE DEF y
  <2> QED
    BY <1>5, <1>7
<1> HIDE DEF r
<1>10. \A i \in 1 .. 1 : r[i] = Returns(s, calls[i], r[i + 1])
  BY <1>4, <1>9 DEF y
<1> HIDE DEF y
<1>11. IsResumption(s, calls, <<>>, {Root}, r)
  BY <1>4, <1>8, <1>9, <1>10 DEF IsResumption, x
<1> QED
  BY <1>3, <1>11 DEF LeadsToOrder
-----------------------------------------------------------------------------
(***************************************************************************)
(* The search, step by step.                                               *)
(***************************************************************************)
\* The search is on the way to the order of the abstract assembler, or has ended
\* there, and every file it entered can be read.
SearchedInv ==
    /\ phase = "includes" => LeadsToOrder(source, visiting, files_, all_includes_)
    /\ phase \in {"start", "includes"} => \A f \in all_includes_ : CanInclude(f)
    /\ phase \in {"spawn", "join", "merge", "write"} =>
          files_ = OrderOf(source) /\ \A f \in ToSet(files_) : CanInclude(f)

\* The files on disk include names.
LEMMA SourceNames ==
    ASSUME TypeOK
    PROVE  IncludesNames(source)
BY SourceFacts DEF IncludesNames, Names

\* Entering a file keeps it when the calls do.
LEMMA EnterSearched ==
    ASSUME IInv, SearchedInv, phase \in {"start", "includes"},
           NEW f, NEW callers, ProcessFileIncludes(f, callers),
           CanInclude(f) =>
              LeadsToOrder(source, Append(callers, [file |-> f, rest |-> source[f].includes]),
                           files_, all_includes_ \cup {f})
    PROVE  SearchedInv'
<1>1. /\ all_includes_' = all_includes_ \cup {f}
      /\ UNCHANGED <<source, files_>>
  BY DEF ProcessFileIncludes
<1>2. CASE ~CanInclude(f)
  <2>1. phase' = "failed"
    BY <1>2 DEF ProcessFileIncludes
  <2> QED
    BY <2>1 DEF SearchedInv
<1>3. CASE CanInclude(f)
  <2>1. /\ visiting' = Append(callers, [file |-> f, rest |-> source[f].includes])
        /\ phase' = "includes"
    BY <1>3 DEF ProcessFileIncludes
  <2>2. \A g \in all_includes_' : CanInclude(g)'
    <3>1. \A g \in all_includes_ \cup {f} : CanInclude(g)
      BY <1>3 DEF SearchedInv
    <3> QED
      BY <1>1, <3>1 DEF CanInclude
  <2> QED
    BY <1>1, <1>3, <2>1, <2>2 DEF SearchedInv
<1> QED
  BY <1>2, <1>3

\* The search starts with the main file,
LEMMA GetFilesSearched ==
    ASSUME IInv, SearchedInv, GetFiles
    PROVE  SearchedInv'
<1>1. phase = "start" /\ ProcessFileIncludes(Root, <<>>)
  BY DEF GetFiles
<1>2. all_includes_ = {} /\ files_ = <<>> /\ TypeOK
  BY <1>1 DEF IInv, PhasesInv
<1>3. ASSUME CanInclude(Root)
      PROVE  LeadsToOrder(source, Append(<<>>, [file |-> Root, rest |-> source[Root].includes]),
                          files_, all_includes_ \cup {Root})
  <2>1. PICK call : call = [file |-> Root, rest |-> source[Root].includes]
    OBVIOUS
  <2>2. Root \in Files
    BY FilesAssumption
  <2>3. call \in Call
    BY <1>2, <1>3, <2>1, <2>2, IncludesAreFiles DEF Call
  <2>4. call.file = Root /\ call.rest = source[Root].includes
    BY <2>1
  <2>5. LeadsToOrder(source, <<call>>, <<>>, {Root})
    BY <1>2, <2>3, <2>4, SourceNames, ResumedStarting
  <2>6. Append(<<>>, call) = <<call>>
    BY <2>3
  <2>7. all_includes_ \cup {Root} = {Root}
    BY <1>2
  <2> QED
    BY <1>2, <2>1, <2>5, <2>6, <2>7
<1> QED
  BY <1>1, <1>3, EnterSearched

\* The last call, and what is left of it.
LEMMA LastCall ==
    ASSUME IInv, phase = "includes"
    PROVE  \E n \in Nat \ {0} :
              /\ visiting \in Seq(Call) /\ n = Len(visiting) /\ Current = visiting[n]
              /\ Current \in Call
              /\ Front(visiting) \in Seq(Call) /\ Len(Front(visiting)) = n - 1
              /\ \A i \in 1 .. n - 1 : Front(visiting)[i] = visiting[i]
              /\ Current.rest # <<>> =>
                    /\ WithoutNext \in Seq(Call) /\ Len(WithoutNext) = n
                    /\ \A i \in 1 .. n - 1 : WithoutNext[i] = visiting[i]
                    /\ WithoutNext[n].file = Current.file
                    /\ WithoutNext[n].rest = Tail(Current.rest)
<1>1. visiting \in Seq(Call) /\ visiting # <<>>
  BY DEF IInv, TypeOK, PhasesInv, Call
<1>2. PICK n \in Nat \ {0} :
         /\ n = Len(visiting) /\ Current = visiting[n] /\ Current \in Call
         /\ Front(visiting) \in Seq(Call) /\ Len(Front(visiting)) = n - 1
         /\ \A i \in 1 .. n - 1 : Front(visiting)[i] = visiting[i]
  BY <1>1, FrontAndLast DEF Current
<1>3. ASSUME Current.rest # <<>>
      PROVE  /\ WithoutNext \in Seq(Call) /\ Len(WithoutNext) = n
             /\ \A i \in 1 .. n - 1 : WithoutNext[i] = visiting[i]
             /\ WithoutNext[n].file = Current.file
             /\ WithoutNext[n].rest = Tail(Current.rest)
  <2>1. PICK last : last = [Current EXCEPT !.rest = Tail(@)]
    OBVIOUS
  <2>2. Tail(Current.rest) \in Seq(Files)
    BY <1>2, <1>3 DEF Call
  <2>3. last \in Call /\ last.file = Current.file /\ last.rest = Tail(Current.rest)
    BY <1>2, <2>1, <2>2 DEF Call
  <2>4. WithoutNext = Append(Front(visiting), last)
    BY <2>1 DEF WithoutNext
  <2>5. /\ Append(Front(visiting), last) \in Seq(Call)
        /\ Len(Append(Front(visiting), last)) = n
        /\ \A i \in 1 .. n - 1 : Append(Front(visiting), last)[i] = Front(visiting)[i]
        /\ Append(Front(visiting), last)[n] = last
    BY <1>2, <2>3, AppendProperties
  <2> QED
    BY <1>2, <2>3, <2>4, <2>5
<1> QED
  BY <1>1, <1>2, <1>3

\* passes over an include that was entered,
LEMMA SkipIncludeSearched ==
    ASSUME IInv, SearchedInv, SkipInclude
    PROVE  SearchedInv'
<1>1. /\ phase = "includes" /\ Current.rest # <<>> /\ NextInclude \in all_includes_
      /\ visiting' = WithoutNext /\ UNCHANGED <<source, phase, all_includes_, files_>>
  BY DEF SkipInclude
<1>2. PICK n \in Nat \ {0} :
         /\ visiting \in Seq(Call) /\ n = Len(visiting) /\ Current = visiting[n]
         /\ WithoutNext \in Seq(Call) /\ Len(WithoutNext) = n
         /\ \A i \in 1 .. n - 1 : WithoutNext[i] = visiting[i]
         /\ WithoutNext[n].file = Current.file
         /\ WithoutNext[n].rest = Tail(Current.rest)
  BY <1>1, LastCall
<1>3. LeadsToOrder(source, visiting, files_, all_includes_) /\ TypeOK
  BY <1>1 DEF SearchedInv, IInv
<1>4. all_includes_ \in SUBSET Files /\ IncludesNames(source)
  BY <1>3, SourceNames DEF TypeOK
<1>5. Head(visiting[n].rest) \in all_includes_ /\ visiting[n].rest # <<>>
  BY <1>1, <1>2 DEF NextInclude
<1>6. LeadsToOrder(source, WithoutNext, files_, all_includes_)
  <2>1. PICK next : next = WithoutNext
    OBVIOUS
  <2>2. /\ next \in Seq(Call) /\ Len(next) = n
        /\ \A i \in 1 .. n - 1 : next[i] = visiting[i]
        /\ next[n].file = visiting[n].file
        /\ next[n].rest = Tail(visiting[n].rest)
    BY <1>2, <2>1
  <2>3. LeadsToOrder(source, next, files_, all_includes_)
    BY <1>2, <1>3, <1>4, <1>5, <2>2, ResumedSkipping
  <2> QED
    BY <2>1, <2>3
<1>7. \A f : CanInclude(f)' <=> CanInclude(f)
  BY <1>1 DEF CanInclude
<1> QED
  BY <1>1, <1>6, <1>7 DEF SearchedInv

\* enters one that was not,
LEMMA FollowIncludeSearched ==
    ASSUME IInv, SearchedInv, FollowInclude
    PROVE  SearchedInv'
<1>1. /\ phase = "includes" /\ Current.rest # <<>> /\ NextInclude \notin all_includes_
      /\ ProcessFileIncludes(NextInclude, WithoutNext)
  BY DEF FollowInclude
<1>2. PICK n \in Nat \ {0} :
         /\ visiting \in Seq(Call) /\ n = Len(visiting) /\ Current = visiting[n]
         /\ WithoutNext \in Seq(Call) /\ Len(WithoutNext) = n
         /\ \A i \in 1 .. n - 1 : WithoutNext[i] = visiting[i]
         /\ WithoutNext[n].file = Current.file
         /\ WithoutNext[n].rest = Tail(Current.rest)
  BY <1>1, LastCall
<1>3. LeadsToOrder(source, visiting, files_, all_includes_) /\ TypeOK
  BY <1>1 DEF SearchedInv, IInv
<1>4. all_includes_ \in SUBSET Files /\ IncludesNames(source) /\ files_ \in Seq(Files)
  BY <1>3, SourceNames DEF TypeOK
<1>5. PICK f \in Files : f = NextInclude
  BY <1>1, WithoutNextFacts
<1>6. ASSUME CanInclude(f)
      PROVE  LeadsToOrder(source,
                Append(WithoutNext, [file |-> f, rest |-> source[f].includes]),
                files_, all_includes_ \cup {f})
  <2>1. PICK call : call = [file |-> f, rest |-> source[f].includes]
    OBVIOUS
  <2>2. call \in Call /\ call.file = f /\ call.rest = source[f].includes
    BY <1>3, <1>6, <2>1, IncludesAreFiles DEF Call
  <2>3. PICK next : next = Append(WithoutNext, call)
    OBVIOUS
  <2>4. /\ next \in Seq(Call) /\ Len(next) = n + 1
        /\ \A i \in 1 .. n : next[i] = WithoutNext[i]
        /\ next[n + 1] = call
    BY <1>2, <2>2, <2>3, AppendProperties
  <2>5. /\ \A i \in 1 .. n - 1 : next[i] = visiting[i]
        /\ next[n].file = visiting[n].file /\ next[n].rest = Tail(visiting[n].rest)
        /\ next[n + 1].file = f /\ next[n + 1].rest = source[f].includes
    <3>1. n \in 1 .. n /\ \A i \in 1 .. n - 1 : i \in 1 .. n
      OBVIOUS
    <3> QED
      BY <1>2, <2>2, <2>4, <3>1
  <2>6. visiting[n].rest # <<>> /\ Head(visiting[n].rest) = f /\ f \notin all_includes_
    BY <1>1, <1>2, <1>5 DEF NextInclude
  <2>7. LeadsToOrder(source, next, files_, all_includes_ \cup {f})
    BY <1>2, <1>3, <1>4, <2>4, <2>5, <2>6, ResumedEntering
  <2> QED
    BY <2>1, <2>3, <2>7
<1>7. phase \in {"start", "includes"} /\ ProcessFileIncludes(f, WithoutNext)
  BY <1>1, <1>5
<1> QED
  BY <1>6, <1>7, EnterSearched

\* and lists a file when it has no include left.
LEMMA LeaveFileSearched ==
    ASSUME IInv, SearchedInv, LeaveFile
    PROVE  SearchedInv'
<1>1. /\ phase = "includes" /\ Current.rest = <<>>
      /\ files_' = Append(files_, Current.file) /\ visiting' = Front(visiting)
      /\ phase' = IF visiting' = <<>> THEN "spawn" ELSE phase
      /\ UNCHANGED <<source, all_includes_>>
  BY DEF LeaveFile
<1>2. PICK n \in Nat \ {0} :
         /\ visiting \in Seq(Call) /\ n = Len(visiting) /\ Current = visiting[n]
         /\ Front(visiting) \in Seq(Call) /\ Len(Front(visiting)) = n - 1
         /\ \A i \in 1 .. n - 1 : Front(visiting)[i] = visiting[i]
  BY <1>1, LastCall
<1>3. LeadsToOrder(source, visiting, files_, all_includes_) /\ TypeOK
  BY <1>1 DEF SearchedInv, IInv
<1>4. all_includes_ \in SUBSET Files /\ IncludesNames(source) /\ files_ \in Seq(Files)
  BY <1>3, SourceNames DEF TypeOK
<1>5. PICK next : next = Front(visiting)
  OBVIOUS
<1>6. /\ LeadsToOrder(source, next, Append(files_, visiting[n].file), all_includes_)
      /\ n = 1 => Append(files_, visiting[n].file) = OrderOf(source)
  <2>1. /\ next \in Seq(Call) /\ Len(next) = n - 1
        /\ \A i \in 1 .. n - 1 : next[i] = visiting[i]
        /\ visiting[n].rest = <<>>
    BY <1>1, <1>2, <1>5
  <2> QED
    BY <1>2, <1>3, <1>4, <2>1, ResumedLeaving
<1>7. next = <<>> => n = 1
  <2>1. Len(next) = n - 1 /\ n - 1 \in Nat
    BY <1>2, <1>5
  <2> QED
    BY <2>1, EmptySeq
<1>8. LeadsToOrder(source, visiting', files_', all_includes_)
      /\ (visiting' = <<>> => files_' = OrderOf(source))
  BY <1>1, <1>2, <1>5, <1>6, <1>7
<1>9. ToSet(files_') \subseteq all_includes_
  <2>1. SearchInv
    BY DEF IInv
  <2>0. n \in 1 .. n /\ n \in DOMAIN visiting /\ Current \in Call
    BY <1>1, <1>2, LenProperties, LastCall
  <2>2. all_includes_ = FilesOf(visiting) \cup ToSet(files_)
        /\ visiting[n].file \in Files
    BY <1>1, <1>2, <2>0, <2>1 DEF SearchInv, Call
  <2>3. visiting[n].file \in FilesOf(visiting)
    BY <2>0 DEF FilesOf
  <2>4. ToSet(Append(files_, visiting[n].file)) = ToSet(files_) \cup {visiting[n].file}
    BY <1>4, <2>2, ElementsOfAppend
  <2> QED
    BY <1>1, <1>2, <2>2, <2>3, <2>4
<1>10. /\ \A f \in all_includes_' : CanInclude(f)'
       /\ \A f \in ToSet(files_') : CanInclude(f)'
  BY <1>1, <1>9 DEF SearchedInv, CanInclude
<1> QED
  BY <1>1, <1>8, <1>10 DEF SearchedInv

\* What every step after the search does to what the search left.
LEMMA AfterSearch ==
    ASSUME SearchedInv, UNCHANGED <<source, all_includes_, visiting, files_>>,
           \/ phase' = phase
           \/ phase' \in Ended
           \/ phase \in {"spawn", "join", "merge"} /\ phase' \in {"join", "merge", "write"}
    PROVE  SearchedInv'
<1>1. \A f : CanInclude(f)' <=> CanInclude(f)
  BY DEF CanInclude
<1> QED
  BY <1>1 DEF SearchedInv, Ended

\* What every step is.
LEMMA StepCases ==
    ASSUME [Next]_vars
    PROVE  \/ GetFiles \/ SkipInclude \/ FollowInclude \/ LeaveFile
           \/ /\ UNCHANGED <<source, all_includes_, visiting, files_>>
              /\ \/ phase' = phase
                 \/ phase' \in Ended
                 \/ /\ phase \in {"spawn", "join", "merge"}
                    /\ phase' \in {"join", "merge", "write"}
<1>1. CASE MainStep
  <2>1. CASE DivideByZero \/ StartWorker \/ CannotStartWorker \/ JoinWorkers
    BY <2>1 DEF DivideByZero, StartWorker, CannotStartWorker, JoinWorkers, mainVars,
                includesVars, Ended
  <2>2. CASE MergeFile \/ MergeFails \/ Substitute \/ Write
    BY <2>2 DEF MergeFile, MergeFails, Substitute, Write, mergeVars, includesVars, Ended
  <2> QED
    BY <1>1, <2>1, <2>2 DEF MainStep
<1>2. ASSUME NEW w \in DOMAIN workers, WorkerStep(w)
      PROVE  /\ UNCHANGED <<source, all_includes_, visiting, files_>>
             /\ phase' = phase \/ phase' \in Ended
  <2>1. CASE \/ OpenFile(w) \/ ProcessLabel(w) \/ ProcessCommand(w)
             \/ ProcessConstant(w) \/ ProcessEntrypoint(w) \/ FinishFile(w)
    BY <2>1 DEF OpenFile, ProcessLabel, ProcessCommand, ProcessConstant,
                ProcessEntrypoint, FinishFile, NextLine, Becomes, mainVars, includesVars
  <2>2. CASE OpenEmptyFile(w) \/ CannotReopen(w) \/ RejectLine(w) \/ FileEndsWithLabel(w)
    BY <2>2 DEF OpenEmptyFile, CannotReopen, RejectLine, FileEndsWithLabel, Terminate,
                mainVars, includesVars, Ended
  <2> QED
    BY <1>2, <2>1, <2>2 DEF WorkerStep
<1>3. CASE Stopped \/ UNCHANGED vars
  BY <1>3 DEF Stopped, vars
<1> QED
  BY <1>1, <1>2, <1>3 DEF Next

\* The search has not started.
LEMMA SearchedInvInit == Init => SearchedInv
  BY DEF Init, SearchedInv

\* Every step keeps what is known of the search.
LEMMA SearchedInvNext ==
    ASSUME IInv, SearchedInv, [Next]_vars
    PROVE  SearchedInv'
  BY StepCases, GetFilesSearched, SkipIncludeSearched, FollowIncludeSearched,
     LeaveFileSearched, AfterSearch

\* The files are listed in the order of the abstract assembler.
LEMMA ListedInOrder ==
    ASSUME IInv, SearchedInv, phase \in {"spawn", "join", "merge", "write"}
    PROVE  /\ files_ = Abstract!Order
           /\ ToSet(files_) = Abstract!Program
           /\ \A f \in Abstract!Program : CanInclude(f)
<1>1. files_ = Abstract!Order
  BY AbstractOrder DEF SearchedInv
<1>2. ToSet(files_) = Within(source, Root)
  BY DEF IInv, OrderInv
<1>3. Abstract!Program = Within(source, Root)
  BY DEF Abstract!Program, Abstract!Reachable, Abstract!IsClosed, Abstract!ToSet,
         ToSet, Within
<1> QED
  BY <1>1, <1>2, <1>3 DEF SearchedInv
=============================================================================
