----------------------------- MODULE KarmaData -----------------------------
(***************************************************************************)
(* Compiler::Data with its Labels and Entrypoint: what compiling one file  *)
(* collects, how the results of the files are merged, and how the labels   *)
(* are substituted (src/karma/include/compiler/{data,labels,entrypoint}).  *)
(*                                                                         *)
(* A word is kept by its origin (file, line and position in the item) and, *)
(* for a command, by its address field.  A table of labels is a set of     *)
(* pairs of a label and a position.  Positions count from 0.               *)
(***************************************************************************)
EXTENDS KarmaSource

Origins == Files \X (Nat \ {0}) \X Nat
Cell == [origin : Origins, addr : Nat]
Table == SUBSET (Labels \X Nat)

\* the empty optional
NoAddress == -1

DataType == [commandsLabels : Table, constantsLabels : Table,
             entrypointLabel : MaybeLabel, usages : Table,
             entrypoint : Nat \cup {NoAddress},
             code : Seq(Cell), constants : Seq(Cell)]

EmptyData == [commandsLabels |-> {}, constantsLabels |-> {},
              entrypointLabel |-> NoLabel, usages |-> {},
              entrypoint |-> NoAddress, code |-> <<>>, constants |-> <<>>]

At(label, position) == IF label = NoLabel THEN {} ELSE {<<label, position>>}
SeenLabels(d) == {e[1] : e \in d.commandsLabels \cup d.constantsLabels}
-----------------------------------------------------------------------------
(* What FileCompiler adds for one line. *)

\* the label is recorded first, then the operand, then the command appended
AddCommand(d, label, f, n) ==
    LET line == source[f].lines[n]
    IN  [d EXCEPT
            !.commandsLabels = @ \cup At(label, Len(d.code)),
            !.usages = @ \cup At(line.use, Len(d.code)),
            !.code = Append(@, [origin |-> <<f, n, 0>>,
                                addr |-> IF line.use = NoLabel THEN line.arg
                                                               ELSE 0])]

\* a word for the type, which the label skips, then the value
AddConstant(d, label, f, n) ==
    [d EXCEPT
        !.constantsLabels = @ \cup At(label, Len(d.constants) + 1),
        !.constants = @ \o [k \in 1 .. source[f].lines[n].arg + 1 |->
                               [origin |-> <<f, n, k - 1>>, addr |-> 0]]]

AddEntrypoint(d, line) ==
    [d EXCEPT !.entrypointLabel = IF line.use = NoLabel THEN @ ELSE line.use,
              !.entrypoint = IF line.use = NoLabel THEN line.arg ELSE 0]
-----------------------------------------------------------------------------
(* Data::Merge and ToExecData. *)

Shift(table, by) == {<<e[1], e[2] + by>> : e \in table}

\* neither SecondEntrypoint nor LabelRedefinition
CanMerge(d, used) ==
    /\ d.entrypoint = NoAddress \/ used.entrypoint = NoAddress
    /\ SeenLabels(d) \cap SeenLabels(used) = {}

\* Mutant: the labels of constants move by the size of the code.
ConstantsShiftedByCode(d, used) ==
    d.constantsLabels \cup Shift(used.constantsLabels, Len(d.code))

MergedConstantsLabels(d, used) ==
    d.constantsLabels \cup Shift(used.constantsLabels, Len(d.constants))

Merge(d, used) ==
    LET code == Len(d.code)
    IN  [commandsLabels  |-> d.commandsLabels \cup Shift(used.commandsLabels, code),
         constantsLabels |-> MergedConstantsLabels(d, used),
         entrypointLabel |-> IF used.entrypointLabel # NoLabel
                             THEN used.entrypointLabel ELSE d.entrypointLabel,
         usages     |-> d.usages \cup Shift(used.usages, code),
         entrypoint |-> IF used.entrypoint # NoAddress THEN used.entrypoint
                                                       ELSE d.entrypoint,
         code       |-> d.code \o used.code,
         constants  |-> d.constants \o used.constants]

Positions(table, label) == {e[2] : e \in {x \in table : x[1] = label}}

\* the address of a label: none or one, in a set
TryGetDefinition(d, label) ==
    IF Positions(d.commandsLabels, label) # {}
    THEN Positions(d.commandsLabels, label)
    ELSE {Len(d.code) + at : at \in Positions(d.constantsLabels, label)}

AddressOf(d, label) == CHOOSE a \in TryGetDefinition(d, label) : TRUE

\* neither NoEntrypoint nor UndefinedLabel
CanSubstitute(d) ==
    /\ d.entrypoint # NoAddress
    /\ \A label \in {u[1] : u \in d.usages} \cup ({d.entrypointLabel} \ {NoLabel}) :
          TryGetDefinition(d, label) # {}

\* The address field of a command that uses a label was left 0, so that the
\* bitwise or of the code writes the address.
SubstituteLabels(d) ==
    [i \in DOMAIN d.code |->
        LET used == {u \in d.usages : u[2] = i - 1}
        IN  IF used = {} THEN d.code[i]
            ELSE [d.code[i] EXCEPT !.addr =
                     AddressOf(d, (CHOOSE u \in used : TRUE)[1])]]

ToExecData(d) ==
    [entrypoint |-> IF d.entrypointLabel = NoLabel THEN d.entrypoint
                    ELSE AddressOf(d, d.entrypointLabel),
     code       |-> SubstituteLabels(d),
     constants  |-> d.constants]
=============================================================================
