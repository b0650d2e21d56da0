----------------------------- MODULE Assembler -----------------------------
(***************************************************************************)
(* What the Karma assembler standard promises of a compilation: the files  *)
(* are put one after another in the order of inclusion, commands before    *)
(* constants, and every label is the address of the item it stands before. *)
(* The whole program is seen at once: there are no workers, no partial     *)
(* results and no shifts.                                                  *)
(***************************************************************************)
EXTENDS KarmaSource

VARIABLES outcome, image    \* how the compilation ended and what it wrote

\* The single-entering post-order traversal of the inclusion graph: what is
\* still to be entered, from left to right, and the files entered before; a file
\* stands after those it includes.
visit[at \in Seq(Files \cup {NoFile}) \X SUBSET Files] ==
    IF at[1] = <<>> THEN [order |-> <<>>, entered |-> at[2]]
    ELSE IF Head(at[1]) \in at[2] \cup {NoFile} THEN visit[<<Tail(at[1]), at[2]>>]
    ELSE LET f     == Head(at[1])
             below == visit[<<source[f].includes, at[2] \cup {f}>>]
             after == visit[<<Tail(at[1]), below.entered>>]
         IN  [order   |-> Append(below.order, f) \o after.order,
              entered |-> after.entered]

Program == Reachable(Root)

Order == visit[<<<<Root>>, {}>>].order

\* the lines of a file, up to each of them, that hold an item of the kind
PlacesIn(f, kind) ==
    LET upTo[n \in 0 .. Len(source[f].lines)] ==
            IF n = 0 THEN <<>>
            ELSE IF source[f].lines[n].item = kind THEN Append(upTo[n - 1], <<f, n>>)
            ELSE upTo[n - 1]
    IN  upTo

\* those of the program, in order
Places(kind) ==
    LET order == Order
    IN  FlattenSeq([i \in DOMAIN order |->
                        PlacesIn(order[i], kind)[Len(source[order[i]].lines)]])

LineAt(p) == source[p[1]].lines[p[2]]

\* the first line after line n of the file that is not blank, 0 if none is
NextLine(f, n) ==
    LET later == {k \in n + 1 .. Len(source[f].lines) :
                      ~IsBlank(source[f].lines[k])}
    IN  IF later = {} THEN 0 ELSE Min(later)

\* The places a label stands before: on the line of the item, or alone on the
\* line before it.
Defined(l) ==
    {p \in ToSet(Places("command")) \cup ToSet(Places("constant")) :
        \/ LineAt(p).label = l
        \/ \E n \in 1 .. p[2] - 1 :
              /\ source[p[1]].lines[n].label = l
              /\ source[p[1]].lines[n].item = "none"
              /\ NextLine(p[1], n) = p[2]}

Uses == {p \in ToSet(Places("command")) \cup ToSet(Places("end")) :
            LineAt(p).use # NoLabel}

\* After a label comes a command or a constant, and in the file of the label:
\* the standard does not say whether the next word may be the next file's.
LabelsStandBeforeItems(f) ==
    \A n \in DOMAIN source[f].lines :
        LET line == source[f].lines[n]
            next == NextLine(f, n)
        IN  line.label # NoLabel =>
                \/ line.item \in {"command", "constant"}
                \/ /\ line.item = "none"
                   /\ next # 0
                   /\ source[f].lines[next].label = NoLabel
                   /\ source[f].lines[next].item \in {"command", "constant"}

\* What the standard asks of a program.
Valid ==
    /\ \A f \in Program : CanInclude(f)
    /\ \A f \in Program : LabelsStandBeforeItems(f)
    /\ Places("bad") = <<>>
    /\ Len(Places("end")) = 1
    /\ \A l \in Labels : Cardinality(Defined(l)) <= 1
    /\ \A p \in Uses : Defined(LineAt(p).use) # {}

\* Every file holds a line besides its include directives: a demand of the
\* compiler (FileCompiler::ProcessCurrLine) and not of the standard, by which the
\* contents of the files are put together.
FilesHaveLines == \A f \in Program : NextLine(f, 0) # 0

Compilable == Valid /\ FilesHaveLines

-----------------------------------------------------------------------------
\* The words of the executable by origin: file, line, and position within the
\* item.  A constant takes a word for its type, then its value.
CodeLayout ==
    LET places == Places("command")
    IN  [i \in DOMAIN places |-> Append(places[i], 0)]
ConstantsLayout ==
    LET words(p) == [k \in 1 .. LineAt(p).arg + 1 |-> Append(p, k - 1)]
        places   == Places("constant")
    IN  FlattenSeq([i \in DOMAIN places |-> words(places[i])])
Layout == CodeLayout \o ConstantsLayout

\* A label is the address of the command, or of the constant's value.
LabelAddress(l) ==
    LET p == CHOOSE q \in Defined(l) : TRUE
        word   == IF LineAt(p).item = "command" THEN 0 ELSE 1
        layout == Layout
    IN  (CHOOSE i \in DOMAIN layout : layout[i] = Append(p, word)) - 1

Operand(p) == IF LineAt(p).use = NoLabel THEN LineAt(p).arg
                                         ELSE LabelAddress(LineAt(p).use)

Image ==
    LET commands  == Places("command")
        constants == ConstantsLayout
    IN  [entrypoint |-> Operand(Places("end")[1]),
         code       |-> [i \in DOMAIN commands |->
                            [origin |-> Append(commands[i], 0),
                             addr   |-> Operand(commands[i])]],
         constants  |-> [i \in DOMAIN constants |->
                            [origin |-> constants[i], addr |-> 0]]]
-----------------------------------------------------------------------------
Init == source \in [Files -> SourceFile] /\ outcome = "none" /\ image = NoImage

Assemble == Compilable /\ outcome' = "assembled" /\ image' = Image

Refuse == ~Compilable /\ outcome' = "refused" /\ UNCHANGED image

\* for a reason that is not in the program, such as a file that cannot be
\* written
Abandon == outcome' = "abandoned" /\ UNCHANGED image

Next == /\ outcome = "none"
        /\ Assemble \/ Refuse \/ Abandon
        /\ UNCHANGED source

Spec == Init /\ [][Next]_<<source, outcome, image>>
=============================================================================
