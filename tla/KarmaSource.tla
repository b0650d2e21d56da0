---------------------------- MODULE KarmaSource ----------------------------
(***************************************************************************)
(* The Karma assembler program the compiler reads: files with include      *)
(* directives, then lines.  Words of a line are kept as far as the parser  *)
(* tells them apart: the label before the item, the kind of the item, the  *)
(* label it uses as an address and the number it gives.                    *)
(***************************************************************************)
EXTENDS Integers, Sequences, FiniteSets, SequencesExt

CONSTANTS
    Files,          \* the canonical paths
    Root,           \* the file given to the compiler
    NoFile,         \* what an include directive without a filename names
    Labels,
    NoLabel,
    Sources         \* the programs considered

\* "none" is an empty line or a lone label, "end" the entrypoint directive,
\* "bad" every line that GetCodeFormat or a Get...Args function rejects
Items == {"none", "command", "constant", "end", "bad"}

MaybeLabel == Labels \cup {NoLabel}

\* arg is the address of a command or of the entrypoint without a label, and
\* the number of words of a constant's value
Line == [label : MaybeLabel, item : Items, use : MaybeLabel, arg : Nat]

\* lines are those after the include directives
SourceFile == [readable : BOOLEAN, includes : Seq(Files \cup {NoFile}),
               lines : Seq(Line)]

ASSUME FilesAssumption  == IsFiniteSet(Files) /\ Root \in Files /\ NoFile \notin Files
ASSUME LabelsAssumption == NoLabel \notin Labels
ASSUME SourcesAssumption ==
    /\ Sources \subseteq [Files -> SourceFile]
    /\ \A s \in Sources : \A f \in Files : \A n \in DOMAIN s[f].lines :
          s[f].lines[n].item = "constant" => s[f].lines[n].arg > 0

VARIABLE source     \* the files on disk: never written by the compiler

\* neither an item nor a label
IsBlank(line) == line.item = "none" /\ line.label = NoLabel

\* what GetIncludes returns rather than throws for
CanInclude(f) == source[f].readable /\ NoFile \notin ToSet(source[f].includes)

\* a set of files that holds every file one of them includes
IsClosed(files) ==
    \A f \in files : Files \cap ToSet(source[f].includes) \subseteq files

\* f and the files it includes, directly or through other files
Reachable(f) ==
    {g \in Files : \A files \in SUBSET Files :
                       f \in files /\ IsClosed(files) => g \in files}

\* an executable with nothing in it
NoImage == [entrypoint |-> 0, code |-> <<>>, constants |-> <<>>]
=============================================================================
