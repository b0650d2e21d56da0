--------------------------- MODULE MCKarmaCompile ---------------------------
(* Small programs for the compiler: every inclusion graph over three files,  *)
(* and every pair of files with two lines out of sets that have each kind    *)
(* of line, with labels that clash, are missing or wait for their item.      *)
EXTENDS KarmaCompile

CONSTANTS f1, f2, f3, a, b

L(label, item, use, arg) == [label |-> label, item |-> item, use |-> use,
                             arg |-> arg]

File3(includes, lines) == [readable |-> TRUE, includes |-> includes,
                           lines |-> lines]

Body == (f1 :> <<L(NoLabel, "end", a, 0), L(NoLabel, "command", b, 0)>>) @@
        (f2 :> <<L(a, "command", NoLabel, 7)>>) @@
        (f3 :> <<L(NoLabel, "constant", NoLabel, 1), L(b, "none", NoLabel, 0),
                 L(NoLabel, "constant", NoLabel, 2)>>)

IncludeLists == {s \in BoundedSeq(Files, 2) : IsInjective(s)}

Graphs == {[f \in Files |-> File3(g[f], Body[f])] : g \in [Files -> IncludeLists]}

\* a missing file and a directive without a name, below the main file
Broken == {[f \in Files |->
               CASE f = f1 -> File3(<<f2, f3>>, Body[f1])
                 [] f = f2 -> File3(<<>>, Body[f2])
                 [] f = f3 -> x] :
           x \in {[File3(<<>>, <<>>) EXCEPT !.readable = FALSE],
                  File3(<<NoFile>>, Body[f3]), File3(<<f2>>, <<>>)}}

FewLines == {L(a, "none", NoLabel, 0), L(NoLabel, "command", a, 0),
             L(a, "command", b, 0), L(b, "constant", NoLabel, 2),
             L(NoLabel, "end", b, 0)}

AllLines == FewLines \cup
            {L(NoLabel, "none", NoLabel, 0), L(NoLabel, "end", NoLabel, 1),
             L(b, "end", NoLabel, 0), L(NoLabel, "bad", NoLabel, 0)}

\* a label, a blank line and its item, in either file or in both
Apart == <<L(a, "none", NoLabel, 0), L(NoLabel, "none", NoLabel, 0),
           L(NoLabel, "command", b, 0)>>

Pairs == {[f \in Files |->
              CASE f = f1 -> File3(<<f2>>, main)
                [] f = f2 -> File3(<<>>, included)
                [] f = f3 -> File3(<<>>, <<>>)] :
          main \in BoundedSeq(AllLines, 2) \cup {Apart},
          included \in BoundedSeq(FewLines, 2) \cup {Apart}}

MCSources == Graphs \cup Broken \cup Pairs
MCWorkerCounts == {0, 2}
=============================================================================
