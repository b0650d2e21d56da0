-------------------------- MODULE MCKarmaToolchain --------------------------
(* A computer of 16 cells with two registers, words of 8 bits and chars of   *)
(* 5: one code per format, one that ignores its address, and unknown codes.  *)
EXTENDS KarmaToolchain

MCFormat == (0 :> "RM") @@ (1 :> "RR") @@ (2 :> "RI") @@ (3 :> "J") @@ (4 :> "J")

\* The characters 1 to 7 are \ # ' " blank n newline; \n stands for newline,
\* the first four for themselves.
MCEscapeSequences == (1 :> 1) @@ (2 :> 2) @@ (3 :> 3) @@ (4 :> 4) @@ (6 :> 7)
Letter   == 8
Negative == 20     \* as a signed char

MCLabels == {Numbered("main", 0)} \cup
            {Numbered(p, n) : p \in {"command", "constant"}, n \in 1 .. MemorySize}

\* 15 digits take double 300 for 258; those of 515 overflow
MCRounded == 300 :> 258

C(code, reg, src, num) == CommandLine([code |-> code, reg |-> reg, src |-> src,
                                       arg |-> num], NoLabel)
U(code, reg, label) == CommandLine([code |-> code, reg |-> reg, src |-> 0,
                                    arg |-> 0], label)
K(type, num, str) == [Blank EXCEPT !.item = "constant", !.type = type,
                                   !.num = num, !.text = str]
With(label, line) == [line EXCEPT !.label = label]
End(use, num) == [Blank EXCEPT !.item = "end", !.use = use, !.num = num]

main == Numbered("main", 0)
word == Numbered("constant", 2)

Commands == {U(0, 1, main), U(0, 1, word), C(0, 0, 0, 1), C(0, 0, 0, 15),
             C(0, 0, 0, 16), C(0, 0, 0, 17), C(1, 1, 0, -4), C(1, 0, 1, 3),
             C(1, 0, 1, 4), C(2, 1, 0, -8), C(2, 0, 0, 7), C(2, 0, 0, -9),
             U(2, 1, main), U(3, 0, word), C(3, 0, 0, 1), C(3, 0, 0, 16),
             C(4, 0, 0, 9)}

Strings == {<<4, 4>>, <<4, Letter, 1, 2, 4>>, <<4, 1, 1, 1, 4, Negative, 4>>,
            <<5, 4, 5, Letter, 5, 4, 5, 2, 4>>, <<4, 1, Letter, 1, 6, 4>>,
            <<4, Letter, 2, 4>>, <<4, 0, 4>>, <<4>>}
Characters == {<<3, Letter, 3>>, <<3, 1, 2, 3>>, <<3, 1, 3>>, <<3, 3, 3>>,
               <<3, Negative, 3>>, <<3, 1, 6, 3>>, <<3, 5, 3>>, <<3, 3>>,
               <<3, 2, 3>>, <<3, 7, 3>>}

Constants == {K(Uint32Type, n, <<>>) : n \in {-1, 7, 300, 65536}} \cup
             {K(Uint64Type, n, <<>>) : n \in {-2, 300}} \cup
             {K(DoubleType, n, <<>>) : n \in {258, 300, 515, 770}} \cup
             {K(CharType, 0, s) : s \in Characters} \cup
             {K(StringType, 0, s) : s \in Strings}

Ends == {End(main, 0), End(NoLabel, 0), End(NoLabel, 1), End(NoLabel, 9),
         End(word, 0)}

MCTexts ==
    {<<With(main, x), y, End(main, 0)>> : x \in Commands, y \in Commands}
        \cup {<<With(main, x), With(word, y), e>> :
                  x \in {U(0, 1, word), C(2, 0, 0, 7)}, y \in Constants, e \in Ends}
        \cup {<<y, With(word, z), With(main, C(4, 0, 0, 9)), End(main, 0)>> :
                  y, z \in Constants}

File(code, constants, entrypoint) ==
    [WholeFile([entrypoint |-> entrypoint, initialStack |-> 0,
                code |-> code, constants |-> constants])
        EXCEPT !.initialStack = 200]

\* words of each known code, and of an unknown one
ForeignWords == {0, 1, 18, 33, 47, 62, 72, 95, 97, 114, 131, 129, 162}
\* types, and words that are chars, are cut to a char, or to a zero
ForeignConstants == {0, 1, 2, 3, 4, 16, 32, 40, 250}

Damaged ==
    LET whole == File(<<1, 72>>, <<0, 9>>, 0)
    IN  {CutAt(whole, n) : n \in 0 .. whole.bytes}
            \cup {[whole EXCEPT !.intro = i] : i \in Intros}
            \cup {[whole EXCEPT !.processor = 0]}
            \cup {[whole EXCEPT !.codeSize = c, !.constantsSize = k] :
                      c \in 0 .. 8, k \in 0 .. 8}
            \cup {File([i \in 1 .. n |-> 72], <<>>, 0) : n \in {8, 9, 16, 17}}

MCForeignFiles ==
    {File(code, <<3, Letter>>, e) :
        code \in BoundedSeq(ForeignWords, 2), e \in {0, 1, 3, 9}}
        \cup {File(<<1>>, <<t>> \o s, 0) :
                  t \in 0 .. 5, s \in BoundedSeq(ForeignConstants, 3)}
        \cup Damaged
=============================================================================
