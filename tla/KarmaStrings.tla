---------------------------- MODULE KarmaStrings ----------------------------
(***************************************************************************)
(* Characters and strings of constants: Escape and Unescape                *)
(* (src/karma/include/utils/strings.cpp), the comments of a line           *)
(* (compiler/file.cpp), and a char stored in a word.                       *)
(*                                                                         *)
(* A character is its byte, and a char is signed.                          *)
(***************************************************************************)
EXTENDS Integers, Sequences, SequencesExt

CONSTANTS
    CharBits,           \* the width of a char
    Whitespaces,        \* kWhitespaces
    Backslash, Hash, CharQuote, StringQuote,
    EscapeSequences     \* what a character stands for after a backslash

Chars == 0 .. 2 ^ CharBits - 1
StringEnd == 0

ASSUME CharsAssumption ==
    /\ CharBits \in Nat \ {0}
    /\ {Backslash, Hash, CharQuote, StringQuote} \cup Whitespaces \subseteq Chars
    /\ DOMAIN EscapeSequences \subseteq Chars
    /\ Range(EscapeSequences) \subseteq Chars \ {StringEnd}
    /\ IsInjective(EscapeSequences)

\* what Escape escapes, and what a constant is written between
ASSUME EscapesAssumption ==
    /\ {Backslash, Hash} \subseteq Range(EscapeSequences)
    /\ Backslash # Hash
    /\ {CharQuote, StringQuote} \cap (Whitespaces \cup {Hash}) = {}
-----------------------------------------------------------------------------
\* static_cast<Word>(char) extends the sign to a word of wordCount values
CharToWord(char, wordCount) ==
    IF char < 2 ^ (CharBits - 1) THEN char ELSE wordCount - 2 ^ CharBits + char

\* Mutant: the word is taken whole.
WholeWord(word) == word

WordToChar(word) == word % 2 ^ CharBits

UnescapeSequences == Inverse(EscapeSequences, DOMAIN EscapeSequences,
                             Range(EscapeSequences))

\* Mutant: # is not escaped.
EscapeWithoutHash(str) ==
    LET escaped(c) == IF c \in Range(EscapeSequences) \ {Hash}
                      THEN <<Backslash, UnescapeSequences[c]>> ELSE <<c>>
    IN  FlattenSeq([i \in DOMAIN str |-> escaped(str[i])])

Escape(str) ==
    LET escaped(c) == IF c \in Range(EscapeSequences)
                      THEN <<Backslash, UnescapeSequences[c]>> ELSE <<c>>
    IN  FlattenSeq([i \in DOMAIN str |-> escaped(str[i])])

\* A backslash before any other character, or at the end, stays.
Unescape(str) ==
    LET read(acc, c) ==
            IF ~acc.pending /\ c = Backslash THEN [acc EXCEPT !.pending = TRUE]
            ELSE [pending |-> FALSE,
                  out |-> acc.out \o
                      (IF ~acc.pending THEN <<c>>
                       ELSE IF c \in DOMAIN EscapeSequences
                       THEN <<EscapeSequences[c]>> ELSE <<Backslash, c>>)]
        end == FoldLeft(read, [pending |-> FALSE, out |-> <<>>], str)
    IN  IF end.pending THEN Append(end.out, Backslash) ELSE end.out

\* the first # that no backslash stands before, and what follows it, go
TrimComment(line) ==
    LET starts == {i \in DOMAIN line : /\ line[i] = Hash
                                       /\ i = 1 \/ line[i - 1] # Backslash}
    IN  IF starts = {} THEN line ELSE SubSeq(line, 1, Min(starts) - 1)

TrimSpaces(str) ==
    LET kept == {i \in DOMAIN str : str[i] \notin Whitespaces}
    IN  IF kept = {} THEN <<>> ELSE SubSeq(str, Min(kept), Max(kept))

Quoted(str, quote) == <<quote>> \o str \o <<quote>>

IsQuoted(text, quote) ==
    Len(text) >= 2 /\ Head(text) = quote /\ Last(text) = quote

Inside(text) == SubSeq(text, 2, Len(text) - 1)
=============================================================================
