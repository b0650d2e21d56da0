--------------------------- MODULE MCExceptThreads ---------------------------
(* Two threads that each open a TRY statement and an object, for TLC. *)
EXTENDS ExceptThreads

CONSTANTS A, T1, T2

MCTypes == {A}
MCCatchSequences == {<<{A}>>}
MCThreads == {T1, T2}
=============================================================================
