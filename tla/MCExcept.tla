------------------------------ MODULE MCExcept ------------------------------
(* Values of the constants of Except for TLC. *)
EXTENDS Except

CONSTANTS A, B

MCTypes == {A, B}

\* CATCH(A) only: B goes on to the enclosing TRY
MCOneCatch == {<<{A}>>}
=============================================================================
