--------------------------- MODULE MCExceptValues ---------------------------
(* Values of the constants of Except for TLC, with the exceptions counted. *)
EXTENDS ExceptValues

CONSTANTS A, B

MCTypes == {A, B}

\* CATCH(A);  CATCH(B) then CATCH()
MCCatchSequences == {<<{A}>>, <<{B}, {A, B}>>}
=============================================================================
