---------------------------- MODULE ExceptValues ----------------------------
(***************************************************************************)
(* The exceptions on the heap: a Data owns the value its constructor made, *)
(* a move leaves its source empty, and only ~Data destroys it              *)
(* (src/exceptions/include/impl/data.hpp).  longjmp runs no destructors,   *)
(* and an assignment does not destroy what it overwrites, so that a value  *)
(* must have left every Data that ends in one of these ways.               *)
(***************************************************************************)
EXTENDS Except, FiniteSets

VARIABLE values     \* the number of exceptions on the heap

valuesVars == <<vars, values>>

ValuesInit == Init /\ values = 0

\* what ~Data destroys
Held(data) == IF data = NoException THEN 0 ELSE 1

\* Mutant: the move does not empty its source.
LeftCopied(data) == Held(data)

\* what ~Data destroys after the value was moved out
LeftByMove(data) == 0

\* Throw(exception) makes Data{exception}
CreateValue == \E type \in Types : Throw(type) /\ values' = values + 1

\* Throw() copies the Data of the handler; without one nothing is copied
CopyValue == Rethrow /\ values' = values + (IF caught = << >> THEN 0 ELSE 1)

\* Raise assigns to the node's Data, which drops the value that was there; the
\* argument of Throw that longjmp leaves behind is empty
AssignValue == Raise /\ UNCHANGED values

\* a popped node destroys its value, unless it was moved to the other stack or
\* to the argument of the next Throw
DestroyAbandoned == AbandonHandler /\ values' = values - Held(Last(caught).data)

MoveToCaught == DoCatch /\ values' = values - LeftByMove(Last(stack).data)

FinishValue ==
  /\ AtEndOfTry
  /\ \/ FinishRaised  /\ values' = values - LeftByMove(Last(stack).data)
     \/ FinishHandler /\ values' = values - Held(Last(caught).data)
     \/ FinishBody    /\ values' = values - Held(Last(stack).data)

\* the other steps make, move and destroy no Data
Elsewhere ==
  /\ \/ \E clauses \in CatchSequences : StartTry(clauses)
     \/ RecordObject \/ PopObject \/ EndDestructor
     \/ DestroyObject \/ Longjmp \/ SkipCatch
     \/ \E i \in DOMAIN caught : EditCaught(i)
     \/ Stopped
  /\ UNCHANGED values

ValuesNext == \/ CreateValue \/ CopyValue \/ AssignValue \/ DestroyAbandoned
              \/ MoveToCaught \/ FinishValue \/ Elsewhere

ValuesSpec == ValuesInit /\ [][ValuesNext]_valuesVars

\* The library holds the thread until it returns.
FairSpec == ValuesSpec /\ WF_vars(LibrarySteps)

\* No exception is lost or destroyed twice, and none is read that is not there:
\* there is one for every TRY statement whose conditions are evaluated or that
\* is unwound to, one for every handler, one for the argument of a Throw that
\* has not raised yet, and no other, whatever was rethrown, abandoned or thrown
\* on by a TRY that did not catch it.
ValuesAreOwned ==
  ~terminated =>
    values = Cardinality({i \in DOMAIN stack : stack[i].raised}) + Len(caught)
               + (IF thrown # NoException /\ ~unwinding_in_progress THEN 1 ELSE 0)
=============================================================================
