------------------------------ MODULE TryCatch ------------------------------
(***************************************************************************)
(* What TRY, CATCH and Throw promise to a client of the except library     *)
(* (exceptions/include), in terms of the client's own program alone: a     *)
(* stack of lexical scopes, an exception that may be in flight, and the    *)
(* automatic objects that are alive.  The library's bookkeeping (two node  *)
(* stacks, depths, destroyers, jump buffers) does not appear here; module  *)
(* Except shows that the bookkeeping implements these steps.               *)
(***************************************************************************)
EXTENDS Integers, Sequences, SequencesExt

CONSTANTS
  Types,           \* types of the exceptions a client throws
  CatchSequences,  \* catch sequences: tuples of sets of the types a CATCH matches
  NoException      \* "no exception in flight / in this scope"

VARIABLES
  scopes,    \* open TRY statements and automatic objects, outermost first
  inflight,  \* the exception being delivered, or NoException
  live,      \* positions of the scopes whose object is constructed and not destroyed
  dying,     \* a destructor called by stack unwinding is running
  aborted    \* std::terminate was called

vars == <<scopes, inflight, live, dying, aborted>>

Exceptions == [type : Types, edited : BOOLEAN]

Scope(kind, clauses, block, exc) ==
  [kind |-> kind, clauses |-> clauses, block |-> block, exc |-> exc]

Init ==
  /\ scopes = << >>
  /\ inflight = NoException
  /\ live = {}
  /\ dying = FALSE
  /\ aborted = FALSE

Top == Last(scopes)

Of(kind, s) == {i \in DOMAIN s : s[i].kind = kind}

\* The client's own code is running: nothing is in flight or being matched.
Running ==
  /\ ~aborted
  /\ inflight = NoException
  /\ scopes # << >> => Top.kind # "dispatch"

EnterTry(clauses) ==
  /\ Running
  /\ scopes' = Append(scopes, Scope("body", clauses, 0, NoException))
  /\ UNCHANGED <<inflight, live, dying, aborted>>

\* The body or the handler of the innermost TRY statement runs to its end.
LeaveTry ==
  /\ Running
  /\ scopes # << >>
  /\ Top.kind \in {"body", "handler"}
  /\ scopes' = Front(scopes)
  /\ UNCHANGED <<inflight, live, dying, aborted>>

Construct ==
  /\ Running
  /\ scopes' = Append(scopes, Scope("object", << >>, 0, NoException))
  /\ live' = live \cup {Len(scopes) + 1}
  /\ UNCHANGED <<inflight, dying, aborted>>

\* The scope of the most recent object ends: its destructor starts, then returns.
BeginDestructor ==
  /\ Running
  /\ scopes # << >>
  /\ Top.kind = "object"
  /\ scopes' = [scopes EXCEPT ![Len(scopes)].kind = "dtor"]
  /\ live' = live \ {Len(scopes)}
  /\ UNCHANGED <<inflight, dying, aborted>>

EndDestructor ==
  /\ Running
  /\ scopes # << >>
  /\ Top.kind = "dtor"
  /\ scopes' = Front(scopes)
  /\ UNCHANGED <<inflight, live, dying, aborted>>

-----------------------------------------------------------------------------
(* Exceptions.                                                             *)

\* Control leaves every scope of s inside its innermost TRY body, for e.
Propagate(e, s) ==
  LET bodies == Of("body", s)
  IN  /\ bodies # {}
      /\ scopes' = SubSeq(s, 1, Max(bodies))
      /\ inflight' = e
      /\ UNCHANGED <<live, dying, aborted>>

Throw == Running /\ \E e \in Exceptions : ~e.edited /\ Propagate(e, scopes)

\* Rethrow the exception of the innermost handler that is being executed.
Rethrow ==
  /\ Running
  /\ Of("handler", scopes) # {}
  /\ Propagate(scopes[Max(Of("handler", scopes))].exc, scopes)

\* The most recent object of the scopes that were left is destroyed.
Unwind ==
  /\ ~aborted
  /\ inflight # NoException
  /\ ~dying
  /\ live # {}
  /\ Max(live) > Len(scopes)
  /\ live' = live \ {Max(live)}
  /\ dying' = TRUE
  /\ UNCHANGED <<scopes, inflight, aborted>>

Unwound ==
  /\ ~aborted
  /\ dying
  /\ dying' = FALSE
  /\ UNCHANGED <<scopes, inflight, live, aborted>>

\* All of them are destroyed: the exception reaches its catch sequence.
Deliver ==
  /\ ~aborted
  /\ inflight # NoException
  /\ ~dying
  /\ \A o \in live : o < Len(scopes)
  /\ scopes' = [scopes EXCEPT ![Len(scopes)] =
                  [@ EXCEPT !.kind = "dispatch", !.exc = inflight]]
  /\ inflight' = NoException
  /\ UNCHANGED <<live, dying, aborted>>

Matching == {i \in DOMAIN Top.clauses : Top.exc.type \in Top.clauses[i]}

Dispatching ==
  /\ ~aborted
  /\ inflight = NoException
  /\ scopes # << >>
  /\ Top.kind = "dispatch"

\* The first CATCH block whose condition is satisfied is entered.
Catch ==
  /\ Dispatching
  /\ Matching # {}
  /\ scopes' = [scopes EXCEPT ![Len(scopes)] =
                  [@ EXCEPT !.kind = "handler", !.block = Min(Matching)]]
  /\ UNCHANGED <<inflight, live, dying, aborted>>

\* No condition is satisfied: the exception goes on to the enclosing TRY, as the
\* C++ keywords do that TRY and CATCH imitate and as the nested cases of
\* tests/suits/README.md assume (83-86).  include/README.md:155 says otherwise:
\* that std::terminate is called, whatever encloses the statement.
NoMatch ==
  /\ Dispatching
  /\ Matching = {}
  /\ Propagate(Top.exc, Front(scopes))

\* A handler that caught by reference changes its exception.
Edit ==
  /\ ~aborted
  /\ \E i \in Of("handler", scopes) :
       scopes' = [scopes EXCEPT ![i].exc.edited = TRUE]
  /\ UNCHANGED <<inflight, live, dying, aborted>>

-----------------------------------------------------------------------------
\* An exception that no TRY encloses, a rethrow outside every handler, or an
\* exception out of a destructor that unwinding called.
Uncaught ==
  /\ Of("body", scopes) = {}
  /\ Running \/ (Dispatching /\ Matching = {})

RethrowOutside ==
  /\ Running
  /\ Of("handler", scopes) = {}

Terminate ==
  /\ ~aborted
  /\ Uncaught \/ RethrowOutside \/ dying
  /\ aborted' = TRUE
  /\ scopes' = << >>
  /\ inflight' = NoException
  /\ live' = {}
  /\ dying' = FALSE

Next ==
  \/ \E clauses \in CatchSequences : EnterTry(clauses)
  \/ LeaveTry \/ Construct \/ BeginDestructor \/ EndDestructor
  \/ Throw \/ Rethrow \/ Unwind \/ Unwound \/ Deliver \/ Catch \/ NoMatch \/ Edit
  \/ Terminate

Spec == Init /\ [][Next]_vars
=============================================================================
