------------------------------- MODULE Except -------------------------------
(***************************************************************************)
(* The except library of exceptions/include, one thread: the TRY and CATCH *)
(* macros, Impl (two stacks of nodes, setjmp and longjmp), ObjectManager   *)
(* (the stack of destroyers) and AutoObject.                               *)
(*                                                                         *)
(* The client is any C++ program that nests TRY statements and AutoObjects *)
(* as scopes nest.  "frames" is that program's own stack: one frame for    *)
(* every open TRY statement and automatic object, for the Throw call that  *)
(* is executing and for every destructor that is executing.  A frame's     *)
(* position stands for its address: a jump buffer and the pointer in a     *)
(* destroyer are positions in "frames".                                    *)
(*                                                                         *)
(* Steps are as fine as the client can interleave with: a library call is  *)
(* one step, except Throw, whose loops are one step per iteration because  *)
(* the destructors it calls run client code in between.                    *)
(***************************************************************************)
EXTENDS Integers, Sequences, SequencesExt

CONSTANTS
  Types,           \* types of the exceptions the client throws
  CatchSequences,  \* the catch sequences of its TRY statements; a CATCH is the
                   \* set of types that Data::CanGet accepts for it
  NoException,     \* an empty Data
  MaxFrames        \* bound on the client's frames

Exceptions == [type : Types, edited : BOOLEAN]

ASSUME CatchAssumption == CatchSequences \subseteq Seq(SUBSET Types)
ASSUME NoExceptionAssumption == NoException \notin Exceptions
ASSUME BoundAssumption == MaxFrames \in Nat

VARIABLES
  \* the client
  frames,      \* its scopes and calls, outermost first
  thrown,      \* the Data argument of the Throw call that is executing
  alive,       \* positions of the objects constructed and not yet destroyed
  terminated,  \* std::terminate was called
  \* the library
  stack,                  \* Impl::stack, nodes of TRY statements not yet left
  caught,                 \* Impl::caught, nodes of handlers being executed
  unwinding_in_progress,  \* Impl::unwinding_in_progress
  k_destroyers            \* ObjectManager::k_destroyers

client == <<frames, thrown, alive, terminated>>
library == <<stack, caught, unwinding_in_progress, k_destroyers>>
vars == <<frames, thrown, alive, terminated,
          stack, caught, unwinding_in_progress, k_destroyers>>

-----------------------------------------------------------------------------
(* Data.                                                                   *)

ClientKinds == {"object", "body", "handler", "dtor"}
FrameKinds == ClientKinds \cup {"dispatch", "throw"}

\* "next" is the CATCH whose condition is evaluated, then the block entered.
Frame == [kind : FrameKinds, clauses : CatchSequences \cup {<< >>}, next : Nat]

NewFrame(kind, clauses) == [kind |-> kind, clauses |-> clauses, next |-> 1]

Node == [buf : Nat, raised : BOOLEAN, depth : Nat,
         data : Exceptions \cup {NoException}]

\* Mutant: the depth is taken one too low.
NewNodeOneLow(buf, depth) ==
  [buf |-> buf, raised |-> FALSE, depth |-> depth - 1, data |-> NoException]

NewNode(buf, depth) ==
  [buf |-> buf, raised |-> FALSE, depth |-> depth, data |-> NoException]

\* node.Raise(exc)
Raised(node, exc) == [node EXCEPT !.raised = TRUE, !.data = exc]

\* An item of k_destroyers.  A checkpoint carries no pointer in the code: "at"
\* then only remembers the TRY frame that recorded it, and no action reads it.
Item == [kind : {"checkpoint", "object"}, at : Nat]

Checkpoint(at) == [kind |-> "checkpoint", at |-> at]
Destroyer(at) == [kind |-> "object", at |-> at]

Init ==
  /\ frames = << >> /\ thrown = NoException /\ alive = {} /\ terminated = FALSE
  /\ stack = << >> /\ caught = << >>
  /\ unwinding_in_progress = FALSE /\ k_destroyers = << >>

TopIs(kinds) == ~terminated /\ frames # << >> /\ Last(frames).kind \in kinds

\* The client's code is running, not a library call.
Running == ~terminated /\ (frames # << >> => Last(frames).kind \in ClientKinds)

CanOpenScope == Running /\ Len(frames) < MaxFrames

Here == Len(frames) + 1

-----------------------------------------------------------------------------
(* Entering and leaving scopes.                                            *)

\* TRY: StartTry(), then the first return of setjmp.
StartTry(clauses) ==
  /\ CanOpenScope
  /\ frames' = Append(frames, NewFrame("body", clauses))
  /\ stack' = Append(stack, NewNode(Here, Len(stack)))
  /\ k_destroyers' = Append(k_destroyers, Checkpoint(Here))
  /\ UNCHANGED <<thrown, alive, terminated, caught, unwinding_in_progress>>

\* An AutoObject constructor: the object, then RecordObject(*this).
RecordObject ==
  /\ CanOpenScope
  /\ frames' = Append(frames, NewFrame("object", << >>))
  /\ alive' = alive \cup {Here}
  /\ k_destroyers' = Append(k_destroyers, Destroyer(Here))
  /\ UNCHANGED <<thrown, terminated, stack, caught, unwinding_in_progress>>

\* The scope of an AutoObject ends: ~AutoObject pops whatever destroyer is on
\* top and the destructor of the stored object starts.
PopObject ==
  /\ TopIs({"object"})
  /\ frames' = [frames EXCEPT ![Len(frames)].kind = "dtor"]
  /\ alive' = alive \ {Len(frames)}
  /\ k_destroyers' = Front(k_destroyers)
  /\ UNCHANGED <<thrown, terminated, stack, caught, unwinding_in_progress>>

\* The destructor of the stored object returns.
EndDestructor ==
  /\ TopIs({"dtor"})
  /\ frames' = Front(frames)
  /\ UNCHANGED <<thrown, alive, terminated, library>>

-----------------------------------------------------------------------------
(* Throw.                                                                  *)

Terminate ==
  /\ terminated' = TRUE
  /\ UNCHANGED thrown

\* The entry of Impl::Throw(data) called over the frames "over" with the node
\* stack "nodes".
CallThrow(exc, over, nodes) ==
  \/ /\ unwinding_in_progress \/ nodes = << >>
     /\ Terminate
     /\ frames' = over
  \/ /\ ~unwinding_in_progress
     /\ nodes # << >>
     /\ frames' = Append(over, NewFrame("throw", << >>))
     /\ thrown' = exc
     /\ UNCHANGED terminated

Throw(type) ==
  /\ Running
  /\ CallThrow([type |-> type, edited |-> FALSE], frames, stack)
  /\ UNCHANGED <<alive, library>>

\* Mutant: the rethrown exception is the outermost caught one.
RethrowOutermost ==
  /\ Running
  /\ \/ caught = << >> /\ Terminate /\ UNCHANGED frames
     \/ caught # << >> /\ CallThrow(Head(caught).data, frames, stack)
  /\ UNCHANGED <<alive, library>>

\* Throw() with no argument throws a copy of the topmost caught exception.
Rethrow ==
  /\ Running
  /\ \/ caught = << >> /\ Terminate /\ UNCHANGED frames
     \/ caught # << >> /\ CallThrow(Last(caught).data, frames, stack)
  /\ UNCHANGED <<alive, library>>

\* Mutant: a TRY opened inside a handler passes for the handler's own.
InHandlerOrInside == caught # << >> /\ Last(stack).depth <= Last(caught).depth

\* The innermost open TRY statement is one whose handler is being executed:
\* stack.top().depth < caught.top().depth.
InHandler == caught # << >> /\ Last(stack).depth < Last(caught).depth

\* Throw forgets the handlers it leaves, one iteration of its loop.
AbandonHandler ==
  /\ TopIs({"throw"})
  /\ ~unwinding_in_progress
  /\ InHandler
  /\ caught' = Front(caught)
  /\ UNCHANGED <<client, stack, unwinding_in_progress, k_destroyers>>

\* Mutant: Throw may raise before it forgot every handler it leaves.
RaiseEarly ==
  /\ TopIs({"throw"})
  /\ ~unwinding_in_progress
  /\ stack' = [stack EXCEPT ![Len(stack)] = Raised(@, thrown)]
  /\ unwinding_in_progress' = TRUE
  /\ UNCHANGED <<client, caught, k_destroyers>>

Raise ==
  /\ TopIs({"throw"})
  /\ ~unwinding_in_progress
  /\ ~InHandler
  /\ stack' = [stack EXCEPT ![Len(stack)] = Raised(@, thrown)]
  /\ unwinding_in_progress' = TRUE
  /\ UNCHANGED <<client, caught, k_destroyers>>

\* Mutant: ~AutoObject does not call ObjectManager::Pop.
DestroyObjectKeepsRecord ==
  /\ TopIs({"throw"})
  /\ unwinding_in_progress
  /\ k_destroyers # << >>
  /\ Last(k_destroyers).kind = "object"
  /\ alive' = alive \ {Last(k_destroyers).at}
  /\ frames' = Append(frames, NewFrame("dtor", << >>))
  /\ UNCHANGED <<thrown, terminated, library>>

\* UnwindToCheckpoint meets an object: it calls ~AutoObject on it.
DestroyObject ==
  /\ TopIs({"throw"})
  /\ unwinding_in_progress
  /\ k_destroyers # << >>
  /\ Last(k_destroyers).kind = "object"
  /\ k_destroyers' = Front(k_destroyers)
  /\ alive' = alive \ {Last(k_destroyers).at}
  /\ frames' = Append(frames, NewFrame("dtor", << >>))
  /\ UNCHANGED <<thrown, terminated, stack, caught, unwinding_in_progress>>

\* Mutant: UnwindToCheckpoint leaves the checkpoint it stopped at.
LongjmpKeepsCheckpoint ==
  /\ TopIs({"throw"})
  /\ unwinding_in_progress
  /\ k_destroyers # << >>
  /\ Last(k_destroyers).kind = "checkpoint"
  /\ unwinding_in_progress' = FALSE
  /\ frames' = LET buf == Last(stack).buf
               IN  [SubSeq(frames, 1, buf) EXCEPT ![buf].kind = "dispatch"]
  /\ thrown' = NoException
  /\ UNCHANGED <<alive, terminated, stack, caught, k_destroyers>>

\* UnwindToCheckpoint meets the checkpoint and returns; Throw jumps to the top
\* node's buffer, where setjmp returns 1 and the conditions are evaluated.
Longjmp ==
  /\ TopIs({"throw"})
  /\ unwinding_in_progress
  /\ k_destroyers # << >>
  /\ Last(k_destroyers).kind = "checkpoint"
  /\ k_destroyers' = Front(k_destroyers)
  /\ unwinding_in_progress' = FALSE
  /\ frames' = LET buf == Last(stack).buf
               IN  [SubSeq(frames, 1, buf) EXCEPT ![buf].kind = "dispatch"]
  /\ thrown' = NoException
  /\ UNCHANGED <<alive, terminated, stack, caught>>

-----------------------------------------------------------------------------
(* CATCH and the end of a TRY statement.                                   *)

MoreConditions == Last(frames).next \in DOMAIN Last(frames).clauses

\* CanCatch<Type>() of the next CATCH
CanCatch == Last(stack).data.type \in Last(frames).clauses[Last(frames).next]

SkipCatch ==
  /\ TopIs({"dispatch"})
  /\ MoreConditions
  /\ ~CanCatch
  /\ frames' = [frames EXCEPT ![Len(frames)].next = @ + 1]
  /\ UNCHANGED <<thrown, alive, terminated, library>>

\* MaybeCatch, Catch and CatchAll all end in DoCatch().
DoCatch ==
  /\ TopIs({"dispatch"})
  /\ MoreConditions
  /\ CanCatch
  /\ frames' = [frames EXCEPT ![Len(frames)].kind = "handler"]
  /\ caught' = Append(caught, Last(stack))
  /\ stack' = Front(stack)
  /\ UNCHANGED <<thrown, alive, terminated, unwinding_in_progress, k_destroyers>>

\* The exception caught by reference in the handler of the i-th caught node is
\* changed in place.
EditCaught(i) ==
  /\ Running
  /\ ~caught[i].data.edited
  /\ caught' = [caught EXCEPT ![i].data.edited = TRUE]
  /\ UNCHANGED <<client, stack, unwinding_in_progress, k_destroyers>>

\* The TRY's loop ends: after its body, after a handler or after the last
\* condition.
AtEndOfTry ==
  \/ TopIs({"body", "handler"})
  \/ TopIs({"dispatch"}) /\ ~MoreConditions

\* FinishTry() when an exception was raised and not caught: it is thrown again.
FinishRaised ==
  /\ stack # << >>
  /\ Last(stack).raised
  /\ stack' = Front(stack)
  /\ CallThrow(Last(stack).data, Front(frames), Front(stack))
  /\ UNCHANGED <<alive, caught, unwinding_in_progress, k_destroyers>>

\* FinishTry() at the end of a handler, told by the depths.
FinishHandler ==
  /\ stack # << >> => ~Last(stack).raised /\ InHandler
  /\ caught' = Front(caught)
  /\ frames' = Front(frames)
  /\ UNCHANGED <<thrown, alive, terminated, stack, unwinding_in_progress, k_destroyers>>

\* Mutant: the end of a body does not pop its checkpoint.
FinishBodyKeepsCheckpoint ==
  /\ stack # << >> /\ ~Last(stack).raised /\ ~InHandler
  /\ stack' = Front(stack)
  /\ frames' = Front(frames)
  /\ UNCHANGED <<thrown, alive, terminated, caught, unwinding_in_progress, k_destroyers>>

\* FinishTry() at the end of a body in which nothing was thrown.
FinishBody ==
  /\ stack # << >> /\ ~Last(stack).raised /\ ~InHandler
  /\ k_destroyers' = Front(k_destroyers)
  /\ stack' = Front(stack)
  /\ frames' = Front(frames)
  /\ UNCHANGED <<thrown, alive, terminated, caught, unwinding_in_progress>>

FinishTry == AtEndOfTry /\ (FinishRaised \/ FinishHandler \/ FinishBody)

\* return, break or goto out of a TRY body or a handler: the loop of the TRY
\* macro is left without its increment expression, FinishTry().
LeaveByJump ==
  /\ TopIs({"body", "handler"})
  /\ frames' = Front(frames)
  /\ UNCHANGED <<thrown, alive, terminated, library>>

\* After std::terminate nothing happens any more.
Stopped == terminated /\ UNCHANGED vars

ThrowSteps == AbandonHandler \/ Raise \/ DestroyObject \/ Longjmp
CatchSteps == SkipCatch \/ DoCatch

Next ==
  \/ \E clauses \in CatchSequences : StartTry(clauses)
  \/ RecordObject
  \/ PopObject
  \/ EndDestructor
  \/ \E type \in Types : Throw(type)
  \/ Rethrow
  \/ ThrowSteps
  \/ CatchSteps
  \/ \E i \in DOMAIN caught : EditCaught(i)
  \/ FinishTry
  \/ Stopped

Spec == Init /\ [][Next]_vars

\* The client may also leave a TRY body or a handler with return, break or goto.
SpecWithJumps == Init /\ [][Next \/ LeaveByJump]_vars

\* What the library does by itself once Throw is called.
LibrarySteps == ThrowSteps \/ CatchSteps \/ (TopIs({"dispatch"}) /\ FinishTry)

-----------------------------------------------------------------------------
(* Properties.                                                             *)

\* Types.  Nothing but a Data that was moved out is ever empty in a thrown
\* exception, and an address is that of a frame.
TypeOK ==
  /\ frames \in Seq(Frame)
  /\ thrown \in Exceptions \cup {NoException}
  /\ alive \subseteq Nat
  /\ terminated \in BOOLEAN
  /\ stack \in Seq(Node)
  /\ caught \in Seq(Node)
  /\ unwinding_in_progress \in BOOLEAN
  /\ k_destroyers \in Seq(Item)

Of(kinds) == {f \in DOMAIN frames : frames[f].kind \in kinds}

\* f lies in the scopes that the executing Throw leaves: a Throw frame above
\* it, and no TRY body from f up to that frame.
Left(f) == \E t \in Of({"throw"}) : f < t /\ \A b \in f .. t : frames[b].kind # "body"

\* f is the TRY body in which the executing Throw was called.
Target(f) ==
  /\ frames[f].kind = "body"
  /\ \E t \in Of({"throw"}) : f < t /\ \A b \in f + 1 .. t : frames[b].kind # "body"

\* Impl::stack is the open TRY statements that run no handler: each node keeps
\* the address of one of them, in order, and a depth that no pop and push has
\* spoiled, and a node is raised exactly while its conditions are evaluated or
\* Throw unwinds towards it.
NodesMatchTries ==
  /\ \A i, j \in DOMAIN stack : i < j => stack[i].buf < stack[j].buf
  /\ {stack[i].buf : i \in DOMAIN stack} = Of({"body", "dispatch"})
  /\ \A i \in DOMAIN stack :
       /\ stack[i].depth = i - 1
       /\ stack[i].raised <=> \/ frames[stack[i].buf].kind = "dispatch"
                              \/ unwinding_in_progress /\ Target(stack[i].buf)

\* Impl::caught is the handlers being executed, in order, apart from those the
\* executing Throw leaves; and comparing the depths of a node and of a caught
\* node tells whether the handler was entered inside that TRY or around it,
\* which is all that FinishTry and Throw know about nesting.
CaughtMatchesHandlers ==
  /\ \A i, j \in DOMAIN caught : i < j => caught[i].buf < caught[j].buf
  /\ LET bufs == {caught[j].buf : j \in DOMAIN caught}
     IN  /\ bufs \subseteq Of({"handler"})
         /\ \A f \in Of({"handler"}) : f \in bufs \/ Left(f)
         /\ \A f \in bufs : unwinding_in_progress => ~Left(f)
         /\ \A f \in bufs, g \in Of({"handler"}) : g < f => g \in bufs
  /\ \A i \in DOMAIN stack, j \in DOMAIN caught :
       stack[i].buf < caught[j].buf <=> stack[i].depth < caught[j].depth

\* k_destroyers is the open TRY bodies and the objects alive, in the order they
\* were created, whatever destructors did in between: so Pop and
\* UnwindToCheckpoint always find their own item on top.  An object in scope
\* is alive unless the executing Throw leaves its scope and destroyed it.
RecordsMatchScopes ==
  /\ \A i, j \in DOMAIN k_destroyers : i < j => k_destroyers[i].at < k_destroyers[j].at
  /\ {k_destroyers[i].at : i \in DOMAIN k_destroyers} = Of({"body"}) \cup alive
  /\ \A i \in DOMAIN k_destroyers :
       (k_destroyers[i].kind = "object") <=> (k_destroyers[i].at \in alive)
  /\ alive \subseteq Of({"object"})
  /\ \A f \in Of({"object"}) : f \in alive \/ (unwinding_in_progress /\ Left(f))
  /\ \A f \in alive, g \in Of({"object"}) : Left(f) /\ g < f => g \in alive

\* When an exception is delivered, control is in the innermost TRY body around
\* the Throw, and exactly the objects of the scopes still open are alive:
\* every object in between was destroyed and no other was touched.
DeliveredCleanly ==
  [][(thrown # NoException /\ thrown' = NoException) =>
       /\ Target(Len(frames'))
       /\ alive' = {f \in DOMAIN frames' : frames'[f].kind = "object"}]_vars

\* Every destructor that unwinding calls returns to it.
DestructorsReturn ==
  []<>(thrown = NoException \/ terminated \/ TopIs({"throw"}))

\* If they do, every thrown exception reaches a handler or ends the program:
\* the loops of Throw, UnwindToCheckpoint, the catch sequence and the implicit
\* rethrow to the next TRY all end.
EveryThrowIsHandled ==
  DestructorsReturn => (thrown # NoException ~> terminated \/ TopIs({"handler"}))

\* "The TRY preprocessor macro imitates the C++ try keyword" (include/README.md):
\* the node an exception was raised in is that of a TRY statement still open.
JumpTargetIsOpen ==
  \A i \in DOMAIN stack :
    stack[i].raised =>
      stack[i].buf \in DOMAIN frames /\ frames[stack[i].buf].kind \in {"body", "dispatch"}

-----------------------------------------------------------------------------
(* The library implements TryCatch.                                        *)

\* The frames a client can see: while Throw executes, those up to its target.
Visible ==
  IF terminated THEN {}
  ELSE {f \in DOMAIN frames : \A t \in Of({"throw"}) : f < t /\ ~Left(f)}

DataAt(nodes, f) ==
  nodes[CHOOSE i \in DOMAIN nodes : nodes[i].buf = f].data

ExceptionOf(f) ==
  CASE frames[f].kind = "dispatch" -> DataAt(stack, f)
    [] frames[f].kind = "handler"  -> DataAt(caught, f)
    [] OTHER -> NoException

Promised == INSTANCE TryCatch WITH
  scopes <- [f \in Visible |->
               [kind |-> frames[f].kind, clauses |-> frames[f].clauses,
                block |-> IF frames[f].kind = "handler" THEN frames[f].next ELSE 0,
                exc |-> ExceptionOf(f)]],
  inflight <- IF terminated THEN NoException ELSE thrown,
  live <- IF terminated THEN {}
          ELSE {o \in alive : \A t \in Of({"throw"}) : o < t},
  dying <- ~terminated /\ \E t \in Of({"throw"}) : t < Len(frames),
  aborted <- terminated

\* Every behaviour of the library is one that TryCatch allows: an exception that no
\* condition matches goes on outwards, against include/README.md:155 (NoMatch).
ImplementsTryCatch == Promised!Spec
=============================================================================
