---------------------------- MODULE ExceptProofs ----------------------------
(***************************************************************************)
(* Proofs about Except, and about the exceptions on its heap               *)
(* (ExceptValues), for every set of exception types, every set of catch    *)
(* sequences and every bound.                                              *)
(***************************************************************************)
EXTENDS ExceptValues, SequenceTheorems, FiniteSetTheorems, TLAPS

(***************************************************************************)
(* What pushing, popping and updating do to a sequence.                    *)
(***************************************************************************)

\* Last and Front of a non-empty sequence: k_destroyers.top() and pop() and the
\* like on the other stacks.
LEMMA FrontLast ==
  ASSUME NEW S, NEW s \in Seq(S), s # << >>
  PROVE  /\ Len(s) \in Nat \ {0}
         /\ Last(s) = s[Len(s)]
         /\ Last(s) \in S
         /\ Front(s) \in Seq(S)
         /\ Len(Front(s)) = Len(s) - 1
         /\ \A i \in 1 .. Len(s) - 1 : Front(s)[i] = s[i]
<1>1. Len(s) \in Nat \ {0} /\ \A i \in 1 .. Len(s) : s[i] \in S
  BY EmptySeq, ElementOfSeq
<1>2. /\ SubSeq(s, 1, Len(s) - 1) \in Seq(S)
      /\ Len(SubSeq(s, 1, Len(s) - 1)) = Len(s) - 1
      /\ \A i \in 1 .. Len(s) - 1 : SubSeq(s, 1, Len(s) - 1)[i] = s[i]
  <2> DEFINE n == Len(s) - 1
  <2>1. n \in Int /\ 1 \in Int /\ \A i \in 1 .. n : s[i] \in S
    BY <1>1
  <2>2. /\ SubSeq(s, 1, n) \in Seq(S)
        /\ Len(SubSeq(s, 1, n)) = IF 1 <= n THEN n - 1 + 1 ELSE 0
        /\ \A i \in 1 .. n - 1 + 1 : SubSeq(s, 1, n)[i] = s[1 + i - 1]
    <3> HIDE DEF n
    <3>1. QED
      BY <2>1, SubSeqProperties
  <2>3. n \in Nat /\ n - 1 + 1 = n /\ (~(1 <= n) => n = 0)
    BY <1>1
  <2>4. \A i \in 1 .. n : SubSeq(s, 1, n)[i] = s[i]
    <3> HIDE DEF n
    <3> TAKE i \in 1 .. n
    <3>1. i \in 1 .. n - 1 + 1 /\ 1 + i - 1 = i
      BY <2>3
    <3>2. QED
      BY <2>2, <3>1
  <2>5. Len(SubSeq(s, 1, n)) = n
    <3> HIDE DEF n
    <3>1. QED
      BY <2>2, <2>3
  <2>6. QED
    BY <2>2, <2>4, <2>5
<1>3. QED
  BY <1>1, <1>2 DEF Front, Last

\* Front of any sequence, the empty one included, is a sequence over the same set.
LEMMA FrontType ==
  ASSUME NEW S, NEW s \in Seq(S)
  PROVE  Front(s) \in Seq(S)
<1>1. CASE s = << >>
  <2>1. Len(s) = 0
    BY <1>1, EmptySeq
  <2>2. SubSeq(s, 1, Len(s) - 1) = << >>
    BY <2>1, SubSeqEmpty
  <2>3. QED
    BY <2>2, EmptySeq DEF Front
<1>2. CASE s # << >>
  BY <1>2, FrontLast
<1>3. QED
  BY <1>1, <1>2

(***************************************************************************)
(* The inductive invariant.  The properties of Except are not inductive as *)
(* they stand: they say nothing of where a Throw call can be, nor that a   *)
(* raised or caught node holds an exception.  ControlInv adds both; the    *)
(* rest restates the properties on positions instead of sets of positions. *)
(* The lengths n, m, c and k of frames, stack, caught and k_destroyers are *)
(* parameters, so that a step of a proof can speak of a position without   *)
(* speaking of a sequence.                                                 *)
(***************************************************************************)

\* At most one Throw executes.  It is on top until it unwinds; above it there
\* are then only destructors, the objects and the TRY bodies they open.  It was
\* called inside a TRY body.  Conditions are only evaluated on top.
ControlOn(n) ==
  /\ \A t, u \in Of({"throw"}) : t = u
  /\ thrown # NoException <=> Of({"throw"}) # {}
  /\ unwinding_in_progress => Of({"throw"}) # {}
  /\ \A t \in Of({"throw"}) :
       /\ ~unwinding_in_progress => t = n
       /\ \A f \in t + 1 .. n : frames[f].kind \in {"dtor", "object", "body"}
       /\ \E f \in 1 .. t : Target(f)
  /\ \A f \in Of({"dispatch"}) : f = n

DataOn(m, c) ==
  /\ \A i \in 1 .. m : stack[i].raised => stack[i].data \in Exceptions
  /\ \A j \in 1 .. c : caught[j].data \in Exceptions

IsTry(f) == frames[f].kind \in {"body", "dispatch"}

NodesOn(n, m) ==
  /\ \A i \in 1 .. m :
       stack[i].buf \in 1 .. n /\ IsTry(stack[i].buf) /\ stack[i].depth = i - 1
  /\ \A f \in 1 .. n : IsTry(f) => \E i \in 1 .. m : stack[i].buf = f
  /\ \A i, j \in 1 .. m : i < j => stack[i].buf < stack[j].buf

RaisedOn(m) ==
  \A i \in 1 .. m :
    stack[i].raised <=> \/ frames[stack[i].buf].kind = "dispatch"
                        \/ unwinding_in_progress /\ Target(stack[i].buf)

IsCaught(f, c) == \E j \in 1 .. c : caught[j].buf = f

CaughtOn(n, m, c) ==
  /\ \A j \in 1 .. c :
       /\ caught[j].buf \in 1 .. n
       /\ frames[caught[j].buf].kind = "handler"
       /\ caught[j].depth \in 0 .. m
       /\ unwinding_in_progress => ~Left(caught[j].buf)
  /\ \A i, j \in 1 .. c : i < j => caught[i].buf < caught[j].buf
  /\ \A f \in 1 .. n : frames[f].kind = "handler" => IsCaught(f, c) \/ Left(f)
  /\ \A j \in 1 .. c, g \in 1 .. n :
       frames[g].kind = "handler" /\ g < caught[j].buf => IsCaught(g, c)
  /\ \A i \in 1 .. m, j \in 1 .. c :
       stack[i].buf < caught[j].buf <=> stack[i].depth < caught[j].depth

IsRecorded(f, k) == \E i \in 1 .. k : k_destroyers[i].at = f

RecordsOn(n, k) ==
  /\ \A i \in 1 .. k :
       /\ k_destroyers[i].at \in 1 .. n
       /\ k_destroyers[i].kind = "checkpoint" => frames[k_destroyers[i].at].kind = "body"
       /\ k_destroyers[i].kind = "object" =>
            frames[k_destroyers[i].at].kind = "object" /\ k_destroyers[i].at \in alive
  /\ \A i, j \in 1 .. k : i < j => k_destroyers[i].at < k_destroyers[j].at
  /\ \A f \in 1 .. n : frames[f].kind = "body" => IsRecorded(f, k)
  /\ \A f \in alive : f \in 1 .. n /\ frames[f].kind = "object" /\ IsRecorded(f, k)
  /\ \A f \in 1 .. n :
       frames[f].kind = "object" => f \in alive \/ (unwinding_in_progress /\ Left(f))
  /\ \A f \in alive, g \in 1 .. n :
       frames[g].kind = "object" /\ Left(f) /\ g < f => g \in alive

ControlInv == ControlOn(Len(frames))
DataInv == DataOn(Len(stack), Len(caught))
NodeInv == NodesOn(Len(frames), Len(stack))
RaisedInv == RaisedOn(Len(stack))
CaughtInv == CaughtOn(Len(frames), Len(stack), Len(caught))
RecordInv == RecordsOn(Len(frames), Len(k_destroyers))

IInv ==
  TypeOK /\ ControlInv /\ DataInv /\ NodeInv /\ RaisedInv /\ CaughtInv /\ RecordInv

-----------------------------------------------------------------------------
(* More about sequences.                                                   *)

\* Last and Front of what push made.
LEMMA Push ==
  ASSUME NEW S, NEW s \in Seq(S), NEW e \in S
  PROVE  /\ Append(s, e) \in Seq(S)
         /\ Len(Append(s, e)) = Len(s) + 1
         /\ \A i \in 1 .. Len(s) : Append(s, e)[i] = s[i]
         /\ Append(s, e)[Len(s) + 1] = e
BY AppendProperties

\* The domain of a sequence and the set its elements are in.
LEMMA Elements ==
  ASSUME NEW S, NEW s \in Seq(S)
  PROVE  /\ Len(s) \in Nat
         /\ DOMAIN s = 1 .. Len(s)
         /\ \A i \in 1 .. Len(s) : s[i] \in S
         /\ s # << >> <=> Len(s) > 0
BY LenProperties, ElementOfSeq, EmptySeq

-----------------------------------------------------------------------------
(* What the invariant says of positions.                                   *)

\* The stacks are sequences and their positions have their types.
LEMMA Positions ==
  ASSUME TypeOK
  PROVE  /\ Len(frames) \in Nat /\ DOMAIN frames = 1 .. Len(frames)
         /\ \A f \in 1 .. Len(frames) : frames[f] \in Frame
         /\ Len(stack) \in Nat /\ DOMAIN stack = 1 .. Len(stack)
         /\ \A i \in 1 .. Len(stack) : stack[i] \in Node
         /\ Len(caught) \in Nat /\ DOMAIN caught = 1 .. Len(caught)
         /\ \A j \in 1 .. Len(caught) : caught[j] \in Node
         /\ Len(k_destroyers) \in Nat /\ DOMAIN k_destroyers = 1 .. Len(k_destroyers)
         /\ \A i \in 1 .. Len(k_destroyers) : k_destroyers[i] \in Item
         /\ \A f : f \in Of({"throw"}) <=> f \in 1 .. Len(frames) /\ frames[f].kind = "throw"
         /\ \A f : f \in Of({"dispatch"}) <=> f \in 1 .. Len(frames) /\ frames[f].kind = "dispatch"
<1>1. /\ frames \in Seq(Frame) /\ stack \in Seq(Node)
      /\ caught \in Seq(Node) /\ k_destroyers \in Seq(Item)
  BY DEF TypeOK
<1>2. Len(frames) \in Nat /\ DOMAIN frames = 1 .. Len(frames)
      /\ \A f \in 1 .. Len(frames) : frames[f] \in Frame
  BY <1>1, Elements
<1>3. Len(stack) \in Nat /\ DOMAIN stack = 1 .. Len(stack)
      /\ \A i \in 1 .. Len(stack) : stack[i] \in Node
  BY <1>1, Elements
<1>4. Len(caught) \in Nat /\ DOMAIN caught = 1 .. Len(caught)
      /\ \A j \in 1 .. Len(caught) : caught[j] \in Node
  BY <1>1, Elements
<1>5. Len(k_destroyers) \in Nat /\ DOMAIN k_destroyers = 1 .. Len(k_destroyers)
      /\ \A i \in 1 .. Len(k_destroyers) : k_destroyers[i] \in Item
  BY <1>1, Elements
<1>6. QED
  BY <1>2, <1>3, <1>4, <1>5 DEF Of

\* Left and Target look at nothing but the kinds of frames up to the Throw: if
\* those stay, so do they.
LEMMA ScopesStay ==
  ASSUME TypeOK, TypeOK',
         NEW n \in Nat, n <= Len(frames), n <= Len(frames'),
         \A f \in 1 .. n : frames'[f].kind = frames[f].kind,
         \A t \in Of({"throw"}) : t <= n,
         \A t \in Of({"throw"})' : t <= n
  PROVE  /\ Of({"throw"})' = Of({"throw"})
         /\ \A f \in 1 .. n : Left(f)' <=> Left(f)
         /\ \A f \in 1 .. n : Target(f)' <=> Target(f)
<1>1. \A f : f \in Of({"throw"}) <=> f \in 1 .. Len(frames) /\ frames[f].kind = "throw"
  BY Positions
<1>2. \A f : f \in Of({"throw"})' <=> f \in 1 .. Len(frames') /\ frames'[f].kind = "throw"
  BY TypeOK' DEF TypeOK, Of
<1>3. Len(frames) \in Nat /\ Len(frames') \in Nat
  BY LenProperties DEF TypeOK
<1>4. Of({"throw"})' = Of({"throw"})
  <2>1. \A f : f \in Of({"throw"})' <=> f \in Of({"throw"})
    BY <1>1, <1>2, <1>3
  <2>2. QED
    BY <2>1, Zenon
<1>5. \A f \in 1 .. n : Left(f)' <=> Left(f)
  <2> SUFFICES ASSUME NEW f \in 1 .. n
               PROVE  Left(f)' <=> Left(f)
    OBVIOUS
  <2>1. \A t \in Of({"throw"}) : \A b \in f .. t : frames'[b].kind = frames[b].kind
    BY <1>1, <1>3
  <2>2. QED
    BY <1>4, <2>1 DEF Left
<1>6. \A f \in 1 .. n : Target(f)' <=> Target(f)
  BY <1>1, <1>3, <1>4 DEF Target
<1>7. QED
  BY <1>4, <1>5, <1>6

-----------------------------------------------------------------------------
(* What the invariant says of the top frame.                               *)

\* top() of a stack that is not empty.
LEMMA Tops ==
  ASSUME TypeOK
  PROVE  /\ frames # << >> <=> Len(frames) > 0
         /\ frames # << >> => Last(frames) = frames[Len(frames)]
         /\ stack # << >> <=> Len(stack) > 0
         /\ stack # << >> => Last(stack) = stack[Len(stack)]
         /\ caught # << >> <=> Len(caught) > 0
         /\ caught # << >> => Last(caught) = caught[Len(caught)]
         /\ k_destroyers # << >> <=> Len(k_destroyers) > 0
         /\ k_destroyers # << >> => Last(k_destroyers) = k_destroyers[Len(k_destroyers)]
<1>1. /\ frames \in Seq(Frame) /\ stack \in Seq(Node)
      /\ caught \in Seq(Node) /\ k_destroyers \in Seq(Item)
  BY DEF TypeOK
<1>2. /\ frames # << >> <=> Len(frames) > 0
      /\ stack # << >> <=> Len(stack) > 0
      /\ caught # << >> <=> Len(caught) > 0
      /\ k_destroyers # << >> <=> Len(k_destroyers) > 0
  BY <1>1, Elements
<1>3. QED
  BY <1>2 DEF Last

\* A scope is left, or was a Throw's target, only with a Throw above it.
LEMMA TopStays ==
  ASSUME TypeOK
  PROVE  ~Left(Len(frames)) /\ ~Target(Len(frames))
BY Positions DEF Left, Target

\* The node of a TRY on top is on top.
LEMMA TopTry ==
  ASSUME IInv, frames # << >>, frames[Len(frames)].kind \in {"body", "dispatch"}
  PROVE  stack # << >> /\ Last(stack).buf = Len(frames)
<1>1. TypeOK /\ NodeInv
  BY DEF IInv
<1>2. PICK i \in 1 .. Len(stack) : stack[i].buf = Len(frames)
  BY <1>1, Positions, Tops DEF NodeInv, NodesOn, IsTry
<1>3. i = Len(stack)
  <2>1. Len(stack) \in Nat /\ Len(frames) \in Nat
    BY <1>1, Positions
  <2>2. ASSUME i < Len(stack)
        PROVE  FALSE
    <3>1. Len(stack) \in 1 .. Len(stack)
      BY <2>1, <2>2
    <3>2. stack[i].buf < stack[Len(stack)].buf /\ stack[Len(stack)].buf \in 1 .. Len(frames)
      BY <1>1, <2>2, <3>1 DEF NodeInv, NodesOn
    <3>3. QED
      BY <3>2, <1>2, <2>1
  <2>3. QED
    BY <2>1, <2>2
<1>4. QED
  BY <1>1, <1>2, <1>3, Positions, Tops

\* While a handler or a catch sequence is on top nothing is being thrown.
LEMMA NothingThrown ==
  ASSUME IInv, frames # << >>, frames[Len(frames)].kind \in {"handler", "dispatch"}
  PROVE  Of({"throw"}) = {} /\ ~unwinding_in_progress /\ thrown = NoException
<1>1. TypeOK /\ ControlInv
  BY DEF IInv
<1>2. \A t \in Of({"throw"}) : FALSE
  BY <1>1, Positions, Tops DEF ControlInv, ControlOn
<1>3. Of({"throw"}) = {}
  BY <1>2
<1>4. QED
  BY <1>1, <1>3 DEF ControlInv, ControlOn

\* The node of a handler on top is on top of "caught", and the depths say so.
LEMMA TopHandler ==
  ASSUME IInv, frames # << >>, frames[Len(frames)].kind = "handler"
  PROVE  /\ caught # << >> /\ Last(caught).buf = Len(frames)
         /\ stack # << >> => InHandler /\ ~Last(stack).raised
<1>1. TypeOK /\ ControlInv /\ CaughtInv /\ NodeInv /\ RaisedInv
  BY DEF IInv
<1>2. PICK j \in 1 .. Len(caught) : caught[j].buf = Len(frames)
  BY <1>1, Positions, Tops, TopStays DEF CaughtInv, CaughtOn, IsCaught
<1>3. j = Len(caught)
  <2>1. Len(caught) \in Nat /\ Len(frames) \in Nat
    BY <1>1, Positions
  <2>2. ASSUME j < Len(caught)
        PROVE  FALSE
    <3>1. Len(caught) \in 1 .. Len(caught)
      BY <2>1, <2>2
    <3>2. caught[j].buf < caught[Len(caught)].buf /\ caught[Len(caught)].buf \in 1 .. Len(frames)
      BY <1>1, <2>2, <3>1 DEF CaughtInv, CaughtOn
    <3>3. QED
      BY <3>2, <1>2, <2>1
  <2>3. QED
    BY <2>1, <2>2
<1>4. caught # << >> /\ Last(caught).buf = Len(frames)
  BY <1>1, <1>2, <1>3, Positions, Tops
<1>5. ASSUME stack # << >>
      PROVE  InHandler /\ ~Last(stack).raised
  <2>1. /\ Len(stack) \in 1 .. Len(stack) /\ Last(stack) = stack[Len(stack)]
        /\ Len(caught) \in 1 .. Len(caught) /\ Last(caught) = caught[Len(caught)]
    BY <1>1, <1>4, <1>5, Positions, Tops
  <2>2. stack[Len(stack)].buf \in 1 .. Len(frames) /\ IsTry(stack[Len(stack)].buf)
    BY <1>1, <2>1 DEF NodeInv, NodesOn
  <2>3. stack[Len(stack)].buf < Len(frames)
    BY <2>2, <1>1, Positions DEF IsTry
  <2>4. InHandler
    BY <1>1, <1>4, <2>1, <2>3 DEF InHandler, CaughtInv, CaughtOn
  <2>5. frames[stack[Len(stack)].buf].kind # "dispatch" /\ ~unwinding_in_progress
    BY <1>1, <2>2, <2>3, Positions, NothingThrown DEF ControlInv, ControlOn
  <2>6. QED
    BY <1>1, <2>1, <2>4, <2>5 DEF RaisedInv, RaisedOn
<1>6. QED
  BY <1>4, <1>5

\* The last record is the one with the highest position.
LEMMA LastRecord ==
  ASSUME TypeOK, RecordInv,
         NEW i \in 1 .. Len(k_destroyers), k_destroyers[i].at = Len(frames)
  PROVE  k_destroyers # << >> /\ Last(k_destroyers).at = Len(frames)
<1>1. Len(k_destroyers) \in Nat /\ Len(frames) \in Nat
  BY Positions
<1>2. ASSUME i < Len(k_destroyers)
      PROVE  FALSE
  <2>1. Len(k_destroyers) \in 1 .. Len(k_destroyers)
    BY <1>1, <1>2
  <2>2. /\ k_destroyers[i].at < k_destroyers[Len(k_destroyers)].at
        /\ k_destroyers[Len(k_destroyers)].at \in 1 .. Len(frames)
    BY <1>2, <2>1 DEF RecordInv, RecordsOn
  <2>3. QED
    BY <1>1, <2>2
<1>3. i = Len(k_destroyers)
  BY <1>1, <1>2
<1>4. QED
  BY <1>1, <1>3, Tops

\* A body on top: its checkpoint is on top of k_destroyers, its node is not
\* raised, and the depths tell it from the handlers around it.
LEMMA TopBody ==
  ASSUME IInv, frames # << >>, frames[Len(frames)].kind = "body"
  PROVE  /\ stack # << >> /\ Last(stack).buf = Len(frames)
         /\ ~Last(stack).raised /\ ~InHandler
         /\ k_destroyers # << >> /\ Last(k_destroyers).at = Len(frames)
<1>1. TypeOK /\ NodeInv /\ RaisedInv /\ CaughtInv /\ RecordInv
  BY DEF IInv
<1>2. stack # << >> /\ Last(stack).buf = Len(frames)
  BY TopTry
<1>3. /\ Len(stack) \in 1 .. Len(stack) /\ Last(stack) = stack[Len(stack)]
      /\ Len(frames) \in 1 .. Len(frames)
  BY <1>1, <1>2, Positions, Tops
<1>4. ~Last(stack).raised
  <2>1. ~Target(stack[Len(stack)].buf)
    BY <1>1, <1>2, <1>3, TopStays
  <2>2. frames[stack[Len(stack)].buf].kind # "dispatch"
    BY <1>2, <1>3
  <2>3. QED
    BY <1>1, <1>3, <2>1, <2>2 DEF RaisedInv, RaisedOn
<1>5. ~InHandler
  <2>1. SUFFICES ASSUME caught # << >>, Last(stack).depth < Last(caught).depth
                 PROVE  FALSE
    BY DEF InHandler
  <2>2. Len(caught) \in 1 .. Len(caught) /\ Last(caught) = caught[Len(caught)]
    BY <1>1, <2>1, Positions, Tops
  <2>3. stack[Len(stack)].buf < caught[Len(caught)].buf
    BY <1>1, <1>3, <2>1, <2>2 DEF CaughtInv, CaughtOn
  <2>4. caught[Len(caught)].buf \in 1 .. Len(frames)
    BY <1>1, <2>2 DEF CaughtInv, CaughtOn
  <2>5. QED
    BY <1>1, <1>2, <1>3, <2>3, <2>4, Positions
<1>6. k_destroyers # << >> /\ Last(k_destroyers).at = Len(frames)
  <2>1. PICK i \in 1 .. Len(k_destroyers) : k_destroyers[i].at = Len(frames)
    BY <1>1, <1>3 DEF RecordInv, RecordsOn, IsRecorded
  <2>2. QED
    BY <1>1, <2>1, LastRecord
<1>7. QED
  BY <1>2, <1>4, <1>5, <1>6

\* An object on top: it is alive and its destroyer is on top of k_destroyers.
LEMMA TopObject ==
  ASSUME IInv, frames # << >>, frames[Len(frames)].kind = "object"
  PROVE  /\ Len(frames) \in alive
         /\ k_destroyers # << >> /\ Last(k_destroyers).at = Len(frames)
<1>1. TypeOK /\ RecordInv
  BY DEF IInv
<1>2. Len(frames) \in 1 .. Len(frames)
  BY <1>1, Positions, Tops
<1>3. Len(frames) \in alive
  BY <1>1, <1>2, TopStays DEF RecordInv, RecordsOn
<1>4. PICK i \in 1 .. Len(k_destroyers) : k_destroyers[i].at = Len(frames)
  BY <1>1, <1>3 DEF RecordInv, RecordsOn, IsRecorded
<1>5. QED
  BY <1>1, <1>3, <1>4, LastRecord

\* While Throw is on top: its target is the TRY body of the top node, and it
\* leaves exactly what lies above it.
LEMMA UnderThrow ==
  ASSUME IInv, frames # << >>, frames[Len(frames)].kind = "throw"
  PROVE  LET buf == Last(stack).buf
         IN  /\ stack # << >>
             /\ buf \in 1 .. Len(frames) - 1
             /\ frames[buf].kind = "body"
             /\ \A f \in buf + 1 .. Len(frames) : frames[f].kind # "body"
             /\ \A f \in 1 .. Len(frames) : Left(f) <=> buf < f /\ f < Len(frames)
             /\ \A f \in 1 .. Len(frames) : Target(f) <=> f = buf
             /\ Of({"throw"}) = {Len(frames)}
<1>1. TypeOK /\ ControlInv /\ NodeInv
  BY DEF IInv
<1>2. Len(frames) \in Nat /\ Len(frames) > 0 /\ Len(stack) \in Nat
  BY <1>1, Positions, Tops
<1>3. \A t : t \in Of({"throw"}) <=> t = Len(frames)
  BY <1>1, <1>2, Positions DEF ControlInv, ControlOn
<1>4. PICK f \in 1 .. Len(frames) : Target(f)
  BY <1>1, <1>3 DEF ControlInv, ControlOn
<1>5. /\ frames[f].kind = "body" /\ f < Len(frames)
      /\ \A b \in f + 1 .. Len(frames) : frames[b].kind # "body"
  BY <1>3, <1>4 DEF Target
<1>6. PICK i \in 1 .. Len(stack) : stack[i].buf = f
  BY <1>1, <1>5 DEF NodeInv, NodesOn, IsTry
<1>7. \A d \in 1 .. Len(frames) : frames[d].kind # "dispatch"
  BY <1>1, <1>2, Positions DEF ControlInv, ControlOn
<1>8. i = Len(stack)
  <2>1. ASSUME i < Len(stack)
        PROVE  FALSE
    <3>1. Len(stack) \in 1 .. Len(stack)
      BY <1>2, <2>1
    <3>2. /\ stack[i].buf < stack[Len(stack)].buf /\ stack[Len(stack)].buf \in 1 .. Len(frames)
          /\ IsTry(stack[Len(stack)].buf)
      BY <1>1, <2>1, <3>1 DEF NodeInv, NodesOn
    <3>3. frames[stack[Len(stack)].buf].kind = "body"
      BY <1>7, <3>2 DEF IsTry
    <3>4. QED
      BY <1>2, <1>5, <1>6, <3>2, <3>3
  <2>2. QED
    BY <1>2, <2>1
<1>9. stack # << >> /\ Last(stack).buf = f
  BY <1>1, <1>2, <1>6, <1>8, Tops
<1>10. \A g \in 1 .. Len(frames) : Left(g) <=> f < g /\ g < Len(frames)
  BY <1>2, <1>3, <1>5 DEF Left
<1>11. \A g \in 1 .. Len(frames) : Target(g) <=> g = f
  BY <1>2, <1>3, <1>5 DEF Target
<1>12. Of({"throw"}) = {Len(frames)}
  BY <1>3
<1>13. QED
  BY <1>2, <1>5, <1>9, <1>10, <1>11, <1>12

-----------------------------------------------------------------------------
(* One lemma for every action.                                             *)

\* The client's code runs: no catch sequence is being evaluated, and a Throw
\* that executes is unwinding.
LEMMA ClientRuns ==
  ASSUME IInv, Running
  PROVE  /\ Of({"dispatch"}) = {}
         /\ \A t \in Of({"throw"}) : unwinding_in_progress /\ t < Len(frames)
<1>1. TypeOK /\ ControlInv
  BY DEF IInv
<1>2. Len(frames) > 0 => frames[Len(frames)].kind \in ClientKinds
  BY <1>1, Tops DEF Running
<1>3. \A f \in Of({"dispatch"}) : FALSE
  BY <1>1, <1>2, Positions DEF ControlInv, ControlOn, ClientKinds
<1>4. \A t \in Of({"throw"}) : unwinding_in_progress /\ t < Len(frames)
  BY <1>1, <1>2, Positions DEF ControlInv, ControlOn, ClientKinds
<1>5. QED
  BY <1>3, <1>4

\* A frame opened above everything, by the client or by a Throw that unwinds.
LEMMA PushFrame ==
  ASSUME TypeOK, TypeOK', ControlInv, NEW n \in Nat, n = Len(frames), Len(frames') = n + 1,
         \A f \in 1 .. n : frames'[f] = frames[f],
         frames'[n + 1].kind \in {"body", "object", "dtor"},
         UNCHANGED <<thrown, unwinding_in_progress>>,
         Of({"dispatch"}) = {}, \A t \in Of({"throw"}) : unwinding_in_progress
  PROVE  /\ ControlOn(n + 1)'
         /\ \A f \in 1 .. n : (Left(f)' <=> Left(f)) /\ (Target(f)' <=> Target(f))
         /\ ~Left(n + 1)' /\ ~Target(n + 1)'
<1>1. /\ \A f : f \in Of({"throw"})' <=> f \in 1 .. n + 1 /\ frames'[f].kind = "throw"
      /\ \A f : f \in Of({"dispatch"})' <=> f \in 1 .. n + 1 /\ frames'[f].kind = "dispatch"
      /\ \A f : f \in Of({"throw"}) <=> f \in 1 .. n /\ frames[f].kind = "throw"
      /\ \A f : f \in 1 .. n => frames[f].kind # "dispatch"
  <2>1. DOMAIN frames' = 1 .. n + 1
    BY LenProperties DEF TypeOK
  <2>2. QED
    BY <2>1, Positions DEF Of
<1>2. /\ Of({"throw"})' = Of({"throw"})
      /\ \A f \in 1 .. n : (Left(f)' <=> Left(f)) /\ (Target(f)' <=> Target(f))
  <2>1. \A t \in Of({"throw"}) : t <= n
    BY <1>1
  <2>2. \A t \in Of({"throw"})' : t <= n
    BY <1>1
  <2>3. n <= Len(frames) /\ n <= Len(frames')
    OBVIOUS
  <2>4. QED
    BY <2>1, <2>2, <2>3, ScopesStay
<1>3. ~Left(n + 1)' /\ ~Target(n + 1)'
  BY <1>1 DEF Left, Target
<1>4. ControlOn(n + 1)'
  <2>1. Of({"dispatch"})' = {}
    BY <1>1
  <2>2. ControlOn(n)
    BY DEF ControlInv
  <2>3. \A t \in Of({"throw"}) : \E f \in 1 .. t : Target(f)'
    <3> SUFFICES ASSUME NEW t \in Of({"throw"})
                 PROVE  \E f \in 1 .. t : Target(f)'
      OBVIOUS
    <3>1. PICK f \in 1 .. t : Target(f)
      BY <2>2 DEF ControlOn
    <3>2. f \in 1 .. n
      BY <1>1
    <3>3. QED
      BY <1>2, <3>1, <3>2
  <2>4. \A t \in Of({"throw"}) : \A f \in t + 1 .. n + 1 :
            frames'[f].kind \in {"dtor", "object", "body"}
    BY <1>1, <2>2 DEF ControlOn
  <2>5. QED
    BY <1>2, <2>1, <2>2, <2>3, <2>4 DEF ControlOn
<1>5. QED
  BY <1>2, <1>3, <1>4

\* Entering a TRY pushes its node, its record and its frame together.
LEMMA StartTryStep ==
  ASSUME IInv, NEW clauses \in CatchSequences, StartTry(clauses)
  PROVE  IInv'
<1>1. TypeOK /\ ControlInv /\ DataInv /\ NodeInv /\ RaisedInv /\ CaughtInv /\ RecordInv
  BY DEF IInv
<1>2. PICK n \in Nat, m \in Nat, c \in Nat, k \in Nat :
        n = Len(frames) /\ m = Len(stack) /\ c = Len(caught) /\ k = Len(k_destroyers)
  BY <1>1, Positions
<1>3. /\ frames' = Append(frames, NewFrame("body", clauses))
      /\ stack' = Append(stack, NewNode(n + 1, m))
      /\ k_destroyers' = Append(k_destroyers, Checkpoint(n + 1))
      /\ UNCHANGED <<thrown, alive, terminated, caught, unwinding_in_progress>>
      /\ Running
  BY <1>2 DEF StartTry, Here, CanOpenScope
<1>4. /\ frames \in Seq(Frame) /\ NewFrame("body", clauses) \in Frame
      /\ stack \in Seq(Node) /\ NewNode(n + 1, m) \in Node
      /\ k_destroyers \in Seq(Item) /\ Checkpoint(n + 1) \in Item
  BY <1>1 DEF TypeOK, NewFrame, Frame, FrameKinds, ClientKinds, NewNode, Node,
              Checkpoint, Item
<1>5. /\ Len(frames') = n + 1 /\ Len(stack') = m + 1 /\ Len(caught') = c
      /\ Len(k_destroyers') = k + 1
  BY <1>2, <1>3, <1>4, Push
<1>6. (\A f \in 1 .. n : frames'[f] = frames[f]) /\ frames'[n + 1].kind = "body"
  BY <1>2, <1>3, <1>4, Push DEF NewFrame
<1>7. /\ \A i \in 1 .. m : stack'[i] = stack[i]
      /\ stack'[m + 1].buf = n + 1 /\ stack'[m + 1].depth = m /\ ~stack'[m + 1].raised
  BY <1>2, <1>3, <1>4, Push DEF NewNode
<1>8. /\ \A i \in 1 .. k : k_destroyers'[i] = k_destroyers[i]
      /\ k_destroyers'[k + 1].at = n + 1 /\ k_destroyers'[k + 1].kind = "checkpoint"
  BY <1>2, <1>3, <1>4, Push DEF Checkpoint
<1>9. TypeOK'
  BY <1>1, <1>3, <1>4, Push DEF TypeOK
<1>10. /\ ControlOn(n + 1)'
       /\ \A f \in 1 .. n : (Left(f)' <=> Left(f)) /\ (Target(f)' <=> Target(f))
       /\ ~Left(n + 1)' /\ ~Target(n + 1)'
  BY <1>1, <1>2, <1>3, <1>5, <1>6, <1>9, ClientRuns, PushFrame
<1>11. /\ DataOn(m, c) /\ NodesOn(n, m) /\ RaisedOn(m) /\ CaughtOn(n, m, c) /\ RecordsOn(n, k)
  BY <1>1, <1>2 DEF DataInv, NodeInv, RaisedInv, CaughtInv, RecordInv
<1>12. caught' = caught /\ alive' = alive /\ unwinding_in_progress' = unwinding_in_progress
  BY <1>3
<1>13. DataOn(m + 1, c)'
  BY <1>7, <1>11, <1>12 DEF DataOn
<1>14. NodesOn(n + 1, m + 1)'
  <2>1. \A i \in 1 .. m :
          /\ stack'[i].buf \in 1 .. n /\ stack'[i].depth = i - 1
          /\ frames'[stack'[i].buf].kind \in {"body", "dispatch"}
    BY <1>6, <1>7, <1>11 DEF NodesOn, IsTry
  <2>2. \A i \in 1 .. m + 1 : i \in 1 .. m \/ i = m + 1
    OBVIOUS
  <2>3. \A i \in 1 .. m + 1 :
          /\ stack'[i].buf \in 1 .. n + 1 /\ stack'[i].depth = i - 1
          /\ frames'[stack'[i].buf].kind \in {"body", "dispatch"}
    BY <1>6, <1>7, <2>1, <2>2
  <2>4. \A f \in 1 .. n + 1 : IsTry(f)' => \E i \in 1 .. m + 1 : stack'[i].buf = f
    <3> SUFFICES ASSUME NEW f \in 1 .. n + 1, IsTry(f)'
                 PROVE  \E i \in 1 .. m + 1 : stack'[i].buf = f
      OBVIOUS
    <3>1. CASE f = n + 1
      <4>1. m + 1 \in 1 .. m + 1
        OBVIOUS
      <4>2. QED
        BY <1>7, <3>1, <4>1
    <3>2. CASE f \in 1 .. n
      <4>1. PICK i \in 1 .. m : stack[i].buf = f
        BY <1>6, <1>11, <3>2 DEF NodesOn, IsTry
      <4>2. i \in 1 .. m + 1
        OBVIOUS
      <4>3. QED
        BY <1>7, <4>1, <4>2
    <3>3. QED
      BY <3>1, <3>2
  <2>5. \A i, j \in 1 .. m : i < j => stack'[i].buf < stack'[j].buf
    BY <1>7, <1>11 DEF NodesOn
  <2>6. \A i, j \in 1 .. m + 1 : i < j => stack'[i].buf < stack'[j].buf
    BY <1>7, <2>1, <2>2, <2>5
  <2>7. QED
    BY <2>3, <2>4, <2>6 DEF NodesOn, IsTry
<1>15. RaisedOn(m + 1)'
  <2> SUFFICES ASSUME NEW i \in 1 .. m + 1
               PROVE  stack'[i].raised <=>
                        \/ frames'[stack'[i].buf].kind = "dispatch"
                        \/ unwinding_in_progress' /\ Target(stack[i].buf)'
    BY DEF RaisedOn
  <2>1. CASE i \in 1 .. m
    BY <1>6, <1>7, <1>10, <1>11, <1>12, <2>1 DEF RaisedOn, NodesOn
  <2>2. CASE i = m + 1
    BY <1>6, <1>7, <1>10, <2>2
  <2>3. QED
    BY <2>1, <2>2
<1>16. CaughtOn(n + 1, m + 1, c)'
  <2>1. \A j \in 1 .. c :
          /\ caught[j].buf \in 1 .. n /\ caught[j].depth \in 0 .. m
          /\ frames'[caught[j].buf].kind = "handler"
          /\ unwinding_in_progress => ~Left(caught[j].buf)'
    BY <1>6, <1>10, <1>11, <1>12 DEF CaughtOn
  <2>2. \A f \in 1 .. n + 1 :
          frames'[f].kind = "handler" =>
            f \in 1 .. n /\ frames[f].kind = "handler" /\ (Left(f)' <=> Left(f))
    BY <1>6, <1>10
  <2>3. \A i \in 1 .. m + 1, j \in 1 .. c :
          stack'[i].buf < caught[j].buf <=> stack'[i].depth < caught[j].depth
    <3> SUFFICES ASSUME NEW i \in 1 .. m + 1, NEW j \in 1 .. c
                 PROVE  stack'[i].buf < caught[j].buf <=> stack'[i].depth < caught[j].depth
      OBVIOUS
    <3>1. CASE i \in 1 .. m
      BY <1>7, <1>11, <3>1 DEF CaughtOn
    <3>2. CASE i = m + 1
      BY <1>7, <2>1, <3>2
    <3>3. QED
      BY <3>1, <3>2
  <2>4. \A f : IsCaught(f, c)' <=> IsCaught(f, c)
    BY <1>12 DEF IsCaught
  <2>5. /\ \A f \in 1 .. n : frames[f].kind = "handler" => IsCaught(f, c) \/ Left(f)
        /\ \A i, j \in 1 .. c : i < j => caught[i].buf < caught[j].buf
        /\ \A j \in 1 .. c, g \in 1 .. n :
             frames[g].kind = "handler" /\ g < caught[j].buf => IsCaught(g, c)
    BY <1>11 DEF CaughtOn
  <2>6. \A j \in 1 .. c : caught[j].buf \in 1 .. n + 1 /\ caught[j].depth \in 0 .. m + 1
    BY <2>1
  <2>7. QED
    BY <1>12, <2>1, <2>2, <2>3, <2>4, <2>5, <2>6 DEF CaughtOn
<1>17. RecordsOn(n + 1, k + 1)'
  <2>1. /\ \A i \in 1 .. k + 1 : i \in 1 .. k \/ i = k + 1
        /\ \A f \in 1 .. n + 1 : f \in 1 .. n \/ f = n + 1
        /\ k + 1 \in 1 .. k + 1 /\ n + 1 \in 1 .. n + 1
    OBVIOUS
  <2>2. \A i \in 1 .. k :
          /\ k_destroyers'[i].at \in 1 .. n
          /\ k_destroyers'[i].kind = "checkpoint" =>
               frames'[k_destroyers'[i].at].kind = "body"
          /\ k_destroyers'[i].kind = "object" =>
               frames'[k_destroyers'[i].at].kind = "object" /\ k_destroyers'[i].at \in alive
    BY <1>6, <1>8, <1>11 DEF RecordsOn
  <2>3. \A i \in 1 .. k + 1 :
          /\ k_destroyers'[i].at \in 1 .. n + 1
          /\ k_destroyers'[i].kind = "checkpoint" =>
               frames'[k_destroyers'[i].at].kind = "body"
          /\ k_destroyers'[i].kind = "object" =>
               frames'[k_destroyers'[i].at].kind = "object" /\ k_destroyers'[i].at \in alive
    BY <1>6, <1>8, <2>1, <2>2
  <2>4. \A i, j \in 1 .. k : i < j => k_destroyers'[i].at < k_destroyers'[j].at
    BY <1>8, <1>11 DEF RecordsOn
  <2>5. \A i, j \in 1 .. k + 1 : i < j => k_destroyers'[i].at < k_destroyers'[j].at
    BY <1>8, <2>1, <2>2, <2>4
  <2>6. \A f : IsRecorded(f, k) => IsRecorded(f, k + 1)'
    BY <1>8 DEF IsRecorded
  <2>7. IsRecorded(n + 1, k + 1)'
    BY <1>8, <2>1 DEF IsRecorded
  <2>8. /\ \A f \in 1 .. n : frames[f].kind = "body" => IsRecorded(f, k)
        /\ \A f \in alive : f \in 1 .. n /\ frames[f].kind = "object" /\ IsRecorded(f, k)
        /\ \A f \in 1 .. n :
             frames[f].kind = "object" => f \in alive \/ (unwinding_in_progress /\ Left(f))
        /\ \A f \in alive, g \in 1 .. n :
             frames[g].kind = "object" /\ Left(f) /\ g < f => g \in alive
    BY <1>11 DEF RecordsOn
  <2>9. \A f \in 1 .. n + 1 : frames'[f].kind = "body" => IsRecorded(f, k + 1)'
    BY <1>6, <2>1, <2>6, <2>7, <2>8
  <2>10. \A f \in alive :
           f \in 1 .. n + 1 /\ frames'[f].kind = "object" /\ IsRecorded(f, k + 1)'
    BY <1>6, <2>6, <2>8
  <2>11. \A f \in 1 .. n + 1 :
           frames'[f].kind = "object" => f \in alive \/ (unwinding_in_progress /\ Left(f)')
    BY <1>6, <1>10, <2>1, <2>8
  <2>12. \A f \in alive, g \in 1 .. n + 1 :
           frames'[g].kind = "object" /\ Left(f)' /\ g < f => g \in alive
    BY <1>6, <1>10, <2>1, <2>8
  <2>13. QED
    BY <1>12, <2>3, <2>5, <2>9, <2>10, <2>11, <2>12 DEF RecordsOn
<1>18. QED
  BY <1>5, <1>9, <1>10, <1>13, <1>14, <1>15, <1>16, <1>17
     DEF IInv, ControlInv, DataInv, NodeInv, RaisedInv, CaughtInv, RecordInv

\* Constructing an object that derives from RAII records it.
LEMMA RecordObjectStep ==
  ASSUME IInv, RecordObject
  PROVE  IInv'
<1>1. TypeOK /\ ControlInv /\ DataInv /\ NodeInv /\ RaisedInv /\ CaughtInv /\ RecordInv
  BY DEF IInv
<1>2. PICK n \in Nat, m \in Nat, c \in Nat, k \in Nat :
        n = Len(frames) /\ m = Len(stack) /\ c = Len(caught) /\ k = Len(k_destroyers)
  BY <1>1, Positions
<1>3. /\ frames' = Append(frames, NewFrame("object", << >>))
      /\ k_destroyers' = Append(k_destroyers, Destroyer(n + 1))
      /\ alive' = alive \cup {n + 1}
      /\ UNCHANGED <<thrown, terminated, stack, caught, unwinding_in_progress>>
      /\ Running
  BY <1>2 DEF RecordObject, Here, CanOpenScope
<1>4. /\ frames \in Seq(Frame) /\ NewFrame("object", << >>) \in Frame
      /\ k_destroyers \in Seq(Item) /\ Destroyer(n + 1) \in Item
  BY <1>1 DEF TypeOK, NewFrame, Frame, FrameKinds, ClientKinds, Destroyer, Item
<1>5. /\ Len(frames') = n + 1 /\ Len(stack') = m /\ Len(caught') = c
      /\ Len(k_destroyers') = k + 1
  BY <1>2, <1>3, <1>4, Push
<1>6. (\A f \in 1 .. n : frames'[f] = frames[f]) /\ frames'[n + 1].kind = "object"
  BY <1>2, <1>3, <1>4, Push DEF NewFrame
<1>7. /\ \A i \in 1 .. k : k_destroyers'[i] = k_destroyers[i]
      /\ k_destroyers'[k + 1].at = n + 1 /\ k_destroyers'[k + 1].kind = "object"
  BY <1>2, <1>3, <1>4, Push DEF Destroyer
<1>8. TypeOK'
  <2>1. frames' \in Seq(Frame) /\ k_destroyers' \in Seq(Item)
    BY <1>3, <1>4, Push
  <2>2. alive' \subseteq Nat
    BY <1>1, <1>3 DEF TypeOK
  <2>3. QED
    BY <1>1, <1>3, <2>1, <2>2 DEF TypeOK
<1>9. /\ ControlOn(n + 1)'
      /\ \A f \in 1 .. n : (Left(f)' <=> Left(f)) /\ (Target(f)' <=> Target(f))
      /\ ~Left(n + 1)' /\ ~Target(n + 1)'
  BY <1>1, <1>2, <1>3, <1>5, <1>6, <1>8, ClientRuns, PushFrame
<1>10. /\ DataOn(m, c) /\ NodesOn(n, m) /\ RaisedOn(m) /\ CaughtOn(n, m, c) /\ RecordsOn(n, k)
  BY <1>1, <1>2 DEF DataInv, NodeInv, RaisedInv, CaughtInv, RecordInv
<1>11. stack' = stack /\ caught' = caught /\ unwinding_in_progress' = unwinding_in_progress
  BY <1>3
<1>12. DataOn(m, c)'
  BY <1>10, <1>11 DEF DataOn
<1>13. NodesOn(n + 1, m)'
  BY <1>6, <1>10, <1>11 DEF NodesOn, IsTry
<1>14. RaisedOn(m)'
  BY <1>6, <1>9, <1>10, <1>11 DEF RaisedOn, NodesOn
<1>15. CaughtOn(n + 1, m, c)'
  BY <1>6, <1>9, <1>10, <1>11 DEF CaughtOn, IsCaught
<1>16. RecordsOn(n + 1, k + 1)'
  <2>1. alive' = alive \cup {n + 1}
    BY <1>3
  <2>2. QED
    BY <1>6, <1>7, <1>9, <1>10, <1>11, <2>1 DEF RecordsOn, IsRecorded
<1>17. QED
  BY <1>5, <1>8, <1>9, <1>12, <1>13, <1>14, <1>15, <1>16
     DEF IInv, ControlInv, DataInv, NodeInv, RaisedInv, CaughtInv, RecordInv

\* An object of the innermost scope is destroyed and its record dropped.
LEMMA DestroyObjectStep ==
  ASSUME IInv, DestroyObject
  PROVE  IInv'
<1>1. TypeOK /\ ControlInv /\ DataInv /\ NodeInv /\ RaisedInv /\ CaughtInv /\ RecordInv
  BY DEF IInv
<1>2. PICK n \in Nat, m \in Nat, c \in Nat, k \in Nat :
        n = Len(frames) /\ m = Len(stack) /\ c = Len(caught) /\ k = Len(k_destroyers)
  BY <1>1, Positions
<1>3. /\ frames # << >> /\ frames[n].kind = "throw" /\ n > 0
      /\ k_destroyers # << >> /\ k > 0 /\ Last(k_destroyers) = k_destroyers[k]
      /\ unwinding_in_progress /\ k_destroyers[k].kind = "object"
  BY <1>1, <1>2, Tops DEF DestroyObject, TopIs
<1>4. /\ frames' = Append(frames, NewFrame("dtor", << >>))
      /\ k_destroyers' = Front(k_destroyers)
      /\ alive' = alive \ {k_destroyers[k].at}
      /\ UNCHANGED <<thrown, terminated, stack, caught, unwinding_in_progress>>
  BY <1>3 DEF DestroyObject
<1>5. /\ frames \in Seq(Frame) /\ NewFrame("dtor", << >>) \in Frame
      /\ k_destroyers \in Seq(Item)
  BY <1>1 DEF TypeOK, NewFrame, Frame, FrameKinds, ClientKinds
<1>6. /\ Len(frames') = n + 1 /\ Len(stack') = m /\ Len(caught') = c
      /\ Len(k_destroyers') = k - 1
  BY <1>2, <1>3, <1>4, <1>5, Push, FrontLast
<1>7. (\A f \in 1 .. n : frames'[f] = frames[f]) /\ frames'[n + 1].kind = "dtor"
  BY <1>2, <1>4, <1>5, Push DEF NewFrame
<1>8. \A i \in 1 .. k - 1 : k_destroyers'[i] = k_destroyers[i]
  BY <1>2, <1>3, <1>4, <1>5, FrontLast
<1>9. TypeOK'
  BY <1>1, <1>3, <1>4, <1>5, Push, FrontLast DEF TypeOK
<1>10. /\ ControlOn(n + 1)'
       /\ \A f \in 1 .. n : (Left(f)' <=> Left(f)) /\ (Target(f)' <=> Target(f))
       /\ ~Left(n + 1)' /\ ~Target(n + 1)'
  <2>1. Of({"dispatch"}) = {}
    BY <1>1, <1>2, <1>3, Positions DEF ControlInv, ControlOn
  <2>2. QED
    BY <1>1, <1>2, <1>3, <1>4, <1>6, <1>7, <1>9, <2>1, PushFrame
<1>11. /\ DataOn(m, c) /\ NodesOn(n, m) /\ RaisedOn(m) /\ CaughtOn(n, m, c) /\ RecordsOn(n, k)
  BY <1>1, <1>2 DEF DataInv, NodeInv, RaisedInv, CaughtInv, RecordInv
<1>12. stack' = stack /\ caught' = caught /\ unwinding_in_progress' = unwinding_in_progress
  BY <1>4
<1>13. DataOn(m, c)'
  BY <1>11, <1>12 DEF DataOn
<1>14. NodesOn(n + 1, m)'
  BY <1>7, <1>11, <1>12 DEF NodesOn, IsTry
<1>15. RaisedOn(m)'
  BY <1>7, <1>10, <1>11, <1>12 DEF RaisedOn, NodesOn
<1>16. CaughtOn(n + 1, m, c)'
  BY <1>7, <1>10, <1>11, <1>12 DEF CaughtOn, IsCaught
<1>17. RecordsOn(n + 1, k - 1)'
  <2> DEFINE o == k_destroyers[k].at
  <2>1. /\ o \in 1 .. n /\ frames[o].kind = "object" /\ o \in alive
        /\ \A i \in 1 .. k - 1 : k_destroyers[i].at < o /\ k_destroyers[i].at # o
    BY <1>3, <1>11 DEF RecordsOn
  <2>2. PICK b \in 1 .. n - 1 :
          /\ frames[b].kind = "body" /\ (\A f \in b + 1 .. n : frames[f].kind # "body")
          /\ \A f \in 1 .. n : Left(f) <=> b < f /\ f < n
    BY <1>2, <1>3, UnderThrow
  <2>3. b < o
    <3>1. PICK i \in 1 .. k : k_destroyers[i].at = b
      BY <1>2, <1>11, <2>2 DEF RecordsOn, IsRecorded
    <3>2. QED
      BY <1>2, <1>3, <2>1, <2>2, <3>1
  <2>4. Left(o)
    BY <1>2, <1>3, <2>1, <2>2, <2>3
  <2>5. alive' = alive \ {o}
    BY <1>4
  <2>6. \A i \in 1 .. k : i \in 1 .. k - 1 \/ i = k
    BY <1>2
  <2> HIDE DEF o
  <2>7. \A f \in alive' : f \in 1 .. n + 1 /\ frames'[f].kind = "object" /\ IsRecorded(f, k - 1)' /\ f < o
    BY <1>7, <1>8, <1>11, <2>1, <2>5, <2>6 DEF RecordsOn, IsRecorded, o
  <2>8. \A f \in 1 .. n + 1 : frames'[f].kind = "body" => IsRecorded(f, k - 1)'
    BY <1>7, <1>8, <1>11, <2>1, <2>6 DEF RecordsOn, IsRecorded, o
  <2>9. \A f \in 1 .. n + 1 : frames'[f].kind = "object" =>
            f \in alive' \/ (unwinding_in_progress' /\ Left(f)')
    <3> SUFFICES ASSUME NEW f \in 1 .. n + 1, frames'[f].kind = "object"
                 PROVE  f \in alive' \/ (unwinding_in_progress' /\ Left(f)')
      OBVIOUS
    <3>1. f \in 1 .. n /\ frames[f].kind = "object"
      BY <1>7
    <3>2. CASE f = o
      BY <1>3, <1>10, <1>12, <2>4, <3>1, <3>2
    <3>3. CASE f # o
      BY <1>3, <1>10, <1>11, <1>12, <2>5, <3>1, <3>3 DEF RecordsOn
    <3>4. QED
      BY <3>2, <3>3
  <2>10. \A f \in alive', g \in 1 .. n + 1 :
            frames'[g].kind = "object" /\ Left(f)' /\ g < f => g \in alive'
    BY <1>7, <1>10, <1>11, <2>1, <2>5, <2>7 DEF RecordsOn
  <2>11. \A i \in 1 .. k - 1 :
           /\ k_destroyers'[i].at \in 1 .. n + 1
           /\ k_destroyers'[i].kind = "checkpoint" => frames'[k_destroyers'[i].at].kind = "body"
           /\ k_destroyers'[i].kind = "object" =>
                frames'[k_destroyers'[i].at].kind = "object" /\ k_destroyers'[i].at \in alive'
    BY <1>7, <1>8, <1>11, <2>1, <2>5 DEF RecordsOn
  <2>12. \A i, j \in 1 .. k - 1 : i < j => k_destroyers'[i].at < k_destroyers'[j].at
    BY <1>8, <1>11 DEF RecordsOn
  <2>13. QED
    BY <2>7, <2>8, <2>9, <2>10, <2>11, <2>12 DEF RecordsOn
<1>18. QED
  BY <1>6, <1>9, <1>10, <1>13, <1>14, <1>15, <1>16, <1>17
     DEF IInv, ControlInv, DataInv, NodeInv, RaisedInv, CaughtInv, RecordInv

\* A length that is not zero.
LEMMA Predecessor ==
  ASSUME NEW x \in Nat, x > 0
  PROVE  \E n \in Nat : n + 1 = x
<1>1. x - 1 \in Nat /\ x - 1 + 1 = x
  OBVIOUS
<1>2. QED
  BY <1>1

\* The top frame, no Throw, changes its kind or is popped.
LEMMA ChangeTop ==
  ASSUME TypeOK, TypeOK', ControlInv,
         NEW n \in Nat, Len(frames) = n + 1, NEW p \in {n, n + 1}, Len(frames') = p,
         \A f \in 1 .. n : frames'[f] = frames[f],
         frames[n + 1].kind # "throw",
         p = n + 1 => /\ frames'[p].kind # "throw"
                      /\ frames'[p].kind \in {"dtor", "object", "body"} \/ Of({"throw"}) = {},
         UNCHANGED <<thrown, unwinding_in_progress>>
  PROVE  /\ ControlOn(p)'
         /\ \A f \in 1 .. n : (Left(f)' <=> Left(f)) /\ (Target(f)' <=> Target(f))
         /\ ~Left(n + 1)'
<1>1. /\ \A f : f \in Of({"throw"})' <=> f \in 1 .. p /\ frames'[f].kind = "throw"
      /\ \A f : f \in Of({"dispatch"})' <=> f \in 1 .. p /\ frames'[f].kind = "dispatch"
      /\ \A f : f \in Of({"throw"}) <=> f \in 1 .. n + 1 /\ frames[f].kind = "throw"
      /\ \A f : f \in Of({"dispatch"}) <=> f \in 1 .. n + 1 /\ frames[f].kind = "dispatch"
  <2>1. DOMAIN frames' = 1 .. p
    BY LenProperties DEF TypeOK
  <2>2. QED
    BY <2>1, Positions DEF Of
<1>2. ControlOn(n + 1)
  BY DEF ControlInv
<1>3. /\ \A t \in Of({"throw"}) : t <= n
      /\ \A t \in Of({"throw"})' : t <= n
  BY <1>1
<1>4. /\ Of({"throw"})' = Of({"throw"})
      /\ \A f \in 1 .. n : (Left(f)' <=> Left(f)) /\ (Target(f)' <=> Target(f))
  <2>1. n <= Len(frames) /\ n <= Len(frames')
    OBVIOUS
  <2>2. QED
    BY <1>3, <2>1, ScopesStay
<1>5. ~Left(n + 1)'
  BY <1>1, <1>3 DEF Left
<1>6. ControlOn(p)'
  <2>1. \A f \in Of({"dispatch"})' : f = p
    BY <1>1, <1>2 DEF ControlOn
  <2>2. \A t \in Of({"throw"}) : \E f \in 1 .. t : Target(f)'
    <3> SUFFICES ASSUME NEW t \in Of({"throw"})
                 PROVE  \E f \in 1 .. t : Target(f)'
      OBVIOUS
    <3>1. PICK f \in 1 .. t : Target(f)
      BY <1>2 DEF ControlOn
    <3>2. f \in 1 .. n
      BY <1>1, <1>3
    <3>3. QED
      BY <1>4, <3>1, <3>2
  <2>3. \A t \in Of({"throw"}) : \A f \in t + 1 .. p :
            frames'[f].kind \in {"dtor", "object", "body"}
    <3> SUFFICES ASSUME NEW t \in Of({"throw"}), NEW f \in t + 1 .. p
                 PROVE  frames'[f].kind \in {"dtor", "object", "body"}
      OBVIOUS
    <3>1. CASE f \in 1 .. n
      BY <1>2, <3>1 DEF ControlOn
    <3>2. CASE f = n + 1
      BY <3>2
    <3>3. QED
      BY <1>1, <3>1, <3>2
  <2>4. \A t \in Of({"throw"}) : unwinding_in_progress
    BY <1>2, <1>3 DEF ControlOn
  <2>5. QED
    BY <1>2, <1>4, <2>1, <2>2, <2>3, <2>4 DEF ControlOn
<1>7. QED
  BY <1>4, <1>5, <1>6

\* Front of a sequence whose length is known.
LEMMA Pop ==
  ASSUME NEW S, NEW s \in Seq(S), NEW n \in Nat, Len(s) = n + 1
  PROVE  /\ Front(s) \in Seq(S) /\ Len(Front(s)) = n
         /\ \A i \in 1 .. n : Front(s)[i] = s[i]
         /\ Last(s) = s[n + 1]
<1>1. s # << >>
  BY EmptySeq
<1>2. Len(s) - 1 = n
  OBVIOUS
<1>3. /\ Front(s) \in Seq(S) /\ Len(Front(s)) = Len(s) - 1 /\ Last(s) = s[Len(s)]
      /\ \A i \in 1 .. Len(s) - 1 : Front(s)[i] = s[i]
  BY <1>1, FrontLast
<1>4. QED
  BY <1>2, <1>3

\* The top frame turned to another kind.
LEMMA Retag ==
  ASSUME NEW n \in Nat, frames \in Seq(Frame), Len(frames) = n + 1, NEW kind \in FrameKinds
  PROVE  LET s == [frames EXCEPT ![Len(frames)].kind = kind]
         IN  /\ s \in Seq(Frame) /\ Len(s) = n + 1
             /\ \A f \in 1 .. n : s[f] = frames[f]
             /\ s[n + 1].kind = kind
<1> DEFINE g == [frames[n + 1] EXCEPT !.kind = kind]
           s == [frames EXCEPT ![n + 1] = g]
<1>1. frames[n + 1] \in Frame
  BY ElementOfSeq
<1>2. g \in Frame /\ g.kind = kind
  BY <1>1 DEF Frame
<1> HIDE DEF g
<1>3. /\ s \in Seq(Frame) /\ Len(s) = n + 1 /\ s[n + 1] = g
      /\ \A f \in 1 .. n : s[f] = frames[f]
  BY <1>2, ExceptSeq
<1>4. [frames EXCEPT ![Len(frames)].kind = kind] = s
  BY DEF g
<1> HIDE DEF s
<1>5. QED
  BY <1>2, <1>3, <1>4

\* Unwinding takes the last record and starts the destructor.
LEMMA PopObjectStep ==
  ASSUME IInv, PopObject
  PROVE  IInv'
<1>1. TypeOK /\ ControlInv /\ DataInv /\ NodeInv /\ RaisedInv /\ CaughtInv /\ RecordInv
  BY DEF IInv
<1>2. frames # << >> /\ frames[Len(frames)].kind = "object"
  BY <1>1, Tops DEF PopObject, TopIs
<1>3. /\ Len(frames) \in alive
      /\ k_destroyers # << >> /\ k_destroyers[Len(k_destroyers)].at = Len(frames)
  BY <1>1, <1>2, Tops, TopObject
<1>4. PICK n \in Nat, m \in Nat, c \in Nat, k \in Nat :
        n + 1 = Len(frames) /\ m = Len(stack) /\ c = Len(caught) /\ k + 1 = Len(k_destroyers)
  <2>1. /\ Len(frames) \in Nat /\ Len(frames) > 0
        /\ Len(k_destroyers) \in Nat /\ Len(k_destroyers) > 0
        /\ Len(stack) \in Nat /\ Len(caught) \in Nat
    BY <1>1, <1>2, <1>3, Positions, Tops
  <2>2. \E n \in Nat : n + 1 = Len(frames)
    BY <2>1, Predecessor
  <2>3. \E k \in Nat : k + 1 = Len(k_destroyers)
    BY <2>1, Predecessor
  <2>4. QED
    BY <2>1, <2>2, <2>3
<1>5. /\ frames' = [frames EXCEPT ![Len(frames)].kind = "dtor"]
      /\ alive' = alive \ {n + 1}
      /\ k_destroyers' = Front(k_destroyers)
      /\ UNCHANGED <<thrown, terminated, stack, caught, unwinding_in_progress>>
  BY <1>4 DEF PopObject
<1>6. frames \in Seq(Frame) /\ k_destroyers \in Seq(Item) /\ "dtor" \in FrameKinds
  BY <1>1 DEF TypeOK, FrameKinds, ClientKinds
<1>7. /\ frames' \in Seq(Frame) /\ Len(frames') = n + 1
      /\ \A f \in 1 .. n : frames'[f] = frames[f]
      /\ frames'[n + 1].kind = "dtor"
  BY <1>4, <1>5, <1>6, Retag
<1>8. /\ k_destroyers' \in Seq(Item) /\ Len(k_destroyers') = k
      /\ \A i \in 1 .. k : k_destroyers'[i] = k_destroyers[i]
  BY <1>4, <1>5, <1>6, Pop
<1>9. TypeOK'
  BY <1>1, <1>5, <1>7, <1>8 DEF TypeOK
<1>10. /\ \A f \in 1 .. n : frames'[f] = frames[f]
       /\ frames'[n + 1].kind = "dtor" /\ frames[n + 1].kind = "object"
  BY <1>2, <1>4, <1>7
<1>11. /\ ControlOn(n + 1)'
       /\ \A f \in 1 .. n : (Left(f)' <=> Left(f)) /\ (Target(f)' <=> Target(f))
       /\ ~Left(n + 1)'
  BY <1>1, <1>4, <1>5, <1>7, <1>9, <1>10, ChangeTop
<1>12. /\ DataOn(m, c) /\ NodesOn(n + 1, m) /\ RaisedOn(m)
       /\ CaughtOn(n + 1, m, c) /\ RecordsOn(n + 1, k + 1)
  BY <1>1, <1>4 DEF DataInv, NodeInv, RaisedInv, CaughtInv, RecordInv
<1>13. stack' = stack /\ caught' = caught /\ unwinding_in_progress' = unwinding_in_progress
  BY <1>5
<1>14. DataOn(m, c)'
  BY <1>12, <1>13 DEF DataOn
<1>15. NodesOn(n + 1, m)'
  BY <1>10, <1>12, <1>13 DEF NodesOn, IsTry
<1>16. RaisedOn(m)'
  <2>1. \A i \in 1 .. m :
          stack[i].buf \in 1 .. n + 1 /\ frames[stack[i].buf].kind \in {"body", "dispatch"}
    BY <1>12 DEF NodesOn, IsTry
  <2>2. \A i \in 1 .. m : stack[i].buf \in 1 .. n
    BY <1>10, <2>1
  <2>3. \A i \in 1 .. m :
          /\ frames'[stack[i].buf] = frames[stack[i].buf]
          /\ Target(stack[i].buf)' <=> Target(stack[i].buf)
    BY <1>10, <1>11, <1>13, <2>2
  <2>4. QED
    BY <1>12, <1>13, <2>3 DEF RaisedOn
<1>17. CaughtOn(n + 1, m, c)'
  <2>1. /\ \A j \in 1 .. c :
             /\ caught[j].buf \in 1 .. n + 1 /\ caught[j].depth \in 0 .. m
             /\ frames[caught[j].buf].kind = "handler"
             /\ unwinding_in_progress => ~Left(caught[j].buf)
        /\ \A i, j \in 1 .. c : i < j => caught[i].buf < caught[j].buf
        /\ \A f \in 1 .. n + 1 : frames[f].kind = "handler" => IsCaught(f, c) \/ Left(f)
        /\ \A j \in 1 .. c, g \in 1 .. n + 1 :
             frames[g].kind = "handler" /\ g < caught[j].buf => IsCaught(g, c)
        /\ \A i \in 1 .. m, j \in 1 .. c :
             stack[i].buf < caught[j].buf <=> stack[i].depth < caught[j].depth
    BY <1>12 DEF CaughtOn
  <2>2. \A f \in 1 .. n + 1 : f \in 1 .. n \/ f = n + 1
    OBVIOUS
  <2>3. \A f \in 1 .. n + 1 :
          /\ frames'[f].kind = "handler" <=> frames[f].kind = "handler"
          /\ frames[f].kind = "handler" => f \in 1 .. n
    BY <1>10, <2>2
  <2>4. \A j \in 1 .. c :
          /\ frames'[caught[j].buf].kind = "handler"
          /\ Left(caught[j].buf)' <=> Left(caught[j].buf)
    BY <1>11, <1>13, <2>1, <2>3
  <2>5. \A f : IsCaught(f, c)' <=> IsCaught(f, c)
    BY <1>13 DEF IsCaught
  <2>6. \A f \in 1 .. n + 1 :
          frames'[f].kind = "handler" => IsCaught(f, c)' \/ Left(f)'
    BY <1>11, <2>1, <2>3, <2>5
  <2>7. \A j \in 1 .. c, g \in 1 .. n + 1 :
          frames'[g].kind = "handler" /\ g < caught[j].buf => IsCaught(g, c)'
    BY <2>1, <2>3, <2>5
  <2>8. QED
    BY <1>13, <2>1, <2>4, <2>6, <2>7 DEF CaughtOn
<1>18. RecordsOn(n + 1, k)'
  <2>1. alive' = alive \ {n + 1} /\ k_destroyers[k + 1].at = n + 1
    BY <1>3, <1>4, <1>5
  <2>2. \A i \in 1 .. k : k_destroyers'[i] = k_destroyers[i]
    BY <1>8
  <2>3. \A i \in 1 .. k : k_destroyers[i].at \in 1 .. n /\ k_destroyers[i].at < n + 1
    BY <1>12, <2>1 DEF RecordsOn
  <2>4. \A i \in 1 .. k + 1 : i \in 1 .. k \/ i = k + 1
    OBVIOUS
  <2>5. \A f \in 1 .. n : IsRecorded(f, k + 1) => IsRecorded(f, k)'
    BY <2>1, <2>2, <2>4 DEF IsRecorded
  <2>6. /\ \A i \in 1 .. k :
             /\ k_destroyers[i].kind = "checkpoint" =>
                  frames[k_destroyers[i].at].kind = "body"
             /\ k_destroyers[i].kind = "object" =>
                  /\ frames[k_destroyers[i].at].kind = "object"
                  /\ k_destroyers[i].at \in alive
        /\ \A i, j \in 1 .. k : i < j => k_destroyers[i].at < k_destroyers[j].at
        /\ \A f \in 1 .. n + 1 : frames[f].kind = "body" => IsRecorded(f, k + 1)
        /\ \A f \in alive :
             f \in 1 .. n + 1 /\ frames[f].kind = "object" /\ IsRecorded(f, k + 1)
        /\ \A f \in 1 .. n + 1 :
             frames[f].kind = "object" => f \in alive \/ (unwinding_in_progress /\ Left(f))
        /\ \A f \in alive, g \in 1 .. n + 1 :
             frames[g].kind = "object" /\ Left(f) /\ g < f => g \in alive
    BY <1>12 DEF RecordsOn
  <2>7. \A i \in 1 .. k :
          /\ k_destroyers'[i].at \in 1 .. n + 1
          /\ k_destroyers'[i].kind = "checkpoint" =>
               frames'[k_destroyers'[i].at].kind = "body"
          /\ k_destroyers'[i].kind = "object" =>
               frames'[k_destroyers'[i].at].kind = "object" /\ k_destroyers'[i].at \in alive'
    BY <1>10, <2>1, <2>2, <2>3, <2>6
  <2>8. \A i, j \in 1 .. k : i < j => k_destroyers'[i].at < k_destroyers'[j].at
    BY <2>2, <2>6
  <2>9. \A f \in 1 .. n + 1 : f \in 1 .. n \/ f = n + 1
    OBVIOUS
  <2>10. \A f \in 1 .. n + 1 : frames'[f].kind = "body" => IsRecorded(f, k)'
    BY <1>10, <2>5, <2>6, <2>9
  <2>11. \A f \in alive' :
           f \in 1 .. n /\ frames'[f].kind = "object" /\ IsRecorded(f, k)'
    BY <1>10, <2>1, <2>5, <2>6, <2>9
  <2>12. \A f \in 1 .. n + 1 :
           frames'[f].kind = "object" => f \in alive' \/ (unwinding_in_progress /\ Left(f)')
    BY <1>10, <1>11, <2>1, <2>6, <2>9
  <2>13. \A f \in alive', g \in 1 .. n + 1 :
           frames'[g].kind = "object" /\ Left(f)' /\ g < f => g \in alive'
    BY <1>10, <1>11, <2>1, <2>6, <2>9, <2>11
  <2>14. QED
    BY <1>13, <2>7, <2>8, <2>10, <2>11, <2>12, <2>13 DEF RecordsOn
<1>19. QED
  BY <1>4, <1>5, <1>7, <1>8, <1>9, <1>11, <1>14, <1>15, <1>16, <1>17, <1>18
     DEF IInv, ControlInv, DataInv, NodeInv, RaisedInv, CaughtInv, RecordInv

\* A destructor that returns goes back to the unwinding that called it.
LEMMA EndDestructorStep ==
  ASSUME IInv, EndDestructor
  PROVE  IInv'
<1>1. TypeOK /\ ControlInv /\ DataInv /\ NodeInv /\ RaisedInv /\ CaughtInv /\ RecordInv
  BY DEF IInv
<1>2. frames # << >> /\ frames[Len(frames)].kind = "dtor" /\ Len(frames) > 0
  BY <1>1, Tops DEF EndDestructor, TopIs
<1>3. PICK n \in Nat, m \in Nat, c \in Nat, k \in Nat :
        n + 1 = Len(frames) /\ m = Len(stack) /\ c = Len(caught) /\ k = Len(k_destroyers)
  <2>1. \E n \in Nat : n + 1 = Len(frames)
    BY <1>1, <1>2, Positions, Predecessor
  <2>2. QED
    BY <1>1, <2>1, Positions
<1>4. /\ frames' = Front(frames)
      /\ UNCHANGED <<thrown, alive, terminated, stack, caught, unwinding_in_progress, k_destroyers>>
  BY DEF EndDestructor, library
<1>5. frames' \in Seq(Frame) /\ Len(frames') = n /\ \A f \in 1 .. n : frames'[f] = frames[f]
  BY <1>1, <1>3, <1>4, Pop DEF TypeOK
<1>6. TypeOK'
  BY <1>1, <1>4, <1>5 DEF TypeOK
<1>7. (\A f \in 1 .. n : frames'[f] = frames[f]) /\ frames[n + 1].kind = "dtor"
  BY <1>2, <1>3, <1>5
<1>8. /\ ControlOn(n)'
      /\ \A f \in 1 .. n : (Left(f)' <=> Left(f)) /\ (Target(f)' <=> Target(f))
  BY <1>1, <1>3, <1>4, <1>5, <1>6, <1>7, ChangeTop
<1>9. /\ DataOn(m, c) /\ NodesOn(n + 1, m) /\ RaisedOn(m)
      /\ CaughtOn(n + 1, m, c) /\ RecordsOn(n + 1, k)
  BY <1>1, <1>3 DEF DataInv, NodeInv, RaisedInv, CaughtInv, RecordInv
<1>10. /\ stack' = stack /\ caught' = caught /\ unwinding_in_progress' = unwinding_in_progress
       /\ alive' = alive /\ k_destroyers' = k_destroyers
  BY <1>4
<1>11. DataOn(m, c)'
  BY <1>9, <1>10 DEF DataOn
<1>12. /\ \A i \in 1 .. m : stack[i].buf \in 1 .. n
       /\ \A j \in 1 .. c : caught[j].buf \in 1 .. n
       /\ \A i \in 1 .. k : k_destroyers[i].at \in 1 .. n
  <2>1. \A f \in 1 .. n + 1 : f \in 1 .. n \/ f = n + 1
    OBVIOUS
  <2>2. \A i \in 1 .. k : k_destroyers[i] \in Item
    BY <1>1, <1>3, Positions
  <2>3. \A i \in 1 .. k : frames[k_destroyers[i].at].kind \in {"body", "object"}
    BY <1>9, <2>2 DEF RecordsOn, Item
  <2>4. QED
    BY <1>7, <1>9, <2>1, <2>3 DEF NodesOn, IsTry, CaughtOn, RecordsOn
<1>13. NodesOn(n, m)'
  BY <1>7, <1>9, <1>10, <1>12 DEF NodesOn, IsTry
<1>14. RaisedOn(m)'
  BY <1>7, <1>8, <1>9, <1>10, <1>12 DEF RaisedOn
<1>15. CaughtOn(n, m, c)'
  BY <1>7, <1>8, <1>9, <1>10, <1>12 DEF CaughtOn, IsCaught
<1>16. RecordsOn(n, k)'
  BY <1>7, <1>8, <1>9, <1>10, <1>12 DEF RecordsOn, IsRecorded
<1>17. QED
  BY <1>3, <1>5, <1>6, <1>8, <1>10, <1>11, <1>13, <1>14, <1>15, <1>16
     DEF IInv, ControlInv, DataInv, NodeInv, RaisedInv, CaughtInv, RecordInv

\* A clause of another type is passed over.
LEMMA SkipCatchStep ==
  ASSUME IInv, SkipCatch
  PROVE  IInv'
<1>1. TypeOK /\ ControlInv /\ DataInv /\ NodeInv /\ RaisedInv /\ CaughtInv /\ RecordInv
  BY DEF IInv
<1>2. frames # << >> /\ frames[Len(frames)].kind = "dispatch" /\ Len(frames) > 0
  BY <1>1, Tops DEF SkipCatch, TopIs
<1>3. PICK n \in Nat, m \in Nat, c \in Nat, k \in Nat :
        n + 1 = Len(frames) /\ m = Len(stack) /\ c = Len(caught) /\ k = Len(k_destroyers)
  <2>1. \E n \in Nat : n + 1 = Len(frames)
    BY <1>1, <1>2, Positions, Predecessor
  <2>2. QED
    BY <1>1, <2>1, Positions
<1>4. /\ frames' = [frames EXCEPT ![Len(frames)].next = @ + 1]
      /\ UNCHANGED <<thrown, alive, terminated, stack, caught, unwinding_in_progress, k_destroyers>>
  BY DEF SkipCatch, library
<1>5. /\ frames' \in Seq(Frame) /\ Len(frames') = n + 1
      /\ \A f \in 1 .. n : frames'[f] = frames[f]
      /\ frames'[n + 1].kind = frames[n + 1].kind
  <2> DEFINE g == [frames[n + 1] EXCEPT !.next = @ + 1]
  <2>1. frames \in Seq(Frame) /\ frames[n + 1] \in Frame
    BY <1>1, <1>3, Positions DEF TypeOK
  <2>2. g \in Frame /\ g.kind = frames[n + 1].kind
    BY <2>1, SMTT(20) DEF Frame
  <2>3. frames' = [frames EXCEPT ![n + 1] = g]
    BY <1>3, <1>4
  <2> HIDE DEF g
  <2>4. /\ [frames EXCEPT ![n + 1] = g] \in Seq(Frame) /\ Len([frames EXCEPT ![n + 1] = g]) = n + 1
        /\ [frames EXCEPT ![n + 1] = g][n + 1] = g
        /\ \A f \in 1 .. n : [frames EXCEPT ![n + 1] = g][f] = frames[f]
    BY <1>3, <2>1, <2>2, ExceptSeq
  <2>5. QED
    BY <2>2, <2>3, <2>4
<1>6. TypeOK'
  BY <1>1, <1>4, <1>5 DEF TypeOK
<1>7. /\ frames[n + 1].kind = "dispatch" /\ frames'[n + 1].kind = "dispatch"
      /\ Of({"throw"}) = {}
  BY <1>2, <1>3, <1>5, NothingThrown
<1>8. /\ ControlOn(n + 1)'
      /\ \A f \in 1 .. n : (Left(f)' <=> Left(f)) /\ (Target(f)' <=> Target(f))
      /\ ~Left(n + 1)'
  BY <1>1, <1>3, <1>4, <1>5, <1>6, <1>7, ChangeTop
<1>9. /\ DataOn(m, c) /\ NodesOn(n + 1, m) /\ RaisedOn(m)
      /\ CaughtOn(n + 1, m, c) /\ RecordsOn(n + 1, k)
  BY <1>1, <1>3 DEF DataInv, NodeInv, RaisedInv, CaughtInv, RecordInv
<1>10. /\ stack' = stack /\ caught' = caught /\ unwinding_in_progress' = unwinding_in_progress
       /\ alive' = alive /\ k_destroyers' = k_destroyers /\ ~unwinding_in_progress
  BY <1>2, <1>4, NothingThrown
<1>11. /\ \A f \in 1 .. n + 1 : frames'[f].kind = frames[f].kind
       /\ \A f \in 1 .. n + 1 : Left(f)' <=> Left(f)
  <2>1. \A f \in 1 .. n + 1 : f \in 1 .. n \/ f = n + 1
    OBVIOUS
  <2>2. ~Left(n + 1)
    BY <1>1, <1>3, TopStays
  <2>3. QED
    BY <1>5, <1>8, <2>1, <2>2
<1>12. DataOn(m, c)'
  BY <1>9, <1>10 DEF DataOn
<1>13. NodesOn(n + 1, m)'
  BY <1>9, <1>10, <1>11 DEF NodesOn, IsTry
<1>14. RaisedOn(m)'
  BY <1>9, <1>10, <1>11 DEF RaisedOn, NodesOn
<1>15. CaughtOn(n + 1, m, c)'
  BY <1>9, <1>10, <1>11 DEF CaughtOn, IsCaught
<1>16. RecordsOn(n + 1, k)'
  BY <1>9, <1>10, <1>11 DEF RecordsOn, IsRecorded
<1>17. QED
  BY <1>3, <1>5, <1>6, <1>8, <1>10, <1>12, <1>13, <1>14, <1>15, <1>16
     DEF IInv, ControlInv, DataInv, NodeInv, RaisedInv, CaughtInv, RecordInv

\* A matching clause moves the raised node to the caught ones.
LEMMA DoCatchStep ==
  ASSUME IInv, DoCatch
  PROVE  IInv'
<1>1. TypeOK /\ ControlInv /\ DataInv /\ NodeInv /\ RaisedInv /\ CaughtInv /\ RecordInv
  BY DEF IInv
<1>2. /\ frames # << >> /\ frames[Len(frames)].kind = "dispatch" /\ Len(frames) > 0
      /\ stack # << >> /\ Last(stack).buf = Len(frames) /\ Len(stack) > 0
  BY <1>1, Tops, TopTry DEF DoCatch, TopIs
<1>3. PICK n \in Nat, m \in Nat, c \in Nat, k \in Nat :
        n + 1 = Len(frames) /\ m + 1 = Len(stack) /\ c = Len(caught) /\ k = Len(k_destroyers)
  <2>1. (\E n \in Nat : n + 1 = Len(frames)) /\ (\E m \in Nat : m + 1 = Len(stack))
    BY <1>1, <1>2, Positions, Predecessor
  <2>2. QED
    BY <1>1, <2>1, Positions
<1>4. /\ frames' = [frames EXCEPT ![Len(frames)].kind = "handler"]
      /\ caught' = Append(caught, Last(stack))
      /\ stack' = Front(stack)
      /\ UNCHANGED <<thrown, alive, terminated, unwinding_in_progress, k_destroyers>>
  BY DEF DoCatch
<1>5. /\ frames \in Seq(Frame) /\ stack \in Seq(Node) /\ caught \in Seq(Node)
      /\ "handler" \in FrameKinds /\ Last(stack) = stack[m + 1] /\ stack[m + 1] \in Node
  BY <1>1, <1>2, <1>3, Positions, Tops DEF TypeOK, FrameKinds, ClientKinds
<1>6. /\ frames' \in Seq(Frame) /\ Len(frames') = n + 1
      /\ \A f \in 1 .. n : frames'[f] = frames[f]
      /\ frames'[n + 1].kind = "handler"
  BY <1>3, <1>4, <1>5, Retag
<1>7. /\ stack' \in Seq(Node) /\ Len(stack') = m
      /\ \A i \in 1 .. m : stack'[i] = stack[i]
  BY <1>3, <1>4, <1>5, Pop
<1>8. /\ caught' \in Seq(Node) /\ Len(caught') = c + 1
      /\ \A j \in 1 .. c : caught'[j] = caught[j]
      /\ caught'[c + 1] = stack[m + 1]
  BY <1>3, <1>4, <1>5, Push
<1>9. TypeOK'
  BY <1>1, <1>4, <1>6, <1>7, <1>8 DEF TypeOK
<1>10. /\ frames[n + 1].kind = "dispatch" /\ Of({"throw"}) = {}
       /\ ~unwinding_in_progress /\ stack[m + 1].buf = n + 1
  BY <1>2, <1>3, <1>5, NothingThrown
<1>11. /\ ControlOn(n + 1)'
       /\ \A f \in 1 .. n : (Left(f)' <=> Left(f)) /\ (Target(f)' <=> Target(f))
       /\ ~Left(n + 1)'
  BY <1>1, <1>3, <1>4, <1>6, <1>9, <1>10, ChangeTop
<1>12. /\ DataOn(m + 1, c) /\ NodesOn(n + 1, m + 1) /\ RaisedOn(m + 1)
       /\ CaughtOn(n + 1, m + 1, c) /\ RecordsOn(n + 1, k)
  BY <1>1, <1>3 DEF DataInv, NodeInv, RaisedInv, CaughtInv, RecordInv
<1>13. /\ unwinding_in_progress' = unwinding_in_progress
       /\ alive' = alive /\ k_destroyers' = k_destroyers
  BY <1>4
<1>14. /\ \A f \in 1 .. n : frames'[f] = frames[f]
       /\ frames'[n + 1].kind = "handler"
       /\ \A i \in 1 .. m : stack'[i] = stack[i]
       /\ \A j \in 1 .. c : caught'[j] = caught[j]
       /\ caught'[c + 1] = stack[m + 1]
  BY <1>6, <1>7, <1>8
<1>15. /\ stack[m + 1].raised /\ stack[m + 1].depth = m
       /\ stack[m + 1].data \in Exceptions
       /\ \A i \in 1 .. m : stack[i].buf \in 1 .. n
       /\ \A j \in 1 .. c : caught[j].buf \in 1 .. n /\ caught[j].depth \in 0 .. m
  <2>1. stack[m + 1].raised /\ stack[m + 1].depth = m
    BY <1>10, <1>12 DEF RaisedOn, NodesOn
  <2>2. stack[m + 1].data \in Exceptions
    BY <1>12, <2>1 DEF DataOn
  <2>3. \A i \in 1 .. m : stack[i].buf \in 1 .. n
    <3>1. \A i \in 1 .. m : stack[i].buf < stack[m + 1].buf /\ stack[i].buf \in 1 .. n + 1
      BY <1>12 DEF NodesOn
    <3>2. QED
      BY <1>10, <3>1
  <2>4. \A j \in 1 .. c : caught[j].buf \in 1 .. n
    <3>1. \A j \in 1 .. c : caught[j].buf \in 1 .. n + 1 /\ caught[j].buf # n + 1
      BY <1>10, <1>12 DEF CaughtOn
    <3>2. QED
      BY <3>1
  <2>5. \A j \in 1 .. c : caught[j].depth \in 0 .. m
    <3>1. \A j \in 1 .. c : caught[j].depth \in 0 .. m + 1 /\ ~(n + 1 < caught[j].buf)
      BY <1>12, <2>4 DEF CaughtOn
    <3>2. \A j \in 1 .. c : ~(m < caught[j].depth)
      BY <1>10, <1>12, <2>1, <3>1 DEF CaughtOn
    <3>3. QED
      BY <3>1, <3>2
  <2>6. QED
    BY <2>1, <2>2, <2>3, <2>4, <2>5
<1>16. DataOn(m, c + 1)'
  <2>1. \A j \in 1 .. c + 1 : j \in 1 .. c \/ j = c + 1
    OBVIOUS
  <2>2. \A j \in 1 .. c + 1 : caught'[j].data \in Exceptions
    BY <1>12, <1>14, <1>15, <2>1 DEF DataOn
  <2>3. \A i \in 1 .. m : stack'[i].raised => stack'[i].data \in Exceptions
    BY <1>12, <1>14 DEF DataOn
  <2>4. QED
    BY <2>2, <2>3 DEF DataOn
<1>17. NodesOn(n + 1, m)'
  <2>1. \A f \in 1 .. n : IsTry(f) => \E i \in 1 .. m : stack[i].buf = f
    <3> SUFFICES ASSUME NEW f \in 1 .. n, IsTry(f)
                 PROVE  \E i \in 1 .. m : stack[i].buf = f
      OBVIOUS
    <3>1. PICK i \in 1 .. m + 1 : stack[i].buf = f
      BY <1>12 DEF NodesOn
    <3>2. i # m + 1
      BY <1>10, <3>1
    <3>3. QED
      BY <3>1, <3>2
  <2>2. \A i \in 1 .. m :
          /\ stack'[i].buf \in 1 .. n /\ stack'[i].depth = i - 1
          /\ frames'[stack'[i].buf].kind \in {"body", "dispatch"}
    BY <1>12, <1>14, <1>15 DEF NodesOn, IsTry
  <2>3. \A f \in 1 .. n + 1 : IsTry(f)' => f \in 1 .. n /\ IsTry(f)
    BY <1>14 DEF IsTry
  <2>4. \A f \in 1 .. n + 1 : IsTry(f)' => \E i \in 1 .. m : stack'[i].buf = f
    BY <1>14, <2>1, <2>3
  <2>5. \A i, j \in 1 .. m : i < j => stack'[i].buf < stack'[j].buf
    BY <1>12, <1>14 DEF NodesOn
  <2>6. QED
    BY <2>2, <2>4, <2>5 DEF NodesOn, IsTry
<1>18. RaisedOn(m)'
  BY <1>10, <1>11, <1>12, <1>13, <1>14, <1>15 DEF RaisedOn
<1>19. CaughtOn(n + 1, m, c + 1)'
  <2>1. \A j \in 1 .. c + 1 :
          /\ caught'[j].buf \in 1 .. n + 1
          /\ frames'[caught'[j].buf].kind = "handler"
          /\ caught'[j].depth \in 0 .. m
    <3>1. \A j \in 1 .. c : frames[caught[j].buf].kind = "handler"
      BY <1>12 DEF CaughtOn
    <3>2. \A j \in 1 .. c :
            caught'[j].buf \in 1 .. n /\ frames'[caught'[j].buf].kind = "handler"
            /\ caught'[j].depth \in 0 .. m
      BY <1>14, <1>15, <3>1
    <3>3. /\ caught'[c + 1].buf = n + 1 /\ caught'[c + 1].depth = m
          /\ \A j \in 1 .. c + 1 : j \in 1 .. c \/ j = c + 1
      BY <1>10, <1>14, <1>15
    <3>4. QED
      BY <1>14, <3>2, <3>3
  <2>2. \A i, j \in 1 .. c + 1 : i < j => caught'[i].buf < caught'[j].buf
    <3> SUFFICES ASSUME NEW i \in 1 .. c + 1, NEW j \in 1 .. c + 1, i < j
                 PROVE  caught'[i].buf < caught'[j].buf
      OBVIOUS
    <3>1. i \in 1 .. c /\ caught'[i] = caught[i]
      BY <1>14
    <3>2. CASE j = c + 1
      BY <1>10, <1>14, <1>15, <3>1, <3>2
    <3>3. CASE j \in 1 .. c
      BY <1>12, <1>14, <3>1, <3>3 DEF CaughtOn
    <3>4. QED
      BY <3>2, <3>3
  <2>3. \A f \in 1 .. n + 1 : frames'[f].kind = "handler" => IsCaught(f, c + 1)'
    <3>1. \A f \in 1 .. n : frames[f].kind = "handler" => IsCaught(f, c)
      BY <1>10, <1>12 DEF CaughtOn, Left
    <3>2. QED
      BY <1>10, <1>14, <3>1 DEF IsCaught
  <2>4. \A i \in 1 .. m, j \in 1 .. c + 1 :
          stack'[i].buf < caught'[j].buf <=> stack'[i].depth < caught'[j].depth
    <3> SUFFICES ASSUME NEW i \in 1 .. m, NEW j \in 1 .. c + 1
                 PROVE  stack'[i].buf < caught'[j].buf <=> stack'[i].depth < caught'[j].depth
      OBVIOUS
    <3>1. stack'[i] = stack[i] /\ stack[i].depth = i - 1 /\ stack[i].buf \in 1 .. n
      BY <1>12, <1>14, <1>15 DEF NodesOn
    <3>2. CASE j \in 1 .. c
      BY <1>12, <1>14, <3>1, <3>2 DEF CaughtOn
    <3>3. CASE j = c + 1
      BY <1>10, <1>14, <1>15, <3>1, <3>3
    <3>4. QED
      BY <3>2, <3>3
  <2>5. QED
    BY <1>10, <1>13, <2>1, <2>2, <2>3, <2>4 DEF CaughtOn
<1>20. RecordsOn(n + 1, k)'
  BY <1>10, <1>11, <1>12, <1>13, <1>14 DEF RecordsOn, IsRecorded
<1>21. QED
  BY <1>3, <1>4, <1>6, <1>7, <1>8, <1>9, <1>11, <1>16, <1>17, <1>18, <1>19, <1>20
     DEF IInv, ControlInv, DataInv, NodeInv, RaisedInv, CaughtInv, RecordInv

\* Which case of FinishTry() applies is which block the TRY statement was in.
LEMMA FinishCases ==
  ASSUME IInv, AtEndOfTry
  PROVE  /\ frames # << >>
         /\ FinishRaised => frames[Len(frames)].kind = "dispatch"
         /\ FinishHandler => frames[Len(frames)].kind = "handler"
         /\ FinishBody => frames[Len(frames)].kind = "body"
<1>1. TypeOK /\ RaisedInv
  BY DEF IInv
<1>2. frames # << >> /\ frames[Len(frames)].kind \in {"body", "handler", "dispatch"}
  BY <1>1, Tops DEF AtEndOfTry, TopIs
<1>3. CASE frames[Len(frames)].kind = "body"
  <2>1. stack # << >> /\ ~Last(stack).raised /\ ~InHandler
    BY <1>2, <1>3, TopBody
  <2>2. QED
    BY <1>2, <1>3, <2>1 DEF FinishRaised, FinishHandler
<1>4. CASE frames[Len(frames)].kind = "handler"
  <2>1. stack # << >> => InHandler /\ ~Last(stack).raised
    BY <1>2, <1>4, TopHandler
  <2>2. QED
    BY <1>2, <1>4, <2>1 DEF FinishRaised, FinishBody
<1>5. CASE frames[Len(frames)].kind = "dispatch"
  <2>1. stack # << >> /\ Last(stack).buf = Len(frames) /\ Last(stack) = stack[Len(stack)]
        /\ Len(stack) \in 1 .. Len(stack)
    BY <1>1, <1>2, <1>5, TopTry, Tops, Positions
  <2>2. Last(stack).raised
    BY <1>1, <1>5, <2>1 DEF RaisedInv, RaisedOn
  <2>3. QED
    BY <1>2, <1>5, <2>1, <2>2 DEF FinishHandler, FinishBody
<1>6. QED
  BY <1>2, <1>3, <1>4, <1>5

\* The end of a handler retires the caught exception.
LEMMA FinishHandlerStep ==
  ASSUME IInv, AtEndOfTry, FinishHandler
  PROVE  IInv'
<1>1. TypeOK /\ ControlInv /\ DataInv /\ NodeInv /\ RaisedInv /\ CaughtInv /\ RecordInv
  BY DEF IInv
<1>2. /\ frames # << >> /\ frames[Len(frames)].kind = "handler" /\ Len(frames) > 0
      /\ caught # << >> /\ Last(caught).buf = Len(frames) /\ Len(caught) > 0
  BY <1>1, Tops, FinishCases, TopHandler
<1>3. PICK n \in Nat, m \in Nat, c \in Nat, k \in Nat :
        n + 1 = Len(frames) /\ m = Len(stack) /\ c + 1 = Len(caught) /\ k = Len(k_destroyers)
  <2>1. (\E n \in Nat : n + 1 = Len(frames)) /\ (\E c \in Nat : c + 1 = Len(caught))
    BY <1>1, <1>2, Positions, Predecessor
  <2>2. QED
    BY <1>1, <2>1, Positions
<1>4. /\ frames' = Front(frames)
      /\ caught' = Front(caught)
      /\ UNCHANGED <<thrown, alive, terminated, stack, unwinding_in_progress, k_destroyers>>
  BY DEF FinishHandler
<1>5. frames \in Seq(Frame) /\ caught \in Seq(Node)
  BY <1>1 DEF TypeOK
<1>6. frames' \in Seq(Frame) /\ Len(frames') = n /\ \A f \in 1 .. n : frames'[f] = frames[f]
  BY <1>3, <1>4, <1>5, Pop
<1>7. caught' \in Seq(Node) /\ Len(caught') = c /\ \A j \in 1 .. c : caught'[j] = caught[j]
  BY <1>3, <1>4, <1>5, Pop
<1>8. TypeOK'
  BY <1>1, <1>4, <1>6, <1>7 DEF TypeOK
<1>9. /\ frames[n + 1].kind = "handler" /\ caught[c + 1].buf = n + 1
      /\ Of({"throw"}) = {} /\ ~unwinding_in_progress
  BY <1>1, <1>2, <1>3, NothingThrown, Tops
<1>10. /\ ControlOn(n)'
       /\ \A f \in 1 .. n : (Left(f)' <=> Left(f)) /\ (Target(f)' <=> Target(f))
  <2>1. n \in {n, n + 1} /\ n # n + 1 /\ UNCHANGED <<thrown, unwinding_in_progress>>
    BY <1>4
  <2>2. frames[n + 1].kind # "throw"
    BY <1>9
  <2>3. n + 1 = Len(frames) /\ Len(frames') = n /\ \A f \in 1 .. n : frames'[f] = frames[f]
    BY <1>3, <1>6
  <2>4. QED
    BY <1>1, <1>8, <2>1, <2>2, <2>3, ChangeTop
<1>11. /\ DataOn(m, c + 1) /\ NodesOn(n + 1, m) /\ RaisedOn(m)
       /\ CaughtOn(n + 1, m, c + 1) /\ RecordsOn(n + 1, k)
  BY <1>1, <1>3 DEF DataInv, NodeInv, RaisedInv, CaughtInv, RecordInv
<1>12. /\ stack' = stack /\ unwinding_in_progress' = unwinding_in_progress
       /\ alive' = alive /\ k_destroyers' = k_destroyers
  BY <1>4
<1>13. /\ \A f \in 1 .. n : frames'[f] = frames[f]
       /\ \A j \in 1 .. c : caught'[j] = caught[j]
  BY <1>6, <1>7
<1>14. /\ \A i \in 1 .. m : stack[i].buf \in 1 .. n
       /\ \A j \in 1 .. c : caught[j].buf \in 1 .. n
       /\ \A i \in 1 .. k : k_destroyers[i].at \in 1 .. n
  <2>1. \A f \in 1 .. n + 1 : f \in 1 .. n \/ f = n + 1
    OBVIOUS
  <2>2. \A i \in 1 .. k : k_destroyers[i] \in Item
    BY <1>1, <1>3, Positions
  <2>3. \A i \in 1 .. k : frames[k_destroyers[i].at].kind \in {"body", "object"}
    BY <1>11, <2>2 DEF RecordsOn, Item
  <2>4. \A j \in 1 .. c : caught[j].buf < caught[c + 1].buf /\ caught[j].buf \in 1 .. n + 1
    BY <1>11 DEF CaughtOn
  <2>5. \A i \in 1 .. m : stack[i].buf \in 1 .. n
    BY <1>9, <1>11, <2>1 DEF NodesOn, IsTry
  <2>6. \A j \in 1 .. c : caught[j].buf \in 1 .. n
    BY <1>9, <2>4
  <2>7. \A i \in 1 .. k : k_destroyers[i].at \in 1 .. n
    BY <1>9, <1>11, <2>1, <2>3 DEF RecordsOn
  <2>8. QED
    BY <2>5, <2>6, <2>7
<1>15. DataOn(m, c)'
  BY <1>11, <1>12, <1>13 DEF DataOn
<1>16. NodesOn(n, m)'
  BY <1>11, <1>12, <1>13, <1>14 DEF NodesOn, IsTry
<1>17. RaisedOn(m)'
  BY <1>10, <1>11, <1>12, <1>13, <1>14 DEF RaisedOn
<1>18. CaughtOn(n, m, c)'
  <2>1. \A f \in 1 .. n : IsCaught(f, c + 1) => IsCaught(f, c)'
    <3>1. \A j \in 1 .. c + 1 : j \in 1 .. c \/ j = c + 1
      OBVIOUS
    <3>2. QED
      BY <1>9, <1>13, <3>1 DEF IsCaught
  <2>2. QED
    BY <1>10, <1>11, <1>12, <1>13, <1>14, <2>1 DEF CaughtOn
<1>19. RecordsOn(n, k)'
  BY <1>9, <1>10, <1>11, <1>12, <1>13, <1>14 DEF RecordsOn, IsRecorded
<1>20. QED
  BY <1>3, <1>4, <1>6, <1>7, <1>8, <1>10, <1>15, <1>16, <1>17, <1>18, <1>19
     DEF IInv, ControlInv, DataInv, NodeInv, RaisedInv, CaughtInv, RecordInv

\* The end of a body that raised nothing pops its node.
LEMMA FinishBodyStep ==
  ASSUME IInv, AtEndOfTry, FinishBody
  PROVE  IInv'
<1>1. TypeOK /\ ControlInv /\ DataInv /\ NodeInv /\ RaisedInv /\ CaughtInv /\ RecordInv
  BY DEF IInv
<1>2. /\ frames # << >> /\ frames[Len(frames)].kind = "body" /\ Len(frames) > 0
      /\ stack # << >> /\ Last(stack).buf = Len(frames) /\ Len(stack) > 0
      /\ k_destroyers # << >> /\ Last(k_destroyers).at = Len(frames) /\ Len(k_destroyers) > 0
  BY <1>1, Tops, FinishCases, TopBody
<1>3. PICK n \in Nat, m \in Nat, c \in Nat, k \in Nat :
        /\ n + 1 = Len(frames) /\ m + 1 = Len(stack)
        /\ c = Len(caught) /\ k + 1 = Len(k_destroyers)
  <2>1. /\ \E n \in Nat : n + 1 = Len(frames)
        /\ \E m \in Nat : m + 1 = Len(stack)
        /\ \E k \in Nat : k + 1 = Len(k_destroyers)
    BY <1>1, <1>2, Positions, Predecessor
  <2>2. QED
    BY <1>1, <2>1, Positions
<1>4. /\ frames' = Front(frames)
      /\ stack' = Front(stack)
      /\ k_destroyers' = Front(k_destroyers)
      /\ UNCHANGED <<thrown, alive, terminated, caught, unwinding_in_progress>>
  BY DEF FinishBody
<1>5. frames \in Seq(Frame) /\ stack \in Seq(Node) /\ k_destroyers \in Seq(Item)
  BY <1>1 DEF TypeOK
<1>6. frames' \in Seq(Frame) /\ Len(frames') = n /\ \A f \in 1 .. n : frames'[f] = frames[f]
  BY <1>3, <1>4, <1>5, Pop
<1>7. stack' \in Seq(Node) /\ Len(stack') = m /\ \A i \in 1 .. m : stack'[i] = stack[i]
  BY <1>3, <1>4, <1>5, Pop
<1>8. /\ k_destroyers' \in Seq(Item) /\ Len(k_destroyers') = k
      /\ \A i \in 1 .. k : k_destroyers'[i] = k_destroyers[i]
  BY <1>3, <1>4, <1>5, Pop
<1>9. TypeOK'
  BY <1>1, <1>4, <1>6, <1>7, <1>8 DEF TypeOK
<1>10. frames[n + 1].kind = "body" /\ stack[m + 1].buf = n + 1 /\ k_destroyers[k + 1].at = n + 1
  BY <1>1, <1>2, <1>3, Tops
<1>11. /\ ControlOn(n)'
       /\ \A f \in 1 .. n : (Left(f)' <=> Left(f)) /\ (Target(f)' <=> Target(f))
  BY <1>1, <1>3, <1>4, <1>6, <1>9, <1>10, ChangeTop
<1>12. /\ DataOn(m + 1, c) /\ NodesOn(n + 1, m + 1) /\ RaisedOn(m + 1)
       /\ CaughtOn(n + 1, m + 1, c) /\ RecordsOn(n + 1, k + 1)
  BY <1>1, <1>3 DEF DataInv, NodeInv, RaisedInv, CaughtInv, RecordInv
<1>13. /\ caught' = caught /\ unwinding_in_progress' = unwinding_in_progress /\ alive' = alive
  BY <1>4
<1>14. /\ \A f \in 1 .. n : frames'[f] = frames[f]
       /\ \A i \in 1 .. m : stack'[i] = stack[i]
       /\ \A i \in 1 .. k : k_destroyers'[i] = k_destroyers[i]
  BY <1>6, <1>7, <1>8
<1>15. /\ \A i \in 1 .. m : stack[i].buf \in 1 .. n
       /\ \A j \in 1 .. c : caught[j].buf \in 1 .. n /\ caught[j].depth \in 0 .. m
       /\ \A i \in 1 .. k : k_destroyers[i].at \in 1 .. n
  <2>1. \A f \in 1 .. n + 1 : f \in 1 .. n \/ f = n + 1
    OBVIOUS
  <2>2. \A i \in 1 .. m : stack[i].buf < stack[m + 1].buf /\ stack[i].buf \in 1 .. n + 1
    BY <1>12 DEF NodesOn
  <2>3. \A i \in 1 .. k :
          k_destroyers[i].at < k_destroyers[k + 1].at /\ k_destroyers[i].at \in 1 .. n + 1
    BY <1>12 DEF RecordsOn
  <2>4. \A j \in 1 .. c : caught[j].buf \in 1 .. n /\ caught[j].depth \in 0 .. m + 1
    BY <1>10, <1>12, <2>1 DEF CaughtOn
  <2>5. \A j \in 1 .. c : caught[j].depth \in 0 .. m
    <3>1. stack[m + 1].depth = m
      BY <1>12 DEF NodesOn
    <3>2. \A j \in 1 .. c : ~(n + 1 < caught[j].buf)
      BY <2>4
    <3>3. \A j \in 1 .. c : ~(m < caught[j].depth)
      BY <1>10, <1>12, <3>1, <3>2 DEF CaughtOn
    <3>4. QED
      BY <2>4, <3>3
  <2>6. QED
    BY <1>10, <2>2, <2>3, <2>4, <2>5
<1>16. DataOn(m, c)'
  BY <1>12, <1>13, <1>14 DEF DataOn
<1>17. NodesOn(n, m)'
  <2>1. \A f \in 1 .. n : IsTry(f) => \E i \in 1 .. m : stack[i].buf = f
    <3> SUFFICES ASSUME NEW f \in 1 .. n, IsTry(f)
                 PROVE  \E i \in 1 .. m : stack[i].buf = f
      OBVIOUS
    <3>1. PICK i \in 1 .. m + 1 : stack[i].buf = f
      BY <1>12 DEF NodesOn
    <3>2. i # m + 1
      BY <1>10, <3>1
    <3>3. QED
      BY <3>1, <3>2
  <2>2. \A i \in 1 .. m :
          /\ stack'[i].buf \in 1 .. n /\ stack'[i].depth = i - 1
          /\ frames'[stack'[i].buf].kind \in {"body", "dispatch"}
    BY <1>12, <1>14, <1>15 DEF NodesOn, IsTry
  <2>3. \A f \in 1 .. n : IsTry(f)' => f \in 1 .. n /\ IsTry(f)
    BY <1>14 DEF IsTry
  <2>4. \A f \in 1 .. n : IsTry(f)' => \E i \in 1 .. m : stack'[i].buf = f
    BY <1>14, <2>1, <2>3
  <2>5. \A i, j \in 1 .. m : i < j => stack'[i].buf < stack'[j].buf
    BY <1>12, <1>14 DEF NodesOn
  <2>6. QED
    BY <2>2, <2>4, <2>5 DEF NodesOn, IsTry
<1>18. RaisedOn(m)'
  <2>1. \A i \in 1 .. m :
          stack[i].raised <=> \/ frames[stack[i].buf].kind = "dispatch"
                              \/ unwinding_in_progress /\ Target(stack[i].buf)
    BY <1>12 DEF RaisedOn
  <2> SUFFICES ASSUME NEW i \in 1 .. m
               PROVE  stack'[i].raised <=>
                        \/ frames'[stack'[i].buf].kind = "dispatch"
                        \/ unwinding_in_progress' /\ Target(stack[i].buf)'
    BY DEF RaisedOn
  <2> DEFINE f == stack[i].buf
  <2>2. stack'[i] = stack[i] /\ f \in 1 .. n
    BY <1>14, <1>15
  <2>3. frames'[stack[i].buf] = frames[stack[i].buf]
    BY <1>14, <2>2
  <2>4. Target(stack[i].buf)' <=> Target(stack[i].buf)
    BY <1>11, <2>2
  <2>5. QED
    BY <1>13, <2>1, <2>2, <2>3, <2>4
<1>19. CaughtOn(n, m, c)'
  <2>1. \A f : IsCaught(f, c)' <=> IsCaught(f, c)
    BY <1>13 DEF IsCaught
  <2>2. \A j \in 1 .. c :
          /\ frames'[caught[j].buf].kind = "handler"
          /\ Left(caught[j].buf)' <=> Left(caught[j].buf)
    <3>1. \A j \in 1 .. c : frames[caught[j].buf].kind = "handler"
      BY <1>12 DEF CaughtOn
    <3>2. QED
      BY <1>11, <1>13, <1>14, <1>15, <3>1
  <2>3. \A f \in 1 .. n : f \in 1 .. n + 1 /\ (frames'[f].kind = frames[f].kind)
    BY <1>14
  <2>4. \A i \in 1 .. m, j \in 1 .. c :
          stack'[i].buf < caught[j].buf <=> stack'[i].depth < caught[j].depth
    BY <1>12, <1>14 DEF CaughtOn
  <2>5. /\ \A i, j \in 1 .. c : i < j => caught[i].buf < caught[j].buf
        /\ \A j \in 1 .. c : unwinding_in_progress => ~Left(caught[j].buf)
        /\ \A f \in 1 .. n + 1 : frames[f].kind = "handler" => IsCaught(f, c) \/ Left(f)
        /\ \A j \in 1 .. c, g \in 1 .. n + 1 :
             frames[g].kind = "handler" /\ g < caught[j].buf => IsCaught(g, c)
    BY <1>12 DEF CaughtOn
  <2>6. /\ \A f \in 1 .. n : frames'[f].kind = "handler" => IsCaught(f, c)' \/ Left(f)'
        /\ \A j \in 1 .. c, g \in 1 .. n :
             frames'[g].kind = "handler" /\ g < caught[j].buf => IsCaught(g, c)'
    BY <1>11, <2>1, <2>3, <2>5
  <2>7. QED
    BY <1>13, <1>15, <2>2, <2>4, <2>5, <2>6 DEF CaughtOn
<1>20. RecordsOn(n, k)'
  <2>1. \A f \in 1 .. n : IsRecorded(f, k + 1) => IsRecorded(f, k)'
    <3>1. \A i \in 1 .. k + 1 : i \in 1 .. k \/ i = k + 1
      OBVIOUS
    <3>2. QED
      BY <1>10, <1>14, <3>1 DEF IsRecorded
  <2>2. \A i \in 1 .. k :
          /\ k_destroyers'[i] = k_destroyers[i] /\ k_destroyers[i].at \in 1 .. n
          /\ frames'[k_destroyers[i].at] = frames[k_destroyers[i].at]
    BY <1>14, <1>15
  <2>3. \A f \in alive : f \in 1 .. n /\ frames'[f].kind = "object" /\ IsRecorded(f, k + 1)
    BY <1>10, <1>12, <1>14 DEF RecordsOn
  <2>4. \A f \in 1 .. n : frames'[f].kind = frames[f].kind
    BY <1>14
  <2>5. \A f \in 1 .. n : frames'[f].kind = "object" =>
            f \in alive \/ (unwinding_in_progress /\ Left(f)')
    BY <1>11, <1>12, <2>4 DEF RecordsOn
  <2>6. \A f \in alive, g \in 1 .. n :
            frames'[g].kind = "object" /\ Left(f)' /\ g < f => g \in alive
    BY <1>11, <1>12, <2>3, <2>4 DEF RecordsOn
  <2>7. QED
    BY <1>12, <1>13, <2>1, <2>2, <2>3, <2>4, <2>5, <2>6 DEF RecordsOn
<1>21. QED
  BY <1>3, <1>4, <1>6, <1>7, <1>8, <1>9, <1>11, <1>16, <1>17, <1>18, <1>19, <1>20
     DEF IInv, ControlInv, DataInv, NodeInv, RaisedInv, CaughtInv, RecordInv

\* Steps that change no frame.
LEMMA SameFrames ==
  ASSUME TypeOK, UNCHANGED frames
  PROVE  /\ Of({"throw"})' = Of({"throw"}) /\ Of({"dispatch"})' = Of({"dispatch"})
         /\ \A f : (Left(f)' <=> Left(f)) /\ (Target(f)' <=> Target(f))
<1>1. Of({"throw"})' = Of({"throw"}) /\ Of({"dispatch"})' = Of({"dispatch"})
  BY DEF Of
<1>2. \A f : Left(f)' <=> Left(f)
  BY <1>1 DEF Left
<1>3. \A f : Target(f)' <=> Target(f)
  BY <1>1 DEF Target
<1>4. QED
  BY <1>1, <1>2, <1>3

\* Nothing but "terminated" changes: std::terminate, or a stuttering step.
LEMMA NothingChanges ==
  ASSUME IInv, TypeOK',
         UNCHANGED <<frames, thrown, alive, stack, caught, unwinding_in_progress, k_destroyers>>
  PROVE  IInv'
<1>1. TypeOK /\ ControlInv /\ DataInv /\ NodeInv /\ RaisedInv /\ CaughtInv /\ RecordInv
  BY DEF IInv
<1>2. /\ Of({"throw"})' = Of({"throw"}) /\ Of({"dispatch"})' = Of({"dispatch"})
      /\ \A f : (Left(f)' <=> Left(f)) /\ (Target(f)' <=> Target(f))
  BY <1>1, SameFrames
<1>3. ControlInv'
  BY <1>1, <1>2 DEF ControlInv, ControlOn
<1>4. DataInv' /\ NodeInv'
  BY <1>1 DEF DataInv, DataOn, NodeInv, NodesOn, IsTry
<1>5. RaisedInv'
  BY <1>1, <1>2 DEF RaisedInv, RaisedOn
<1>6. CaughtInv'
  BY <1>1, <1>2 DEF CaughtInv, CaughtOn, IsCaught
<1>7. RecordInv'
  BY <1>1, <1>2 DEF RecordInv, RecordsOn, IsRecorded
<1>8. QED
  BY <1>3, <1>4, <1>5, <1>6, <1>7 DEF IInv

\* A handler left by another exception is dropped from the caught ones.
LEMMA AbandonHandlerStep ==
  ASSUME IInv, AbandonHandler
  PROVE  IInv'
<1>1. TypeOK /\ ControlInv /\ DataInv /\ NodeInv /\ RaisedInv /\ CaughtInv /\ RecordInv
  BY DEF IInv
<1>2. /\ frames # << >> /\ frames[Len(frames)].kind = "throw" /\ ~unwinding_in_progress
      /\ caught # << >> /\ Last(stack).depth < Last(caught).depth /\ Len(caught) > 0
  BY <1>1, Tops DEF AbandonHandler, TopIs, InHandler
<1>3. PICK n \in Nat, m \in Nat, c \in Nat, k \in Nat :
        n = Len(frames) /\ m = Len(stack) /\ c + 1 = Len(caught) /\ k = Len(k_destroyers)
  BY <1>1, <1>2, Positions, Predecessor
<1>4. /\ caught' = Front(caught)
      /\ UNCHANGED <<frames, thrown, alive, terminated, stack, unwinding_in_progress, k_destroyers>>
  BY DEF AbandonHandler, client
<1>5. caught' \in Seq(Node) /\ Len(caught') = c /\ \A j \in 1 .. c : caught'[j] = caught[j]
  BY <1>1, <1>3, <1>4, Pop DEF TypeOK
<1>6. TypeOK'
  BY <1>1, <1>4, <1>5 DEF TypeOK
<1>7. /\ Of({"throw"})' = Of({"throw"}) /\ Of({"dispatch"})' = Of({"dispatch"})
      /\ \A f : (Left(f)' <=> Left(f)) /\ (Target(f)' <=> Target(f))
  BY <1>1, <1>4, SameFrames
<1>8. /\ DataOn(m, c + 1) /\ NodesOn(n, m) /\ RaisedOn(m)
      /\ CaughtOn(n, m, c + 1) /\ RecordsOn(n, k)
  BY <1>1, <1>3 DEF DataInv, NodeInv, RaisedInv, CaughtInv, RecordInv
<1>9. /\ stack' = stack /\ frames' = frames /\ unwinding_in_progress' = unwinding_in_progress
      /\ alive' = alive /\ k_destroyers' = k_destroyers /\ thrown' = thrown
  BY <1>4
<1>10. Left(caught[c + 1].buf)
  <2>1. /\ stack # << >> /\ stack[m].buf \in 1 .. n - 1
        /\ Last(stack) = stack[m] /\ Last(caught) = caught[c + 1] /\ m \in 1 .. m
        /\ \A f \in 1 .. n : Left(f) <=> stack[m].buf < f /\ f < n
    BY <1>1, <1>2, <1>3, UnderThrow, Tops
  <2>2. stack[m].buf < caught[c + 1].buf /\ caught[c + 1].buf \in 1 .. n
    BY <1>2, <1>8, <2>1 DEF CaughtOn
  <2>3. caught[c + 1].buf # n
    BY <1>2, <1>3, <1>8 DEF CaughtOn
  <2>4. QED
    BY <2>1, <2>2, <2>3
<1>11. ControlOn(n)'
  BY <1>1, <1>3, <1>7, <1>9 DEF ControlInv, ControlOn
<1>12. DataOn(m, c)' /\ NodesOn(n, m)'
  BY <1>5, <1>8, <1>9 DEF DataOn, NodesOn, IsTry
<1>13. RaisedOn(m)'
  BY <1>7, <1>8, <1>9 DEF RaisedOn
<1>14. CaughtOn(n, m, c)'
  <2>1. \A f \in 1 .. n : IsCaught(f, c + 1) => IsCaught(f, c)' \/ f = caught[c + 1].buf
    <3>1. \A j \in 1 .. c + 1 : j \in 1 .. c \/ j = c + 1
      OBVIOUS
    <3>2. \A j \in 1 .. c : caught'[j] = caught[j]
      BY <1>5
    <3>3. QED
      BY <3>1, <3>2 DEF IsCaught
  <2>2. \A j \in 1 .. c : caught'[j] = caught[j] /\ caught[j].buf < caught[c + 1].buf
    BY <1>5, <1>8 DEF CaughtOn
  <2>3. \A f \in 1 .. n : frames[f].kind = "handler" => IsCaught(f, c)' \/ Left(f)
    BY <1>8, <1>10, <2>1 DEF CaughtOn
  <2>4. \A j \in 1 .. c, g \in 1 .. n :
          frames[g].kind = "handler" /\ g < caught[j].buf => IsCaught(g, c)'
    BY <1>8, <2>1, <2>2 DEF CaughtOn
  <2>5. \A j \in 1 .. c :
          /\ caught'[j].buf \in 1 .. n /\ caught'[j].depth \in 0 .. m
          /\ frames[caught'[j].buf].kind = "handler"
    BY <1>8, <2>2 DEF CaughtOn
  <2>6. \A i, j \in 1 .. c : i < j => caught'[i].buf < caught'[j].buf
    BY <1>8, <2>2 DEF CaughtOn
  <2>7. \A i \in 1 .. m, j \in 1 .. c :
          stack[i].buf < caught'[j].buf <=> stack[i].depth < caught'[j].depth
    BY <1>8, <2>2 DEF CaughtOn
  <2>8. ~unwinding_in_progress'
    BY <1>2, <1>9
  <2>9. \A f \in 1 .. n : frames'[f].kind = "handler" => IsCaught(f, c)' \/ Left(f)'
    BY <1>7, <1>9, <2>3
  <2>10. /\ \A j \in 1 .. c : frames'[caught'[j].buf].kind = "handler"
         /\ \A j \in 1 .. c, g \in 1 .. n :
              frames'[g].kind = "handler" /\ g < caught'[j].buf => IsCaught(g, c)'
         /\ \A i \in 1 .. m, j \in 1 .. c :
              stack'[i].buf < caught'[j].buf <=> stack'[i].depth < caught'[j].depth
    BY <1>9, <2>2, <2>4, <2>5, <2>7
  <2>11. QED
    BY <2>5, <2>6, <2>8, <2>9, <2>10 DEF CaughtOn
<1>15. RecordsOn(n, k)'
  BY <1>7, <1>8, <1>9 DEF RecordsOn, IsRecorded
<1>16. QED
  BY <1>3, <1>5, <1>6, <1>9, <1>11, <1>12, <1>13, <1>14, <1>15
     DEF IInv, ControlInv, DataInv, NodeInv, RaisedInv, CaughtInv, RecordInv

\* A raise marks the innermost node and starts unwinding.
LEMMA RaiseStep ==
  ASSUME IInv, Raise
  PROVE  IInv'
<1>1. TypeOK /\ ControlInv /\ DataInv /\ NodeInv /\ RaisedInv /\ CaughtInv /\ RecordInv
  BY DEF IInv
<1>2. /\ frames # << >> /\ frames[Len(frames)].kind = "throw"
      /\ ~unwinding_in_progress /\ ~InHandler
  BY <1>1, Tops DEF Raise, TopIs
<1>3. stack # << >> /\ Len(stack) > 0
  BY <1>1, <1>2, UnderThrow, Tops
<1>4. PICK n \in Nat, m \in Nat, c \in Nat, k \in Nat :
        n = Len(frames) /\ m + 1 = Len(stack) /\ c = Len(caught) /\ k = Len(k_destroyers)
  BY <1>1, <1>3, Positions, Predecessor
<1>5. /\ stack' = [stack EXCEPT ![Len(stack)] = Raised(@, thrown)]
      /\ unwinding_in_progress' = TRUE
      /\ frames' = frames /\ thrown' = thrown /\ alive' = alive /\ terminated' = terminated
      /\ caught' = caught /\ k_destroyers' = k_destroyers
  BY DEF Raise, client
<1>6. /\ stack[m + 1].buf \in 1 .. n - 1
      /\ \A f \in 1 .. n : Left(f) <=> stack[m + 1].buf < f /\ f < n
      /\ \A f \in 1 .. n : Target(f) <=> f = stack[m + 1].buf
      /\ Of({"throw"}) = {n}
  BY <1>1, <1>2, <1>3, <1>4, UnderThrow, Tops
<1>7. thrown \in Exceptions
  BY <1>1, <1>6 DEF TypeOK, ControlInv, ControlOn
<1>8. /\ stack' \in Seq(Node) /\ Len(stack') = m + 1
      /\ \A i \in 1 .. m : stack'[i] = stack[i]
      /\ stack'[m + 1].buf = stack[m + 1].buf /\ stack'[m + 1].depth = stack[m + 1].depth
      /\ stack'[m + 1].raised /\ stack'[m + 1].data = thrown
  <2> DEFINE g == Raised(stack[m + 1], thrown)
  <2>1. stack \in Seq(Node) /\ stack[m + 1] \in Node
    BY <1>1, <1>4, Positions DEF TypeOK
  <2>2. /\ g \in Node /\ g.buf = stack[m + 1].buf /\ g.depth = stack[m + 1].depth
        /\ g.raised /\ g.data = thrown
    BY <1>7, <2>1 DEF Node, Raised
  <2>3. stack' = [stack EXCEPT ![m + 1] = g]
    BY <1>4, <1>5
  <2> HIDE DEF g
  <2>4. /\ [stack EXCEPT ![m + 1] = g] \in Seq(Node) /\ Len([stack EXCEPT ![m + 1] = g]) = m + 1
        /\ [stack EXCEPT ![m + 1] = g][m + 1] = g
        /\ \A i \in 1 .. m : [stack EXCEPT ![m + 1] = g][i] = stack[i]
    BY <1>4, <2>1, <2>2, ExceptSeq
  <2>5. QED
    BY <2>2, <2>3, <2>4
<1>9. TypeOK'
  BY <1>1, <1>5, <1>8 DEF TypeOK
<1>10. /\ Of({"throw"})' = Of({"throw"}) /\ Of({"dispatch"})' = Of({"dispatch"})
       /\ \A f : (Left(f)' <=> Left(f)) /\ (Target(f)' <=> Target(f))
  BY <1>1, <1>5, SameFrames
<1>11. /\ DataOn(m + 1, c) /\ NodesOn(n, m + 1) /\ RaisedOn(m + 1)
       /\ CaughtOn(n, m + 1, c) /\ RecordsOn(n, k)
  BY <1>1, <1>4 DEF DataInv, NodeInv, RaisedInv, CaughtInv, RecordInv
<1>12. /\ \A i \in 1 .. m : stack'[i] = stack[i]
       /\ stack'[m + 1].buf = stack[m + 1].buf /\ stack'[m + 1].depth = stack[m + 1].depth
       /\ stack'[m + 1].raised /\ stack'[m + 1].data = thrown
       /\ \A i \in 1 .. m + 1 : i \in 1 .. m \/ i = m + 1
  BY <1>8
<1>13. ControlOn(n)'
  <2>1. ControlOn(n)
    BY <1>1, <1>4 DEF ControlInv
  <2>2. QED
    BY <1>5, <1>6, <1>10, <2>1 DEF ControlOn
<1>14. DataOn(m + 1, c)'
  BY <1>5, <1>7, <1>11, <1>12 DEF DataOn
<1>15. \A i \in 1 .. m + 1 : stack'[i].buf = stack[i].buf /\ stack'[i].depth = stack[i].depth
  BY <1>12
<1>16. NodesOn(n, m + 1)'
  BY <1>5, <1>11, <1>15 DEF NodesOn, IsTry
<1>17. RaisedOn(m + 1)'
  <2> SUFFICES ASSUME NEW i \in 1 .. m + 1
               PROVE  stack'[i].raised <=> \/ frames[stack[i].buf].kind = "dispatch"
                                           \/ Target(stack[i].buf)
    BY <1>5, <1>10, <1>15 DEF RaisedOn
  <2>1. stack[i].buf \in 1 .. n
    BY <1>11 DEF NodesOn
  <2>2. CASE i = m + 1
    BY <1>6, <1>12, <2>1, <2>2
  <2>3. CASE i \in 1 .. m
    <3>1. stack[i].buf < stack[m + 1].buf
      BY <1>11, <2>3 DEF NodesOn
    <3>2. ~Target(stack[i].buf)
      BY <1>6, <2>1, <3>1
    <3>3. QED
      BY <1>2, <1>11, <1>12, <2>3, <3>2 DEF RaisedOn
  <2>4. QED
    BY <1>12, <2>2, <2>3
<1>18. CaughtOn(n, m + 1, c)'
  <2>1. \A j \in 1 .. c : ~Left(caught[j].buf)
    <3> SUFFICES ASSUME NEW j \in 1 .. c, Left(caught[j].buf)
                 PROVE  FALSE
      OBVIOUS
    <3>1. caught[j].buf \in 1 .. n /\ caught[c].buf \in 1 .. n /\ stack[m + 1].buf < caught[j].buf
      BY <1>6, <1>11 DEF CaughtOn
    <3>2. j = c \/ caught[j].buf < caught[c].buf
      BY <1>11 DEF CaughtOn
    <3>3. stack[m + 1].buf < caught[c].buf
      BY <1>6, <3>1, <3>2
    <3>4. stack[m + 1].depth < caught[c].depth
      BY <1>11, <3>3 DEF CaughtOn
    <3>5. QED
      BY <1>1, <1>2, <1>3, <1>4, <3>4, Tops DEF InHandler
  <2>2. QED
    BY <1>5, <1>10, <1>11, <1>15, <2>1 DEF CaughtOn, IsCaught
<1>19. RecordsOn(n, k)'
  BY <1>2, <1>5, <1>10, <1>11 DEF RecordsOn, IsRecorded
<1>20. QED
  BY <1>4, <1>5, <1>8, <1>9, <1>13, <1>14, <1>16, <1>17, <1>18, <1>19
     DEF IInv, ControlInv, DataInv, NodeInv, RaisedInv, CaughtInv, RecordInv

\* A handler that edits its exception changes that exception only.
LEMMA EditCaughtStep ==
  ASSUME IInv, NEW e \in DOMAIN caught, EditCaught(e)
  PROVE  IInv'
<1>1. TypeOK /\ ControlInv /\ DataInv /\ NodeInv /\ RaisedInv /\ CaughtInv /\ RecordInv
  BY DEF IInv
<1>2. PICK n \in Nat, m \in Nat, c \in Nat, k \in Nat :
        n = Len(frames) /\ m = Len(stack) /\ c = Len(caught) /\ k = Len(k_destroyers)
  BY <1>1, Positions
<1>3. /\ caught' = [caught EXCEPT ![e].data.edited = TRUE]
      /\ UNCHANGED <<frames, thrown, alive, terminated, stack, unwinding_in_progress, k_destroyers>>
  BY DEF EditCaught, client
<1>4. e \in 1 .. c
  BY <1>1, <1>2, Positions
<1>5. /\ caught' \in Seq(Node) /\ Len(caught') = c
      /\ \A j \in 1 .. c : /\ caught'[j].buf = caught[j].buf /\ caught'[j].depth = caught[j].depth
                           /\ caught'[j].data \in Exceptions
  <2> DEFINE g == [caught[e] EXCEPT !.data.edited = TRUE]
  <2>1. caught \in Seq(Node) /\ \A j \in 1 .. c : caught[j] \in Node /\ caught[j].data \in Exceptions
    BY <1>1, <1>2, Positions DEF TypeOK, DataInv, DataOn
  <2>2. g \in Node /\ g.buf = caught[e].buf /\ g.depth = caught[e].depth /\ g.data \in Exceptions
    BY <1>4, <2>1 DEF Node, Exceptions
  <2>3. caught' = [caught EXCEPT ![e] = g]
    BY <1>3
  <2> HIDE DEF g
  <2>4. /\ [caught EXCEPT ![e] = g] \in Seq(Node) /\ Len([caught EXCEPT ![e] = g]) = c
        /\ \A j \in 1 .. c : [caught EXCEPT ![e] = g][j] = IF j = e THEN g ELSE caught[j]
    BY <1>2, <1>4, <2>1, <2>2, ExceptSeq
  <2>5. QED
    BY <2>1, <2>2, <2>3, <2>4
<1>6. TypeOK'
  BY <1>1, <1>3, <1>5 DEF TypeOK
<1>7. /\ Of({"throw"})' = Of({"throw"}) /\ Of({"dispatch"})' = Of({"dispatch"})
      /\ \A f : (Left(f)' <=> Left(f)) /\ (Target(f)' <=> Target(f))
  BY <1>1, <1>3, SameFrames
<1>8. /\ ControlOn(n) /\ DataOn(m, c) /\ NodesOn(n, m) /\ RaisedOn(m)
      /\ CaughtOn(n, m, c) /\ RecordsOn(n, k)
  BY <1>1, <1>2 DEF ControlInv, DataInv, NodeInv, RaisedInv, CaughtInv, RecordInv
<1>9. /\ stack' = stack /\ frames' = frames /\ unwinding_in_progress' = unwinding_in_progress
      /\ alive' = alive /\ k_destroyers' = k_destroyers /\ thrown' = thrown
      /\ \A j \in 1 .. c : /\ caught'[j].buf = caught[j].buf /\ caught'[j].depth = caught[j].depth
                           /\ caught'[j].data \in Exceptions
  BY <1>3, <1>5
<1>10. ControlOn(n)'
  BY <1>7, <1>8, <1>9 DEF ControlOn
<1>11. DataOn(m, c)' /\ NodesOn(n, m)'
  BY <1>8, <1>9 DEF DataOn, NodesOn, IsTry
<1>12. RaisedOn(m)'
  BY <1>7, <1>8, <1>9 DEF RaisedOn
<1>13. CaughtOn(n, m, c)'
  BY <1>7, <1>8, <1>9 DEF CaughtOn, IsCaught
<1>14. RecordsOn(n, k)'
  BY <1>7, <1>8, <1>9 DEF RecordsOn, IsRecorded
<1>15. QED
  BY <1>2, <1>5, <1>6, <1>9, <1>10, <1>11, <1>12, <1>13, <1>14
     DEF IInv, ControlInv, DataInv, NodeInv, RaisedInv, CaughtInv, RecordInv

\* The entry of Throw, from client code (nothing popped) or from the FinishTry
\* of a TRY statement that caught nothing (its frame and its node popped); in the
\* second case it may also end in std::terminate.
LEMMA BeginThrow ==
  ASSUME IInv, TypeOK', NEW n \in Nat, NEW m \in Nat, NEW p \in {n, n + 1},
         \/ n = Len(frames) /\ m = Len(stack) /\ Of({"dispatch"}) = {}
         \/ /\ n + 1 = Len(frames) /\ frames[n + 1].kind = "dispatch"
            /\ m + 1 = Len(stack) /\ stack[m + 1].buf = n + 1,
         Len(frames') = p, \A f \in 1 .. n : frames'[f] = frames[f],
         Len(stack') = m, \A i \in 1 .. m : stack'[i] = stack[i],
         \/ p = n /\ thrown' = thrown
         \/ p = n + 1 /\ frames'[p].kind = "throw" /\ thrown' \in Exceptions /\ m > 0,
         ~unwinding_in_progress, Of({"throw"}) = {},
         UNCHANGED <<alive, caught, unwinding_in_progress, k_destroyers>>
  PROVE  IInv'
<1>1. TypeOK /\ ControlInv /\ DataInv /\ NodeInv /\ RaisedInv /\ CaughtInv /\ RecordInv
  BY DEF IInv
<1>2. PICK l \in Nat, s \in Nat, c \in Nat, k \in Nat :
        l = Len(frames) /\ s = Len(stack) /\ c = Len(caught) /\ k = Len(k_destroyers)
  BY <1>1, Positions
<1>3. /\ l \in {n, n + 1} /\ s \in {m, m + 1}
      /\ \A f \in 1 .. n : frames[f].kind # "dispatch" /\ frames[f].kind # "throw"
      /\ \A f \in 1 .. l : ~(f \in 1 .. n) => f = n + 1 /\ frames[f].kind = "dispatch"
      /\ s = m + 1 => stack[s].buf = n + 1
      /\ s = m => l = n
  <2>1. (\A f \in Of({"dispatch"}) : f = l) /\ \A f \in 1 .. l : frames[f].kind # "throw"
    BY <1>1, <1>2, Positions DEF ControlInv, ControlOn
  <2>2. \A f \in 1 .. n : frames[f].kind # "dispatch"
    BY <1>1, <1>2, <2>1, Positions
  <2>3. QED
    BY <1>2, <2>1, <2>2
<1>4. /\ DataOn(s, c) /\ NodesOn(l, s) /\ RaisedOn(s) /\ CaughtOn(l, s, c) /\ RecordsOn(l, k)
  BY <1>1, <1>2 DEF DataInv, NodeInv, RaisedInv, CaughtInv, RecordInv
<1>5. \A f : ~Left(f) /\ ~Target(f)
  BY DEF Left, Target
<1>6. /\ \A i \in 1 .. m : stack[i].buf \in 1 .. n /\ frames[stack[i].buf].kind = "body" /\ ~stack[i].raised
      /\ \A f \in 1 .. n : IsTry(f) => \E i \in 1 .. m : stack[i].buf = f
  <2>1. \A i \in 1 .. m : i \in 1 .. s /\ stack[i].buf \in 1 .. n
    <3>1. CASE s = m
      BY <1>3, <1>4, <3>1 DEF NodesOn
    <3>2. CASE s = m + 1
      <4>1. \A i \in 1 .. m : i \in 1 .. s /\ stack[i].buf < stack[s].buf /\ stack[i].buf \in 1 .. l
        BY <1>4, <3>2 DEF NodesOn
      <4>2. QED
        BY <1>3, <3>2, <4>1
    <3>3. QED
      BY <1>3, <3>1, <3>2
  <2>2. \A i \in 1 .. m : frames[stack[i].buf].kind = "body"
    BY <1>3, <1>4, <2>1 DEF NodesOn, IsTry
  <2>3. \A i \in 1 .. m : ~stack[i].raised
    BY <1>4, <1>5, <2>1, <2>2 DEF RaisedOn
  <2>4. \A f \in 1 .. n : IsTry(f) => \E i \in 1 .. m : stack[i].buf = f
    <3> SUFFICES ASSUME NEW f \in 1 .. n, IsTry(f)
                 PROVE  \E i \in 1 .. m : stack[i].buf = f
      OBVIOUS
    <3>1. PICK i \in 1 .. s : stack[i].buf = f
      BY <1>3, <1>4 DEF NodesOn
    <3>2. i \in 1 .. m
      BY <1>3, <3>1
    <3>3. QED
      BY <3>1, <3>2
  <2>5. QED
    BY <2>1, <2>2, <2>3, <2>4
<1>7. /\ \A f : f \in Of({"throw"})' <=> f = n + 1 /\ p = n + 1
      /\ Of({"dispatch"})' = {}
  <2>1. DOMAIN frames' = 1 .. p
    BY LenProperties DEF TypeOK
  <2>2. \A f \in 1 .. p : f \in 1 .. n \/ (f = p /\ p = n + 1 /\ frames'[f].kind = "throw")
    OBVIOUS
  <2>3. QED
    BY <1>3, <2>1, <2>2 DEF Of
<1>8. \A f \in 1 .. n : frames[f].kind = "body" =>
         ((\A g \in 1 .. n : frames[g].kind = "body" => g <= f) /\ p = n + 1 => Target(f)')
  <2> SUFFICES ASSUME NEW f \in 1 .. n, frames[f].kind = "body", p = n + 1,
                      \A g \in 1 .. n : frames[g].kind = "body" => g <= f
               PROVE  Target(f)'
    OBVIOUS
  <2>1. \A g \in f + 1 .. n + 1 : frames'[g].kind # "body"
    <3> SUFFICES ASSUME NEW g \in f + 1 .. n + 1
                 PROVE  frames'[g].kind # "body"
      OBVIOUS
    <3>1. CASE g \in 1 .. n
      <4>1. frames'[g] = frames[g] /\ ~(g <= f)
        BY <3>1
      <4>2. QED
        BY <3>1, <4>1
    <3>2. CASE g = n + 1
      BY <3>2
    <3>3. QED
      BY <3>1, <3>2
  <2>2. frames'[f].kind = "body" /\ n + 1 \in Of({"throw"})' /\ f < n + 1
    BY <1>7
  <2>3. QED
    BY <2>1, <2>2 DEF Target
<1>9. p = n + 1 => \E f \in 1 .. n : Target(f)'
  <2> SUFFICES ASSUME p = n + 1
               PROVE  \E f \in 1 .. n : Target(f)'
    OBVIOUS
  <2>1. m \in 1 .. m /\ stack[m].buf \in 1 .. n /\ frames[stack[m].buf].kind = "body"
    BY <1>6
  <2>2. \A g \in 1 .. n : frames[g].kind = "body" => g <= stack[m].buf
    <3> SUFFICES ASSUME NEW g \in 1 .. n, frames[g].kind = "body"
                 PROVE  g <= stack[m].buf
      OBVIOUS
    <3>1. PICK i \in 1 .. m : stack[i].buf = g
      BY <1>6 DEF IsTry
    <3>2. i = m \/ stack[i].buf < stack[m].buf
      BY <1>3, <1>4 DEF NodesOn
    <3>3. QED
      BY <2>1, <3>1, <3>2
  <2>3. QED
    BY <1>8, <2>1, <2>2
<1>10. ControlOn(p)'
  <2>1. thrown = NoException
    BY <1>1 DEF ControlInv, ControlOn
  <2>2. CASE p = n
    <3>1. Of({"throw"})' = {} /\ thrown' = NoException
      BY <1>7, <2>1, <2>2
    <3>2. QED
      BY <1>7, <3>1 DEF ControlOn
  <2>3. CASE p = n + 1
    <3>1. Of({"throw"})' = {p} /\ thrown' # NoException
      BY <1>7, <2>3, NoExceptionAssumption
    <3>2. \E f \in 1 .. p : Target(f)'
      BY <1>9, <2>3
    <3>3. \A f \in p + 1 .. p : FALSE
      OBVIOUS
    <3>4. QED
      BY <1>7, <3>1, <3>2, <3>3 DEF ControlOn
  <2>4. QED
    BY <2>2, <2>3
<1>11. /\ caught' = caught /\ alive' = alive /\ k_destroyers' = k_destroyers
       /\ ~unwinding_in_progress /\ ~unwinding_in_progress'
       /\ \A i \in 1 .. m : stack'[i] = stack[i] /\ i \in 1 .. s
       /\ \A f \in 1 .. n : frames'[f] = frames[f] /\ f \in 1 .. l
       /\ \A f \in 1 .. p : f \in 1 .. n \/ (f = p /\ frames'[f].kind = "throw")
  BY <1>3
<1>12. DataOn(m, c)'
  BY <1>4, <1>11 DEF DataOn
<1>13. NodesOn(p, m)'
  <2>1. \A i \in 1 .. m :
          /\ stack'[i].buf \in 1 .. p /\ frames'[stack'[i].buf].kind = "body"
          /\ stack'[i].depth = i - 1
    <3>1. \A i \in 1 .. m : stack[i].depth = i - 1
      BY <1>4, <1>11 DEF NodesOn
    <3>2. \A i \in 1 .. m : stack'[i] = stack[i] /\ stack[i].buf \in 1 .. n
      BY <1>6, <1>11
    <3>3. \A i \in 1 .. m : frames'[stack[i].buf].kind = "body" /\ stack[i].buf \in 1 .. p
      BY <1>6, <1>11
    <3>4. QED
      BY <3>1, <3>2, <3>3
  <2>2. \A f \in 1 .. p : IsTry(f)' => \E i \in 1 .. m : stack'[i].buf = f
    <3> SUFFICES ASSUME NEW f \in 1 .. p, IsTry(f)'
                 PROVE  \E i \in 1 .. m : stack'[i].buf = f
      OBVIOUS
    <3>1. f \in 1 .. n /\ IsTry(f)
      BY <1>11 DEF IsTry
    <3>2. PICK i \in 1 .. m : stack[i].buf = f
      BY <1>6, <3>1
    <3>3. QED
      BY <1>11, <3>2
  <2>3. \A i, j \in 1 .. m : i < j => stack'[i].buf < stack'[j].buf
    BY <1>4, <1>11 DEF NodesOn
  <2>4. QED
    BY <1>11, <2>1, <2>2, <2>3 DEF NodesOn, IsTry
<1>14. RaisedOn(m)'
  <2>1. \A i \in 1 .. m :
          ~stack[i].raised /\ stack[i].buf \in 1 .. n /\ frames[stack[i].buf].kind = "body"
    BY <1>6
  <2>2. \A i \in 1 .. m :
          ~stack'[i].raised /\ frames'[stack'[i].buf].kind = "body"
    <3> SUFFICES ASSUME NEW i \in 1 .. m
                 PROVE  ~stack'[i].raised /\ frames'[stack'[i].buf].kind = "body"
      OBVIOUS
    <3>1. stack'[i] = stack[i] /\ frames'[stack[i].buf] = frames[stack[i].buf]
      BY <1>11, <2>1
    <3>2. QED
      BY <2>1, <3>1
  <2>3. QED
    BY <1>11, <2>2 DEF RaisedOn
<1>15. CaughtOn(p, m, c)'
  <2>1. \A j \in 1 .. c : caught[j].buf \in 1 .. n /\ frames[caught[j].buf].kind = "handler"
    BY <1>3, <1>4 DEF CaughtOn
  <2>2. \A j \in 1 .. c : caught[j].depth \in 0 .. m
    <3>1. CASE s = m
      BY <1>4, <3>1 DEF CaughtOn
    <3>2. CASE s = m + 1
      <4>1. s \in 1 .. s /\ stack[s].depth = m /\ stack[s].buf = n + 1
        BY <1>3, <1>4, <3>2 DEF NodesOn
      <4>2. \A j \in 1 .. c : ~(stack[s].buf < caught[j].buf)
        BY <2>1, <4>1
      <4>3. \A j \in 1 .. c : caught[j].depth \in 0 .. m + 1 /\ ~(m < caught[j].depth)
        BY <1>4, <3>2, <4>1, <4>2 DEF CaughtOn
      <4>4. QED
        BY <4>3
    <3>3. QED
      BY <1>3, <3>1, <3>2
  <2>3. \A f \in 1 .. p : frames'[f].kind = "handler" => IsCaught(f, c)
    BY <1>4, <1>5, <1>11 DEF CaughtOn
  <2>4. \A i \in 1 .. m, j \in 1 .. c :
          stack'[i].buf < caught[j].buf <=> stack'[i].depth < caught[j].depth
    BY <1>4, <1>11 DEF CaughtOn
  <2>5. \A i, j \in 1 .. c : i < j => caught[i].buf < caught[j].buf
    BY <1>4 DEF CaughtOn
  <2>6. \A f : IsCaught(f, c)' <=> IsCaught(f, c)
    BY <1>11 DEF IsCaught
  <2>7. \A j \in 1 .. c :
          caught[j].buf \in 1 .. p /\ frames'[caught[j].buf].kind = "handler"
    BY <1>11, <2>1
  <2>8. \A j \in 1 .. c, g \in 1 .. p :
          frames'[g].kind = "handler" /\ g < caught[j].buf => IsCaught(g, c)'
    BY <2>3, <2>6
  <2>9. \A f \in 1 .. p : frames'[f].kind = "handler" => IsCaught(f, c)'
    BY <2>3, <2>6
  <2>10. caught' = caught /\ ~unwinding_in_progress'
    BY <1>11
  <2>11. QED
    BY <2>2, <2>4, <2>5, <2>7, <2>8, <2>9, <2>10 DEF CaughtOn
<1>16. RecordsOn(p, k)'
  <2>1. \A f \in alive : f \in 1 .. n /\ frames[f].kind = "object" /\ IsRecorded(f, k)
    BY <1>3, <1>4 DEF RecordsOn
  <2>2. \A i \in 1 .. k : k_destroyers[i] \in Item
    BY <1>1, <1>2, Positions
  <2>3. \A i \in 1 .. k :
          /\ k_destroyers[i].at \in 1 .. n
          /\ k_destroyers[i].kind = "checkpoint" => frames[k_destroyers[i].at].kind = "body"
          /\ k_destroyers[i].kind = "object" =>
               frames[k_destroyers[i].at].kind = "object" /\ k_destroyers[i].at \in alive
    BY <1>3, <1>4, <2>2 DEF RecordsOn, Item
  <2>4. \A f \in 1 .. n : frames[f].kind = "object" => f \in alive
    BY <1>4, <1>11 DEF RecordsOn
  <2>5. \A f \in 1 .. n : frames[f].kind = "body" => IsRecorded(f, k)
    BY <1>4, <1>11 DEF RecordsOn
  <2>6. \A i, j \in 1 .. k : i < j => k_destroyers[i].at < k_destroyers[j].at
    BY <1>4 DEF RecordsOn
  <2>7. \A i \in 1 .. k :
          /\ k_destroyers[i].at \in 1 .. p
          /\ frames'[k_destroyers[i].at].kind = frames[k_destroyers[i].at].kind
    BY <1>11, <2>3
  <2>8. \A f \in alive : f \in 1 .. p /\ frames'[f].kind = "object" /\ IsRecorded(f, k)
    BY <1>11, <2>1
  <2>9. \A f \in 1 .. p :
          /\ frames'[f].kind = "body" => IsRecorded(f, k)
          /\ frames'[f].kind = "object" => f \in alive
    BY <1>11, <2>4, <2>5
  <2>10. /\ \A f : IsRecorded(f, k)' <=> IsRecorded(f, k)
         /\ alive' = alive /\ k_destroyers' = k_destroyers
    BY <1>11 DEF IsRecorded
  <2>11. \A i \in 1 .. k :
           /\ k_destroyers[i].at \in 1 .. p
           /\ k_destroyers[i].kind = "checkpoint" =>
                frames'[k_destroyers[i].at].kind = "body"
           /\ k_destroyers[i].kind = "object" =>
                frames'[k_destroyers[i].at].kind = "object" /\ k_destroyers[i].at \in alive
    BY <2>3, <2>7
  <2>13. /\ \A f \in 1 .. p : frames'[f].kind = "body" => IsRecorded(f, k)'
         /\ \A f \in 1 .. p : frames'[f].kind = "object" => f \in alive'
         /\ \A f \in alive' :
              f \in 1 .. p /\ frames'[f].kind = "object" /\ IsRecorded(f, k)'
    BY <2>8, <2>9, <2>10
  <2>14. \A i \in 1 .. k :
           /\ k_destroyers'[i].at \in 1 .. p
           /\ k_destroyers'[i].kind = "checkpoint" =>
                frames'[k_destroyers'[i].at].kind = "body"
           /\ k_destroyers'[i].kind = "object" =>
                frames'[k_destroyers'[i].at].kind = "object" /\ k_destroyers'[i].at \in alive'
    BY <2>10, <2>11
  <2>15. \A i, j \in 1 .. k : i < j => k_destroyers'[i].at < k_destroyers'[j].at
    BY <2>6, <2>10
  <2>16. QED
    BY <2>13, <2>14, <2>15 DEF RecordsOn
<1>17. QED
  BY <1>2, <1>10, <1>11, <1>12, <1>13, <1>14, <1>15, <1>16
     DEF IInv, ControlInv, DataInv, NodeInv, RaisedInv, CaughtInv, RecordInv

\* The checkpoint on top of k_destroyers is the one of the TRY body that the
\* Throw on top is about to jump to, and every object in scope below is alive.
LEMMA TopCheckpoint ==
  ASSUME IInv, frames # << >>, frames[Len(frames)].kind = "throw", unwinding_in_progress,
         k_destroyers # << >>, Last(k_destroyers).kind = "checkpoint"
  PROVE  /\ Last(k_destroyers).at = Last(stack).buf
         /\ alive \subseteq 1 .. Last(stack).buf - 1
         /\ \A f \in 1 .. Last(stack).buf - 1 : frames[f].kind = "object" <=> f \in alive
<1>1. TypeOK /\ RecordInv
  BY DEF IInv
<1>2. PICK n \in Nat, k \in Nat, b \in Nat :
        /\ b \in 1 .. n - 1 /\ n = Len(frames) /\ k + 1 = Len(k_destroyers) /\ b = Last(stack).buf
        /\ frames[b].kind = "body"
        /\ \A f \in b + 1 .. n : frames[f].kind # "body"
        /\ \A f \in 1 .. n : Left(f) <=> b < f /\ f < n
        /\ k_destroyers[k + 1].kind = "checkpoint"
        /\ Last(k_destroyers) = k_destroyers[k + 1]
  <2>1. Len(k_destroyers) > 0 /\ Last(k_destroyers) = k_destroyers[Len(k_destroyers)]
    BY <1>1, Tops
  <2>2. \E k \in Nat : k + 1 = Len(k_destroyers)
    BY <1>1, <2>1, Positions, Predecessor
  <2>3. Len(frames) \in Nat
    BY <1>1, Positions
  <2>4. /\ Last(stack).buf \in 1 .. Len(frames) - 1
        /\ frames[Last(stack).buf].kind = "body"
        /\ \A f \in Last(stack).buf + 1 .. Len(frames) : frames[f].kind # "body"
        /\ \A f \in 1 .. Len(frames) : Left(f) <=> Last(stack).buf < f /\ f < Len(frames)
    BY UnderThrow
  <2>5. Last(stack).buf \in Nat
    BY <2>4
  <2> DEFINE b == Last(stack).buf
             n == Len(frames)
  <2>6. n \in Nat /\ b \in Nat /\ b \in 1 .. n - 1 /\ frames[b].kind = "body"
    BY <2>3, <2>4, <2>5
  <2>7. /\ \A f \in b + 1 .. n : frames[f].kind # "body"
        /\ \A f \in 1 .. n : Left(f) <=> b < f /\ f < n
    BY <2>4
  <2>8. n = Len(frames) /\ b = Last(stack).buf
    OBVIOUS
  <2> HIDE DEF n, b
  <2>9. QED
    BY <2>1, <2>2, <2>6, <2>7, <2>8
<1>3. RecordsOn(n, k + 1)
  BY <1>1, <1>2 DEF RecordInv
<1> DEFINE o == k_destroyers[k + 1].at
<1>4. o \in 1 .. n /\ frames[o].kind = "body" /\ o <= b
  <2>1. o \in 1 .. n /\ frames[o].kind = "body"
    BY <1>2, <1>3 DEF RecordsOn
  <2>2. QED
    BY <1>2, <2>1
<1>5. \A i \in 1 .. k + 1 : k_destroyers[i].at \in 1 .. n /\ k_destroyers[i].at <= o
  <2>1. \A i \in 1 .. k + 1 : i < k + 1 \/ i = k + 1
    OBVIOUS
  <2>2. QED
    BY <1>3, <2>1 DEF RecordsOn
<1>6. o = b
  <2>1. PICK i \in 1 .. k + 1 : k_destroyers[i].at = b
    BY <1>2, <1>3, SMTT(20) DEF RecordsOn, IsRecorded
  <2>2. b <= o
    BY <1>5, <2>1
  <2>3. QED
    BY <1>2, <1>4, <2>2
<1>7. \A f \in alive : f \in 1 .. b - 1 /\ frames[f].kind = "object"
  <2> SUFFICES ASSUME NEW f \in alive
               PROVE  f \in 1 .. b - 1 /\ frames[f].kind = "object"
    OBVIOUS
  <2>1. f \in 1 .. n /\ frames[f].kind = "object" /\ IsRecorded(f, k + 1)
    BY <1>3 DEF RecordsOn
  <2>2. PICK i \in 1 .. k + 1 : k_destroyers[i].at = f
    BY <2>1 DEF IsRecorded
  <2>3. f <= b
    BY <1>5, <1>6, <2>2
  <2>4. f # b
    BY <1>2, <2>1
  <2>5. QED
    BY <1>2, <2>1, <2>3, <2>4
<1>8. \A f \in 1 .. b - 1 : frames[f].kind = "object" => f \in alive
  <2> SUFFICES ASSUME NEW f \in 1 .. b - 1, frames[f].kind = "object"
               PROVE  f \in alive
    OBVIOUS
  <2>1. f \in 1 .. n /\ ~Left(f)
    BY <1>2
  <2>2. QED
    BY <1>3, <2>1 DEF RecordsOn
<1>9. QED
  BY <1>2, <1>6, <1>7, <1>8

\* longjmp: the frames above the jump buffer are gone.
LEMMA LongjmpFrames ==
  ASSUME TypeOK, Longjmp, Last(stack).buf \in 1 .. Len(frames) - 1
  PROVE  /\ frames' \in Seq(Frame) /\ Len(frames') = Last(stack).buf
         /\ DOMAIN frames' = 1 .. Last(stack).buf
         /\ \A f \in 1 .. Last(stack).buf - 1 : frames'[f] = frames[f]
         /\ frames'[Last(stack).buf].kind = "dispatch"
<1>1. PICK n \in Nat, b \in Nat :
        n = Len(frames) /\ b = Last(stack).buf /\ b \in 1 .. n - 1
  BY Positions
<1> DEFINE s == SubSeq(frames, 1, b)
           g == [s[b] EXCEPT !.kind = "dispatch"]
<1>2. s \in Seq(Frame) /\ Len(s) = b /\ \A f \in 1 .. b : s[f] = frames[f]
  <2>1. b \in Int /\ 1 \in Int /\ (\A f \in 1 .. b : frames[f] \in Frame) /\ 1 <= b
    BY <1>1, Positions
  <2>2. /\ s \in Seq(Frame)
        /\ Len(s) = IF 1 <= b THEN b - 1 + 1 ELSE 0
        /\ \A i \in 1 .. b - 1 + 1 : s[i] = frames[1 + i - 1]
    BY <2>1, SubSeqProperties
  <2> HIDE DEF s
  <2>3. Len(s) = b
    BY <2>1, <2>2
  <2>4. \A f \in 1 .. b : s[f] = frames[f]
    <3> TAKE f \in 1 .. b
    <3>1. f \in 1 .. b - 1 + 1 /\ 1 + f - 1 = f
      BY <2>1
    <3>2. QED
      BY <2>2, <3>1
  <2>5. QED
    BY <2>2, <2>3, <2>4
<1> HIDE DEF s
<1>3. s[b] \in Frame /\ "dispatch" \in FrameKinds
  BY <1>1, <1>2, Positions DEF FrameKinds
<1>4. g \in Frame /\ g.kind = "dispatch"
  BY <1>3 DEF Frame
<1>5. frames' = [s EXCEPT ![b] = g]
  BY <1>1 DEF s, Longjmp
<1> HIDE DEF g
<1>6. /\ [s EXCEPT ![b] = g] \in Seq(Frame) /\ Len([s EXCEPT ![b] = g]) = b
      /\ \A f \in 1 .. b : [s EXCEPT ![b] = g][f] = IF f = b THEN g ELSE s[f]
  BY <1>1, <1>2, <1>4, ExceptSeq
<1>7. \A f \in 1 .. b - 1 : f \in 1 .. b /\ f # b
  BY <1>1
<1>8. DOMAIN frames' = 1 .. b
  BY <1>5, <1>6, LenProperties
<1>9. QED
  BY <1>1, <1>2, <1>4, <1>5, <1>6, <1>7, <1>8

\* longjmp cuts the frames at the body that is delivered to.
LEMMA LongjmpStep ==
  ASSUME IInv, Longjmp
  PROVE  IInv'
<1>1. TypeOK /\ ControlInv /\ DataInv /\ NodeInv /\ RaisedInv /\ CaughtInv /\ RecordInv
  BY DEF IInv
<1>2. /\ frames # << >> /\ frames[Len(frames)].kind = "throw" /\ unwinding_in_progress
      /\ k_destroyers # << >> /\ Last(k_destroyers).kind = "checkpoint"
  BY <1>1, Tops DEF Longjmp, TopIs
<1>3. stack # << >> /\ Len(stack) > 0 /\ Len(k_destroyers) > 0
  BY <1>1, <1>2, UnderThrow, Tops
<1>4. PICK n \in Nat, m \in Nat, c \in Nat, k \in Nat, b \in Nat :
        /\ b \in 1 .. n - 1 /\ n = Len(frames) /\ m + 1 = Len(stack) /\ c = Len(caught) /\ k + 1 = Len(k_destroyers)
        /\ b = Last(stack).buf /\ Last(stack) = stack[m + 1]
        /\ Last(k_destroyers) = k_destroyers[k + 1]
  <2>1. (\E m \in Nat : m + 1 = Len(stack)) /\ (\E k \in Nat : k + 1 = Len(k_destroyers))
    BY <1>1, <1>3, Positions, Predecessor
  <2>2. Last(stack).buf \in 1 .. Len(frames) - 1
    BY <1>2, UnderThrow
  <2>3. Last(stack).buf \in Nat /\ Len(frames) \in Nat /\ Len(caught) \in Nat
    BY <1>1, <2>2, Positions
  <2>4. /\ Last(stack) = stack[Len(stack)]
        /\ Last(k_destroyers) = k_destroyers[Len(k_destroyers)]
    BY <1>1, <1>2, <1>3, Tops
  <2>5. QED
    BY <2>1, <2>2, <2>3, <2>4
<1>5. /\ frames[b].kind = "body"
      /\ \A f \in b + 1 .. n : frames[f].kind # "body"
      /\ \A f \in 1 .. n : Left(f) <=> b < f /\ f < n
      /\ \A f \in 1 .. n : Target(f) <=> f = b
      /\ Of({"throw"}) = {n}
  BY <1>2, <1>4, UnderThrow
<1>6. /\ k_destroyers[k + 1].at = b /\ alive \subseteq 1 .. b - 1
      /\ \A f \in 1 .. b - 1 : frames[f].kind = "object" <=> f \in alive
  BY <1>2, <1>4, TopCheckpoint
<1>7. /\ frames' = [SubSeq(frames, 1, b) EXCEPT ![b].kind = "dispatch"]
      /\ k_destroyers' = Front(k_destroyers)
      /\ unwinding_in_progress' = FALSE
      /\ thrown' = NoException
      /\ alive' = alive /\ terminated' = terminated /\ stack' = stack /\ caught' = caught
  BY <1>4 DEF Longjmp
<1>8. /\ frames' \in Seq(Frame) /\ Len(frames') = b
      /\ \A f \in 1 .. b - 1 : frames'[f] = frames[f]
      /\ frames'[b].kind = "dispatch"
  BY <1>1, <1>4, LongjmpFrames
<1>9. /\ k_destroyers' \in Seq(Item) /\ Len(k_destroyers') = k
      /\ \A i \in 1 .. k : k_destroyers'[i] = k_destroyers[i]
  BY <1>1, <1>4, <1>7, Pop DEF TypeOK
<1>10. TypeOK'
  BY <1>1, <1>7, <1>8, <1>9 DEF TypeOK
<1>11. /\ \A f \in 1 .. b - 1 : frames'[f] = frames[f] /\ f \in 1 .. n
       /\ frames'[b].kind = "dispatch"
       /\ \A f \in 1 .. b : f \in 1 .. b - 1 \/ f = b
       /\ \A i \in 1 .. k : k_destroyers'[i] = k_destroyers[i]
  <2>1. \A f \in 1 .. b - 1 : f \in 1 .. n
    BY <1>4
  <2>2. \A f \in 1 .. b : f \in 1 .. b - 1 \/ f = b
    OBVIOUS
  <2>3. QED
    BY <1>8, <1>9, <2>1, <2>2
<1>12. /\ DataOn(m + 1, c) /\ NodesOn(n, m + 1) /\ RaisedOn(m + 1)
       /\ CaughtOn(n, m + 1, c) /\ RecordsOn(n, k + 1) /\ ControlOn(n)
  BY <1>1, <1>4 DEF DataInv, NodeInv, RaisedInv, CaughtInv, RecordInv, ControlInv
<1>13. \A f \in 1 .. b - 1 : frames[f].kind # "throw" /\ frames[f].kind # "dispatch"
  <2>1. \A f \in 1 .. b - 1 : f \in 1 .. n /\ f # n
    BY <1>4
  <2>2. QED
    BY <1>1, <1>4, <1>5, <1>12, <2>1, Positions DEF ControlOn
<1>14. Of({"throw"})' = {} /\ \A f \in Of({"dispatch"})' : f = b
  <2>1. DOMAIN frames' = 1 .. b
    BY <1>8, LenProperties
  <2>2. QED
    BY <1>11, <1>13, <2>1 DEF Of
<1>15. \A f : ~Left(f)' /\ ~Target(f)'
  BY <1>14 DEF Left, Target
<1>16. ControlOn(b)'
  BY <1>7, <1>14 DEF ControlOn
<1>17. DataOn(m + 1, c)'
  BY <1>7, <1>12 DEF DataOn
<1>18. /\ \A i \in 1 .. m : stack[i].buf \in 1 .. b - 1
       /\ \A i \in 1 .. m + 1 : i \in 1 .. m \/ i = m + 1
       /\ stack[m + 1].buf = b
  <2>1. \A i \in 1 .. m : stack[i].buf < stack[m + 1].buf /\ stack[i].buf \in 1 .. n
    BY <1>12 DEF NodesOn
  <2>2. QED
    BY <1>4, <2>1
<1>19. NodesOn(b, m + 1)'
  <2>1. \A i \in 1 .. m + 1 :
          /\ stack[i].buf \in 1 .. b /\ frames'[stack[i].buf].kind \in {"body", "dispatch"}
          /\ stack[i].depth = i - 1
    <3> SUFFICES ASSUME NEW i \in 1 .. m + 1
                 PROVE  /\ stack[i].buf \in 1 .. b /\ stack[i].depth = i - 1
                        /\ frames'[stack[i].buf].kind \in {"body", "dispatch"}
      OBVIOUS
    <3>1. stack[i].depth = i - 1 /\ frames[stack[i].buf].kind \in {"body", "dispatch"}
      BY <1>12 DEF NodesOn, IsTry
    <3>2. CASE i \in 1 .. m
      BY <1>11, <1>18, <3>1, <3>2
    <3>3. CASE i = m + 1
      BY <1>4, <1>11, <1>18, <3>1, <3>3
    <3>4. QED
      BY <1>18, <3>2, <3>3
  <2>2. \A f \in 1 .. b : IsTry(f)' => \E i \in 1 .. m + 1 : stack[i].buf = f
    <3> SUFFICES ASSUME NEW f \in 1 .. b, frames'[f].kind \in {"body", "dispatch"}
                 PROVE  \E i \in 1 .. m + 1 : stack[i].buf = f
      BY DEF IsTry
    <3>1. CASE f \in 1 .. b - 1
      BY <1>11, <1>12, <3>1 DEF NodesOn, IsTry
    <3>2. CASE f = b
      BY <1>18, <3>2
    <3>3. QED
      BY <1>11, <3>1, <3>2
  <2>3. \A i, j \in 1 .. m + 1 : i < j => stack[i].buf < stack[j].buf
    BY <1>12 DEF NodesOn
  <2>4. QED
    BY <1>7, <2>1, <2>2, <2>3 DEF NodesOn, IsTry
<1>20. RaisedOn(m + 1)'
  <2> SUFFICES ASSUME NEW i \in 1 .. m + 1
               PROVE  stack[i].raised <=> frames'[stack[i].buf].kind = "dispatch"
    BY <1>7 DEF RaisedOn
  <2>1. CASE i = m + 1
    <3>1. Target(stack[i].buf)
      BY <1>4, <1>5, <1>18, <2>1
    <3>2. stack[i].raised
      BY <1>2, <1>12, <3>1 DEF RaisedOn
    <3>3. QED
      BY <1>11, <1>18, <2>1, <3>2
  <2>2. CASE i \in 1 .. m
    <3>1. stack[i].buf \in 1 .. b - 1 /\ stack[i].buf \in 1 .. n /\ stack[i].buf # b
      BY <1>4, <1>18, <2>2
    <3>2. ~Target(stack[i].buf) /\ frames[stack[i].buf].kind # "dispatch"
      BY <1>5, <1>13, <3>1
    <3>3. ~stack[i].raised
      BY <1>12, <3>2 DEF RaisedOn
    <3>4. QED
      BY <1>11, <3>1, <3>2, <3>3
  <2>3. QED
    BY <1>18, <2>1, <2>2
<1>21. CaughtOn(b, m + 1, c)'
  <2>1. \A j \in 1 .. c :
          /\ caught[j].buf \in 1 .. b - 1 /\ caught[j].depth \in 0 .. m + 1
          /\ frames'[caught[j].buf].kind = "handler"
    <3> SUFFICES ASSUME NEW j \in 1 .. c
                 PROVE  /\ caught[j].buf \in 1 .. b - 1 /\ caught[j].depth \in 0 .. m + 1
                        /\ frames'[caught[j].buf].kind = "handler"
      OBVIOUS
    <3>1. /\ caught[j].buf \in 1 .. n /\ caught[j].depth \in 0 .. m + 1
          /\ frames[caught[j].buf].kind = "handler" /\ ~Left(caught[j].buf)
      BY <1>2, <1>12 DEF CaughtOn
    <3>2. caught[j].buf # n /\ caught[j].buf # b
      BY <1>2, <1>4, <1>5, <3>1
    <3>3. caught[j].buf \in 1 .. b - 1
      <4> DEFINE f == caught[j].buf
      <4>1. f \in 1 .. n /\ f # n /\ f # b /\ ~(b < f /\ f < n)
        BY <1>5, <3>1, <3>2
      <4> HIDE DEF f
      <4>2. f \in 1 .. b - 1
        BY <1>4, <4>1
      <4>3. QED
        BY <4>2 DEF f
    <3>4. QED
      BY <1>11, <3>1, <3>3
  <2>2. \A f \in 1 .. b : frames'[f].kind = "handler" => IsCaught(f, c)
    <3> SUFFICES ASSUME NEW f \in 1 .. b, frames'[f].kind = "handler"
                 PROVE  IsCaught(f, c)
      OBVIOUS
    <3>1. f \in 1 .. b - 1 /\ f \in 1 .. n /\ frames[f].kind = "handler"
      BY <1>11
    <3>2. ~Left(f)
      BY <1>4, <1>5, <3>1
    <3>3. QED
      BY <1>12, <3>1, <3>2 DEF CaughtOn
  <2>3. /\ \A i, j \in 1 .. c : i < j => caught[i].buf < caught[j].buf
        /\ \A i \in 1 .. m + 1, j \in 1 .. c :
             stack[i].buf < caught[j].buf <=> stack[i].depth < caught[j].depth
    BY <1>12 DEF CaughtOn
  <2>4. /\ \A f : IsCaught(f, c)' <=> IsCaught(f, c)
        /\ \A j \in 1 .. c : caught[j].buf \in 1 .. b
    BY <1>7, <2>1 DEF IsCaught
  <2>5. QED
    BY <1>7, <2>1, <2>2, <2>3, <2>4 DEF CaughtOn
<1>22. RecordsOn(b, k)'
  <2>1. \A i \in 1 .. k :
          /\ k_destroyers[i].at \in 1 .. b - 1 /\ k_destroyers[i] \in Item
          /\ k_destroyers[i].kind = "checkpoint" => frames[k_destroyers[i].at].kind = "body"
          /\ k_destroyers[i].kind = "object" =>
               frames[k_destroyers[i].at].kind = "object" /\ k_destroyers[i].at \in alive
    <3>1. \A i \in 1 .. k :
            k_destroyers[i].at < k_destroyers[k + 1].at /\ k_destroyers[i].at \in 1 .. n
      BY <1>12 DEF RecordsOn
    <3>2. \A i \in 1 .. k : k_destroyers[i].at \in 1 .. b - 1
      BY <1>4, <1>6, <3>1
    <3>3. \A i \in 1 .. k : k_destroyers[i] \in Item
      BY <1>1, <1>4, Positions
    <3>4. QED
      BY <1>12, <3>2, <3>3 DEF RecordsOn
  <2>2. \A f \in 1 .. b - 1 : IsRecorded(f, k + 1) => IsRecorded(f, k)'
    <3>1. \A i \in 1 .. k + 1 : i \in 1 .. k \/ i = k + 1
      OBVIOUS
    <3>2. \A f \in 1 .. b - 1 : f # b
      BY <1>4
    <3>3. QED
      BY <1>6, <1>11, <3>1, <3>2 DEF IsRecorded
  <2>3. \A f \in 1 .. b : /\ frames'[f].kind = "body" => IsRecorded(f, k)'
                          /\ frames'[f].kind = "object" => f \in alive'
    <3> SUFFICES ASSUME NEW f \in 1 .. b - 1
                 PROVE  /\ frames[f].kind = "body" => IsRecorded(f, k)'
                        /\ frames[f].kind = "object" => f \in alive'
      BY <1>11
    <3>1. f \in 1 .. n
      BY <1>11
    <3>2. QED
      BY <1>6, <1>7, <1>12, <2>2, <3>1 DEF RecordsOn
  <2>4. \A f \in alive' : f \in 1 .. b /\ frames'[f].kind = "object" /\ IsRecorded(f, k)'
    <3> SUFFICES ASSUME NEW f \in alive
                 PROVE  f \in 1 .. b /\ frames'[f].kind = "object" /\ IsRecorded(f, k)'
      BY <1>7
    <3>1. f \in 1 .. b - 1 /\ frames[f].kind = "object" /\ IsRecorded(f, k + 1)
      BY <1>6, <1>12 DEF RecordsOn
    <3>2. QED
      BY <1>11, <2>2, <3>1
  <2>5. \A i, j \in 1 .. k : i < j => k_destroyers'[i].at < k_destroyers'[j].at
    BY <1>11, <1>12 DEF RecordsOn
  <2>6. \A i \in 1 .. k :
          /\ k_destroyers'[i].at \in 1 .. b
          /\ k_destroyers'[i].kind = "checkpoint" => frames'[k_destroyers'[i].at].kind = "body"
          /\ k_destroyers'[i].kind = "object" =>
               frames'[k_destroyers'[i].at].kind = "object" /\ k_destroyers'[i].at \in alive'
    BY <1>7, <1>11, <2>1
  <2>7. QED
    BY <2>3, <2>4, <2>5, <2>6 DEF RecordsOn
<1>23. QED
  BY <1>4, <1>7, <1>8, <1>9, <1>10, <1>16, <1>17, <1>19, <1>20, <1>21, <1>22
     DEF IInv, ControlInv, DataInv, NodeInv, RaisedInv, CaughtInv, RecordInv

\* A Throw call from client code.
LEMMA CallThrowStep ==
  ASSUME IInv, Running, NEW exc \in Exceptions, CallThrow(exc, frames, stack),
         UNCHANGED <<alive, library>>
  PROVE  IInv'
<1>1. TypeOK
  BY DEF IInv
<1>2. UNCHANGED <<alive, stack, caught, unwinding_in_progress, k_destroyers>>
  BY DEF library
<1>3. CASE Terminate /\ frames' = frames
  <2>1. TypeOK' /\ UNCHANGED <<frames, thrown>>
    BY <1>1, <1>2, <1>3 DEF TypeOK, Terminate
  <2>2. QED
    BY <1>2, <2>1, NothingChanges
<1>4. CASE /\ ~unwinding_in_progress /\ stack # << >>
           /\ frames' = Append(frames, NewFrame("throw", << >>))
           /\ thrown' = exc /\ UNCHANGED terminated
  <2>1. PICK n \in Nat, m \in Nat : n = Len(frames) /\ m = Len(stack) /\ m > 0
    BY <1>1, <1>4, Positions, Tops
  <2>2. frames \in Seq(Frame) /\ NewFrame("throw", << >>) \in Frame
    BY <1>1 DEF TypeOK, NewFrame, Frame, FrameKinds
  <2>3. /\ frames' \in Seq(Frame) /\ Len(frames') = n + 1
        /\ \A f \in 1 .. n : frames'[f] = frames[f]
        /\ frames'[n + 1].kind = "throw"
    BY <1>4, <2>1, <2>2, Push DEF NewFrame
  <2>4. TypeOK'
    BY <1>1, <1>2, <1>4, <2>3 DEF TypeOK
  <2>5. Of({"dispatch"}) = {} /\ Of({"throw"}) = {}
    BY <1>4, ClientRuns
  <2>6. /\ n + 1 \in {n, n + 1} /\ stack' = stack /\ Len(stack') = m
        /\ \A i \in 1 .. m : stack'[i] = stack[i]
    BY <1>2, <2>1
  <2>7. thrown' \in Exceptions
    BY <1>4
  <2>8. QED
    BY <1>2, <1>4, <2>1, <2>3, <2>4, <2>5, <2>6, <2>7, BeginThrow
<1>5. QED
  BY <1>3, <1>4 DEF CallThrow

\* Throw raises the exception it is given.
LEMMA ThrowStep ==
  ASSUME IInv, NEW type \in Types, Throw(type)
  PROVE  IInv'
<1>1. [type |-> type, edited |-> FALSE] \in Exceptions
  BY DEF Exceptions
<1>2. QED
  BY <1>1, CallThrowStep DEF Throw

\* Rethrow raises the exception of the innermost handler.
LEMMA RethrowStep ==
  ASSUME IInv, Rethrow
  PROVE  IInv'
<1>1. TypeOK /\ DataInv
  BY DEF IInv
<1>2. CASE caught = << >> /\ Terminate /\ UNCHANGED frames
  <2>1. UNCHANGED <<frames, thrown, alive, stack, caught, unwinding_in_progress, k_destroyers>>
    BY <1>2 DEF Rethrow, Terminate, library
  <2>2. TypeOK'
    BY <1>1, <1>2, <2>1 DEF TypeOK, Terminate
  <2>3. QED
    BY <2>1, <2>2, NothingChanges
<1>3. CASE caught # << >> /\ CallThrow(Last(caught).data, frames, stack)
  <2>1. Len(caught) \in 1 .. Len(caught) /\ Last(caught) = caught[Len(caught)]
    BY <1>1, <1>3, Positions, Tops
  <2>2. Last(caught).data \in Exceptions
    BY <1>1, <2>1 DEF DataInv, DataOn
  <2>3. QED
    BY <1>3, <2>2, CallThrowStep DEF Rethrow
<1>4. QED
  BY <1>2, <1>3 DEF Rethrow

\* A TRY whose clauses all failed raises its exception outwards.
LEMMA FinishRaisedStep ==
  ASSUME IInv, AtEndOfTry, FinishRaised
  PROVE  IInv'
<1>1. TypeOK /\ DataInv
  BY DEF IInv
<1>2. /\ frames # << >> /\ frames[Len(frames)].kind = "dispatch" /\ Len(frames) > 0
      /\ stack # << >> /\ Last(stack).buf = Len(frames) /\ Len(stack) > 0
      /\ Last(stack) = stack[Len(stack)] /\ Last(stack).raised
  BY <1>1, Tops, FinishCases, TopTry DEF FinishRaised
<1>3. PICK n \in Nat, m \in Nat : n + 1 = Len(frames) /\ m + 1 = Len(stack)
  BY <1>1, <1>2, Positions, Predecessor
<1>4. /\ stack' = Front(stack)
      /\ CallThrow(Last(stack).data, Front(frames), Front(stack))
      /\ UNCHANGED <<alive, caught, unwinding_in_progress, k_destroyers>>
  BY DEF FinishRaised
<1>5. frames \in Seq(Frame) /\ stack \in Seq(Node) /\ NewFrame("throw", << >>) \in Frame
  BY <1>1 DEF TypeOK, NewFrame, Frame, FrameKinds
<1>6. /\ Front(frames) \in Seq(Frame) /\ Len(Front(frames)) = n
      /\ \A f \in 1 .. n : Front(frames)[f] = frames[f]
  BY <1>3, <1>5, Pop
<1>7. /\ stack' \in Seq(Node) /\ Len(stack') = m
      /\ \A i \in 1 .. m : stack'[i] = stack[i]
  BY <1>3, <1>4, <1>5, Pop
<1>8. /\ Of({"throw"}) = {} /\ ~unwinding_in_progress
      /\ frames[n + 1].kind = "dispatch" /\ stack[m + 1].buf = n + 1
  BY <1>2, <1>3, NothingThrown
<1>9. Last(stack).data \in Exceptions
  <2>1. Len(stack) \in 1 .. Len(stack)
    BY <1>1, <1>2, Positions
  <2>2. QED
    BY <1>1, <1>2, <2>1 DEF DataInv, DataOn
<1>10. CASE Terminate /\ frames' = Front(frames)
  <2>1. Len(frames') = n /\ (\A f \in 1 .. n : frames'[f] = frames[f]) /\ thrown' = thrown
    BY <1>6, <1>10 DEF Terminate
  <2>2. TypeOK'
    BY <1>1, <1>4, <1>6, <1>7, <1>10 DEF TypeOK, Terminate
  <2>3. n \in {n, n + 1}
    OBVIOUS
  <2>4. QED
    BY <1>3, <1>4, <1>7, <1>8, <2>1, <2>2, <2>3, BeginThrow
<1>11. CASE /\ Front(stack) # << >>
            /\ frames' = Append(Front(frames), NewFrame("throw", << >>))
            /\ thrown' = Last(stack).data /\ UNCHANGED terminated
  <2>1. m > 0
    BY <1>4, <1>7, <1>11, Elements
  <2>2. /\ frames' \in Seq(Frame) /\ Len(frames') = n + 1
        /\ \A f \in 1 .. n : frames'[f] = frames[f]
        /\ frames'[n + 1].kind = "throw"
    BY <1>5, <1>6, <1>11, Push DEF NewFrame
  <2>3. TypeOK' /\ thrown' \in Exceptions
    BY <1>1, <1>4, <1>7, <1>9, <1>11, <2>2 DEF TypeOK
  <2>4. n + 1 \in {n, n + 1}
    OBVIOUS
  <2>5. QED
    BY <1>3, <1>4, <1>7, <1>8, <2>1, <2>2, <2>3, <2>4, BeginThrow
<1>12. QED
  BY <1>4, <1>10, <1>11 DEF CallThrow

-----------------------------------------------------------------------------
(* The inductive invariant holds.                                          *)

\* The thread starts with nothing open.
LEMMA Initially == Init => IInv
<1> SUFFICES ASSUME Init
             PROVE  IInv
  OBVIOUS
<1>1. TypeOK
  <2>1. << >> \in Seq(Frame) /\ << >> \in Seq(Node) /\ << >> \in Seq(Item)
    BY EmptySeq
  <2>2. QED
    BY <2>1 DEF Init, TypeOK
<1>2. Len(frames) = 0 /\ Len(stack) = 0 /\ Len(caught) = 0 /\ Len(k_destroyers) = 0
  BY EmptySeq DEF Init
<1>3. Of({"throw"}) = {} /\ Of({"dispatch"}) = {}
  BY <1>1, <1>2, Positions
<1>4. ControlInv
  BY <1>3 DEF Init, ControlInv, ControlOn
<1>5. DataInv /\ NodeInv /\ RaisedInv /\ CaughtInv
  BY <1>2 DEF DataInv, DataOn, NodeInv, NodesOn, RaisedInv, RaisedOn, CaughtInv, CaughtOn
<1>6. RecordInv
  BY <1>2 DEF Init, RecordInv, RecordsOn
<1>7. QED
  BY <1>1, <1>4, <1>5, <1>6 DEF IInv

\* Every action of Except preserves the inductive invariant.
LEMMA Inductive == IInv /\ [Next]_vars => IInv'
<1> SUFFICES ASSUME IInv, [Next]_vars
             PROVE  IInv'
  OBVIOUS
<1>1. CASE \E clauses \in CatchSequences : StartTry(clauses)
  BY <1>1, StartTryStep
<1>2. CASE RecordObject
  BY <1>2, RecordObjectStep
<1>3. CASE PopObject
  BY <1>3, PopObjectStep
<1>4. CASE EndDestructor
  BY <1>4, EndDestructorStep
<1>5. CASE \E type \in Types : Throw(type)
  BY <1>5, ThrowStep
<1>6. CASE Rethrow
  BY <1>6, RethrowStep
<1>7. CASE ThrowSteps
  BY <1>7, AbandonHandlerStep, RaiseStep, DestroyObjectStep, LongjmpStep DEF ThrowSteps
<1>8. CASE CatchSteps
  BY <1>8, SkipCatchStep, DoCatchStep DEF CatchSteps
<1>9. CASE \E i \in DOMAIN caught : EditCaught(i)
  BY <1>9, EditCaughtStep
<1>10. CASE FinishTry
  BY <1>10, FinishRaisedStep, FinishHandlerStep, FinishBodyStep DEF FinishTry
<1>11. CASE UNCHANGED vars
  <2>1. UNCHANGED <<frames, thrown, alive, terminated,
                    stack, caught, unwinding_in_progress, k_destroyers>>
    BY <1>11 DEF vars
  <2>2. TypeOK'
    BY <2>1 DEF IInv, TypeOK
  <2>3. QED
    BY <2>1, <2>2, NothingChanges
<1>12. CASE Stopped
  BY <1>11, <1>12 DEF Stopped
<1>13. QED
  BY <1>1, <1>2, <1>3, <1>4, <1>5, <1>6, <1>7, <1>8, <1>9, <1>10, <1>11, <1>12 DEF Next

\* The inductive invariant holds in every state the library can reach.
THEOREM Invariance == Spec => []IInv
<1>1. Init => IInv
  BY Initially
<1>2. IInv /\ [Next]_vars => IInv'
  BY Inductive
<1>3. QED
  BY <1>1, <1>2, PTL DEF Spec

\* Types: the state of Impl and ObjectManager is made of frames, nodes and items.
THEOREM TypeCorrect == Spec => []TypeOK
<1>1. IInv => TypeOK
  BY DEF IInv
<1>2. QED
  BY <1>1, Invariance, PTL

-----------------------------------------------------------------------------
(* The properties.                                                         *)

\* The strengthened invariant gives the one about the nodes.
LEMMA NodesFromInv == IInv => NodesMatchTries
<1> SUFFICES ASSUME IInv
             PROVE  NodesMatchTries
  OBVIOUS
<1>1. TypeOK /\ NodeInv /\ RaisedInv
  BY DEF IInv
<1>2. DOMAIN frames = 1 .. Len(frames) /\ DOMAIN stack = 1 .. Len(stack)
  BY <1>1, Positions
<1>3. {stack[i].buf : i \in DOMAIN stack} = Of({"body", "dispatch"})
  <2>1. \A i \in DOMAIN stack : stack[i].buf \in Of({"body", "dispatch"})
    BY <1>1, <1>2 DEF NodeInv, NodesOn, IsTry, Of
  <2>2. \A f \in Of({"body", "dispatch"}) : \E i \in DOMAIN stack : f = stack[i].buf
    BY <1>1, <1>2 DEF NodeInv, NodesOn, IsTry, Of
  <2>3. QED
    BY <2>1, <2>2
<1>4. QED
  BY <1>1, <1>2, <1>3 DEF NodesMatchTries, NodeInv, NodesOn, RaisedInv, RaisedOn

\* The strengthened invariant gives the one about the caught exceptions.
LEMMA CaughtFromInv == IInv => CaughtMatchesHandlers
<1> SUFFICES ASSUME IInv
             PROVE  CaughtMatchesHandlers
  OBVIOUS
<1> DEFINE bufs == {caught[j].buf : j \in DOMAIN caught}
<1>1. TypeOK /\ CaughtInv
  BY DEF IInv
<1>2. /\ DOMAIN frames = 1 .. Len(frames) /\ DOMAIN stack = 1 .. Len(stack)
      /\ DOMAIN caught = 1 .. Len(caught)
  BY <1>1, Positions
<1>3. \A f : f \in Of({"handler"}) <=> f \in 1 .. Len(frames) /\ frames[f].kind = "handler"
  BY <1>2 DEF Of
<1>4. \A f : f \in bufs <=> IsCaught(f, Len(caught))
  BY <1>2 DEF IsCaught
<1>5. bufs \subseteq Of({"handler"})
  BY <1>1, <1>2, <1>3 DEF CaughtInv, CaughtOn
<1>6. \A f \in Of({"handler"}) : f \in bufs \/ Left(f)
  BY <1>1, <1>3, <1>4 DEF CaughtInv, CaughtOn
<1>7. \A f \in bufs : unwinding_in_progress => ~Left(f)
  BY <1>1, <1>2 DEF CaughtInv, CaughtOn
<1>8. \A f \in bufs, g \in Of({"handler"}) : g < f => g \in bufs
  <2> SUFFICES ASSUME NEW j \in DOMAIN caught, NEW g \in Of({"handler"}), g < caught[j].buf
               PROVE  g \in bufs
    OBVIOUS
  <2>1. IsCaught(g, Len(caught))
    BY <1>1, <1>2, <1>3 DEF CaughtInv, CaughtOn
  <2>2. QED
    BY <1>4, <2>1
<1>9. /\ \A i, j \in DOMAIN caught : i < j => caught[i].buf < caught[j].buf
      /\ \A i \in DOMAIN stack, j \in DOMAIN caught :
           stack[i].buf < caught[j].buf <=> stack[i].depth < caught[j].depth
  BY <1>1, <1>2 DEF CaughtInv, CaughtOn
<1>10. QED
  BY <1>5, <1>6, <1>7, <1>8, <1>9 DEF CaughtMatchesHandlers

\* The strengthened invariant gives the one about the records.
LEMMA RecordsFromInv == IInv => RecordsMatchScopes
<1> SUFFICES ASSUME IInv
             PROVE  RecordsMatchScopes
  OBVIOUS
<1>1. TypeOK /\ RecordInv
  BY DEF IInv
<1>2. DOMAIN frames = 1 .. Len(frames) /\ DOMAIN k_destroyers = 1 .. Len(k_destroyers)
  BY <1>1, Positions
<1>3. \A i \in DOMAIN k_destroyers : k_destroyers[i] \in Item
  BY <1>1, Positions
<1>4. /\ \A f : f \in Of({"object"}) <=> f \in 1 .. Len(frames) /\ frames[f].kind = "object"
      /\ \A f : f \in Of({"body"}) <=> f \in 1 .. Len(frames) /\ frames[f].kind = "body"
  BY <1>2 DEF Of
<1>5. {k_destroyers[i].at : i \in DOMAIN k_destroyers} = Of({"body"}) \cup alive
  <2>1. \A i \in DOMAIN k_destroyers : k_destroyers[i].at \in Of({"body"}) \cup alive
    BY <1>1, <1>2, <1>3, <1>4 DEF RecordInv, RecordsOn, Item
  <2>2. \A f \in Of({"body"}) \cup alive : \E i \in DOMAIN k_destroyers : f = k_destroyers[i].at
    BY <1>1, <1>2, <1>4 DEF RecordInv, RecordsOn, IsRecorded
  <2>3. QED
    BY <2>1, <2>2
<1>6. \A i \in DOMAIN k_destroyers :
        (k_destroyers[i].kind = "object") <=> (k_destroyers[i].at \in alive)
  BY <1>1, <1>2, <1>3 DEF RecordInv, RecordsOn, Item
<1>7. alive \subseteq Of({"object"})
  BY <1>1, <1>4 DEF RecordInv, RecordsOn
<1>8. \A f \in Of({"object"}) : f \in alive \/ (unwinding_in_progress /\ Left(f))
  BY <1>1, <1>4 DEF RecordInv, RecordsOn
<1>9. \A f \in alive, g \in Of({"object"}) : Left(f) /\ g < f => g \in alive
  BY <1>1, <1>4 DEF RecordInv, RecordsOn
<1>10. \A i, j \in DOMAIN k_destroyers : i < j => k_destroyers[i].at < k_destroyers[j].at
  BY <1>1, <1>2 DEF RecordInv, RecordsOn
<1>11. QED
  BY <1>5, <1>6, <1>7, <1>8, <1>9, <1>10 DEF RecordsMatchScopes

\* Impl::stack is the TRY statements open outside their handlers, whatever the
\* client nests, throws and rethrows.
THEOREM StackIsOpenTries == Spec => []NodesMatchTries
BY NodesFromInv, Invariance, PTL

\* Impl::caught is the handlers being executed, and the depths order the two
\* stacks: FinishTry and Throw always tell a handler's end from a body's.
THEOREM CaughtIsOpenHandlers == Spec => []CaughtMatchesHandlers
BY CaughtFromInv, Invariance, PTL

\* ObjectManager::k_destroyers is the open bodies and the objects alive, in
\* order: Pop and UnwindToCheckpoint always find their own item on top.
THEOREM RecordsAreScopes == Spec => []RecordsMatchScopes
BY RecordsFromInv, Invariance, PTL

\* thrown is emptied by Longjmp alone.
LEMMA OnlyLongjmpDelivers ==
  ASSUME IInv, [Next]_vars, thrown # NoException, thrown' = NoException
  PROVE  Longjmp
<1>1. ASSUME NEW exc \in Exceptions, NEW over, NEW nodes, CallThrow(exc, over, nodes)
      PROVE  FALSE
  BY <1>1, NoExceptionAssumption DEF CallThrow, Terminate
<1>2. CASE \E type \in Types : Throw(type)
  BY <1>1, <1>2 DEF Throw, Exceptions
<1>3. CASE Rethrow
  <2>1. ASSUME caught # << >>
        PROVE  Last(caught).data \in Exceptions
    <3>1. TypeOK /\ DataInv
      BY DEF IInv
    <3>2. Len(caught) \in 1 .. Len(caught) /\ Last(caught) = caught[Len(caught)]
      BY <2>1, <3>1, Positions, Tops
    <3>3. QED
      BY <3>1, <3>2 DEF DataInv, DataOn
  <2>2. QED
    BY <1>1, <1>3, <2>1 DEF Rethrow, Terminate
<1>4. CASE FinishTry
  <2>1. CASE AtEndOfTry /\ FinishRaised
    <3>1. frames # << >> /\ frames[Len(frames)].kind = "dispatch"
      BY <2>1, FinishCases
    <3>2. QED
      BY <3>1, NothingThrown
  <2>2. QED
    BY <1>4, <2>1 DEF FinishTry, FinishHandler, FinishBody
<1>5. CASE ThrowSteps
  BY <1>5 DEF ThrowSteps, AbandonHandler, Raise, DestroyObject, client
<1>6. QED
  BY <1>2, <1>3, <1>4, <1>5
     DEF Next, vars, StartTry, RecordObject, PopObject, EndDestructor, CatchSteps, SkipCatch,
         DoCatch, EditCaught, Stopped, client

\* An exception is delivered to the innermost TRY body around its Throw, with
\* every object in between destroyed and no other touched.
THEOREM DeliveryIsClean == Spec => DeliveredCleanly
<1>1. ASSUME IInv, [Next]_vars
      PROVE  (thrown # NoException /\ thrown' = NoException) =>
               /\ Target(Len(frames'))
               /\ alive' = {f \in DOMAIN frames' : frames'[f].kind = "object"}
  <2> SUFFICES ASSUME thrown # NoException, thrown' = NoException
               PROVE  /\ Target(Len(frames'))
                      /\ alive' = {f \in DOMAIN frames' : frames'[f].kind = "object"}
    OBVIOUS
  <2>1. Longjmp
    BY <1>1, OnlyLongjmpDelivers
  <2>2. TypeOK /\ IInv'
    BY <1>1, Inductive DEF IInv
  <2>3. /\ frames # << >> /\ frames[Len(frames)].kind = "throw" /\ unwinding_in_progress
        /\ k_destroyers # << >> /\ Last(k_destroyers).kind = "checkpoint"
    BY <2>1, <2>2, Tops DEF Longjmp, TopIs
  <2>4. /\ Last(stack).buf \in 1 .. Len(frames) - 1 /\ Len(frames) \in Nat
        /\ Target(Last(stack).buf)
    BY <1>1, <2>2, <2>3, UnderThrow, Positions
  <2>5. /\ alive \subseteq 1 .. Last(stack).buf - 1
        /\ \A f \in 1 .. Last(stack).buf - 1 : frames[f].kind = "object" <=> f \in alive
    BY <1>1, <2>3, TopCheckpoint
  <2> DEFINE b == Last(stack).buf
             n == Len(frames)
  <2>6. /\ DOMAIN frames' = 1 .. b /\ Len(frames') = b
        /\ \A f \in 1 .. b - 1 : frames'[f] = frames[f]
        /\ frames'[b].kind = "dispatch"
    BY <1>1, <2>1, <2>2, <2>3, <2>4, LongjmpFrames
  <2>7. alive' = alive
    BY <2>1 DEF Longjmp
  <2>8. b \in 1 .. n - 1 /\ n \in Nat
    BY <2>4
  <2>9. /\ alive \subseteq 1 .. b - 1
        /\ \A f \in 1 .. b - 1 : frames'[f].kind = "object" <=> f \in alive
    BY <2>5, <2>6
  <2>10. Target(Len(frames'))
    BY <2>4, <2>6
  <2> HIDE DEF b, n
  <2>11. \A f : f \in alive <=> f \in 1 .. b /\ frames'[f].kind = "object"
    <3>1. \A f : f \in 1 .. b <=> f \in 1 .. b - 1 \/ f = b
      BY <2>8
    <3>2. QED
      BY <2>6, <2>9, <3>1
  <2>12. alive' = {f \in DOMAIN frames' : frames'[f].kind = "object"}
    BY <2>6, <2>7, <2>11
  <2>13. QED
    BY <2>10, <2>12
<1>2. QED
  BY <1>1, Invariance, PTL DEF Spec, DeliveredCleanly

-----------------------------------------------------------------------------
(***************************************************************************)
(* Proof that the exceptions on the heap are owned, for every set of       *)
(* exception types, every set of catch sequences and every bound.          *)
(*                                                                         *)
(* The count alone is not inductive.  That a node which is popped at the   *)
(* end of its body holds nothing needs OnlyRaisedHold; that a value leaves *)
(* a raised node exactly when one is thrown on or caught needs what the    *)
(* inductive invariant of Except says of the top of each stack.            *)
(***************************************************************************)

RaisedCount(nodes) == Cardinality({i \in DOMAIN nodes : nodes[i].raised})

\* the argument of a Throw that has not raised yet
InFlight == IF thrown # NoException /\ ~unwinding_in_progress THEN 1 ELSE 0

\* A node in which nothing was raised holds no exception.
OnlyRaisedHold == \A i \in DOMAIN stack : ~stack[i].raised => stack[i].data = NoException

ValuesInv == IInv /\ OnlyRaisedHold /\ ValuesAreOwned

\* The count, without the sets it is made of.
LEMMA Owned ==
  ValuesAreOwned <=> (~terminated => values = RaisedCount(stack) + Len(caught) + InFlight)
BY DEF ValuesAreOwned, RaisedCount, InFlight

-----------------------------------------------------------------------------
(* What pushing, popping and raising do to the count of raised nodes.      *)

\* The raised nodes of a stack are finitely many.
LEMMA RaisedFinite ==
  ASSUME NEW s \in Seq(Node)
  PROVE  /\ IsFiniteSet({i \in DOMAIN s : s[i].raised})
         /\ RaisedCount(s) \in Nat
<1> DEFINE n == Len(s)
           raised == {i \in DOMAIN s : s[i].raised}
<1>1. n \in Nat /\ DOMAIN s = 1 .. n
  BY Elements
<1>2. 1 \in Int /\ n \in Int
  BY <1>1
<1> HIDE DEF n
<1>3. IsFiniteSet(1 .. n)
  BY <1>2, FS_Interval
<1>4. raised \in SUBSET (1 .. n)
  BY <1>1
<1> HIDE DEF raised
<1>5. IsFiniteSet(raised) /\ Cardinality(raised) \in Nat
  BY <1>3, <1>4, FS_Subset, FS_CardinalityType
<1> QED
  BY <1>5 DEF RaisedCount, raised

\* No node is raised on the empty stack.
LEMMA NoneRaised == RaisedCount(<< >>) = 0
<1>1. {i \in DOMAIN << >> : << >>[i].raised} = {}
  OBVIOUS
<1> QED
  BY <1>1, FS_EmptySet DEF RaisedCount

\* A new node is not raised.
LEMMA PushCount ==
  ASSUME NEW s \in Seq(Node), NEW e \in Node, ~e.raised
  PROVE  RaisedCount(Append(s, e)) = RaisedCount(s)
<1> DEFINE n == Len(s)
           more == Append(s, e)
<1>1. /\ n \in Nat /\ DOMAIN s = 1 .. n /\ DOMAIN more = 1 .. n + 1
      /\ \A i \in 1 .. n : more[i] = s[i]
      /\ more[n + 1] = e
  BY Elements, Push
<1> HIDE DEF n, more
<1>2. {i \in DOMAIN more : more[i].raised} = {i \in DOMAIN s : s[i].raised}
  BY <1>1
<1> QED
  BY <1>2 DEF RaisedCount, more

\* A popped node takes its own count along.
LEMMA PopCount ==
  ASSUME NEW s \in Seq(Node), s # << >>
  PROVE  /\ Front(s) \in Seq(Node)
         /\ RaisedCount(Front(s)) = RaisedCount(s) - (IF Last(s).raised THEN 1 ELSE 0)
<1> DEFINE n == Len(s)
           front == Front(s)
           all == {i \in DOMAIN s : s[i].raised}
           rest == {i \in DOMAIN front : front[i].raised}
<1>1. /\ n \in Nat \ {0} /\ DOMAIN s = 1 .. n
      /\ front \in Seq(Node) /\ DOMAIN front = 1 .. n - 1
      /\ \A i \in 1 .. n - 1 : front[i] = s[i]
      /\ Last(s) = s[n]
  BY Elements, FrontLast
<1> HIDE DEF n, front
<1>2. rest = all \ {n} /\ (n \in all <=> Last(s).raised)
  BY <1>1
<1>3. IsFiniteSet(all)
  BY RaisedFinite
<1> HIDE DEF all, rest
<1>4. Cardinality(rest) = Cardinality(all) - (IF Last(s).raised THEN 1 ELSE 0)
  <2>1. Cardinality(all \ {n}) = IF n \in all THEN Cardinality(all) - 1
                                              ELSE Cardinality(all)
    BY <1>3, FS_RemoveElement
  <2>2. Cardinality(all) \in Nat
    BY <1>3, FS_CardinalityType
  <2> QED
    BY <1>2, <2>1, <2>2
<1> QED
  BY <1>1, <1>4 DEF RaisedCount, all, rest, front

\* Raising the top node counts it.
LEMMA RaiseCount ==
  ASSUME NEW s \in Seq(Node), s # << >>, ~Last(s).raised, NEW exc \in Exceptions
  PROVE  LET more == [s EXCEPT ![Len(s)] = Raised(@, exc)]
         IN  /\ RaisedCount(more) = RaisedCount(s) + 1
             /\ \A i \in DOMAIN more : ~more[i].raised => i \in DOMAIN s /\ more[i] = s[i]
<1> DEFINE n == Len(s)
           e == Raised(s[n], exc)
           more == [s EXCEPT ![n] = e]
           all == {i \in DOMAIN s : s[i].raised}
           now == {i \in DOMAIN more : more[i].raised}
<1>1. n \in Nat \ {0} /\ DOMAIN s = 1 .. n /\ Last(s) = s[n] /\ s[n] \in Node
  <2>1. DOMAIN s = 1 .. n
    BY Elements
  <2>2. n \in Nat \ {0} /\ Last(s) = s[n] /\ Last(s) \in Node
    BY FrontLast
  <2> QED
    BY <2>1, <2>2
<1>2. e \in Node /\ e.raised
  BY <1>1 DEF Raised, Node
<1> HIDE DEF e
<1>3. /\ DOMAIN more = 1 .. n
      /\ \A i \in 1 .. n : more[i] = IF i = n THEN e ELSE s[i]
  BY <1>1
<1> HIDE DEF n, more
<1>4. now = all \cup {n} /\ n \notin all
  BY <1>1, <1>2, <1>3
<1>5. IsFiniteSet(all)
  BY RaisedFinite
<1> HIDE DEF all, now
<1>6. Cardinality(now) = Cardinality(all) + 1
  BY <1>4, <1>5, FS_AddElement
<1>7. \A i \in DOMAIN more : ~more[i].raised => i \in DOMAIN s /\ more[i] = s[i]
  BY <1>1, <1>2, <1>3
<1> QED
  BY <1>6, <1>7 DEF RaisedCount, all, now, more, e, n

-----------------------------------------------------------------------------
(* The steps.                                                              *)

\* Every step of this module is one of Except.
LEMMA StepOfExcept == ValuesNext => Next
<1> SUFFICES ASSUME ValuesNext PROVE Next
  OBVIOUS
<1>1. CASE CreateValue \/ CopyValue
  BY <1>1 DEF CreateValue, CopyValue, Next
<1>2. CASE AssignValue \/ DestroyAbandoned \/ MoveToCaught
  BY <1>2 DEF AssignValue, DestroyAbandoned, MoveToCaught, Next, ThrowSteps, CatchSteps
<1>3. CASE FinishValue
  BY <1>3 DEF FinishValue, FinishTry, Next
<1>4. CASE Elsewhere
  BY <1>4 DEF Elsewhere, Next, ThrowSteps, CatchSteps
<1> QED
  BY <1>1, <1>2, <1>3, <1>4 DEF ValuesNext

\* What is known of the stacks and of the value in flight.
LEMMA Facts ==
  ASSUME IInv
  PROVE  /\ TypeOK /\ stack \in Seq(Node) /\ caught \in Seq(Node)
         /\ Len(caught) \in Nat /\ RaisedCount(stack) \in Nat
         /\ InFlight \in {0, 1}
         /\ thrown \in Exceptions \cup {NoException} /\ unwinding_in_progress \in BOOLEAN
         /\ caught # << >> =>
              /\ Last(caught).data \in Exceptions
              /\ Len(caught) > 0 /\ Len(Front(caught)) = Len(caught) - 1
         /\ Running => InFlight = 0
<1>1. /\ TypeOK /\ ControlInv /\ DataInv /\ stack \in Seq(Node) /\ caught \in Seq(Node)
      /\ thrown \in Exceptions \cup {NoException} /\ unwinding_in_progress \in BOOLEAN
  BY DEF IInv, TypeOK
<1>2. Len(caught) \in Nat /\ RaisedCount(stack) \in Nat /\ InFlight \in {0, 1}
  BY <1>1, Elements, RaisedFinite DEF InFlight
<1>3. ASSUME caught # << >>
      PROVE  /\ Last(caught).data \in Exceptions
             /\ Len(caught) > 0 /\ Len(Front(caught)) = Len(caught) - 1
  <2>1. /\ Len(caught) \in Nat \ {0} /\ Last(caught) = caught[Len(caught)]
        /\ Len(Front(caught)) = Len(caught) - 1
    BY <1>1, <1>3, FrontLast
  <2>2. Len(caught) \in 1 .. Len(caught)
    BY <2>1
  <2>3. caught[Len(caught)].data \in Exceptions
    BY <1>1, <2>2 DEF DataInv, DataOn
  <2> QED
    BY <2>1, <2>3
<1>4. ASSUME Running PROVE InFlight = 0
  <2>1. \A t \in Of({"throw"}) : unwinding_in_progress
    BY <1>4, ClientRuns
  <2>2. thrown # NoException <=> Of({"throw"}) # {}
    BY <1>1 DEF ControlInv, ControlOn
  <2> QED
    BY <2>1, <2>2 DEF InFlight
<1> QED
  BY <1>1, <1>2, <1>3, <1>4

\* Throw(exception) and Throw(): the new value is in flight.
LEMMA ThrowValue ==
  ASSUME ValuesInv, CreateValue \/ CopyValue
  PROVE  OnlyRaisedHold' /\ ValuesAreOwned'
<1>1. IInv /\ OnlyRaisedHold /\ Running /\ ~terminated
  BY DEF ValuesInv, CreateValue, CopyValue, Throw, Rethrow, Running
<1>2. values = RaisedCount(stack) + Len(caught) /\ RaisedCount(stack) \in Nat
      /\ Len(caught) \in Nat /\ \A exc \in Exceptions : exc # NoException
      /\ TypeOK
  BY <1>1, Facts, Owned, NoExceptionAssumption DEF ValuesInv
<1>3. stack' = stack
  BY DEF CreateValue, CopyValue, Throw, Rethrow, library
<1>4. OnlyRaisedHold'
  BY <1>1, <1>3 DEF OnlyRaisedHold
<1>5. CASE terminated'
  BY <1>4, <1>5 DEF ValuesAreOwned
<1>6. CASE ~terminated'
  <2>1. /\ caught' = caught /\ unwinding_in_progress' = FALSE
        /\ thrown' \in Exceptions /\ values' = values + 1
    <3>1. CASE CreateValue
      <4>1. PICK type \in Types : Throw(type) /\ values' = values + 1
        BY <3>1 DEF CreateValue
      <4>2. [type |-> type, edited |-> FALSE] \in Exceptions
        BY DEF Exceptions
      <4> QED
        BY <1>2, <1>6, <4>1, <4>2 DEF Throw, CallThrow, Terminate, library, TypeOK
    <3>2. CASE CopyValue
      <4>1. caught # << >> /\ values' = values + 1
        BY <1>6, <3>2 DEF CopyValue, Rethrow, Terminate
      <4>2. Last(caught).data \in Exceptions
        BY <1>1, <4>1, Facts
      <4> QED
        BY <1>2, <1>6, <3>2, <4>1, <4>2
        DEF CopyValue, Rethrow, CallThrow, Terminate, library, TypeOK
    <3> QED
      BY <3>1, <3>2
  <2>2. InFlight' = 1
    BY <1>2, <2>1 DEF InFlight
  <2>3. values' = RaisedCount(stack') + Len(caught') + InFlight'
    BY <1>2, <1>3, <2>1, <2>2
  <2> QED
    BY <1>4, <2>3 DEF ValuesAreOwned, RaisedCount, InFlight
<1> QED
  BY <1>5, <1>6

\* The value in flight is assigned to the node that is raised.
LEMMA AssignedValue ==
  ASSUME ValuesInv, AssignValue
  PROVE  OnlyRaisedHold' /\ ValuesAreOwned'
<1>1. /\ IInv /\ OnlyRaisedHold /\ ~terminated /\ frames # << >>
      /\ Last(frames).kind = "throw" /\ ~unwinding_in_progress
      /\ stack' = [stack EXCEPT ![Len(stack)] = Raised(@, thrown)]
      /\ unwinding_in_progress' = TRUE /\ caught' = caught /\ values' = values
  BY DEF ValuesInv, AssignValue, Raise, TopIs
<1>2. /\ values = RaisedCount(stack) + Len(caught) + InFlight
      /\ RaisedCount(stack) \in Nat /\ Len(caught) \in Nat
      /\ stack \in Seq(Node) /\ TypeOK
  BY <1>1, Facts, Owned DEF ValuesInv
<1>3. frames[Len(frames)].kind = "throw"
  BY <1>1, <1>2, Tops
<1>4. /\ stack # << >> /\ Last(stack).buf \in 1 .. Len(frames) - 1
      /\ frames[Last(stack).buf].kind = "body" /\ Of({"throw"}) = {Len(frames)}
  BY <1>1, <1>3, UnderThrow
<1>5. thrown \in Exceptions /\ InFlight = 1
  <2>1. thrown # NoException
    BY <1>1, <1>4 DEF IInv, ControlInv, ControlOn
  <2> QED
    BY <1>1, <1>2, <2>1 DEF InFlight, TypeOK
<1>6. ~Last(stack).raised
  <2>1. Last(stack) = stack[Len(stack)] /\ Len(stack) \in Nat \ {0}
    BY <1>2, <1>4, FrontLast
  <2>2. Len(stack) \in 1 .. Len(stack)
    BY <2>1
  <2> QED
    BY <1>1, <1>4, <2>1, <2>2 DEF IInv, RaisedInv, RaisedOn
<1>7. /\ RaisedCount(stack') = RaisedCount(stack) + 1
      /\ \A i \in DOMAIN stack' : ~stack'[i].raised => i \in DOMAIN stack /\ stack'[i] = stack[i]
  BY <1>1, <1>2, <1>4, <1>5, <1>6, RaiseCount
<1>8. OnlyRaisedHold'
  BY <1>1, <1>7 DEF OnlyRaisedHold
<1>9. InFlight' = 0
  BY <1>1 DEF InFlight
<1>10. values' = RaisedCount(stack') + Len(caught') + InFlight'
  BY <1>1, <1>2, <1>5, <1>7, <1>9
<1> QED
  BY <1>8, <1>10 DEF ValuesAreOwned, RaisedCount, InFlight

\* A handler that Throw leaves loses its exception.
LEMMA AbandonedValue ==
  ASSUME ValuesInv, DestroyAbandoned
  PROVE  OnlyRaisedHold' /\ ValuesAreOwned'
<1>1. /\ IInv /\ OnlyRaisedHold /\ ~terminated
      /\ caught # << >> /\ caught' = Front(caught)
      /\ UNCHANGED <<thrown, terminated, stack, unwinding_in_progress>>
      /\ values' = values - Held(Last(caught).data)
  BY DEF ValuesInv, DestroyAbandoned, AbandonHandler, TopIs, InHandler, client
<1>2. /\ values = RaisedCount(stack) + Len(caught) + InFlight
      /\ RaisedCount(stack) \in Nat /\ Len(caught) \in Nat /\ InFlight \in {0, 1}
      /\ Last(caught).data \in Exceptions /\ Len(Front(caught)) = Len(caught) - 1
  BY <1>1, Facts, Owned DEF ValuesInv
<1>3. Held(Last(caught).data) = 1
  BY <1>2, NoExceptionAssumption DEF Held
<1>4. InFlight' = InFlight
  BY <1>1 DEF InFlight
<1>5. values' = RaisedCount(stack') + Len(caught') + InFlight'
  BY <1>1, <1>2, <1>3, <1>4
<1>6. OnlyRaisedHold'
  BY <1>1 DEF OnlyRaisedHold
<1> QED
  BY <1>5, <1>6 DEF ValuesAreOwned, RaisedCount, InFlight

\* Popping a node leaves the others as they are.
LEMMA FrontHolds ==
  ASSUME OnlyRaisedHold, stack \in Seq(Node), stack # << >>, stack' = Front(stack)
  PROVE  OnlyRaisedHold'
<1>1. /\ Len(stack) \in Nat \ {0} /\ DOMAIN stack = 1 .. Len(stack)
      /\ DOMAIN Front(stack) = 1 .. Len(stack) - 1
      /\ \A i \in 1 .. Len(stack) - 1 : Front(stack)[i] = stack[i]
  BY FrontLast, Elements
<1> QED
  BY <1>1 DEF OnlyRaisedHold

\* The value of a raised node moves to the handler.
LEMMA CaughtValue ==
  ASSUME ValuesInv, MoveToCaught
  PROVE  OnlyRaisedHold' /\ ValuesAreOwned'
<1>1. /\ IInv /\ OnlyRaisedHold /\ ~terminated
      /\ frames # << >> /\ Last(frames).kind = "dispatch"
      /\ caught' = Append(caught, Last(stack)) /\ stack' = Front(stack)
      /\ UNCHANGED <<thrown, terminated, unwinding_in_progress>>
      /\ values' = values
  <2>1. values' = values - LeftByMove(Last(stack).data) /\ DoCatch
    BY DEF MoveToCaught
  <2>2. ~terminated
    BY <2>1 DEF DoCatch, TopIs
  <2>3. values \in Int
    BY <2>2, Facts, Owned DEF ValuesInv
  <2> QED
    BY <2>1, <2>2, <2>3 DEF ValuesInv, DoCatch, TopIs, LeftByMove
<1>2. /\ values = RaisedCount(stack) + Len(caught) + InFlight
      /\ RaisedCount(stack) \in Nat /\ Len(caught) \in Nat /\ InFlight \in {0, 1}
      /\ stack \in Seq(Node) /\ caught \in Seq(Node) /\ TypeOK
  BY <1>1, Facts, Owned DEF ValuesInv
<1>3. frames[Len(frames)].kind = "dispatch"
  BY <1>1, <1>2, Tops
<1>4. stack # << >> /\ Last(stack).buf = Len(frames)
  BY <1>1, <1>3, TopTry
<1>5. Last(stack) \in Node /\ Last(stack).raised
  <2>1. /\ Last(stack) = stack[Len(stack)] /\ Len(stack) \in 1 .. Len(stack)
        /\ Last(stack) \in Node
    BY <1>2, <1>4, FrontLast
  <2> QED
    BY <1>1, <1>3, <1>4, <2>1 DEF IInv, RaisedInv, RaisedOn
<1>6. Len(caught') = Len(caught) + 1
  BY <1>1, <1>2, <1>5, Push
<1>7. RaisedCount(stack') = RaisedCount(stack) - 1
  BY <1>1, <1>2, <1>4, <1>5, PopCount
<1>8. InFlight' = InFlight
  BY <1>1 DEF InFlight
<1>9. values' = RaisedCount(stack') + Len(caught') + InFlight'
  BY <1>1, <1>2, <1>6, <1>7, <1>8
<1>10. OnlyRaisedHold'
  BY <1>1, <1>2, <1>4, FrontHolds
<1> QED
  BY <1>9, <1>10 DEF ValuesAreOwned, RaisedCount, InFlight

\* The end of a TRY statement, in each of its three cases.
LEMMA FinishedValue ==
  ASSUME ValuesInv, FinishValue
  PROVE  OnlyRaisedHold' /\ ValuesAreOwned'
<1>1. IInv /\ OnlyRaisedHold /\ ~terminated /\ AtEndOfTry
  BY DEF ValuesInv, FinishValue, AtEndOfTry, TopIs
<1>2. /\ values = RaisedCount(stack) + Len(caught) + InFlight
      /\ RaisedCount(stack) \in Nat /\ Len(caught) \in Nat /\ InFlight \in {0, 1}
      /\ stack \in Seq(Node) /\ TypeOK /\ NoException \notin Exceptions
  BY <1>1, Facts, Owned, NoExceptionAssumption DEF ValuesInv
<1>3. CASE FinishRaised /\ values' = values - LeftByMove(Last(stack).data)
  <2>1. /\ stack # << >> /\ Last(stack).raised /\ stack' = Front(stack)
        /\ CallThrow(Last(stack).data, Front(frames), Front(stack))
        /\ UNCHANGED <<caught, unwinding_in_progress>> /\ values' = values
    BY <1>2, <1>3 DEF FinishRaised, LeftByMove
  <2>2. frames # << >> /\ frames[Len(frames)].kind = "dispatch"
    BY <1>1, <1>3, FinishCases
  <2>3. ~unwinding_in_progress /\ thrown = NoException
    BY <1>1, <2>2, NothingThrown
  <2>4. Last(stack).data \in Exceptions
    <3>1. Last(stack) = stack[Len(stack)] /\ Len(stack) \in Nat \ {0}
      BY <1>2, <2>1, FrontLast
    <3>2. Len(stack) \in 1 .. Len(stack)
      BY <3>1
    <3> QED
      BY <1>1, <2>1, <3>1, <3>2 DEF IInv, DataInv, DataOn
  <2>5. RaisedCount(stack') = RaisedCount(stack) - 1
    BY <1>2, <2>1, PopCount
  <2>6. OnlyRaisedHold'
    BY <1>1, <1>2, <2>1, FrontHolds
  <2>7. CASE terminated'
    BY <2>6, <2>7 DEF ValuesAreOwned
  <2>8. CASE ~terminated'
    <3>1. thrown' = Last(stack).data
      BY <2>1, <2>8 DEF CallThrow, Terminate
    <3>2. InFlight = 0 /\ InFlight' = 1
      BY <1>2, <2>1, <2>3, <2>4, <3>1 DEF InFlight
    <3>3. values' = RaisedCount(stack') + Len(caught') + InFlight'
      BY <1>2, <2>1, <2>5, <3>2
    <3> QED
      BY <2>6, <3>3 DEF ValuesAreOwned, RaisedCount, InFlight
  <2> QED
    BY <2>7, <2>8
<1>4. CASE FinishHandler /\ values' = values - Held(Last(caught).data)
  <2>1. /\ caught' = Front(caught)
        /\ UNCHANGED <<thrown, terminated, stack, unwinding_in_progress>>
    BY <1>4 DEF FinishHandler
  <2>2. frames # << >> /\ frames[Len(frames)].kind = "handler"
    BY <1>1, <1>4, FinishCases
  <2>3. caught # << >>
    BY <1>1, <2>2, TopHandler
  <2>4. Last(caught).data \in Exceptions /\ Len(Front(caught)) = Len(caught) - 1
    BY <1>1, <2>3, Facts
  <2>5. Held(Last(caught).data) = 1
    BY <1>2, <2>4 DEF Held
  <2>6. InFlight' = InFlight /\ RaisedCount(stack') = RaisedCount(stack)
    BY <2>1 DEF InFlight
  <2>7. values' = RaisedCount(stack') + Len(caught') + InFlight'
    BY <1>2, <1>4, <2>1, <2>4, <2>5, <2>6
  <2>8. OnlyRaisedHold'
    BY <1>1, <2>1 DEF OnlyRaisedHold
  <2> QED
    BY <2>7, <2>8 DEF ValuesAreOwned, RaisedCount, InFlight
<1>5. CASE FinishBody /\ values' = values - Held(Last(stack).data)
  <2>1. /\ stack # << >> /\ ~Last(stack).raised /\ stack' = Front(stack)
        /\ UNCHANGED <<thrown, terminated, caught, unwinding_in_progress>>
    BY <1>5 DEF FinishBody
  <2>2. Last(stack).data = NoException
    <3>1. Last(stack) = stack[Len(stack)] /\ Len(stack) \in Nat \ {0}
      BY <1>2, <2>1, FrontLast
    <3>2. Len(stack) \in DOMAIN stack
      BY <1>2, <3>1, Elements
    <3> QED
      BY <1>1, <2>1, <3>1, <3>2 DEF OnlyRaisedHold
  <2>3. values' = values
    BY <1>2, <1>5, <2>2 DEF Held
  <2>4. RaisedCount(stack') = RaisedCount(stack)
    BY <1>2, <2>1, PopCount
  <2>5. InFlight' = InFlight
    BY <2>1 DEF InFlight
  <2>6. values' = RaisedCount(stack') + Len(caught') + InFlight'
    BY <1>2, <2>1, <2>3, <2>4, <2>5
  <2>7. OnlyRaisedHold'
    BY <1>1, <1>2, <2>1, FrontHolds
  <2> QED
    BY <2>6, <2>7 DEF ValuesAreOwned, RaisedCount, InFlight
<1> QED
  BY <1>3, <1>4, <1>5 DEF FinishValue

\* The steps that make, move and destroy no Data.
LEMMA OtherValues ==
  ASSUME ValuesInv, Elsewhere
  PROVE  OnlyRaisedHold' /\ ValuesAreOwned'
<1>1. /\ IInv /\ OnlyRaisedHold /\ ValuesAreOwned /\ values' = values
      /\ stack \in Seq(Node) /\ caught \in Seq(Node) /\ TypeOK
  BY DEF ValuesInv, Elsewhere, IInv, TypeOK
<1>2. ASSUME UNCHANGED <<terminated, thrown, stack, unwinding_in_progress>>,
             Len(caught') = Len(caught)
      PROVE  OnlyRaisedHold' /\ ValuesAreOwned'
  BY <1>1, <1>2 DEF OnlyRaisedHold, ValuesAreOwned
<1>3. ASSUME NEW clauses \in CatchSequences, StartTry(clauses)
      PROVE  OnlyRaisedHold' /\ ValuesAreOwned'
  <2> DEFINE node == NewNode(Here, Len(stack))
  <2>1. /\ stack' = Append(stack, node)
        /\ UNCHANGED <<terminated, thrown, caught, unwinding_in_progress>>
    BY <1>3 DEF StartTry
  <2>2. node \in Node /\ ~node.raised /\ node.data = NoException
    <3>1. Len(frames) + 1 \in Nat /\ Len(stack) \in Nat
      BY <1>1, Positions
    <3> QED
      BY <3>1 DEF NewNode, Node, Here
  <2> HIDE DEF node
  <2>3. RaisedCount(stack') = RaisedCount(stack)
    BY <1>1, <2>1, <2>2, PushCount
  <2>4. OnlyRaisedHold'
    <3>1. /\ Len(stack) \in Nat /\ DOMAIN stack = 1 .. Len(stack)
          /\ DOMAIN stack' = 1 .. Len(stack) + 1
          /\ \A i \in 1 .. Len(stack) : stack'[i] = stack[i]
          /\ stack'[Len(stack) + 1] = node
      BY <1>1, <2>1, <2>2, Push, Elements
    <3> QED
      BY <1>1, <2>2, <3>1 DEF OnlyRaisedHold
  <2>5. ValuesAreOwned'
    BY <1>1, <2>1, <2>3 DEF ValuesAreOwned, RaisedCount
  <2> QED
    BY <2>4, <2>5
<1>4. CASE \/ RecordObject \/ PopObject \/ EndDestructor \/ DestroyObject \/ SkipCatch
           \/ Stopped
  BY <1>2, <1>4 DEF RecordObject, PopObject, EndDestructor, DestroyObject, SkipCatch,
                    Stopped, library, vars
<1>5. CASE Longjmp
  <2>1. /\ unwinding_in_progress /\ ~unwinding_in_progress' /\ thrown' = NoException
        /\ UNCHANGED <<terminated, stack, caught>>
    BY <1>5 DEF Longjmp
  <2>2. OnlyRaisedHold'
    BY <1>1, <2>1 DEF OnlyRaisedHold
  <2>3. ValuesAreOwned'
    BY <1>1, <2>1 DEF ValuesAreOwned
  <2> QED
    BY <2>2, <2>3
<1>6. ASSUME NEW i \in DOMAIN caught, EditCaught(i)
      PROVE  OnlyRaisedHold' /\ ValuesAreOwned'
  <2> DEFINE node == [caught[i] EXCEPT !.data.edited = TRUE]
             now == [caught EXCEPT ![i] = node]
  <2>1. /\ caught' = now
        /\ UNCHANGED <<terminated, thrown, stack, unwinding_in_progress>>
    BY <1>6 DEF EditCaught, client
  <2>2. DOMAIN now = DOMAIN caught
    OBVIOUS
  <2>3. DOMAIN caught = 1 .. Len(caught) /\ Len(caught) \in Nat
    BY <1>1, Elements
  <2>4. Len(now) = Len(caught)
    <3> HIDE DEF node
    <3>1. DOMAIN now = 1 .. Len(caught)
      BY <2>2, <2>3
    <3> HIDE DEF now
    <3> QED
      BY <2>3, <3>1
  <2> HIDE DEF now
  <2> QED
    BY <1>2, <2>1, <2>4
<1> QED
  BY <1>3, <1>4, <1>5, <1>6 DEF Elsewhere

-----------------------------------------------------------------------------
(* The theorems.                                                           *)

\* Every step keeps the count.
LEMMA ValuesNextInv == ValuesInv /\ [ValuesNext]_valuesVars => ValuesInv'
<1> SUFFICES ASSUME ValuesInv, [ValuesNext]_valuesVars PROVE ValuesInv'
  OBVIOUS
<1>1. CASE ValuesNext
  <2>1. IInv'
    BY <1>1, StepOfExcept, Inductive DEF ValuesInv
  <2>2. OnlyRaisedHold' /\ ValuesAreOwned'
    BY <1>1, ThrowValue, AssignedValue, AbandonedValue, CaughtValue, FinishedValue,
       OtherValues DEF ValuesNext
  <2> QED
    BY <2>1, <2>2 DEF ValuesInv
<1>2. CASE UNCHANGED valuesVars
  <2>1. UNCHANGED vars /\ values' = values
    BY <1>2 DEF valuesVars
  <2>2. IInv'
    BY <2>1, Inductive DEF ValuesInv
  <2>3. OnlyRaisedHold' /\ ValuesAreOwned'
    BY <2>1 DEF ValuesInv, OnlyRaisedHold, ValuesAreOwned, vars
  <2> QED
    BY <2>2, <2>3 DEF ValuesInv
<1> QED
  BY <1>1, <1>2

\* Before anything is thrown there is no value.
LEMMA ValuesInitInv == ValuesInit => ValuesInv
<1> SUFFICES ASSUME ValuesInit PROVE ValuesInv
  OBVIOUS
<1>1. IInv
  BY Initially DEF ValuesInit
<1>2. /\ stack = << >> /\ caught = << >> /\ thrown = NoException /\ values = 0
  BY DEF ValuesInit, Init
<1>3. OnlyRaisedHold
  BY <1>2 DEF OnlyRaisedHold
<1>4. RaisedCount(stack) = 0 /\ Len(caught) = 0 /\ InFlight = 0
  BY <1>2, NoneRaised DEF InFlight
<1> QED
  BY <1>1, <1>2, <1>3, <1>4, Owned DEF ValuesInv

\* No exception is lost or destroyed twice: there is one on the heap for every
\* raised TRY statement, every handler and the argument of a Throw that has not
\* raised yet, whatever was rethrown, abandoned or thrown on.
THEOREM EveryValueHasAnOwner == ValuesSpec => []ValuesAreOwned
<1>1. ValuesInv => ValuesAreOwned
  BY DEF ValuesInv
<1> QED
  BY <1>1, ValuesInitInv, ValuesNextInv, PTL DEF ValuesSpec

\* With the exceptions counted the library does what it does without.
THEOREM ValuesFollowExcept == ValuesSpec => Spec
<1>1. ValuesInit => Init
  BY DEF ValuesInit
<1>2. [ValuesNext]_valuesVars => [Next]_vars
  BY StepOfExcept DEF valuesVars, vars
<1> QED
  BY <1>1, <1>2, PTL DEF ValuesSpec, Spec
=============================================================================
