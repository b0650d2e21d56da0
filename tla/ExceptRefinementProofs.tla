----------------------- MODULE ExceptRefinementProofs -----------------------
(***************************************************************************)
(* Proof that Except implements TryCatch, for every set of exception       *)
(* types, every set of catch sequences and every bound.                    *)
(*                                                                         *)
(* First, what the refinement mapping gives: all frames while no Throw     *)
(* executes, those up to the target of the Throw while one does, nothing   *)
(* after std::terminate.  Then one lemma per action says which step of     *)
(* TryCatch it is, or that a client sees nothing of it.                    *)
(***************************************************************************)
EXTENDS ExceptProofs

\* The conditions of the clauses that were passed over do not hold; the
\* sequence is evaluated from its start.
SkippedInv ==
  \A f \in 1 .. Len(frames) :
    /\ frames[f].kind = "body" => frames[f].next = 1
    /\ frames[f].kind = "dispatch" =>
         /\ frames[f].next > 0
         /\ \A i \in DOMAIN frames[f].clauses :
              i < frames[f].next => Last(stack).data.type \notin frames[f].clauses[i]

\* The node that Throw unwinds to holds the exception that was thrown.
CarriedInv ==
  unwinding_in_progress =>
    \A i \in 1 .. Len(stack) : stack[i].raised => stack[i].data = thrown

RInv == IInv /\ SkippedInv /\ CarriedInv

-----------------------------------------------------------------------------
(* Sequences given by their elements.                                      *)

\* s is the sequence of its values at 1 .. n.
Fills(s, n) == s = [i \in 1 .. n |-> s[i]]

\* Such an s is a sequence, of length n.
LEMMA Filled ==
  ASSUME NEW n \in Nat, NEW s, Fills(s, n)
  PROVE  /\ s \in Seq({s[i] : i \in 1 .. n})
         /\ Len(s) = n /\ DOMAIN s = 1 .. n
         /\ s = << >> <=> n = 0
         /\ n > 0 => Last(s) = s[n]
<1> DEFINE S == {s[i] : i \in 1 .. n}
<1>1. DOMAIN s = 1 .. n
  BY DEF Fills
<1>2. s \in [1 .. n -> S]
  BY <1>1 DEF Fills
<1>3. s \in Seq(S)
  BY <1>2
<1>4. Len(s) = n
  <2> HIDE DEF S
  <2>1. QED
    BY <1>1, <1>3, LenProperties
<1>5. s = << >> <=> n = 0
  <2> HIDE DEF S
  <2>1. QED
    BY <1>3, <1>4, EmptySeq
<1>6. QED
  BY <1>1, <1>3, <1>4, <1>5 DEF Last

\* Two of them with the same values are equal.
LEMMA SameValues ==
  ASSUME NEW n \in Nat, NEW s, NEW t, Fills(s, n), Fills(t, n),
         \A i \in 1 .. n : s[i] = t[i]
  PROVE  s = t
<1>1. [i \in 1 .. n |-> s[i]] = [i \in 1 .. n |-> t[i]]
  OBVIOUS
<1>2. QED
  BY <1>1 DEF Fills

\* A sequence of n elements is one of them.
LEMMA FilledSeq ==
  ASSUME NEW S, NEW s \in Seq(S), NEW n \in Nat, Len(s) = n
  PROVE  Fills(s, n)
<1>1. s \in [1 .. n -> S]
  BY LenProperties
<1>2. QED
  BY <1>1 DEF Fills

\* One value more.
LEMMA AppendIs ==
  ASSUME NEW n \in Nat, NEW s, Fills(s, n), NEW t, Fills(t, n + 1),
         \A i \in 1 .. n : t[i] = s[i]
  PROVE  t = Append(s, t[n + 1])
<1> DEFINE S == {s[i] : i \in 1 .. n} \cup {t[n + 1]}
           e == t[n + 1]
           a == Append(s, e)
<1>1. s \in Seq(S) /\ Len(s) = n
  <2>1. s \in Seq({s[i] : i \in 1 .. n}) /\ Len(s) = n
    BY Filled
  <2>2. \A i \in 1 .. n : s[i] \in S
    OBVIOUS
  <2>3. s \in [1 .. n -> S]
    BY <2>2 DEF Fills
  <2>4. QED
    BY <2>1, <2>3
<1>2. e \in S
  OBVIOUS
<1> HIDE DEF S, e
<1>3. /\ a \in Seq(S) /\ Len(a) = n + 1 /\ a[n + 1] = e
      /\ \A i \in 1 .. n : a[i] = s[i]
  BY <1>1, <1>2, Push
<1> HIDE DEF a
<1>4. Fills(a, n + 1)
  <2> DEFINE m == n + 1
  <2>1. m \in Nat /\ Len(a) = m
    BY <1>3
  <2> HIDE DEF m
  <2>2. Fills(a, m)
    BY <1>3, <2>1, FilledSeq
  <2>3. QED
    BY <2>2 DEF m
<1>5. \A i \in 1 .. n + 1 : t[i] = a[i]
  <2>1. \A i \in 1 .. n + 1 : i \in 1 .. n \/ i = n + 1
    OBVIOUS
  <2>2. QED
    BY <1>3, <2>1 DEF e
<1>6. t = a
  <2> DEFINE m == n + 1
  <2>1. m \in Nat /\ Fills(t, m) /\ Fills(a, m) /\ \A i \in 1 .. m : t[i] = a[i]
    BY <1>4, <1>5
  <2> HIDE DEF m
  <2>2. QED
    BY <2>1, SameValues
<1>7. QED
  BY <1>6 DEF a, e

\* The values up to the m-th one.
LEMMA SubSeqIs ==
  ASSUME NEW n \in Nat, NEW m \in Nat, m <= n,
         NEW s, Fills(s, n), NEW t, Fills(t, m), \A i \in 1 .. m : t[i] = s[i]
  PROVE  t = SubSeq(s, 1, m)
<1>1. DOMAIN s = 1 .. n /\ Len(s) = n /\ s \in Seq({s[i] : i \in 1 .. n})
  BY Filled
<1> DEFINE S == {s[i] : i \in 1 .. n}
           u == SubSeq(s, 1, m)
<1> HIDE DEF S
<1>2. \A i \in 1 .. m : s[i] \in S
  BY DEF S
<1>3. /\ u \in Seq(S)
      /\ Len(u) = IF 1 <= m THEN m - 1 + 1 ELSE 0
      /\ \A i \in 1 .. m - 1 + 1 : u[i] = s[1 + i - 1]
  BY <1>2, SubSeqProperties
<1>4. m - 1 + 1 = m /\ (~(1 <= m) => m = 0)
  OBVIOUS
<1>5. \A i \in 1 .. m : 1 + i - 1 = i
  OBVIOUS
<1> HIDE DEF u
<1>6. Len(u) = m /\ \A i \in 1 .. m : u[i] = s[i]
  BY <1>3, <1>4, <1>5
<1>7. Fills(u, m)
  BY <1>3, <1>6, FilledSeq
<1>8. t = u
  BY <1>6, <1>7, SameValues
<1>9. QED
  BY <1>8 DEF u

\* The values but the last one.
LEMMA FrontIs ==
  ASSUME NEW n \in Nat, NEW s, Fills(s, n + 1), NEW t, Fills(t, n),
         \A i \in 1 .. n : t[i] = s[i]
  PROVE  t = Front(s)
<1>1. n + 1 \in Nat /\ n <= n + 1
  OBVIOUS
<1>2. Len(s) = n + 1
  BY <1>1, Filled
<1>3. t = SubSeq(s, 1, n)
  BY <1>1, SubSeqIs
<1>4. QED
  BY <1>2, <1>3 DEF Front

\* One value replaced.
LEMMA ExceptIs ==
  ASSUME NEW n \in Nat, NEW s, Fills(s, n), NEW t, Fills(t, n), NEW k \in 1 .. n,
         \A i \in 1 .. n : i # k => t[i] = s[i]
  PROVE  t = [s EXCEPT ![k] = t[k]]
<1>1. DOMAIN s = 1 .. n
  BY DEF Fills
<1>2. [s EXCEPT ![k] = t[k]] = [i \in 1 .. n |-> IF i = k THEN t[k] ELSE s[i]]
  BY <1>1
<1>3. \A i \in 1 .. n : (IF i = k THEN t[k] ELSE s[i]) = t[i]
  OBVIOUS
<1>4. [s EXCEPT ![k] = t[k]] = [i \in 1 .. n |-> t[i]]
  BY <1>2, <1>3
<1>5. QED
  BY <1>4 DEF Fills

-----------------------------------------------------------------------------
(* What the refinement mapping gives.                                      *)

\* a scope as a client sees it
ScopeAt(f) ==
  [kind |-> frames[f].kind, clauses |-> frames[f].clauses,
   block |-> IF frames[f].kind = "handler" THEN frames[f].next ELSE 0,
   exc |-> ExceptionOf(f)]

Scopes == [f \in Visible |-> ScopeAt(f)]
Inflight == IF terminated THEN NoException ELSE thrown
LiveObjects == IF terminated THEN {} ELSE {o \in alive : \A t \in Of({"throw"}) : o < t}
Dying == ~terminated /\ \E t \in Of({"throw"}) : t < Len(frames)

\* TryCatch's Running, Propagate and the others, in these terms.
Calm == ~terminated /\ Inflight = NoException /\ (Scopes # << >> => Last(Scopes).kind # "dispatch")
ScopesOf(kind, s) == {i \in DOMAIN s : s[i].kind = kind}
Propagates(e, s) ==
  /\ ScopesOf("body", s) # {}
  /\ Scopes' = SubSeq(s, 1, Max(ScopesOf("body", s)))
  /\ Inflight' = e
  /\ LiveObjects' = LiveObjects /\ Dying' = Dying /\ terminated' = terminated
Matches == {i \in DOMAIN Last(Scopes).clauses : Last(Scopes).exc.type \in Last(Scopes).clauses[i]}
Matched ==
  ~terminated /\ Inflight = NoException /\ Scopes # << >> /\ Last(Scopes).kind = "dispatch"

\* The mapping.
LEMMA CalmIs == Promised!Running <=> Calm
BY DEF Promised!Running, Promised!Top, Promised!Last, Calm, Last,
       Scopes, ScopeAt, Inflight

\* A step that a client does not see.
LEMMA UnseenIs ==
  (UNCHANGED Promised!vars)
    <=> /\ Scopes' = Scopes /\ Inflight' = Inflight /\ LiveObjects' = LiveObjects
        /\ Dying' = Dying /\ terminated' = terminated
BY DEF Promised!vars, Scopes, ScopeAt, Inflight, LiveObjects, Dying

\* The parts of a state of TryCatch that a step leaves alone.
KeepsLive == LiveObjects' = LiveObjects
KeepsRest == Inflight' = Inflight /\ Dying' = Dying /\ terminated' = terminated

\* Entering and leaving scopes.
LEMMA EnterTryIs ==
  ASSUME NEW clauses
  PROVE  Promised!EnterTry(clauses)
    <=> /\ Calm
        /\ Scopes' = Append(Scopes, [kind |-> "body", clauses |-> clauses, block |-> 0,
                                     exc |-> NoException])
        /\ KeepsLive /\ KeepsRest
BY CalmIs DEF Promised!EnterTry, Promised!Scope, Scopes, ScopeAt, Inflight, LiveObjects, Dying,
              KeepsLive, KeepsRest

\* A TRY body or a handler runs to its end.
LEMMA LeaveTryIs ==
  Promised!LeaveTry
    <=> /\ Calm /\ Scopes # << >> /\ Last(Scopes).kind \in {"body", "handler"}
        /\ Scopes' = Front(Scopes)
        /\ KeepsLive /\ KeepsRest
BY CalmIs DEF Promised!LeaveTry, Promised!Top, Promised!Last, Promised!Front, Last, Front,
              Scopes, ScopeAt, Inflight, LiveObjects, Dying, KeepsLive, KeepsRest

\* An automatic object is constructed.
LEMMA ConstructIs ==
  Promised!Construct
    <=> /\ Calm
        /\ Scopes' = Append(Scopes, [kind |-> "object", clauses |-> << >>, block |-> 0,
                                     exc |-> NoException])
        /\ LiveObjects' = LiveObjects \cup {Len(Scopes) + 1}
        /\ KeepsRest
BY CalmIs DEF Promised!Construct, Promised!Scope, Scopes, ScopeAt, Inflight, LiveObjects, Dying,
              KeepsRest

\* The destructor of the most recent object starts.
LEMMA BeginDestructorIs ==
  Promised!BeginDestructor
    <=> /\ Calm /\ Scopes # << >> /\ Last(Scopes).kind = "object"
        /\ Scopes' = [Scopes EXCEPT ![Len(Scopes)].kind = "dtor"]
        /\ LiveObjects' = LiveObjects \ {Len(Scopes)}
        /\ KeepsRest
BY CalmIs DEF Promised!BeginDestructor, Promised!Top, Promised!Last, Last,
              Scopes, ScopeAt, Inflight, LiveObjects, Dying, KeepsRest

\* It returns.
LEMMA EndDestructorIs ==
  Promised!EndDestructor
    <=> /\ Calm /\ Scopes # << >> /\ Last(Scopes).kind = "dtor"
        /\ Scopes' = Front(Scopes)
        /\ KeepsLive /\ KeepsRest
BY CalmIs DEF Promised!EndDestructor, Promised!Top, Promised!Last, Promised!Front, Last, Front,
              Scopes, ScopeAt, Inflight, LiveObjects, Dying, KeepsLive, KeepsRest

\* Exceptions.
LEMMA ThrowIs ==
  Promised!Throw <=> Calm /\ \E e \in Exceptions : ~e.edited /\ Propagates(e, Scopes)
BY CalmIs DEF Promised!Throw, Promised!Exceptions, Exceptions, Promised!Propagate, Promised!Of,
  Propagates, ScopesOf, Promised!Max, Max, Scopes, ScopeAt, Inflight, LiveObjects, Dying

\* Throw() in a handler.
LEMMA RethrowIs ==
  Promised!Rethrow
    <=> /\ Calm /\ ScopesOf("handler", Scopes) # {}
        /\ Propagates(Scopes[Max(ScopesOf("handler", Scopes))].exc, Scopes)
BY CalmIs DEF Promised!Rethrow, Promised!Propagate, Promised!Of,
  Propagates, ScopesOf, Promised!Max, Max, Scopes, ScopeAt, Inflight, LiveObjects, Dying

\* Unwinding calls a destructor.
LEMMA UnwindIs ==
  Promised!Unwind
    <=> /\ ~terminated /\ Inflight # NoException /\ ~Dying
        /\ LiveObjects # {} /\ Max(LiveObjects) > Len(Scopes)
        /\ LiveObjects' = LiveObjects \ {Max(LiveObjects)}
        /\ Dying' = TRUE
        /\ Scopes' = Scopes /\ Inflight' = Inflight /\ terminated' = terminated
BY DEF Promised!Unwind, Promised!Max, Max, Scopes, ScopeAt, Inflight, LiveObjects, Dying

\* That destructor returns.
LEMMA UnwoundIs ==
  Promised!Unwound
    <=> /\ ~terminated /\ Dying /\ Dying' = FALSE
        /\ Scopes' = Scopes /\ Inflight' = Inflight /\ KeepsLive /\ terminated' = terminated
BY DEF Promised!Unwound, Scopes, ScopeAt, Inflight, LiveObjects, Dying, KeepsLive

\* The exception reaches its catch sequence.
LEMMA DeliverIs ==
  Promised!Deliver
    <=> /\ ~terminated /\ Inflight # NoException /\ ~Dying
        /\ \A o \in LiveObjects : o < Len(Scopes)
        /\ Scopes' = [Scopes EXCEPT ![Len(Scopes)] =
                        [@ EXCEPT !.kind = "dispatch", !.exc = Inflight]]
        /\ Inflight' = NoException
        /\ KeepsLive /\ Dying' = Dying /\ terminated' = terminated
BY DEF Promised!Deliver, Scopes, ScopeAt, Inflight, LiveObjects, Dying, KeepsLive

\* The clauses that match it.
LEMMA MatchesAre ==
  (Promised!Dispatching <=> Matched) /\ Promised!Matching = Matches
BY DEF Promised!Dispatching, Promised!Matching, Promised!Top, Promised!Last, Last,
       Matched, Matches, Scopes, ScopeAt, Inflight

\* The first of them is entered.
LEMMA CatchIs ==
  Promised!Catch
    <=> /\ Matched /\ Matches # {}
        /\ Scopes' = [Scopes EXCEPT ![Len(Scopes)] =
                        [@ EXCEPT !.kind = "handler", !.block = Min(Matches)]]
        /\ KeepsLive /\ KeepsRest
BY MatchesAre DEF Promised!Catch, Promised!Min, Min, Scopes, ScopeAt, Inflight, LiveObjects,
                  Dying, KeepsLive, KeepsRest

\* There is none.
LEMMA NoMatchIs ==
  Promised!NoMatch
    <=> Matched /\ Matches = {} /\ Propagates(Last(Scopes).exc, Front(Scopes))
BY MatchesAre DEF Promised!NoMatch, Promised!Top, Promised!Last, Promised!Front,
  Last, Front, Promised!Propagate, Promised!Of,
  Propagates, ScopesOf, Promised!Max, Max, Scopes, ScopeAt, Inflight, LiveObjects, Dying

\* A handler changes its exception.
LEMMA EditIs ==
  Promised!Edit
    <=> /\ ~terminated
        /\ \E i \in ScopesOf("handler", Scopes) : Scopes' = [Scopes EXCEPT ![i].exc.edited = TRUE]
        /\ KeepsLive /\ KeepsRest
BY DEF Promised!Edit, Promised!Of, ScopesOf, Scopes, ScopeAt, Inflight, LiveObjects, Dying,
       KeepsLive, KeepsRest

\* The end of the process.
LEMMA TerminateIs ==
  Promised!Terminate
    <=> /\ ~terminated
        /\ \/ ScopesOf("body", Scopes) = {} /\ (Calm \/ (Matched /\ Matches = {}))
           \/ Calm /\ ScopesOf("handler", Scopes) = {}
           \/ Dying
        /\ terminated'
        /\ Scopes' = << >> /\ Inflight' = NoException /\ LiveObjects' = {} /\ ~Dying'
BY CalmIs, MatchesAre DEF Promised!Terminate, Promised!Uncaught, Promised!RethrowOutside,
   Promised!Of, ScopesOf, Scopes, ScopeAt, Inflight, LiveObjects, Dying

-----------------------------------------------------------------------------
(* What a client sees.                                                     *)

\* The client sees the first v frames.
Sees(v) == v \in Nat /\ Fills(Scopes, v) /\ \A f \in 1 .. v : Scopes[f] = ScopeAt(f)

\* All of them while no Throw executes.
SeesAll ==
  /\ Sees(Len(frames))
  /\ Inflight = NoException /\ LiveObjects = alive /\ ~Dying

\* Those up to the target of a Throw, which is frame t.
SeesTarget(t) ==
  /\ t \in 1 .. Len(frames)
  /\ \E b \in 1 .. t - 1 : Target(b) /\ Sees(b)
  /\ Inflight = thrown /\ thrown # NoException
  /\ LiveObjects = {o \in alive : o < t}
  /\ Dying <=> t < Len(frames)

\* The frames up to v are visible.
LEMMA SeesVisible ==
  ASSUME NEW v \in Nat, Visible = 1 .. v
  PROVE  Sees(v)
BY DEF Sees, Fills, Scopes

\* Nothing after std::terminate.
LEMMA Gone ==
  terminated => Scopes = << >> /\ Inflight = NoException /\ LiveObjects = {} /\ ~Dying
<1>1. ASSUME terminated
      PROVE  Scopes = << >>
  <2>1. PICK v \in Nat : v = 0
    OBVIOUS
  <2>2. Visible = 1 .. v
    BY <1>1, <2>1 DEF Visible
  <2>3. Fills(Scopes, v)
    BY <2>2, SeesVisible DEF Sees
  <2>4. Scopes = << >> <=> v = 0
    BY <2>3, Filled
  <2>5. QED
    BY <2>1, <2>4
<1>2. QED
  BY <1>1 DEF Inflight, LiveObjects, Dying

\* While no Throw executes, the client sees all frames.
LEMMA NoThrow ==
  IInv /\ ~terminated /\ Of({"throw"}) = {} => SeesAll
<1> SUFFICES ASSUME IInv, ~terminated, Of({"throw"}) = {}
             PROVE  SeesAll
  OBVIOUS
<1>1. TypeOK /\ ControlInv
  BY DEF IInv
<1>2. Visible = 1 .. Len(frames) /\ Len(frames) \in Nat
  BY <1>1, Positions DEF Visible
<1>3. Sees(Len(frames))
  BY <1>2, SeesVisible
<1>4. thrown = NoException
  BY <1>1 DEF ControlInv, ControlOn
<1>5. QED
  BY <1>3, <1>4 DEF SeesAll, Inflight, LiveObjects, Dying

\* While a Throw executes, it sees those up to the target.
LEMMA UnderWay ==
  \A t : IInv /\ ~terminated /\ t \in Of({"throw"}) => SeesTarget(t)
<1> SUFFICES ASSUME IInv, ~terminated, NEW t \in Of({"throw"})
             PROVE  SeesTarget(t)
  OBVIOUS
<1>1. TypeOK /\ ControlInv
  BY DEF IInv
<1>2. /\ DOMAIN frames = 1 .. Len(frames) /\ Len(frames) \in Nat
      /\ t \in 1 .. Len(frames) /\ frames[t].kind = "throw"
  BY <1>1, Positions
<1>3. Of({"throw"}) = {t}
  BY <1>1 DEF ControlInv, ControlOn
<1>4. PICK b \in 1 .. t : Target(b)
  BY <1>1 DEF ControlInv, ControlOn
<1>5. b \in 1 .. t - 1 /\ frames[b].kind = "body" /\ \A f \in b + 1 .. t : frames[f].kind # "body"
  BY <1>2, <1>3, <1>4 DEF Target
<1>6. \A f \in 1 .. Len(frames) : f < t /\ ~Left(f) <=> f <= b
  BY <1>2, <1>3, <1>5 DEF Left
<1>7. Visible = 1 .. b
  <2>1. \A f : f \in Visible <=> f \in 1 .. Len(frames) /\ f < t /\ ~Left(f)
    BY <1>2, <1>3 DEF Visible
  <2>2. \A f : f \in 1 .. b <=> f \in 1 .. Len(frames) /\ f <= b
    BY <1>2, <1>5
  <2>3. QED
    BY <1>6, <2>1, <2>2
<1>8. b \in Nat /\ Sees(b)
  BY <1>4, <1>7, SeesVisible
<1>9. thrown # NoException
  BY <1>1, <1>3 DEF ControlInv, ControlOn
<1>10. LiveObjects = {o \in alive : o < t} /\ (Dying <=> t < Len(frames)) /\ Inflight = thrown
  BY <1>3 DEF LiveObjects, Dying, Inflight
<1>11. QED
  BY <1>2, <1>4, <1>5, <1>8, <1>9, <1>10 DEF SeesTarget

\* The same in the next state.
LEMMA GoneNext ==
  (terminated => Scopes = << >> /\ Inflight = NoException /\ LiveObjects = {} /\ ~Dying)'
BY Gone, PTL

\* All frames, in the next state.
LEMMA NoThrowNext == (IInv /\ ~terminated /\ Of({"throw"}) = {} => SeesAll)'
BY NoThrow, PTL

\* Those up to the target, in the next state.
LEMMA UnderWayNext == (\A t : IInv /\ ~terminated /\ t \in Of({"throw"}) => SeesTarget(t))'
BY UnderWay, PTL

\* The length, the top and the values of what is seen.
LEMMA Seen ==
  ASSUME NEW v, Sees(v)
  PROVE  /\ v \in Nat /\ Fills(Scopes, v) /\ Len(Scopes) = v /\ DOMAIN Scopes = 1 .. v
         /\ Scopes = << >> <=> v = 0
         /\ v > 0 => Last(Scopes) = ScopeAt(v)
         /\ \A f \in 1 .. v : Scopes[f] = ScopeAt(f)
<1>1. v \in Nat /\ Fills(Scopes, v) /\ \A f \in 1 .. v : Scopes[f] = ScopeAt(f)
  BY DEF Sees
<1>2. /\ Len(Scopes) = v /\ DOMAIN Scopes = 1 .. v
      /\ Scopes = << >> <=> v = 0
      /\ v > 0 => Last(Scopes) = Scopes[v]
  BY <1>1, Filled
<1>3. v > 0 => v \in 1 .. v
  BY <1>1
<1>4. QED
  BY <1>1, <1>2, <1>3

-----------------------------------------------------------------------------
(* What a step does to the frames.                                         *)

\* Up to n the frames stay, and there are l of them then.
StaysTo(n, l) ==
  /\ n \in Nat /\ n <= Len(frames) /\ Len(frames') = l
  /\ \A f \in 1 .. n : frames'[f] = frames[f]

\* A scope is opened or a call made.
LEMMA Pushed ==
  ASSUME TypeOK, NEW e \in Frame, frames' = Append(frames, e)
  PROVE  /\ StaysTo(Len(frames), Len(frames) + 1)
         /\ frames'[Len(frames) + 1] = e
<1>1. frames \in Seq(Frame) /\ Len(frames) \in Nat
  BY Positions DEF TypeOK
<1>2. /\ Len(frames') = Len(frames) + 1
      /\ \A i \in 1 .. Len(frames) : frames'[i] = frames[i]
      /\ frames'[Len(frames) + 1] = e
  BY <1>1, Push
<1>3. QED
  BY <1>1, <1>2 DEF StaysTo

\* The innermost scope or call is left.
LEMMA Dropped ==
  ASSUME TypeOK, frames # << >>
  PROVE  \E n \in Nat :
           /\ Len(frames) = n + 1
           /\ frames' = Front(frames) => StaysTo(n, n)
<1>1. frames \in Seq(Frame) /\ Len(frames) \in Nat /\ Len(frames) > 0
  BY Positions, Tops DEF TypeOK
<1>2. PICK n \in Nat : n + 1 = Len(frames)
  BY <1>1, Predecessor
<1>3. Len(Front(frames)) = n /\ \A i \in 1 .. n : Front(frames)[i] = frames[i]
  BY <1>1, <1>2, Pop
<1>4. n <= Len(frames)
  BY <1>2
<1>5. QED
  BY <1>2, <1>3, <1>4 DEF StaysTo

\* The top frame is changed.
LEMMA Changed ==
  ASSUME TypeOK, frames # << >>, NEW e \in Frame, frames' = [frames EXCEPT ![Len(frames)] = e]
  PROVE  \E n \in Nat :
           Len(frames) = n + 1 /\ StaysTo(n, n + 1) /\ frames'[n + 1] = e
<1>1. frames \in Seq(Frame) /\ Len(frames) \in Nat /\ Len(frames) > 0
  BY Positions, Tops DEF TypeOK
<1>2. PICK n \in Nat : n + 1 = Len(frames)
  BY <1>1, Predecessor
<1>3. n + 1 \in 1 .. Len(frames) /\ n <= Len(frames)
  BY <1>2
<1>4. /\ Len(frames') = n + 1 /\ frames'[n + 1] = e
      /\ \A f \in 1 .. n : frames'[f] = frames[f]
  BY <1>1, <1>2, <1>3, ExceptSeq
<1>5. QED
  BY <1>2, <1>3, <1>4 DEF StaysTo

\* The top frame gets another kind.
LEMMA Retagged ==
  ASSUME TypeOK, frames # << >>, NEW kind \in FrameKinds,
         frames' = [frames EXCEPT ![Len(frames)].kind = kind]
  PROVE  \E n \in Nat :
           /\ Len(frames) = n + 1 /\ StaysTo(n, n + 1)
           /\ frames'[n + 1] = [frames[n + 1] EXCEPT !.kind = kind]
<1> DEFINE e == [frames[Len(frames)] EXCEPT !.kind = kind]
<1>1. Len(frames) \in 1 .. Len(frames)
  BY Positions, Tops
<1>2. frames[Len(frames)] \in Frame
  BY <1>1, Positions
<1>3. e \in Frame
  BY <1>2 DEF Frame
<1>4. frames' = [frames EXCEPT ![Len(frames)] = e]
  OBVIOUS
<1>5. e = [frames[Len(frames)] EXCEPT !.kind = kind]
  OBVIOUS
<1> HIDE DEF e
<1>6. PICK n \in Nat : Len(frames) = n + 1 /\ StaysTo(n, n + 1) /\ frames'[n + 1] = e
  BY <1>3, <1>4, Changed
<1>7. QED
  BY <1>5, <1>6

\* Below the top no catch sequence is evaluated, and a body was not left yet.
LEMMA SkippedBelow ==
  ASSUME IInv, SkippedInv, NEW n, NEW l, StaysTo(n, l),
         n < Len(frames) \/ Of({"dispatch"}) = {},
         \/ l = n
         \/ /\ l = n + 1
            /\ frames'[l].kind # "dispatch"
            /\ frames'[l].kind = "body" => frames'[l].next = 1
  PROVE  SkippedInv'
<1>1. TypeOK /\ ControlInv
  BY DEF IInv
<1>2. /\ n \in Nat /\ Len(frames) \in Nat /\ n <= Len(frames) /\ Len(frames') = l
      /\ \A f \in 1 .. n : frames'[f] = frames[f]
  BY <1>1, Positions DEF StaysTo
<1>3. \A f \in 1 .. n : frames[f].kind # "dispatch"
  <2> SUFFICES ASSUME NEW f \in 1 .. n, frames[f].kind = "dispatch"
               PROVE  FALSE
    OBVIOUS
  <2>1. f \in Of({"dispatch"})
    BY <1>1, <1>2, Positions
  <2>2. f = Len(frames)
    BY <1>1, <2>1 DEF ControlInv, ControlOn
  <2>3. QED
    BY <1>2, <2>1, <2>2
<1>4. \A f \in 1 .. n : frames[f].kind = "body" => frames[f].next = 1
  BY <1>2 DEF SkippedInv
<1>5. \A f \in 1 .. l : /\ frames'[f].kind # "dispatch"
                        /\ frames'[f].kind = "body" => frames'[f].next = 1
  <2> SUFFICES ASSUME NEW f \in 1 .. l
               PROVE  /\ frames'[f].kind # "dispatch"
                      /\ frames'[f].kind = "body" => frames'[f].next = 1
    OBVIOUS
  <2>1. CASE f \in 1 .. n
    BY <1>2, <1>3, <1>4, <2>1
  <2>2. CASE f \notin 1 .. n
    <3>1. f = l /\ l = n + 1
      BY <1>2, <2>2
    <3>2. QED
      BY <3>1
  <2>3. QED
    BY <2>1, <2>2
<1>6. QED
  BY <1>2, <1>5 DEF SkippedInv

\* The nodes stay up to m, and the one above was not raised.
LEMMA CarriedBelow ==
  ASSUME TypeOK, CarriedInv, UNCHANGED <<thrown, unwinding_in_progress>>,
         NEW m \in Nat, m <= Len(stack), \A i \in 1 .. m : stack'[i] = stack[i],
         Len(stack') = m \/ (Len(stack') = m + 1 /\ ~stack'[m + 1].raised)
  PROVE  CarriedInv'
<1>1. Len(stack) \in Nat
  BY Positions
<1>2. SUFFICES ASSUME unwinding_in_progress, NEW i \in 1 .. Len(stack'), stack'[i].raised
               PROVE  stack'[i].data = thrown
  BY DEF CarriedInv
<1>3. i \in 1 .. m
  BY <1>2
<1>4. i \in 1 .. Len(stack)
  BY <1>1, <1>3
<1>5. QED
  BY <1>2, <1>3, <1>4 DEF CarriedInv

-----------------------------------------------------------------------------
(* The two added parts of the invariant hold.                              *)

\* With the client's code or a Throw on top, no catch sequence is evaluated.
LEMMA NoDispatch ==
  ASSUME IInv, Running \/ (frames # << >> /\ frames[Len(frames)].kind # "dispatch")
  PROVE  Of({"dispatch"}) = {}
<1>1. CASE Running
  BY <1>1, ClientRuns
<1>2. CASE frames # << >> /\ frames[Len(frames)].kind # "dispatch"
  <2>1. \A f \in Of({"dispatch"}) : FALSE
    BY <1>2, Positions DEF IInv, ControlInv, ControlOn
  <2>2. QED
    BY <2>1
<1>3. QED
  BY <1>1, <1>2

\* Frames that stay with the data of the top node.
LEMMA SkippedSame ==
  ASSUME SkippedInv, UNCHANGED <<frames, stack>>
  PROVE  SkippedInv'
BY DEF SkippedInv

\* Frames that stay while no catch sequence is evaluated.
LEMMA SkippedQuiet ==
  ASSUME IInv, SkippedInv, frames' = frames, Of({"dispatch"}) = {}
  PROVE  SkippedInv'
<1>1. Len(frames) \in Nat
  BY Positions DEF IInv
<1>2. StaysTo(Len(frames), Len(frames))
  BY <1>1 DEF StaysTo
<1>3. QED
  BY <1>2, SkippedBelow

\* Opening a scope or calling Throw.
LEMMA SkippedPushed ==
  ASSUME IInv, SkippedInv, Of({"dispatch"}) = {},
         NEW kind \in FrameKinds, kind # "dispatch", NEW clauses \in CatchSequences \cup {<< >>},
         frames' = Append(frames, NewFrame(kind, clauses))
  PROVE  SkippedInv'
<1>1. NewFrame(kind, clauses) \in Frame /\ NewFrame(kind, clauses).kind = kind
      /\ NewFrame(kind, clauses).next = 1
  BY DEF NewFrame, Frame
<1>2. TypeOK
  BY DEF IInv
<1> DEFINE e == NewFrame(kind, clauses)
           n == Len(frames)
<1> HIDE DEF e
<1>3. StaysTo(n, n + 1) /\ frames'[n + 1] = e
  BY <1>1, <1>2, Pushed DEF e
<1>4. e.kind = kind /\ e.next = 1
  BY <1>1 DEF e
<1> DEFINE l == n + 1
<1>5. StaysTo(n, l) /\ frames'[l] = e /\ l = n + 1
  BY <1>3
<1> HIDE DEF n, l
<1>6. QED
  BY <1>4, <1>5, SkippedBelow

\* The end of a scope or a call.
LEMMA SkippedDropped ==
  ASSUME IInv, SkippedInv, frames # << >>, frames' = Front(frames)
  PROVE  SkippedInv'
<1>1. PICK n \in Nat : Len(frames) = n + 1 /\ StaysTo(n, n)
  BY Dropped DEF IInv
<1>2. n < Len(frames)
  BY <1>1
<1>3. QED
  BY <1>1, <1>2, SkippedBelow

\* The top frame becomes a handler or a destructor.
LEMMA SkippedRetagged ==
  ASSUME IInv, SkippedInv, frames # << >>, NEW kind \in {"handler", "dtor"},
         frames' = [frames EXCEPT ![Len(frames)].kind = kind]
  PROVE  SkippedInv'
<1>1. TypeOK /\ kind \in FrameKinds
  BY DEF IInv, FrameKinds, ClientKinds
<1>2. PICK n \in Nat : /\ Len(frames) = n + 1 /\ StaysTo(n, n + 1)
                       /\ frames'[n + 1] = [frames[n + 1] EXCEPT !.kind = kind]
  BY <1>1, Retagged
<1>3. frames[n + 1] \in Frame
  <2>1. n + 1 \in 1 .. Len(frames)
    BY <1>2
  <2>2. QED
    BY <1>1, <2>1, Positions
<1>4. frames'[n + 1].kind = kind
  BY <1>2, <1>3 DEF Frame
<1>5. PICK l : l = n + 1
  OBVIOUS
<1>6. n < Len(frames) /\ StaysTo(n, l) /\ frames'[l].kind \in {"handler", "dtor"}
  BY <1>2, <1>4, <1>5
<1>7. QED
  BY <1>5, <1>6, SkippedBelow

\* A Throw call leaves the frames, or is on top of them.
LEMMA SkippedThrow ==
  ASSUME IInv, SkippedInv, Running, NEW exc, CallThrow(exc, frames, stack)
  PROVE  SkippedInv'
<1>1. Of({"dispatch"}) = {}
  BY NoDispatch
<1>2. CASE frames' = frames
  BY <1>1, <1>2, SkippedQuiet
<1>3. CASE frames' = Append(frames, NewFrame("throw", << >>))
  <2>1. "throw" \in FrameKinds /\ << >> \in CatchSequences \cup {<< >>}
    BY DEF FrameKinds
  <2>2. QED
    BY <1>1, <1>3, <2>1, SkippedPushed
<1>4. QED
  BY <1>2, <1>3 DEF CallThrow

\* The exception goes on, out of a TRY in which no clause matched.
LEMMA SkippedFinishRaised ==
  ASSUME IInv, SkippedInv, AtEndOfTry, FinishRaised
  PROVE  SkippedInv'
<1>1. TypeOK /\ frames # << >>
  BY FinishCases DEF IInv
<1>2. CASE frames' = Front(frames)
  BY <1>1, <1>2, SkippedDropped
<1>3. CASE frames' = Append(Front(frames), NewFrame("throw", << >>))
  <2>1. frames \in Seq(Frame) /\ NewFrame("throw", << >>) \in Frame
        /\ NewFrame("throw", << >>).kind = "throw"
    BY <1>1 DEF TypeOK, NewFrame, Frame, FrameKinds
  <2>2. PICK n \in Nat : Len(frames) = n + 1
    BY <1>1, Dropped
  <2>3. /\ Front(frames) \in Seq(Frame) /\ Len(Front(frames)) = n
        /\ \A f \in 1 .. n : Front(frames)[f] = frames[f]
    BY <2>1, <2>2, Pop
  <2>4. /\ Len(frames') = n + 1
        /\ \A f \in 1 .. n : frames'[f] = Front(frames)[f]
        /\ frames'[n + 1] = NewFrame("throw", << >>)
    BY <1>3, <2>1, <2>3, Push
  <2>5. PICK l : l = n + 1
    OBVIOUS
  <2>6. StaysTo(n, l) /\ n < Len(frames) /\ frames'[l].kind = "throw"
    BY <2>1, <2>2, <2>3, <2>4, <2>5 DEF StaysTo
  <2>7. QED
    BY <2>5, <2>6, SkippedBelow
<1>4. QED
  BY <1>2, <1>3 DEF FinishRaised, CallThrow

\* Longjmp finds the target of the Throw below it and makes it dispatch.
LEMMA LongjmpTop ==
  ASSUME IInv, Longjmp
  PROVE  LET b == Last(stack).buf
         IN  /\ frames # << >> /\ frames[Len(frames)].kind = "throw" /\ unwinding_in_progress
             /\ stack # << >>
             /\ b \in 1 .. Len(frames) - 1 /\ Target(b) /\ frames[b].kind = "body"
             /\ Len(frames') = b /\ \A f \in 1 .. b - 1 : frames'[f] = frames[f]
             /\ frames'[b] = [frames[b] EXCEPT !.kind = "dispatch"]
<1>1. TypeOK
  BY DEF IInv
<1>2. frames # << >> /\ frames[Len(frames)].kind = "throw" /\ unwinding_in_progress
  BY <1>1, Tops DEF Longjmp, TopIs
<1>3. PICK b : b = Last(stack).buf
  OBVIOUS
<1>4. stack # << >> /\ b \in 1 .. Len(frames) - 1 /\ frames[b].kind = "body" /\ Target(b)
  <2>1. /\ stack # << >> /\ Last(stack).buf \in 1 .. Len(frames) - 1
        /\ frames[Last(stack).buf].kind = "body"
        /\ \A f \in 1 .. Len(frames) : Target(f) <=> f = Last(stack).buf
    BY <1>2, UnderThrow
  <2>2. Len(frames) \in Nat
    BY <1>1, Positions
  <2>3. QED
    BY <1>3, <2>1, <2>2
<1>5. Len(frames') = b /\ \A f \in 1 .. b - 1 : frames'[f] = frames[f]
  BY <1>1, <1>3, <1>4, LongjmpFrames
<1>6. frames'[b] = [frames[b] EXCEPT !.kind = "dispatch"]
  <2>1. b \in Nat /\ b <= Len(frames) /\ Len(frames) \in Nat /\ b > 0
    BY <1>1, <1>4, Positions
  <2>2. Fills(frames, Len(frames))
    BY <1>1, <2>1, FilledSeq DEF TypeOK
  <2> DEFINE t == [i \in 1 .. b |-> frames[i]]
  <2>3. Fills(t, b) /\ \A i \in 1 .. b : t[i] = frames[i]
    BY DEF Fills
  <2>4. DOMAIN t = 1 .. b
    OBVIOUS
  <2> HIDE DEF t
  <2>5. t = SubSeq(frames, 1, b)
    <3>1. PICK n : n = Len(frames)
      OBVIOUS
    <3>2. n \in Nat /\ b \in Nat /\ b <= n /\ Fills(frames, n)
      BY <2>1, <2>2, <3>1
    <3>3. QED
      BY <2>3, <3>2, SubSeqIs
  <2>6. frames' = [t EXCEPT ![b].kind = "dispatch"]
    BY <1>3, <2>5 DEF Longjmp
  <2>7. b \in 1 .. b
    BY <2>1
  <2>8. QED
    BY <2>3, <2>4, <2>6, <2>7
<1>7. QED
  BY <1>2, <1>3, <1>4, <1>5, <1>6

\* The exception was delivered: the sequence is evaluated from its start.
LEMMA SkippedLongjmp ==
  ASSUME IInv, SkippedInv, Longjmp
  PROVE  SkippedInv'
<1>1. TypeOK
  BY DEF IInv
<1>2. PICK b : b = Last(stack).buf
  OBVIOUS
<1>3. /\ frames # << >> /\ frames[Len(frames)].kind = "throw"
      /\ b \in 1 .. Len(frames) - 1 /\ frames[b].kind = "body"
      /\ Len(frames') = b /\ \A f \in 1 .. b - 1 : frames'[f] = frames[f]
      /\ frames'[b] = [frames[b] EXCEPT !.kind = "dispatch"]
  BY <1>2, LongjmpTop
<1>4. Len(frames) \in Nat /\ b \in 1 .. Len(frames)
  BY <1>1, <1>3, Positions
<1>5. frames[b] \in Frame /\ frames[b].next = 1
  BY <1>1, <1>3, <1>4, Positions DEF SkippedInv
<1>6. frames'[b].kind = "dispatch" /\ frames'[b].next = 1 /\ frames'[b].clauses = frames[b].clauses
  BY <1>3, <1>5 DEF Frame
<1>7. Of({"dispatch"}) = {}
  BY <1>3, NoDispatch
<1>8. \A f \in 1 .. b - 1 : frames[f].kind # "dispatch"
  <2>1. \A f \in 1 .. b - 1 : f \in 1 .. Len(frames)
    BY <1>4
  <2>2. QED
    BY <1>1, <1>7, <2>1, Positions
<1>9. \A f \in 1 .. b - 1 : frames'[f].kind = "body" => frames'[f].next = 1
  <2>1. \A f \in 1 .. b - 1 : f \in 1 .. Len(frames)
    BY <1>4
  <2>2. QED
    BY <1>3, <2>1 DEF SkippedInv
<1>10. \A i \in DOMAIN frames[b].clauses : ~(i < 1)
  <2>1. frames[b].clauses \in Seq(SUBSET Types)
    BY <1>5, CatchAssumption, EmptySeq DEF Frame
  <2>2. DOMAIN frames[b].clauses = 1 .. Len(frames[b].clauses)
    BY <2>1, LenProperties
  <2>3. QED
    BY <2>2
<1>11. \A f \in 1 .. b : f \in 1 .. b - 1 \/ f = b
  BY <1>4
<1>12. SUFFICES ASSUME NEW f \in 1 .. b
                PROVE  /\ frames'[f].kind = "body" => frames'[f].next = 1
                       /\ frames'[f].kind = "dispatch" =>
                            /\ frames'[f].next > 0
                            /\ \A i \in DOMAIN frames'[f].clauses : ~(i < frames'[f].next)
  BY <1>3 DEF SkippedInv
<1>13. CASE f \in 1 .. b - 1
  BY <1>3, <1>8, <1>9, <1>13
<1>14. CASE f = b
  BY <1>6, <1>10, <1>14
<1>15. QED
  BY <1>11, <1>13, <1>14

\* A condition that does not hold is passed over.
LEMMA SkippedSkip ==
  ASSUME IInv, SkippedInv, SkipCatch
  PROVE  SkippedInv'
<1>1. TypeOK /\ ControlInv
  BY DEF IInv
<1>2. /\ frames # << >> /\ frames[Len(frames)].kind = "dispatch"
      /\ Last(frames) = frames[Len(frames)]
  BY <1>1, Tops DEF SkipCatch, TopIs
<1>3. Len(frames) \in 1 .. Len(frames) /\ Len(frames) \in Nat
  BY <1>1, <1>2, Positions, Tops
<1> DEFINE old == frames[Len(frames)]
           e == [old EXCEPT !.next = old.next + 1]
<1>4. old \in Frame
  BY <1>1, <1>3, Positions
<1>5. e \in Frame /\ e.kind = "dispatch" /\ e.next = old.next + 1 /\ e.clauses = old.clauses
  BY <1>2, <1>4 DEF Frame
<1>6. frames' = [frames EXCEPT ![Len(frames)] = e]
  BY DEF SkipCatch
<1>7. old.next \in Nat /\ old.next > 0
      /\ \A i \in DOMAIN old.clauses :
           i < old.next => Last(stack).data.type \notin old.clauses[i]
  BY <1>2, <1>3, <1>4 DEF SkippedInv, Frame
<1>8. Last(stack).data.type \notin old.clauses[old.next] /\ stack' = stack
  BY <1>2 DEF SkipCatch, CanCatch, library
<1>9. \A i \in DOMAIN old.clauses : i \in Nat
  <2>1. old.clauses \in Seq(SUBSET Types)
    BY <1>4, CatchAssumption, EmptySeq DEF Frame
  <2>2. DOMAIN old.clauses = 1 .. Len(old.clauses)
    BY <2>1, LenProperties
  <2>3. QED
    BY <2>2
<1>10. old = frames[Len(frames)]
  OBVIOUS
<1> HIDE DEF e, old
<1>11. PICK n \in Nat : Len(frames) = n + 1 /\ StaysTo(n, n + 1) /\ frames'[n + 1] = e
  BY <1>1, <1>2, <1>5, <1>6, Changed
<1>12. \A i \in DOMAIN e.clauses : i < e.next => Last(stack').data.type \notin e.clauses[i]
  <2> SUFFICES ASSUME NEW i \in DOMAIN old.clauses, i < old.next + 1
               PROVE  Last(stack).data.type \notin old.clauses[i]
    BY <1>5, <1>8
  <2>1. i < old.next \/ i = old.next
    BY <1>7, <1>9
  <2>2. QED
    BY <1>7, <1>8, <2>1
<1>13. /\ Len(frames') = n + 1
       /\ \A f \in 1 .. n : frames'[f] = frames[f]
  BY <1>11 DEF StaysTo
<1>14. \A f \in 1 .. n : frames[f].kind # "dispatch" /\ (frames[f].kind = "body" => frames[f].next = 1)
  <2> SUFFICES ASSUME NEW f \in 1 .. n
               PROVE  frames[f].kind # "dispatch" /\ (frames[f].kind = "body" => frames[f].next = 1)
    OBVIOUS
  <2>1. f \in 1 .. Len(frames) /\ f # Len(frames)
    BY <1>11
  <2>2. frames[f].kind # "dispatch"
    BY <1>1, <2>1, Positions DEF ControlInv, ControlOn
  <2>3. QED
    BY <2>1, <2>2 DEF SkippedInv
<1>15. e.next > 0
  BY <1>5, <1>7
<1>16. \A f \in 1 .. n + 1 : f \in 1 .. n \/ f = n + 1
  OBVIOUS
<1>17. QED
  BY <1>5, <1>11, <1>12, <1>13, <1>14, <1>15, <1>16 DEF SkippedInv

\* Every step keeps the first part.
LEMMA SkippedNext == IInv /\ SkippedInv /\ [Next]_vars => SkippedInv'
<1> SUFFICES ASSUME IInv, SkippedInv, [Next]_vars
             PROVE  SkippedInv'
  OBVIOUS
<1>1. CASE \E clauses \in CatchSequences : StartTry(clauses)
  <2>1. PICK clauses \in CatchSequences : StartTry(clauses)
    BY <1>1
  <2>2. Running /\ frames' = Append(frames, NewFrame("body", clauses))
    BY <2>1 DEF StartTry, CanOpenScope
  <2>3. "body" \in FrameKinds
    BY DEF FrameKinds, ClientKinds
  <2>4. QED
    BY <2>2, <2>3, NoDispatch, SkippedPushed
<1>2. CASE RecordObject
  <2>1. Running /\ frames' = Append(frames, NewFrame("object", << >>))
    BY <1>2 DEF RecordObject, CanOpenScope
  <2>2. "object" \in FrameKinds
    BY DEF FrameKinds, ClientKinds
  <2>3. QED
    BY <2>1, <2>2, NoDispatch, SkippedPushed
<1>3. CASE PopObject
  BY <1>3, SkippedRetagged DEF PopObject, TopIs
<1>4. CASE EndDestructor
  BY <1>4, SkippedDropped DEF EndDestructor, TopIs
<1>5. CASE \E type \in Types : Throw(type)
  BY <1>5, SkippedThrow DEF Throw
<1>6. CASE Rethrow
  <2>1. CASE UNCHANGED frames
    BY <1>6, <2>1, NoDispatch, SkippedQuiet DEF Rethrow
  <2>2. CASE CallThrow(Last(caught).data, frames, stack)
    <3>1. PICK exc : exc = Last(caught).data
      OBVIOUS
    <3>2. CallThrow(exc, frames, stack)
      BY <2>2, <3>1
    <3>3. QED
      BY <1>6, <3>2, SkippedThrow DEF Rethrow
  <2>3. QED
    BY <1>6, <2>1, <2>2 DEF Rethrow
<1>7. CASE AbandonHandler \/ Raise
  <2>1. frames' = frames /\ TopIs({"throw"})
    BY <1>7 DEF AbandonHandler, Raise, client
  <2>2. frames # << >> /\ frames[Len(frames)].kind = "throw"
    BY <2>1, Tops DEF TopIs, IInv
  <2>3. QED
    BY <2>1, <2>2, NoDispatch, SkippedQuiet
<1>8. CASE DestroyObject
  <2>1. frames' = Append(frames, NewFrame("dtor", << >>)) /\ TopIs({"throw"})
    BY <1>8 DEF DestroyObject
  <2>2. frames # << >> /\ frames[Len(frames)].kind = "throw"
    BY <2>1, Tops DEF TopIs, IInv
  <2>3. "dtor" \in FrameKinds
    BY DEF FrameKinds, ClientKinds
  <2>4. QED
    BY <2>1, <2>2, <2>3, NoDispatch, SkippedPushed
<1>9. CASE Longjmp
  BY <1>9, SkippedLongjmp
<1>10. CASE SkipCatch
  BY <1>10, SkippedSkip
<1>11. CASE DoCatch
  BY <1>11, SkippedRetagged DEF DoCatch, TopIs
<1>12. CASE \E i \in DOMAIN caught : EditCaught(i)
  BY <1>12, NoDispatch, SkippedQuiet DEF EditCaught, client
<1>13. CASE FinishTry
  <2>1. AtEndOfTry /\ frames # << >>
    BY <1>13, FinishCases DEF FinishTry
  <2>2. CASE FinishRaised
    BY <2>1, <2>2, SkippedFinishRaised
  <2>3. CASE FinishHandler \/ FinishBody
    BY <2>1, <2>3, SkippedDropped DEF FinishHandler, FinishBody
  <2>4. QED
    BY <1>13, <2>2, <2>3 DEF FinishTry
<1>14. CASE UNCHANGED vars
  BY <1>14, SkippedSame DEF vars
<1>15. QED
  BY <1>1, <1>2, <1>3, <1>4, <1>5, <1>6, <1>7, <1>8, <1>9, <1>10, <1>11, <1>12, <1>13, <1>14
     DEF Next, ThrowSteps, CatchSteps, Stopped

\* Every step keeps the second part: raising gives the node what is thrown, and
\* while Throw unwinds only TRYs above it are entered and left.
LEMMA CarriedNext == IInv /\ CarriedInv /\ [Next]_vars => CarriedInv'
<1> SUFFICES ASSUME IInv, CarriedInv, [Next]_vars
             PROVE  CarriedInv'
  OBVIOUS
<1>1. TypeOK /\ stack \in Seq(Node) /\ Len(stack) \in Nat
  BY Positions DEF IInv, TypeOK
<1>2. CASE UNCHANGED <<thrown, unwinding_in_progress, stack>>
  BY <1>2 DEF CarriedInv
<1>3. ASSUME UNCHANGED <<thrown, unwinding_in_progress>>, stack # << >>, stack' = Front(stack)
      PROVE  CarriedInv'
  <2>1. Len(stack) > 0
    BY <1>1, <1>3, Tops
  <2>2. PICK m \in Nat : m + 1 = Len(stack)
    BY <1>1, <2>1, Predecessor
  <2>3. Len(stack') = m /\ \A i \in 1 .. m : stack'[i] = stack[i]
    BY <1>1, <1>3, <2>2, Pop
  <2>4. m <= Len(stack)
    BY <2>2
  <2>5. QED
    BY <1>1, <1>3, <2>3, <2>4, CarriedBelow
<1>4. CASE ~unwinding_in_progress'
  BY <1>4 DEF CarriedInv
<1>5. CASE \E clauses \in CatchSequences : StartTry(clauses)
  <2>1. PICK m \in Nat : m = Len(stack)
    BY <1>1
  <2> DEFINE e == NewNode(Here, Len(stack))
  <2>2. stack' = Append(stack, e) /\ UNCHANGED <<thrown, unwinding_in_progress>>
    BY <1>5 DEF StartTry
  <2>3. e \in Node /\ ~e.raised
    BY <1>1, Positions DEF NewNode, Node, Here
  <2> HIDE DEF e
  <2>4. Len(stack') = m + 1 /\ stack'[m + 1] = e /\ \A i \in 1 .. m : stack'[i] = stack[i]
    BY <1>1, <2>1, <2>2, <2>3, Push
  <2>5. m <= Len(stack)
    BY <2>1
  <2>6. QED
    BY <1>1, <2>2, <2>3, <2>4, <2>5, CarriedBelow
<1>6. CASE Raise
  <2>1. /\ ~unwinding_in_progress /\ thrown' = thrown
        /\ stack' = [stack EXCEPT ![Len(stack)] = Raised(@, thrown)]
        /\ frames # << >> /\ frames[Len(frames)].kind = "throw"
    BY <1>1, <1>6, Tops DEF Raise, TopIs, client
  <2>2. Of({"dispatch"}) = {}
    BY <2>1, NoDispatch
  <2>3. \A i \in 1 .. Len(stack) : ~stack[i].raised
    <3> SUFFICES ASSUME NEW i \in 1 .. Len(stack), stack[i].raised
                 PROVE  FALSE
      OBVIOUS
    <3>1. frames[stack[i].buf].kind = "dispatch" /\ stack[i].buf \in 1 .. Len(frames)
      BY <2>1 DEF IInv, RaisedInv, RaisedOn, NodeInv, NodesOn
    <3>2. QED
      BY <1>1, <2>2, <3>1, Positions
  <2>4. DOMAIN stack = 1 .. Len(stack)
    BY <1>1, Positions
  <2>5. Len(stack') = Len(stack)
    BY <2>1, <2>4, <1>1
  <2>6. ASSUME NEW i \in 1 .. Len(stack'), stack'[i].raised
        PROVE  stack'[i].data = thrown
    <3>1. i \in 1 .. Len(stack) /\ stack[i] \in Node
      BY <1>1, <2>5, <2>6, Positions
    <3>2. i = Len(stack)
      BY <2>1, <2>3, <2>4, <2>6, <3>1
    <3>3. stack'[i] = Raised(stack[i], thrown)
      BY <2>1, <2>4, <3>1, <3>2
    <3>4. QED
      BY <3>1, <3>3 DEF Raised, Node
  <2>7. QED
    BY <2>1, <2>6 DEF CarriedInv
<1>7. CASE \E type \in Types : Throw(type)
  BY <1>2, <1>4, <1>7 DEF Throw, CallThrow, Terminate, library
<1>8. CASE Rethrow
  BY <1>2, <1>4, <1>8 DEF Rethrow, CallThrow, Terminate, library
<1>9. CASE DoCatch
  <2>1. ~unwinding_in_progress
    BY <1>1, <1>9, Tops, NothingThrown DEF DoCatch, TopIs
  <2>2. QED
    BY <1>4, <1>9, <2>1 DEF DoCatch
<1>10. CASE FinishTry
  <2>1. AtEndOfTry /\ frames # << >>
    BY <1>10, FinishCases DEF FinishTry
  <2>2. CASE FinishRaised
    <3>1. ~unwinding_in_progress
      BY <2>1, <2>2, FinishCases, NothingThrown
    <3>2. QED
      BY <1>4, <2>2, <3>1 DEF FinishRaised
  <2>3. CASE FinishHandler
    BY <1>2, <2>3 DEF FinishHandler
  <2>4. CASE FinishBody
    BY <1>3, <2>4 DEF FinishBody
  <2>5. QED
    BY <1>10, <2>2, <2>3, <2>4 DEF FinishTry
<1>11. CASE Longjmp
  BY <1>4, <1>11 DEF Longjmp
<1>12. CASE RecordObject \/ PopObject \/ EndDestructor \/ AbandonHandler \/ DestroyObject
            \/ SkipCatch \/ (\E i \in DOMAIN caught : EditCaught(i)) \/ UNCHANGED vars
  BY <1>2, <1>12 DEF RecordObject, PopObject, EndDestructor, AbandonHandler, DestroyObject,
                     SkipCatch, EditCaught, vars, library, client
<1>13. QED
  BY <1>5, <1>6, <1>7, <1>8, <1>9, <1>10, <1>11, <1>12
     DEF Next, ThrowSteps, CatchSteps, Stopped

\* The invariant of this proof.
LEMMA RefinementInvariance == Spec => []RInv
<1>1. Init => RInv
  <2>1. Init => SkippedInv /\ CarriedInv
    <3> SUFFICES ASSUME Init
                 PROVE  SkippedInv /\ CarriedInv
      OBVIOUS
    <3>1. Len(frames) = 0
      BY EmptySeq DEF Init
    <3>2. QED
      BY <3>1 DEF Init, SkippedInv, CarriedInv
  <2>2. QED
    BY <2>1, Initially DEF RInv
<1>2. RInv /\ [Next]_vars => RInv'
  BY Inductive, SkippedNext, CarriedNext DEF RInv
<1>3. QED
  BY <1>1, <1>2, PTL DEF Spec

-----------------------------------------------------------------------------
(* What a client sees of a step.                                           *)

\* The node of a TRY and the caught node of a handler are the only ones.
LEMMA NodeData ==
  ASSUME IInv, NEW i \in 1 .. Len(stack)
  PROVE  DataAt(stack, stack[i].buf) = stack[i].data
<1>1. TypeOK /\ NodesOn(Len(frames), Len(stack))
  BY DEF IInv, NodeInv
<1>2. /\ DOMAIN stack = 1 .. Len(stack) /\ Len(stack) \in Nat
      /\ \A k \in 1 .. Len(stack) : stack[k].buf \in Nat
  BY <1>1, Positions DEF Node
<1>3. \A k \in 1 .. Len(stack) : stack[k].buf = stack[i].buf => k = i
  <2> SUFFICES ASSUME NEW k \in 1 .. Len(stack), stack[k].buf = stack[i].buf
               PROVE  k = i
    OBVIOUS
  <2>1. ~(k < i) /\ ~(i < k)
    BY <1>1, <1>2 DEF NodesOn
  <2>2. QED
    BY <1>2, <2>1
<1>4. (CHOOSE k \in DOMAIN stack : stack[k].buf = stack[i].buf) = i
  BY <1>2, <1>3
<1>5. QED
  BY <1>4 DEF DataAt

\* A handler's exception is that of its caught node.
LEMMA CaughtData ==
  ASSUME IInv, NEW j \in 1 .. Len(caught)
  PROVE  DataAt(caught, caught[j].buf) = caught[j].data
<1>1. TypeOK /\ CaughtOn(Len(frames), Len(stack), Len(caught))
  BY DEF IInv, CaughtInv
<1>2. /\ DOMAIN caught = 1 .. Len(caught) /\ Len(caught) \in Nat
      /\ \A k \in 1 .. Len(caught) : caught[k].buf \in Nat
  BY <1>1, Positions DEF Node
<1>3. \A k \in 1 .. Len(caught) : caught[k].buf = caught[j].buf => k = j
  <2> SUFFICES ASSUME NEW k \in 1 .. Len(caught), caught[k].buf = caught[j].buf
               PROVE  k = j
    OBVIOUS
  <2>1. ~(k < j) /\ ~(j < k)
    BY <1>1, <1>2 DEF CaughtOn
  <2>2. QED
    BY <1>2, <2>1
<1>4. (CHOOSE k \in DOMAIN caught : caught[k].buf = caught[j].buf) = j
  BY <1>2, <1>3
<1>5. QED
  BY <1>4 DEF DataAt

\* The same in the next state.
LEMMA CaughtDataNext == (\A j : IInv /\ j \in 1 .. Len(caught)
                             => DataAt(caught, caught[j].buf) = caught[j].data)'
<1>1. \A j : IInv /\ j \in 1 .. Len(caught) => DataAt(caught, caught[j].buf) = caught[j].data
  BY CaughtData
<1>2. QED
  BY <1>1, PTL

\* The same of the nodes of TRYs, in the next state.
LEMMA NodeDataNext == (\A i : IInv /\ i \in 1 .. Len(stack)
                           => DataAt(stack, stack[i].buf) = stack[i].data)'
<1>1. \A i : IInv /\ i \in 1 .. Len(stack) => DataAt(stack, stack[i].buf) = stack[i].data
  BY NodeData
<1>2. QED
  BY <1>1, PTL

\* A scope is seen as before if its frame is, and its exception if it is caught.
LEMMA ScopeKept ==
  ASSUME NEW f, frames'[f] = frames[f], frames[f].kind # "dispatch",
         frames[f].kind = "handler" => DataAt(caught, f)' = DataAt(caught, f)
  PROVE  ScopeAt(f)' = ScopeAt(f)
BY DEF ScopeAt, ExceptionOf

\* No frame below the top evaluates a catch sequence.
LEMMA BelowTop ==
  ASSUME IInv, NEW n \in Nat, n <= Len(frames), n < Len(frames) \/ Of({"dispatch"}) = {}
  PROVE  \A f \in 1 .. n : frames[f].kind # "dispatch"
<1> SUFFICES ASSUME NEW f \in 1 .. n, frames[f].kind = "dispatch"
             PROVE  FALSE
  OBVIOUS
<1>1. TypeOK /\ ControlInv /\ Len(frames) \in Nat
  BY Positions DEF IInv
<1>2. f \in Of({"dispatch"})
  BY <1>1, Positions
<1>3. f = Len(frames)
  BY <1>1, <1>2 DEF ControlInv, ControlOn
<1>4. QED
  BY <1>1, <1>2, <1>3

\* Scopes below n stay, with what was caught in them.
LEMMA ScopesKept ==
  ASSUME IInv, NEW n, NEW l, StaysTo(n, l), n < Len(frames) \/ Of({"dispatch"}) = {},
         caught' = caught
  PROVE  \A f \in 1 .. n : ScopeAt(f)' = ScopeAt(f)
<1>1. n \in Nat /\ n <= Len(frames) /\ \A f \in 1 .. n : frames'[f] = frames[f]
  BY DEF StaysTo
<1>2. \A f \in 1 .. n : frames[f].kind # "dispatch"
  BY <1>1, BelowTop
<1>3. \A f : DataAt(caught, f)' = DataAt(caught, f)
  BY DEF DataAt
<1>4. QED
  BY <1>1, <1>2, <1>3, ScopeKept

\* Still no Throw executes.
LEMMA NoThrowThen ==
  ASSUME TypeOK, TypeOK', Of({"throw"}) = {}, NEW n, NEW l, StaysTo(n, l),
         l = n \/ (l = n + 1 /\ frames'[l].kind # "throw")
  PROVE  Of({"throw"})' = {}
<1>1. /\ n \in Nat /\ n <= Len(frames) /\ Len(frames') = l /\ Len(frames) \in Nat
      /\ \A f \in 1 .. n : frames'[f] = frames[f]
  BY Positions DEF StaysTo
<1>2. DOMAIN frames' = 1 .. l
  BY <1>1, LenProperties DEF TypeOK
<1>3. \A f \in 1 .. n : frames[f].kind # "throw"
  <2>1. \A f \in 1 .. n : f \in 1 .. Len(frames)
    BY <1>1
  <2>2. QED
    BY <2>1, Positions
<1>4. \A f \in 1 .. l : f \in 1 .. n \/ (f = l /\ l = n + 1)
  BY <1>1
<1>5. \A f \in 1 .. l : frames'[f].kind # "throw"
  BY <1>1, <1>3, <1>4
<1>6. QED
  BY <1>2, <1>5 DEF Of

\* The client's code runs in TryCatch as well.
LEMMA CalmNow ==
  ASSUME IInv, Running, Of({"throw"}) = {}
  PROVE  SeesAll /\ Calm
<1>1. SeesAll /\ ~terminated
  BY NoThrow DEF Running
<1>2. Of({"dispatch"}) = {}
  BY NoDispatch
<1>3. Scopes # << >> => Last(Scopes).kind # "dispatch"
  <2> SUFFICES ASSUME Scopes # << >>
               PROVE  Last(Scopes).kind # "dispatch"
    OBVIOUS
  <2>1. PICK n : n = Len(frames) /\ Sees(n)
    BY <1>1 DEF SeesAll
  <2>2. n \in Nat /\ n # 0 /\ (n > 0 => Last(Scopes) = ScopeAt(n))
    BY <2>1, Seen
  <2>3. frames[n].kind # "dispatch"
    BY <1>2, <2>1, <2>2, BelowTop
  <2>4. QED
    BY <2>2, <2>3 DEF ScopeAt
<1>4. QED
  BY <1>1, <1>3 DEF Calm, SeesAll

\* b is the body that a Throw called in frame t goes to.
InnermostBody(b, t) ==
  /\ b \in 1 .. t - 1 /\ frames[b].kind = "body"
  /\ \A f \in b + 1 .. t : frames[f].kind # "body"

\* What is seen while a Throw executes, with its target named.
LEMMA TargetSeen ==
  ASSUME IInv, ~terminated, NEW t \in Of({"throw"})
  PROVE  /\ t \in 1 .. Len(frames) /\ frames[t].kind = "throw" /\ Len(frames) \in Nat
         /\ \E b : InnermostBody(b, t) /\ Sees(b)
         /\ Inflight = thrown /\ thrown # NoException
         /\ LiveObjects = {o \in alive : o < t}
         /\ Dying <=> t < Len(frames)
<1>1. SeesTarget(t)
  BY UnderWay
<1>2. TypeOK /\ \A u \in Of({"throw"}) : u = t
  BY DEF IInv, ControlInv, ControlOn
<1>3. t \in 1 .. Len(frames) /\ frames[t].kind = "throw" /\ Len(frames) \in Nat
  BY <1>2, Positions
<1>4. PICK b \in 1 .. t - 1 : Target(b) /\ Sees(b)
  BY <1>1 DEF SeesTarget
<1>5. InnermostBody(b, t)
  BY <1>2, <1>3, <1>4 DEF Target, InnermostBody
<1>6. QED
  BY <1>1, <1>3, <1>4, <1>5 DEF SeesTarget

\* The same in the next state.
LEMMA TargetSeenNext ==
  (\A t : IInv /\ ~terminated /\ t \in Of({"throw"}) =>
         /\ t \in 1 .. Len(frames) /\ frames[t].kind = "throw" /\ Len(frames) \in Nat
         /\ \E b : InnermostBody(b, t) /\ Sees(b)
         /\ Inflight = thrown /\ thrown # NoException
         /\ LiveObjects = {o \in alive : o < t}
         /\ (Dying <=> t < Len(frames)))'
<1>1. \A t : IInv /\ ~terminated /\ t \in Of({"throw"}) =>
         /\ t \in 1 .. Len(frames) /\ frames[t].kind = "throw" /\ Len(frames) \in Nat
         /\ \E b : InnermostBody(b, t) /\ Sees(b)
         /\ Inflight = thrown /\ thrown # NoException
         /\ LiveObjects = {o \in alive : o < t}
         /\ (Dying <=> t < Len(frames))
  BY TargetSeen
<1>2. QED
  BY <1>1, PTL

\* Seeing the same scopes.
LEMMA SameScopes ==
  ASSUME NEW v, Sees(v), Sees(v)', \A f \in 1 .. v : ScopeAt(f)' = ScopeAt(f)
  PROVE  Scopes' = Scopes
<1>1. /\ v \in Nat /\ Fills(Scopes, v) /\ Fills(Scopes', v)
      /\ \A f \in 1 .. v : Scopes[f] = ScopeAt(f) /\ Scopes'[f] = ScopeAt(f)'
  BY DEF Sees, Fills
<1>2. \A f \in 1 .. v : Scopes'[f] = Scopes[f]
  BY <1>1
<1>3. QED
  BY <1>1, <1>2, SameValues

\* A step above a Throw that executes, or one of its own, shows the same
\* scopes, as long as it leaves the frames up to the Throw alone and the
\* exceptions caught below its target.
LEMMA SameUnder ==
  ASSUME IInv, IInv', ~terminated, terminated' = terminated, thrown' = thrown,
         NEW t \in Of({"throw"}), NEW n, NEW l, StaysTo(n, l), t <= n, n <= l, l \in Nat,
         \A f \in 1 .. t : frames[f].kind = "handler" /\ ~Left(f)
                             => DataAt(caught, f)' = DataAt(caught, f)
  PROVE  /\ Scopes' = Scopes /\ Inflight' = Inflight /\ terminated' = terminated
         /\ LiveObjects = {o \in alive : o < t} /\ LiveObjects' = {o \in alive' : o < t}
         /\ Dying <=> t < Len(frames)
         /\ Dying' <=> t < l
         /\ Inflight = thrown /\ thrown # NoException
<1>1. /\ t \in 1 .. Len(frames) /\ frames[t].kind = "throw" /\ Len(frames) \in Nat
      /\ Inflight = thrown /\ thrown # NoException
      /\ LiveObjects = {o \in alive : o < t}
      /\ Dying <=> t < Len(frames)
  BY TargetSeen
<1>2. PICK b : InnermostBody(b, t) /\ Sees(b)
  BY TargetSeen
<1>3. /\ n \in Nat /\ n <= Len(frames) /\ Len(frames') = l
      /\ \A f \in 1 .. n : frames'[f] = frames[f]
  BY DEF StaysTo
<1>4. t \in Of({"throw"})'
  <2>1. TypeOK'
    BY DEF IInv
  <2>2. DOMAIN frames' = 1 .. l
    BY <1>3, <2>1, LenProperties DEF TypeOK
  <2>3. t \in 1 .. l /\ t \in 1 .. n
    BY <1>1, <1>3
  <2>4. frames'[t].kind = "throw"
    BY <1>1, <1>3, <2>3
  <2>5. QED
    BY <2>2, <2>3, <2>4 DEF Of
<1>5. /\ Inflight' = thrown'
      /\ LiveObjects' = {o \in alive' : o < t}
      /\ Dying' <=> t < l
  BY <1>3, <1>4, TargetSeenNext
<1>6. PICK c : InnermostBody(c, t)' /\ Sees(c)'
  BY <1>4, TargetSeenNext
<1>7. /\ b \in 1 .. t - 1 /\ frames[b].kind = "body"
      /\ \A f \in b + 1 .. t : frames[f].kind # "body"
      /\ c \in 1 .. t - 1 /\ frames'[c].kind = "body"
      /\ \A f \in c + 1 .. t : frames'[f].kind # "body"
  BY <1>2, <1>6 DEF InnermostBody
<1>8. \A f \in 1 .. t : f \in 1 .. n /\ frames'[f] = frames[f]
  BY <1>1, <1>3
<1>9. c = b
  <2>1. b \in 1 .. t /\ c \in 1 .. t
    BY <1>1, <1>7
  <2>2. frames'[b].kind = "body" /\ frames[c].kind = "body"
    BY <1>7, <1>8, <2>1
  <2>3. ~(b < c) /\ ~(c < b)
    BY <1>7, <2>1, <2>2
  <2>4. QED
    BY <2>1, <2>3
<1>10. \A f \in 1 .. b : ScopeAt(f)' = ScopeAt(f)
  <2> SUFFICES ASSUME NEW f \in 1 .. b
               PROVE  ScopeAt(f)' = ScopeAt(f)
    OBVIOUS
  <2>1. f \in 1 .. t /\ f < Len(frames)
    BY <1>1, <1>7
  <2>2. frames[f].kind # "dispatch"
    <3>1. f \in Nat /\ f \in 1 .. f /\ f <= Len(frames)
      BY <2>1
    <3>2. QED
      BY <2>1, <3>1, BelowTop
  <2>3. ~Left(f)
    <3>1. \A u \in Of({"throw"}) : u = t
      BY DEF IInv, ControlInv, ControlOn
    <3>2. b \in f .. t
      BY <1>1, <1>7, <2>1
    <3>3. QED
      BY <1>7, <3>1, <3>2 DEF Left
  <2>4. frames[f].kind = "handler" => DataAt(caught, f)' = DataAt(caught, f)
    BY <2>1, <2>3
  <2>5. QED
    BY <1>8, <2>1, <2>2, <2>4, ScopeKept
<1>11. Scopes' = Scopes
  BY <1>2, <1>6, <1>9, <1>10, SameScopes
<1>12. QED
  BY <1>1, <1>5, <1>11

\* The client's code runs in a destructor that unwinding called: nothing of it
\* is seen, apart from its end.
LEMMA Unseen ==
  ASSUME IInv, IInv', Running, UNCHANGED <<terminated, thrown, caught>>,
         NEW t \in Of({"throw"}), NEW n, NEW l, StaysTo(n, l), t <= n, t < l, l \in {n, n + 1},
         {o \in alive' : o < t} = {o \in alive : o < t}
  PROVE  UNCHANGED Promised!vars
<1>1. ~terminated /\ t < Len(frames)
  BY ClientRuns DEF Running
<1>2. n \in Nat /\ n <= l /\ l \in Nat
  BY DEF StaysTo
<1>3. \A f : DataAt(caught, f)' = DataAt(caught, f)
  BY DEF DataAt
<1>4. /\ Scopes' = Scopes /\ Inflight' = Inflight /\ terminated' = terminated
      /\ LiveObjects = {o \in alive : o < t} /\ LiveObjects' = {o \in alive' : o < t}
      /\ Dying <=> t < Len(frames)
      /\ Dying' <=> t < l
  BY <1>1, <1>2, <1>3, SameUnder
<1>5. Dying' = Dying /\ LiveObjects' = LiveObjects
  BY <1>1, <1>4 DEF Dying
<1>6. QED
  BY <1>4, <1>5, UnseenIs

\* A scope is opened or left while no Throw executes.
LEMMA CalmMoves ==
  ASSUME IInv, IInv', Running, Of({"throw"}) = {}, UNCHANGED <<terminated, caught>>,
         NEW n, NEW l, StaysTo(n, l), l = n \/ (l = n + 1 /\ frames'[l].kind # "throw")
  PROVE  /\ SeesAll /\ Calm /\ SeesAll' /\ Sees(Len(frames)) /\ Sees(l)'
         /\ KeepsRest /\ (alive' = alive => KeepsLive)
         /\ \A f \in 1 .. n : ScopeAt(f)' = ScopeAt(f)
<1>1. TypeOK /\ TypeOK' /\ ~terminated /\ ~terminated'
  BY DEF IInv, Running
<1>2. SeesAll /\ Calm
  BY CalmNow
<1>3. Of({"throw"})' = {}
  BY <1>1, NoThrowThen
<1>4. SeesAll'
  BY <1>1, <1>3, NoThrowNext
<1>5. Sees(Len(frames)) /\ Sees(l)'
  BY <1>2, <1>4 DEF SeesAll, StaysTo
<1>6. \A f \in 1 .. n : ScopeAt(f)' = ScopeAt(f)
  <2>1. Of({"dispatch"}) = {}
    BY NoDispatch
  <2>2. QED
    BY <2>1, ScopesKept
<1>7. KeepsRest /\ (alive' = alive => KeepsLive)
  <2>1. Dying' = Dying
    BY <1>2, <1>4 DEF SeesAll, Dying
  <2>2. QED
    BY <1>1, <1>2, <1>4, <2>1 DEF SeesAll, KeepsRest, KeepsLive
<1>8. QED
  BY <1>2, <1>4, <1>5, <1>6, <1>7

\* A scope is opened.
LEMMA CalmPush ==
  ASSUME IInv, IInv', Running, Of({"throw"}) = {}, UNCHANGED <<terminated, caught>>,
         NEW kind \in {"body", "object"}, NEW clauses \in CatchSequences \cup {<< >>},
         frames' = Append(frames, NewFrame(kind, clauses))
  PROVE  /\ SeesAll /\ Calm /\ SeesAll' /\ KeepsRest /\ (alive' = alive => KeepsLive)
         /\ Len(Scopes) = Len(frames)
         /\ Scopes' = Append(Scopes, [kind |-> kind, clauses |-> clauses, block |-> 0,
                                      exc |-> NoException])
<1> DEFINE e == NewFrame(kind, clauses)
<1>1. TypeOK /\ e \in Frame
  BY DEF IInv, NewFrame, Frame, FrameKinds, ClientKinds
<1>2. PICK n : n = Len(frames)
  OBVIOUS
<1>3. PICK l : l = n + 1
  OBVIOUS
<1>4. StaysTo(n, l) /\ frames'[l] = e
  BY <1>1, <1>2, <1>3, Pushed
<1>5. e.kind = kind /\ e.clauses = clauses
  BY DEF NewFrame
<1>6. /\ SeesAll /\ Calm /\ SeesAll' /\ KeepsRest /\ (alive' = alive => KeepsLive)
      /\ Sees(n) /\ Sees(l)'
      /\ \A f \in 1 .. n : ScopeAt(f)' = ScopeAt(f)
  BY <1>2, <1>3, <1>4, <1>5, CalmMoves
<1>7. /\ n \in Nat /\ Fills(Scopes, n) /\ Fills(Scopes', n + 1) /\ Len(Scopes) = n
      /\ \A f \in 1 .. n : Scopes[f] = ScopeAt(f)
      /\ \A f \in 1 .. n + 1 : Scopes'[f] = ScopeAt(f)'
  BY <1>3, <1>6, Seen DEF Sees, Fills
<1>8. \A f \in 1 .. n : Scopes'[f] = Scopes[f]
  <2>1. \A f \in 1 .. n : f \in 1 .. n + 1
    BY <1>7
  <2>2. QED
    BY <1>6, <1>7, <2>1
<1>9. Scopes' = Append(Scopes, Scopes'[n + 1])
  <2>1. PICK s, u : s = Scopes /\ u = Scopes'
    OBVIOUS
  <2>2. Fills(s, n) /\ Fills(u, n + 1) /\ \A f \in 1 .. n : u[f] = s[f]
    BY <1>7, <1>8, <2>1
  <2>3. u = Append(s, u[n + 1])
    BY <1>7, <2>2, AppendIs
  <2>4. QED
    BY <2>1, <2>3
<1>10. Scopes'[n + 1] = [kind |-> kind, clauses |-> clauses, block |-> 0, exc |-> NoException]
  <2>1. n + 1 \in 1 .. n + 1
    BY <1>7
  <2>2. Scopes'[n + 1] = ScopeAt(l)'
    BY <1>3, <1>7, <2>1
  <2>3. QED
    BY <1>4, <1>5, <2>2 DEF ScopeAt, ExceptionOf
<1>11. QED
  BY <1>2, <1>6, <1>7, <1>9, <1>10

\* A scope is left.
LEMMA CalmDrop ==
  ASSUME IInv, IInv', Running, Of({"throw"}) = {}, UNCHANGED <<terminated, caught, alive>>,
         frames # << >>, frames' = Front(frames)
  PROVE  /\ Calm /\ KeepsRest /\ KeepsLive
         /\ Scopes # << >> /\ Last(Scopes).kind = frames[Len(frames)].kind
         /\ Scopes' = Front(Scopes)
<1>1. TypeOK
  BY DEF IInv
<1>2. PICK n \in Nat : Len(frames) = n + 1 /\ StaysTo(n, n)
  BY <1>1, Dropped
<1>3. PICK v : v = n + 1
  OBVIOUS
<1>4. /\ Calm /\ KeepsRest /\ KeepsLive
      /\ Sees(v) /\ Sees(n)'
      /\ \A f \in 1 .. n : ScopeAt(f)' = ScopeAt(f)
  BY <1>2, <1>3, CalmMoves
<1>5. /\ Fills(Scopes, v) /\ v \in Nat /\ Fills(Scopes', n)
      /\ Scopes = << >> <=> v = 0
      /\ v > 0 => Last(Scopes) = ScopeAt(v)
      /\ \A f \in 1 .. v : Scopes[f] = ScopeAt(f)
      /\ \A f \in 1 .. n : Scopes'[f] = ScopeAt(f)'
  BY <1>4, Seen DEF Sees, Fills
<1>6. \A f \in 1 .. n : Scopes'[f] = Scopes[f]
  <2>1. \A f \in 1 .. n : f \in 1 .. v
    BY <1>3
  <2>2. QED
    BY <1>4, <1>5, <2>1
<1>7. Scopes' = Front(Scopes)
  <2>1. PICK s, u : s = Scopes /\ u = Scopes'
    OBVIOUS
  <2>2. Fills(s, n + 1) /\ Fills(u, n) /\ \A f \in 1 .. n : u[f] = s[f]
    BY <1>3, <1>5, <1>6, <2>1
  <2>3. u = Front(s)
    BY <2>2, FrontIs
  <2>4. QED
    BY <2>1, <2>3
<1>8. v > 0 /\ v = Len(frames)
  BY <1>2, <1>3
<1>9. Last(Scopes).kind = frames[Len(frames)].kind
  BY <1>5, <1>8 DEF ScopeAt
<1>10. QED
  BY <1>4, <1>5, <1>7, <1>8, <1>9

-----------------------------------------------------------------------------
(* One lemma for every action: the step of TryCatch it is.                 *)

\* A step of TryCatch, or one that a client does not see.
Allowed == Promised!Next \/ UNCHANGED Promised!vars

\* TRY.
LEMMA StartTryAllowed ==
  ASSUME IInv, IInv', NEW clauses \in CatchSequences, StartTry(clauses)
  PROVE  Allowed
<1>1. /\ Running /\ frames' = Append(frames, NewFrame("body", clauses))
      /\ UNCHANGED <<thrown, alive, terminated, caught>>
  BY DEF StartTry, CanOpenScope
<1>2. CASE Of({"throw"}) = {}
  <2>1. /\ Calm /\ KeepsRest /\ KeepsLive
        /\ Scopes' = Append(Scopes, [kind |-> "body", clauses |-> clauses, block |-> 0,
                                     exc |-> NoException])
    BY <1>1, <1>2, CalmPush
  <2>2. Promised!EnterTry(clauses)
    BY <2>1, EnterTryIs
  <2>3. QED
    BY <2>2 DEF Allowed, Promised!Next
<1>3. CASE Of({"throw"}) # {}
  <2>1. PICK t \in Of({"throw"}) : TRUE
    BY <1>3
  <2>2. TypeOK /\ NewFrame("body", clauses) \in Frame
    BY DEF IInv, NewFrame, Frame, FrameKinds, ClientKinds
  <2>3. PICK n, l : n = Len(frames) /\ l = n + 1
    OBVIOUS
  <2>4. StaysTo(n, l)
    BY <1>1, <2>2, <2>3, Pushed
  <2>5. t < n /\ n \in Nat /\ t \in Nat
    BY <1>1, <2>2, <2>3, ClientRuns, Positions
  <2>6. t <= n /\ t < l
    BY <2>3, <2>5
  <2>7. UNCHANGED Promised!vars
    BY <1>1, <2>3, <2>4, <2>6, Unseen
  <2>8. QED
    BY <2>7 DEF Allowed
<1>4. QED
  BY <1>2, <1>3

\* An AutoObject is constructed.
LEMMA RecordObjectAllowed ==
  ASSUME IInv, IInv', RecordObject
  PROVE  Allowed
<1>1. /\ Running /\ frames' = Append(frames, NewFrame("object", << >>))
      /\ UNCHANGED <<thrown, terminated, caught>>
      /\ alive' = alive \cup {Len(frames) + 1}
  BY DEF RecordObject, CanOpenScope, Here
<1>2. CASE Of({"throw"}) = {}
  <2>1. /\ SeesAll /\ Calm /\ SeesAll' /\ KeepsRest /\ Len(Scopes) = Len(frames)
        /\ Scopes' = Append(Scopes, [kind |-> "object", clauses |-> << >>, block |-> 0,
                                     exc |-> NoException])
    BY <1>1, <1>2, CalmPush
  <2>2. LiveObjects' = LiveObjects \cup {Len(Scopes) + 1}
    BY <1>1, <2>1 DEF SeesAll
  <2>3. Promised!Construct
    BY <2>1, <2>2, ConstructIs
  <2>4. QED
    BY <2>3 DEF Allowed, Promised!Next
<1>3. CASE Of({"throw"}) # {}
  <2>1. PICK t \in Of({"throw"}) : TRUE
    BY <1>3
  <2>2. TypeOK /\ NewFrame("object", << >>) \in Frame
    BY DEF IInv, NewFrame, Frame, FrameKinds, ClientKinds
  <2>3. PICK n, l : n = Len(frames) /\ l = n + 1
    OBVIOUS
  <2>4. StaysTo(n, l)
    BY <1>1, <2>2, <2>3, Pushed
  <2>5. t < n /\ n \in Nat /\ t \in Nat
    BY <1>1, <2>2, <2>3, ClientRuns, Positions
  <2>6. t <= n /\ t < l /\ ~(l < t)
    BY <2>3, <2>5
  <2>7. {o \in alive' : o < t} = {o \in alive : o < t}
    BY <1>1, <2>3, <2>6
  <2>8. UNCHANGED Promised!vars
    BY <1>1, <2>3, <2>4, <2>6, <2>7, Unseen
  <2>9. QED
    BY <2>8 DEF Allowed
<1>4. QED
  BY <1>2, <1>3

\* The client's code runs when its innermost scope is on top.
LEMMA TopRuns ==
  ASSUME TypeOK, TopIs({"object", "dtor", "body", "handler"})
  PROVE  /\ Running /\ frames # << >> /\ Last(frames) = frames[Len(frames)]
         /\ frames[Len(frames)].kind \in {"object", "dtor", "body", "handler"}
BY Tops DEF TopIs, Running, ClientKinds

\* An AutoObject's scope ends: its destructor starts.
LEMMA PopObjectAllowed ==
  ASSUME IInv, IInv', PopObject
  PROVE  Allowed
<1>1. /\ TopIs({"object", "dtor", "body", "handler"})
      /\ frames' = [frames EXCEPT ![Len(frames)].kind = "dtor"]
      /\ alive' = alive \ {Len(frames)}
      /\ UNCHANGED <<thrown, terminated, caught>>
      /\ Last(frames).kind = "object"
  BY DEF PopObject, TopIs
<1>2. TypeOK /\ Running /\ frames # << >> /\ frames[Len(frames)].kind = "object"
  BY <1>1, TopRuns DEF IInv
<1>3. "dtor" \in FrameKinds
  BY DEF FrameKinds, ClientKinds
<1>4. PICK n \in Nat : /\ Len(frames) = n + 1 /\ StaysTo(n, n + 1)
                       /\ frames'[n + 1] = [frames[n + 1] EXCEPT !.kind = "dtor"]
  BY <1>1, <1>2, <1>3, Retagged
<1>5. PICK l : l = n + 1
  OBVIOUS
<1>6. frames[l] \in Frame
  <2>1. l \in 1 .. Len(frames)
    BY <1>4, <1>5
  <2>2. QED
    BY <1>2, <2>1, Positions
<1>7. StaysTo(n, l) /\ frames'[l] = [frames[l] EXCEPT !.kind = "dtor"] /\ l = Len(frames)
  BY <1>4, <1>5
<1>8. CASE Of({"throw"}) = {}
  <2>1. frames'[l].kind # "throw"
    BY <1>6, <1>7 DEF Frame
  <2>2. /\ SeesAll /\ Calm /\ SeesAll' /\ KeepsRest /\ Sees(l) /\ Sees(l)'
        /\ \A f \in 1 .. n : ScopeAt(f)' = ScopeAt(f)
    BY <1>1, <1>2, <1>5, <1>7, <1>8, <2>1, CalmMoves
  <2>3. /\ l \in Nat /\ Fills(Scopes, l) /\ Fills(Scopes', l) /\ Len(Scopes) = l
        /\ DOMAIN Scopes = 1 .. l
        /\ Scopes = << >> <=> l = 0
        /\ l > 0 => Last(Scopes) = ScopeAt(l)
        /\ \A f \in 1 .. l : Scopes[f] = ScopeAt(f)
        /\ \A f \in 1 .. l : Scopes'[f] = ScopeAt(f)'
    BY <2>2, Seen DEF Sees, Fills
  <2>4. l \in 1 .. l /\ l > 0 /\ \A f \in 1 .. l : f # l => f \in 1 .. n
    BY <1>5
  <2>5. Scopes' = [Scopes EXCEPT ![l] = Scopes'[l]]
    <3>1. PICK s, u : s = Scopes /\ u = Scopes'
      OBVIOUS
    <3>2. /\ Fills(s, l) /\ Fills(u, l)
          /\ \A f \in 1 .. l : f # l => u[f] = s[f]
      BY <2>2, <2>3, <2>4, <3>1
    <3>3. u = [s EXCEPT ![l] = u[l]]
      BY <2>3, <2>4, <3>2, ExceptIs
    <3>4. QED
      BY <3>1, <3>3
  <2>6. Scopes'[l] = [Scopes[l] EXCEPT !.kind = "dtor"]
    <3>1. frames[l].kind = "object" /\ frames'[l].kind = "dtor"
          /\ frames'[l].clauses = frames[l].clauses
      BY <1>2, <1>6, <1>7 DEF Frame
    <3>2. /\ ScopeAt(l) = [kind |-> "object", clauses |-> frames[l].clauses, block |-> 0,
                           exc |-> NoException]
          /\ ScopeAt(l)' = [kind |-> "dtor", clauses |-> frames[l].clauses, block |-> 0,
                            exc |-> NoException]
      BY <3>1 DEF ScopeAt, ExceptionOf
    <3>3. QED
      BY <2>3, <2>4, <3>2
  <2>7. Scopes' = [Scopes EXCEPT ![Len(Scopes)].kind = "dtor"]
    BY <2>3, <2>5, <2>6
  <2>8. Scopes # << >> /\ Last(Scopes).kind = "object"
    BY <1>2, <1>7, <2>3, <2>4 DEF ScopeAt
  <2>9. LiveObjects' = LiveObjects \ {Len(Scopes)}
    BY <1>1, <1>7, <2>2, <2>3 DEF SeesAll
  <2>10. Promised!BeginDestructor
    BY <2>2, <2>7, <2>8, <2>9, BeginDestructorIs
  <2>11. QED
    BY <2>10 DEF Allowed, Promised!Next
<1>9. CASE Of({"throw"}) # {}
  <2>1. PICK t \in Of({"throw"}) : TRUE
    BY <1>9
  <2>2. t < l /\ t \in Nat /\ l \in Nat
    BY <1>2, <1>5, <1>7, <2>1, ClientRuns, Positions
  <2>3. t <= n /\ ~(l < t)
    BY <1>5, <2>2
  <2>4. {o \in alive' : o < t} = {o \in alive : o < t}
    BY <1>1, <1>7, <2>3
  <2>5. UNCHANGED Promised!vars
    BY <1>1, <1>2, <1>5, <1>7, <2>2, <2>3, <2>4, Unseen
  <2>6. QED
    BY <2>5 DEF Allowed
<1>10. QED
  BY <1>8, <1>9

\* A scope inside a destructor that unwinding called ends, or that destructor
\* does.
LEMMA LeftInside ==
  ASSUME IInv, IInv', Running, frames # << >>, frames' = Front(frames),
         UNCHANGED <<thrown, terminated, caught, alive>>, NEW t \in Of({"throw"})
  PROVE  Allowed
<1>1. TypeOK /\ ~terminated
  BY DEF IInv, Running
<1>2. PICK n \in Nat : Len(frames) = n + 1 /\ StaysTo(n, n)
  BY <1>1, Dropped
<1>3. t < Len(frames) /\ t \in Nat
  BY <1>1, ClientRuns, Positions
<1>4. t <= n
  BY <1>2, <1>3
<1>5. CASE t < n
  <2>1. UNCHANGED Promised!vars
    BY <1>1, <1>2, <1>4, <1>5, Unseen
  <2>2. QED
    BY <2>1 DEF Allowed
<1>6. CASE t = n
  <2>1. \A f : DataAt(caught, f)' = DataAt(caught, f)
    BY DEF DataAt
  <2>2. n <= n
    OBVIOUS
  <2>3. /\ Scopes' = Scopes /\ Inflight' = Inflight /\ terminated' = terminated
        /\ LiveObjects = {o \in alive : o < t} /\ LiveObjects' = {o \in alive' : o < t}
        /\ Dying <=> t < Len(frames)
        /\ Dying' <=> t < n
    BY <1>1, <1>2, <1>4, <2>1, <2>2, SameUnder
  <2>4. Dying /\ ~Dying' /\ LiveObjects' = LiveObjects
    BY <1>3, <1>6, <2>3
  <2>5. Dying' = FALSE
    BY <2>4 DEF Dying
  <2>6. Promised!Unwound
    BY <1>1, <2>3, <2>4, <2>5, UnwoundIs DEF KeepsLive
  <2>7. QED
    BY <2>6 DEF Allowed, Promised!Next
<1>7. QED
  BY <1>2, <1>3, <1>4, <1>5, <1>6

\* A destructor returns, to the client's code or to the unwinding.
LEMMA EndDestructorAllowed ==
  ASSUME IInv, IInv', EndDestructor
  PROVE  Allowed
<1>1. /\ TopIs({"object", "dtor", "body", "handler"}) /\ frames' = Front(frames)
      /\ UNCHANGED <<thrown, terminated, caught, alive>>
      /\ Last(frames).kind = "dtor"
  BY DEF EndDestructor, TopIs, library
<1>2. TypeOK /\ Running /\ ~terminated /\ frames # << >> /\ frames[Len(frames)].kind = "dtor"
  BY <1>1, TopRuns DEF IInv, Running
<1>3. CASE Of({"throw"}) = {}
  <2>1. Promised!EndDestructor
    BY <1>1, <1>2, <1>3, CalmDrop, EndDestructorIs
  <2>2. QED
    BY <2>1 DEF Allowed, Promised!Next
<1>4. CASE Of({"throw"}) # {}
  <2>1. PICK t \in Of({"throw"}) : TRUE
    BY <1>4
  <2>2. QED
    BY <1>1, <1>2, <2>1, LeftInside
<1>5. QED
  BY <1>3, <1>4

-----------------------------------------------------------------------------
(* Throwing.                                                               *)

\* The greatest of a set of positions.
LEMMA MaxIs ==
  ASSUME NEW S, S \subseteq Nat, NEW m \in S, \A i \in S : i <= m
  PROVE  Max(S) = m
<1>1. \A x \in S : (\A y \in S : x >= y) => x = m
  BY SMT
<1>2. \A y \in S : m >= y
  BY SMT
<1>3. QED
  BY <1>1, <1>2 DEF Max

\* The least of a set of positions.
LEMMA MinIs ==
  ASSUME NEW S, S \subseteq Nat, NEW m \in S, \A i \in S : m <= i
  PROVE  Min(S) = m
<1>1. \A x \in S : (\A y \in S : x <= y) => x = m
  BY SMT
<1>2. \A y \in S : m <= y
  BY SMT
<1>3. QED
  BY <1>1, <1>2 DEF Min

\* std::terminate is called where TryCatch allows it.
LEMMA Ends ==
  ASSUME ~terminated, terminated',
         \/ ScopesOf("body", Scopes) = {} /\ (Calm \/ (Matched /\ Matches = {}))
         \/ Calm /\ ScopesOf("handler", Scopes) = {}
         \/ Dying
  PROVE  Allowed
<1>1. Scopes' = << >> /\ Inflight' = NoException /\ LiveObjects' = {} /\ ~Dying'
  BY GoneNext
<1>2. Promised!Terminate
  BY <1>1, TerminateIs
<1>3. QED
  BY <1>2 DEF Allowed, Promised!Next

\* No TRY body without a node.
LEMMA NoBodies ==
  ASSUME IInv, stack = << >>
  PROVE  \A f \in 1 .. Len(frames) : frames[f].kind \notin {"body", "dispatch"}
<1>1. ~(Len(stack) > 0) /\ Len(stack) \in Nat
  BY Tops, Positions DEF IInv
<1>2. QED
  BY <1>1 DEF IInv, NodeInv, NodesOn, IsTry

\* A Throw is called in frame l, over the first n frames, which a client saw as
\* the scopes s: control goes on at the innermost TRY body of them.
LEMMA Propagated ==
  ASSUME IInv, IInv', ~terminated, terminated' = terminated,
         NEW n, NEW l, l = n + 1, StaysTo(n, l), frames'[l].kind = "throw",
         NEW s, Fills(s, n), \A f \in 1 .. n : s[f] = ScopeAt(f),
         \A f \in 1 .. n : ScopeAt(f)' = ScopeAt(f),
         alive' = alive, LiveObjects = alive, \A o \in alive : o <= n, ~Dying,
         NEW e, e = thrown'
  PROVE  Propagates(e, s)
<1>1. /\ n \in Nat /\ n <= Len(frames) /\ Len(frames') = l
      /\ \A f \in 1 .. n : frames'[f] = frames[f]
      /\ l \in Nat /\ l \in 1 .. l
  BY DEF StaysTo
<1>2. l \in Of({"throw"})'
  <2>1. DOMAIN frames' = 1 .. l
    BY <1>1, LenProperties DEF IInv, TypeOK
  <2>2. QED
    BY <1>1, <2>1 DEF Of
<1>3. /\ Inflight' = thrown' /\ LiveObjects' = {o \in alive' : o < l}
      /\ (Dying' <=> l < Len(frames'))
      /\ \E c : InnermostBody(c, l)' /\ Sees(c)'
  BY <1>2, TargetSeenNext
<1>4. PICK c : InnermostBody(c, l)' /\ Sees(c)'
  BY <1>3
<1>5. /\ c \in 1 .. l - 1 /\ frames'[c].kind = "body"
      /\ \A f \in c + 1 .. l : frames'[f].kind # "body"
      /\ Fills(Scopes', c) /\ \A f \in 1 .. c : Scopes'[f] = ScopeAt(f)'
  BY <1>4 DEF InnermostBody, Sees, Fills
<1>6. c \in 1 .. n /\ c \in Nat /\ c <= n /\ \A f \in 1 .. c : f \in 1 .. n
  BY <1>1, <1>5
<1> DEFINE S == ScopesOf("body", s)
<1>7. \A f : f \in S <=> f \in 1 .. n /\ frames[f].kind = "body"
  <2>1. DOMAIN s = 1 .. n
    BY DEF Fills
  <2>2. \A f \in 1 .. n : s[f].kind = frames[f].kind
    <3>1. \A f : ScopeAt(f).kind = frames[f].kind
      BY DEF ScopeAt
    <3>2. QED
      BY <3>1
  <2>3. QED
    BY <2>1, <2>2 DEF ScopesOf
<1> HIDE DEF S
<1>8. c \in S /\ S \subseteq Nat /\ \A f \in S : f <= c
  <2>1. c \in S /\ S \subseteq Nat
    BY <1>1, <1>5, <1>6, <1>7
  <2>2. ASSUME NEW f \in S, ~(f <= c)
        PROVE  FALSE
    <3>1. f \in c + 1 .. l /\ frames'[f].kind = "body"
      BY <1>1, <1>6, <1>7, <2>2
    <3>2. QED
      BY <1>5, <3>1
  <2>3. QED
    BY <2>1, <2>2
<1>9. Max(S) = c
  BY <1>8, MaxIs
<1>10. Scopes' = SubSeq(s, 1, c)
  <2>1. PICK u : u = Scopes'
    OBVIOUS
  <2>2. Fills(u, c) /\ \A f \in 1 .. c : u[f] = s[f]
    BY <1>5, <1>6, <2>1
  <2>3. u = SubSeq(s, 1, c)
    BY <1>1, <1>6, <2>2, SubSeqIs
  <2>4. QED
    BY <2>1, <2>3
<1>11. LiveObjects' = LiveObjects
  <2>1. \A o \in alive : o \in Nat
    BY DEF IInv, TypeOK
  <2>2. \A o \in alive : o < l
    BY <1>1, <2>1
  <2>3. QED
    BY <1>3, <2>2
<1>12. Dying' = Dying
  <2>1. ~Dying'
    BY <1>1, <1>3
  <2>2. QED
    BY <2>1 DEF Dying
<1>13. QED
  BY <1>3, <1>8, <1>9, <1>10, <1>11, <1>12 DEF Propagates, S

\* The client's code calls Throw.
LEMMA ClientThrows ==
  ASSUME IInv, IInv', Running, NEW exc, CallThrow(exc, frames, stack), UNCHANGED <<alive, caught>>
  PROVE  \/ Allowed
         \/ Of({"throw"}) = {} /\ SeesAll /\ Calm /\ Propagates(exc, Scopes)
<1>1. ~terminated /\ TypeOK /\ Len(frames) \in Nat
  BY Positions DEF Running, IInv
<1>2. CASE Of({"throw"}) # {}
  <2>1. PICK t \in Of({"throw"}) : unwinding_in_progress /\ t < Len(frames)
    BY <1>2, ClientRuns
  <2>2. Dying
    BY <1>1, <2>1 DEF Dying
  <2>3. terminated'
    BY <2>1 DEF CallThrow, Terminate
  <2>4. QED
    BY <1>1, <2>2, <2>3, Ends
<1>3. CASE Of({"throw"}) = {}
  <2>1. SeesAll /\ Calm
    BY <1>3, CalmNow
  <2>2. ~unwinding_in_progress
    BY <1>3 DEF IInv, ControlInv, ControlOn
  <2>3. PICK n : n = Len(frames)
    OBVIOUS
  <2>4. /\ n \in Nat /\ Fills(Scopes, n) /\ DOMAIN Scopes = 1 .. n
        /\ \A f \in 1 .. n : Scopes[f] = ScopeAt(f)
    BY <2>1, <2>3, Seen DEF SeesAll
  <2>5. CASE stack = << >>
    <3>1. \A f \in 1 .. n : frames[f].kind # "body"
      BY <2>3, <2>5, NoBodies
    <3>2. \A f \in 1 .. n : Scopes[f].kind # "body"
      BY <2>4, <3>1 DEF ScopeAt
    <3>3. ScopesOf("body", Scopes) = {}
      BY <2>4, <3>2 DEF ScopesOf
    <3>4. terminated'
      BY <2>5 DEF CallThrow, Terminate
    <3>5. QED
      BY <1>1, <2>1, <3>3, <3>4, Ends
  <2>6. CASE stack # << >>
    <3> DEFINE e == NewFrame("throw", << >>)
    <3>1. frames' = Append(frames, e) /\ thrown' = exc /\ terminated' = terminated
      BY <2>2, <2>6 DEF CallThrow
    <3>2. e \in Frame /\ e.kind = "throw"
      BY DEF NewFrame, Frame, FrameKinds
    <3> HIDE DEF e
    <3>3. PICK l : l = n + 1
      OBVIOUS
    <3>4. StaysTo(n, l) /\ frames'[l].kind = "throw"
      BY <1>1, <2>3, <3>1, <3>2, <3>3, Pushed
    <3>5. \A f \in 1 .. n : ScopeAt(f)' = ScopeAt(f)
      <4>1. Of({"dispatch"}) = {}
        BY NoDispatch
      <4>2. QED
        BY <3>4, <4>1, ScopesKept
    <3>6. LiveObjects = alive /\ ~Dying
      BY <2>1 DEF SeesAll
    <3>7. \A o \in alive : o <= n
      BY <2>3, <2>4 DEF IInv, RecordInv, RecordsOn
    <3>8. PICK s : s = Scopes
      OBVIOUS
    <3>9. Propagates(exc, s)
      <4>1. Fills(s, n) /\ \A f \in 1 .. n : s[f] = ScopeAt(f)
        BY <2>4, <3>8
      <4>2. QED
        BY <1>1, <3>1, <3>3, <3>4, <3>5, <3>6, <3>7, <4>1, Propagated
    <3>10. QED
      BY <1>3, <2>1, <3>8, <3>9
  <2>7. QED
    BY <2>5, <2>6
<1>4. QED
  BY <1>2, <1>3

\* Throw(exc).
LEMMA ThrowAllowed ==
  ASSUME IInv, IInv', NEW type \in Types, Throw(type)
  PROVE  Allowed
<1> DEFINE exc == [type |-> type, edited |-> FALSE]
<1>1. exc \in Exceptions /\ ~exc.edited
  BY DEF Exceptions
<1>2. Running /\ CallThrow(exc, frames, stack) /\ UNCHANGED <<alive, caught>>
  BY DEF Throw, library
<1> HIDE DEF exc
<1>3. SUFFICES ASSUME Calm, Propagates(exc, Scopes)
               PROVE  Allowed
  BY <1>2, ClientThrows
<1>4. Promised!Throw
  BY <1>1, <1>3, ThrowIs
<1>5. QED
  BY <1>4 DEF Allowed, Promised!Next

\* A handler that no Throw leaves has its caught node, and they are in order:
\* the top one is that of the innermost handler.
LEMMA LastCaught ==
  ASSUME IInv, caught # << >>, Of({"throw"}) = {}
  PROVE  LET h == Last(caught).buf
         IN  /\ h \in 1 .. Len(frames) /\ frames[h].kind = "handler"
             /\ \A f \in 1 .. Len(frames) : frames[f].kind = "handler" => f <= h
             /\ DataAt(caught, h) = Last(caught).data
<1>1. TypeOK /\ CaughtOn(Len(frames), Len(stack), Len(caught))
  BY DEF IInv, CaughtInv
<1>2. PICK c : c = Len(caught)
  OBVIOUS
<1>3. /\ c \in Nat /\ c > 0 /\ c \in 1 .. c /\ Last(caught) = caught[c]
      /\ Len(frames) \in Nat
  BY <1>1, <1>2, Tops, Positions
<1>4. caught[c].buf \in 1 .. Len(frames) /\ frames[caught[c].buf].kind = "handler"
  BY <1>1, <1>2, <1>3 DEF CaughtOn
<1>5. ASSUME NEW f \in 1 .. Len(frames), frames[f].kind = "handler"
      PROVE  f <= caught[c].buf
  <2>1. ~Left(f)
    BY DEF Left
  <2>2. PICK j \in 1 .. c : caught[j].buf = f
    BY <1>1, <1>2, <1>5, <2>1 DEF CaughtOn, IsCaught
  <2>3. j < c \/ j = c
    BY <1>3
  <2>4. CASE j < c
    <3>1. caught[j].buf < caught[c].buf
      BY <1>1, <1>2, <1>3, <2>4 DEF CaughtOn
    <3>2. QED
      BY <1>4, <2>2, <3>1
  <2>5. CASE j = c
    BY <1>4, <2>2, <2>5
  <2>6. QED
    BY <2>3, <2>4, <2>5
<1>6. DataAt(caught, caught[c].buf) = caught[c].data
  BY <1>2, <1>3, CaughtData
<1>7. QED
  BY <1>3, <1>4, <1>5, <1>6

\* Throw().
LEMMA RethrowAllowed ==
  ASSUME IInv, IInv', Rethrow
  PROVE  Allowed
<1>1. Running /\ ~terminated /\ UNCHANGED <<alive, caught>> /\ TypeOK
  BY DEF Rethrow, Running, library, IInv
<1>2. CASE caught # << >>
  <2>1. PICK exc : exc = Last(caught).data
    OBVIOUS
  <2>2. CallThrow(exc, frames, stack)
    BY <1>2, <2>1 DEF Rethrow
  <2>3. SUFFICES ASSUME Of({"throw"}) = {}, SeesAll, Calm, Propagates(exc, Scopes)
                 PROVE  Allowed
    BY <1>1, <2>2, ClientThrows
  <2>4. PICK n, h : n = Len(frames) /\ h = Last(caught).buf
    OBVIOUS
  <2>5. /\ h \in 1 .. n /\ frames[h].kind = "handler"
        /\ \A f \in 1 .. n : frames[f].kind = "handler" => f <= h
        /\ DataAt(caught, h) = exc
    BY <1>2, <2>1, <2>3, <2>4, LastCaught
  <2>6. /\ n \in Nat /\ DOMAIN Scopes = 1 .. n /\ \A f \in 1 .. n : Scopes[f] = ScopeAt(f)
    BY <2>3, <2>4, Seen DEF SeesAll
  <2> DEFINE S == ScopesOf("handler", Scopes)
  <2>7. \A f : f \in S <=> f \in 1 .. n /\ frames[f].kind = "handler"
    <3>1. \A f \in 1 .. n : Scopes[f].kind = frames[f].kind
      BY <2>6 DEF ScopeAt
    <3>2. QED
      BY <2>6, <3>1 DEF ScopesOf
  <2> HIDE DEF S
  <2>8. h \in S /\ S \subseteq Nat /\ \A f \in S : f <= h
    BY <2>5, <2>6, <2>7
  <2>9. Max(S) = h
    BY <2>8, MaxIs
  <2>10. Scopes[h].exc = exc
    BY <2>5, <2>6 DEF ScopeAt, ExceptionOf
  <2>11. S # {} /\ Propagates(Scopes[Max(S)].exc, Scopes)
    BY <2>3, <2>8, <2>9, <2>10
  <2>12. Promised!Rethrow
    BY <2>3, <2>11, RethrowIs DEF S
  <2>13. QED
    BY <2>12 DEF Allowed, Promised!Next
<1>3. CASE caught = << >>
  <2>1. terminated'
    BY <1>3 DEF Rethrow, Terminate
  <2>2. CASE Of({"throw"}) # {}
    <3>1. PICK t \in Of({"throw"}) : t < Len(frames)
      BY <1>1, <2>2, ClientRuns
    <3>2. Dying
      BY <1>1, <3>1 DEF Dying
    <3>3. QED
      BY <1>1, <2>1, <3>2, Ends
  <2>3. CASE Of({"throw"}) = {}
    <3>1. SeesAll /\ Calm
      BY <1>1, <2>3, CalmNow
    <3>2. PICK n : n = Len(frames)
      OBVIOUS
    <3>3. /\ n \in Nat /\ DOMAIN Scopes = 1 .. n /\ \A f \in 1 .. n : Scopes[f] = ScopeAt(f)
      BY <3>1, <3>2, Seen DEF SeesAll
    <3>4. \A f \in 1 .. n : frames[f].kind # "handler"
      <4> SUFFICES ASSUME NEW f \in 1 .. n, frames[f].kind = "handler"
                   PROVE  FALSE
        OBVIOUS
      <4>1. ~Left(f)
        BY <2>3 DEF Left
      <4>2. ~(Len(caught) > 0) /\ Len(caught) \in Nat
        BY <1>1, <1>3, Tops, Positions
      <4>3. QED
        BY <3>2, <4>1, <4>2 DEF IInv, CaughtInv, CaughtOn, IsCaught
    <3>5. \A f \in 1 .. n : Scopes[f].kind # "handler"
      BY <3>3, <3>4 DEF ScopeAt
    <3>6. ScopesOf("handler", Scopes) = {}
      BY <3>3, <3>5 DEF ScopesOf
    <3>7. QED
      BY <1>1, <2>1, <3>1, <3>6, Ends
  <2>4. QED
    BY <2>2, <2>3
<1>4. QED
  BY <1>2, <1>3

-----------------------------------------------------------------------------
(* Throw at work.                                                          *)

\* A caught node that stays keeps its exception.
LEMMA KeptCaught ==
  ASSUME IInv, IInv', NEW j \in 1 .. Len(caught), j \in 1 .. Len(caught'),
         caught'[j] = caught[j], NEW f, f = caught[j].buf
  PROVE  DataAt(caught, f)' = DataAt(caught, f)
<1>1. DataAt(caught, f) = caught[j].data
  BY CaughtData
<1>2. DataAt(caught', caught'[j].buf) = caught'[j].data
  BY CaughtDataNext DEF DataAt
<1>3. DataAt(caught, f)' = caught'[j].data
  BY <1>2 DEF DataAt
<1>4. QED
  BY <1>1, <1>3

\* The Throw call is on top.
LEMMA ThrowOnTop ==
  ASSUME IInv, TopIs({"throw"})
  PROVE  /\ ~terminated /\ frames # << >> /\ frames[Len(frames)].kind = "throw"
         /\ Len(frames) \in Of({"throw"}) /\ Len(frames) \in 1 .. Len(frames)
<1>1. ~terminated /\ frames # << >> /\ frames[Len(frames)].kind = "throw"
  BY Tops DEF TopIs, IInv
<1>2. Len(frames) \in 1 .. Len(frames)
  BY <1>1, Tops, Positions DEF IInv
<1>3. QED
  BY <1>1, <1>2, Positions DEF IInv

\* Its bookkeeping is not seen.
LEMMA ThrowUnseen ==
  ASSUME IInv, IInv', TopIs({"throw"}), UNCHANGED client,
         \A f \in 1 .. Len(frames) : frames[f].kind = "handler" /\ ~Left(f)
                                       => DataAt(caught, f)' = DataAt(caught, f)
  PROVE  Allowed
<1>1. PICK t : t = Len(frames)
  OBVIOUS
<1>2. t \in Of({"throw"}) /\ ~terminated /\ t \in 1 .. t
  BY <1>1, ThrowOnTop
<1>3. /\ frames' = frames /\ thrown' = thrown /\ alive' = alive /\ terminated' = terminated
  BY DEF client
<1>4. t \in Nat /\ t <= t
  BY <1>2
<1>5. StaysTo(t, t)
  BY <1>1, <1>3, <1>4 DEF StaysTo
<1>6. /\ Scopes' = Scopes /\ Inflight' = Inflight /\ terminated' = terminated
      /\ LiveObjects = {o \in alive : o < t} /\ LiveObjects' = {o \in alive' : o < t}
      /\ Dying <=> t < Len(frames)
      /\ Dying' <=> t < t
  BY <1>1, <1>2, <1>3, <1>4, <1>5, SameUnder
<1>7. Dying' = Dying /\ LiveObjects' = LiveObjects
  BY <1>1, <1>3, <1>6 DEF Dying
<1>8. UNCHANGED Promised!vars
  BY <1>6, <1>7, UnseenIs
<1>9. QED
  BY <1>8 DEF Allowed

\* A handler is forgotten: it is one that the Throw leaves.
LEMMA AbandonHandlerAllowed ==
  ASSUME IInv, IInv', AbandonHandler
  PROVE  Allowed
<1>1. /\ TopIs({"throw"}) /\ InHandler /\ caught' = Front(caught) /\ UNCHANGED client
      /\ caught # << >> /\ TypeOK
  BY DEF AbandonHandler, InHandler, IInv
<1>2. Len(caught) \in Nat /\ Len(caught) > 0 /\ caught \in Seq(Node)
  BY <1>1, Tops, Positions DEF TypeOK
<1>3. PICK c \in Nat : c + 1 = Len(caught)
  BY <1>2, Predecessor
<1>4. /\ Len(caught') = c /\ \A j \in 1 .. c : caught'[j] = caught[j]
      /\ Last(caught) = caught[c + 1]
  BY <1>1, <1>2, <1>3, Pop
<1>5. /\ frames # << >> /\ frames[Len(frames)].kind = "throw"
      /\ stack # << >> /\ Last(stack) = stack[Len(stack)]
      /\ Len(stack) \in 1 .. Len(stack) /\ Len(frames) \in Nat
      /\ \A f \in 1 .. Len(frames) : Left(f) <=> Last(stack).buf < f /\ f < Len(frames)
  <2>1. frames # << >> /\ frames[Len(frames)].kind = "throw"
    BY <1>1, ThrowOnTop
  <2>2. stack # << >>
        /\ \A f \in 1 .. Len(frames) : Left(f) <=> Last(stack).buf < f /\ f < Len(frames)
    BY <2>1, UnderThrow
  <2>3. QED
    BY <1>1, <2>1, <2>2, Tops, Positions
<1>6. PICK h : h = caught[c + 1].buf
  OBVIOUS
<1>7. Left(h)
  <2>1. c + 1 \in 1 .. Len(caught)
    BY <1>3
  <2>2. Last(stack).depth < caught[c + 1].depth
    BY <1>1, <1>4 DEF InHandler
  <2>3. Last(stack).buf < h /\ h \in 1 .. Len(frames) /\ frames[h].kind = "handler"
    <3>1. PICK m, k : m = Len(stack) /\ k = c + 1
      OBVIOUS
    <3>2. m \in 1 .. Len(stack) /\ k \in 1 .. Len(caught) /\ stack[m].depth < caught[k].depth
      BY <1>5, <2>1, <2>2, <3>1
    <3>3. /\ stack[m].buf < caught[k].buf
          /\ caught[k].buf \in 1 .. Len(frames) /\ frames[caught[k].buf].kind = "handler"
      BY <3>2 DEF IInv, CaughtInv, CaughtOn
    <3>4. QED
      BY <1>5, <1>6, <3>1, <3>3
  <2>4. h < Len(frames)
    BY <1>5, <2>3
  <2>5. QED
    BY <1>5, <2>3, <2>4
<1>8. ASSUME NEW f \in 1 .. Len(frames), frames[f].kind = "handler", ~Left(f)
      PROVE  DataAt(caught, f)' = DataAt(caught, f)
  <2>1. PICK j \in 1 .. Len(caught) : caught[j].buf = f
    BY <1>8 DEF IInv, CaughtInv, CaughtOn, IsCaught
  <2>2. j # c + 1
    BY <1>6, <1>7, <1>8, <2>1
  <2>3. j \in 1 .. c
    BY <1>3, <2>1, <2>2
  <2>4. QED
    BY <1>4, <2>1, <2>3, KeptCaught
<1>9. QED
  BY <1>1, <1>8, ThrowUnseen

\* The node is raised.
LEMMA RaiseAllowed ==
  ASSUME IInv, IInv', Raise
  PROVE  Allowed
<1>1. TopIs({"throw"}) /\ UNCHANGED client /\ caught' = caught
  BY DEF Raise
<1>2. \A f : DataAt(caught, f)' = DataAt(caught, f)
  BY <1>1 DEF DataAt
<1>3. QED
  BY <1>1, <1>2, ThrowUnseen

\* The top destroyer is that of the most recent object alive, and that lies
\* above the target.
LEMMA TopDestroyer ==
  ASSUME IInv, k_destroyers # << >>, Last(k_destroyers).kind = "object",
         NEW t \in 1 .. Len(frames), frames[t].kind = "throw", t = Len(frames),
         NEW b, InnermostBody(b, t)
  PROVE  LET at == Last(k_destroyers).at
         IN  /\ at \in alive /\ at \in Nat /\ at < t /\ b < at
             /\ \A o \in alive : o \in Nat /\ o <= at
<1>1. TypeOK /\ RecordsOn(Len(frames), Len(k_destroyers))
  BY DEF IInv, RecordInv
<1>2. PICK k : k = Len(k_destroyers)
  OBVIOUS
<1>3. k \in Nat /\ k \in 1 .. k /\ Last(k_destroyers) = k_destroyers[k] /\ Len(frames) \in Nat
  BY <1>1, <1>2, Tops, Positions
<1>4. PICK at : at = k_destroyers[k].at
  OBVIOUS
<1>5. at \in 1 .. Len(frames) /\ at \in alive /\ frames[at].kind = "object"
  BY <1>1, <1>2, <1>3, <1>4 DEF RecordsOn
<1>6. at # t /\ at < t
  <2>1. at # t
    BY <1>5
  <2>2. QED
    BY <1>3, <1>5, <2>1
<1>7. \A i \in 1 .. k : i = k \/ k_destroyers[i].at < at
  <2>1. \A i \in 1 .. k : i = k \/ i < k
    BY <1>3
  <2>2. QED
    BY <1>1, <1>2, <1>3, <1>4, <2>1 DEF RecordsOn
<1>8. ASSUME NEW o \in alive
      PROVE  o \in Nat /\ o <= at
  <2>1. o \in 1 .. Len(frames)
    BY <1>1 DEF RecordsOn
  <2>2. PICK i \in 1 .. k : k_destroyers[i].at = o
    BY <1>1, <1>2 DEF RecordsOn, IsRecorded
  <2>3. o = at \/ o < at
    BY <1>4, <1>7, <2>2
  <2>4. QED
    BY <1>5, <2>1, <2>3
<1>9. b < at
  <2>1. b \in 1 .. Len(frames) /\ frames[b].kind = "body"
    BY <1>3 DEF InnermostBody
  <2>2. PICK i \in 1 .. k : k_destroyers[i].at = b
    BY <1>1, <1>2, <2>1 DEF RecordsOn, IsRecorded
  <2>3. b # at
    BY <1>5, <2>1
  <2>4. QED
    BY <1>4, <1>7, <2>2, <2>3
<1>10. QED
  BY <1>3, <1>4, <1>5, <1>6, <1>8, <1>9

\* Unwinding destroys an object.
LEMMA DestroyObjectAllowed ==
  ASSUME IInv, IInv', DestroyObject
  PROVE  Allowed
<1>1. /\ TopIs({"throw"}) /\ k_destroyers # << >> /\ Last(k_destroyers).kind = "object"
      /\ alive' = alive \ {Last(k_destroyers).at}
      /\ frames' = Append(frames, NewFrame("dtor", << >>))
      /\ thrown' = thrown /\ terminated' = terminated /\ caught' = caught
  BY DEF DestroyObject
<1>2. PICK t : t = Len(frames)
  OBVIOUS
<1>3. /\ t \in Of({"throw"}) /\ ~terminated /\ frames[t].kind = "throw"
      /\ t \in 1 .. Len(frames) /\ t \in Nat /\ TypeOK
  BY <1>1, <1>2, ThrowOnTop DEF IInv
<1>4. PICK l : l = t + 1
  OBVIOUS
<1>5. StaysTo(t, l)
  <2>1. NewFrame("dtor", << >>) \in Frame
    BY DEF NewFrame, Frame, FrameKinds, ClientKinds
  <2>2. QED
    BY <1>1, <1>2, <1>3, <1>4, <2>1, Pushed
<1>6. t <= t /\ t <= l /\ l \in Nat /\ t < l
  BY <1>3, <1>4
<1>7. \A f : DataAt(caught, f)' = DataAt(caught, f)
  BY <1>1 DEF DataAt
<1>8. /\ Scopes' = Scopes /\ Inflight' = Inflight /\ terminated' = terminated
      /\ LiveObjects = {o \in alive : o < t} /\ LiveObjects' = {o \in alive' : o < t}
      /\ Dying <=> t < Len(frames)
      /\ Dying' <=> t < l
      /\ Inflight = thrown /\ thrown # NoException
  BY <1>1, <1>3, <1>5, <1>6, <1>7, SameUnder
<1>9. ~Dying /\ Dying' = TRUE
  <2>1. ~Dying /\ Dying'
    BY <1>2, <1>3, <1>6, <1>8
  <2>2. QED
    BY <2>1 DEF Dying
<1>10. PICK b : InnermostBody(b, t) /\ Sees(b)
  BY <1>3, TargetSeen
<1>11. PICK at : at = Last(k_destroyers).at
  OBVIOUS
<1>12. /\ at \in alive /\ at \in Nat /\ at < t /\ b < at
       /\ \A o \in alive : o \in Nat /\ o <= at
  BY <1>1, <1>2, <1>3, <1>10, <1>11, TopDestroyer
<1>13. at \in LiveObjects /\ LiveObjects \subseteq Nat /\ \A o \in LiveObjects : o <= at
  BY <1>8, <1>12
<1>14. PICK S : S = LiveObjects
  OBVIOUS
<1>15. Max(S) = at
  BY <1>13, <1>14, MaxIs
<1>16. LiveObjects' = LiveObjects \ {at}
  BY <1>1, <1>8, <1>11
<1>17. Len(Scopes) = b
  BY <1>10, Seen
<1>18. Max(LiveObjects) > Len(Scopes)
  <2>1. b \in Nat
    BY <1>10 DEF Sees
  <2>2. at > b
    BY <1>12, <2>1
  <2>3. QED
    BY <1>14, <1>15, <1>17, <2>2
<1>19. Promised!Unwind
  BY <1>3, <1>8, <1>9, <1>13, <1>14, <1>15, <1>16, <1>18, UnwindIs
<1>20. QED
  BY <1>19 DEF Allowed, Promised!Next

\* The scope of a TRY when its exception arrives.
LEMMA DispatchScope ==
  ASSUME NEW c, NEW e, NEW n, NEW x, x = [kind |-> "body", clauses |-> c, block |-> 0, exc |-> n]
  PROVE  [x EXCEPT !.kind = "dispatch", !.exc = e]
           = [kind |-> "dispatch", clauses |-> c, block |-> 0, exc |-> e]
<1>1. PICK y : y = [x EXCEPT !.kind = "dispatch"]
  OBVIOUS
<1>2. y = [kind |-> "dispatch", clauses |-> c, block |-> 0, exc |-> n]
  BY <1>1
<1>3. [y EXCEPT !.exc = e] = [kind |-> "dispatch", clauses |-> c, block |-> 0, exc |-> e]
  BY <1>2
<1>4. [x EXCEPT !.kind = "dispatch", !.exc = e] = [[x EXCEPT !.kind = "dispatch"] EXCEPT !.exc = e]
  OBVIOUS
<1>5. QED
  BY <1>1, <1>3, <1>4

\* The same when its handler is entered.
LEMMA HandlerScope ==
  ASSUME NEW c, NEW e, NEW n, NEW x, x = [kind |-> "dispatch", clauses |-> c, block |-> 0, exc |-> e]
  PROVE  [x EXCEPT !.kind = "handler", !.block = n]
           = [kind |-> "handler", clauses |-> c, block |-> n, exc |-> e]
<1>1. PICK y : y = [x EXCEPT !.kind = "handler"]
  OBVIOUS
<1>2. y = [kind |-> "handler", clauses |-> c, block |-> 0, exc |-> e]
  BY <1>1
<1>3. [y EXCEPT !.block = n] = [kind |-> "handler", clauses |-> c, block |-> n, exc |-> e]
  BY <1>2
<1>4. [x EXCEPT !.kind = "handler", !.block = n] = [[x EXCEPT !.kind = "handler"] EXCEPT !.block = n]
  OBVIOUS
<1>5. QED
  BY <1>1, <1>3, <1>4

\* And when the exception is changed in it.
LEMMA EditedScope ==
  ASSUME NEW c, NEW e, NEW n, NEW x, x = [kind |-> "handler", clauses |-> c, block |-> n, exc |-> e]
  PROVE  [x EXCEPT !.exc.edited = TRUE]
           = [kind |-> "handler", clauses |-> c, block |-> n, exc |-> [e EXCEPT !.edited = TRUE]]
<1>1. PICK y : y = [e EXCEPT !.edited = TRUE]
  OBVIOUS
<1>2. [x EXCEPT !.exc = y] = [kind |-> "handler", clauses |-> c, block |-> n, exc |-> y]
  OBVIOUS
<1>3. x.exc = e
  OBVIOUS
<1>4. [x EXCEPT !.exc.edited = TRUE] = [x EXCEPT !.exc = [x.exc EXCEPT !.edited = TRUE]]
  OBVIOUS
<1>5. QED
  BY <1>1, <1>2, <1>3, <1>4

\* The exception is delivered.
LEMMA LongjmpAllowed ==
  ASSUME IInv, CarriedInv, IInv', Longjmp
  PROVE  Allowed
<1>1. /\ TopIs({"throw"}) /\ k_destroyers # << >> /\ Last(k_destroyers).kind = "checkpoint"
      /\ alive' = alive /\ terminated' = terminated /\ stack' = stack /\ caught' = caught
  BY DEF Longjmp
<1>2. PICK t, b : t = Len(frames) /\ b = Last(stack).buf
  OBVIOUS
<1>3. /\ frames # << >> /\ frames[t].kind = "throw" /\ unwinding_in_progress
      /\ stack # << >>
      /\ b \in 1 .. t - 1 /\ Target(b) /\ frames[b].kind = "body"
      /\ Len(frames') = b /\ \A f \in 1 .. b - 1 : frames'[f] = frames[f]
      /\ frames'[b] = [frames[b] EXCEPT !.kind = "dispatch"]
  BY <1>2, LongjmpTop
<1>4. /\ t \in Of({"throw"}) /\ ~terminated /\ t \in 1 .. t /\ t \in Nat
      /\ TypeOK /\ TypeOK'
      /\ \A u \in Of({"throw"}) : u = t
  BY <1>1, <1>2, ThrowOnTop DEF IInv, ControlInv, ControlOn
<1>5. /\ alive \subseteq 1 .. b - 1
      /\ \A f \in 1 .. t : Target(f) <=> f = b
  <2>1. /\ Last(k_destroyers).at = Last(stack).buf
        /\ alive \subseteq 1 .. Last(stack).buf - 1
    BY <1>1, <1>2, <1>3, TopCheckpoint
  <2>2. \A f \in 1 .. Len(frames) : Target(f) <=> f = Last(stack).buf
    BY <1>2, <1>3, UnderThrow
  <2>3. QED
    BY <1>2, <2>1, <2>2
<1>6. Sees(b) /\ Inflight = thrown /\ thrown # NoException /\ ~Dying
      /\ LiveObjects = {o \in alive : o < t}
  <2>1. SeesTarget(t)
    BY <1>4, UnderWay
  <2>2. PICK a \in 1 .. t - 1 : Target(a) /\ Sees(a)
    BY <2>1 DEF SeesTarget
  <2>3. a = b
    BY <1>4, <1>5, <2>2
  <2>4. QED
    BY <1>2, <1>4, <2>1, <2>2, <2>3 DEF SeesTarget
<1>7. LiveObjects = alive /\ \A o \in LiveObjects : o < b
  BY <1>3, <1>4, <1>5, <1>6
<1>8. frames[b] \in Frame /\ b \in 1 .. Len(frames)
  BY <1>2, <1>3, <1>4, Positions
<1>9. frames'[b].kind = "dispatch" /\ frames'[b].clauses = frames[b].clauses
  BY <1>3, <1>8 DEF Frame
<1>10. Of({"throw"})' = {}
  <2>1. DOMAIN frames' = 1 .. b
    BY <1>3, <1>4, LenProperties DEF TypeOK
  <2>2. \A f \in 1 .. b - 1 : frames[f].kind # "throw"
    <3>1. \A f \in 1 .. b - 1 : f \in 1 .. Len(frames) /\ f # t
      BY <1>2, <1>3, <1>4
    <3>2. QED
      BY <1>4, <3>1, Positions
  <2>3. \A f \in 1 .. b : f \in 1 .. b - 1 \/ f = b
    BY <1>3, <1>4
  <2>4. \A f \in 1 .. b : frames'[f].kind # "throw"
    BY <1>3, <1>9, <2>2, <2>3
  <2>5. QED
    BY <2>1, <2>4 DEF Of
<1>11. Sees(b)' /\ Inflight' = NoException /\ LiveObjects' = alive /\ ~Dying'
  BY <1>1, <1>3, <1>4, <1>10, NoThrowNext DEF SeesAll
<1>12. \A f \in 1 .. b - 1 : ScopeAt(f)' = ScopeAt(f)
  <2>1. Of({"dispatch"}) = {}
    BY <1>2, <1>3, NoDispatch
  <2>2. \A f \in 1 .. b - 1 : f \in 1 .. Len(frames)
    BY <1>2, <1>3, <1>4
  <2>3. \A f \in 1 .. b - 1 : frames[f].kind # "dispatch"
    BY <1>4, <2>1, <2>2, Positions
  <2>4. \A f : DataAt(caught, f)' = DataAt(caught, f)
    BY <1>1 DEF DataAt
  <2>5. QED
    BY <1>3, <2>3, <2>4, ScopeKept
<1>13. DataAt(stack, b) = thrown
  <2>1. PICK m : m = Len(stack)
    OBVIOUS
  <2>2. m \in 1 .. Len(stack) /\ Last(stack) = stack[m]
    BY <1>3, <1>4, <2>1, Tops, Positions
  <2>3. DataAt(stack, b) = stack[m].data /\ stack[m].buf = b
    BY <1>2, <2>2, NodeData
  <2>4. stack[m].raised
    BY <1>3, <2>2, <2>3 DEF IInv, RaisedInv, RaisedOn
  <2>5. QED
    BY <1>3, <2>2, <2>3, <2>4 DEF CarriedInv
<1>14. /\ b \in Nat /\ b \in 1 .. b /\ Fills(Scopes, b) /\ Fills(Scopes', b) /\ Len(Scopes) = b
       /\ DOMAIN Scopes = 1 .. b
       /\ \A f \in 1 .. b : Scopes[f] = ScopeAt(f)
       /\ \A f \in 1 .. b : Scopes'[f] = ScopeAt(f)'
  BY <1>3, <1>6, <1>11, Seen DEF Sees, Fills
<1>15. Scopes' = [Scopes EXCEPT ![b] = Scopes'[b]]
  <2>1. PICK s, u : s = Scopes /\ u = Scopes'
    OBVIOUS
  <2>2. \A f \in 1 .. b : f # b => f \in 1 .. b - 1
    BY <1>14
  <2>3. /\ Fills(s, b) /\ Fills(u, b)
        /\ \A f \in 1 .. b : f # b => u[f] = s[f]
    BY <1>12, <1>14, <2>1, <2>2
  <2>4. u = [s EXCEPT ![b] = u[b]]
    BY <1>14, <2>3, ExceptIs
  <2>5. QED
    BY <2>1, <2>4
<1>16. Scopes'[b] = [Scopes[b] EXCEPT !.kind = "dispatch", !.exc = Inflight]
  <2>1. DataAt(stack, b)' = DataAt(stack, b)
    BY <1>1 DEF DataAt
  <2>2. ScopeAt(b) = [kind |-> "body", clauses |-> frames[b].clauses, block |-> 0,
                      exc |-> NoException]
    BY <1>3 DEF ScopeAt, ExceptionOf
  <2>3. ScopeAt(b)' = [kind |-> "dispatch", clauses |-> frames[b].clauses, block |-> 0,
                       exc |-> Inflight]
    <3>1. DataAt(stack, b)' = Inflight
      BY <1>6, <1>13, <2>1
    <3>2. ExceptionOf(b)' = DataAt(stack, b)'
      BY <1>9 DEF ExceptionOf
    <3>3. QED
      BY <1>9, <3>1, <3>2 DEF ScopeAt
  <2>4. Scopes[b] = ScopeAt(b) /\ Scopes'[b] = ScopeAt(b)'
    BY <1>14
  <2>5. PICK x, e : x = Scopes[b] /\ e = Inflight
    OBVIOUS
  <2>6. x = [kind |-> "body", clauses |-> frames[b].clauses, block |-> 0, exc |-> NoException]
    BY <2>2, <2>4, <2>5
  <2>7. [x EXCEPT !.kind = "dispatch", !.exc = e]
          = [kind |-> "dispatch", clauses |-> frames[b].clauses, block |-> 0, exc |-> e]
    BY <2>6, DispatchScope
  <2>8. QED
    BY <2>3, <2>4, <2>5, <2>7
<1>17. Scopes' = [Scopes EXCEPT ![Len(Scopes)] =
                    [@ EXCEPT !.kind = "dispatch", !.exc = Inflight]]
  BY <1>14, <1>15, <1>16
<1>18. Dying' = Dying
  BY <1>6, <1>11 DEF Dying
<1>19. Promised!Deliver
  BY <1>1, <1>4, <1>6, <1>7, <1>11, <1>14, <1>17, <1>18, DeliverIs DEF KeepsLive
<1>20. QED
  BY <1>19 DEF Allowed, Promised!Next

-----------------------------------------------------------------------------
(* CATCH.                                                                  *)

\* No Throw executes, before and after.
LEMMA QuietMoves ==
  ASSUME IInv, IInv', ~terminated, terminated' = terminated, Of({"throw"}) = {},
         NEW n, NEW l, StaysTo(n, l), l = n \/ (l = n + 1 /\ frames'[l].kind # "throw"),
         alive' = alive
  PROVE  SeesAll /\ Sees(l)' /\ KeepsRest /\ KeepsLive
<1>1. TypeOK /\ TypeOK' /\ ~terminated'
  BY DEF IInv
<1>2. SeesAll
  BY NoThrow
<1>3. Of({"throw"})' = {}
  BY <1>1, NoThrowThen
<1>4. SeesAll'
  BY <1>1, <1>3, NoThrowNext
<1>5. Dying' = Dying
  BY <1>2, <1>4 DEF SeesAll, Dying
<1>6. QED
  BY <1>1, <1>2, <1>4, <1>5 DEF SeesAll, KeepsRest, KeepsLive, StaysTo

\* A catch sequence is evaluated, for the exception in the top node.
LEMMA DispatchOnTop ==
  ASSUME IInv, TopIs({"dispatch"}), NEW l, l = Len(frames)
  PROVE  /\ ~terminated /\ frames # << >> /\ l \in 1 .. l /\ l \in Nat
         /\ frames[l].kind = "dispatch" /\ frames[l] \in Frame /\ Last(frames) = frames[l]
         /\ Of({"throw"}) = {} /\ ~unwinding_in_progress
         /\ stack # << >> /\ Last(stack).buf = l /\ DataAt(stack, l) = Last(stack).data
         /\ SeesAll /\ Sees(l) /\ Matched
         /\ ScopeAt(l) = [kind |-> "dispatch", clauses |-> frames[l].clauses, block |-> 0,
                          exc |-> Last(stack).data]
         /\ Last(Scopes) = ScopeAt(l)
         /\ Matches = {i \in DOMAIN frames[l].clauses :
                         Last(stack).data.type \in frames[l].clauses[i]}
<1>1. TypeOK
  BY DEF IInv
<1>2. /\ ~terminated /\ frames # << >> /\ Last(frames) = frames[l]
      /\ frames[l].kind = "dispatch"
  BY <1>1, Tops DEF TopIs
<1>3. l \in Nat /\ l > 0 /\ l \in 1 .. l /\ frames[l] \in Frame
  BY <1>1, <1>2, Tops, Positions
<1>4. Of({"throw"}) = {} /\ ~unwinding_in_progress
  BY <1>2, NothingThrown
<1>5. stack # << >> /\ Last(stack).buf = l
  BY <1>2, TopTry
<1>6. DataAt(stack, l) = Last(stack).data
  <2>1. PICK m : m = Len(stack)
    OBVIOUS
  <2>2. m \in 1 .. Len(stack) /\ Last(stack) = stack[m]
    BY <1>1, <1>5, <2>1, Tops, Positions
  <2>3. QED
    BY <1>5, <2>2, NodeData
<1>7. SeesAll /\ Sees(l)
  BY <1>2, <1>4, NoThrow DEF SeesAll
<1>8. ScopeAt(l) = [kind |-> "dispatch", clauses |-> frames[l].clauses, block |-> 0,
                    exc |-> Last(stack).data]
  BY <1>2, <1>6 DEF ScopeAt, ExceptionOf
<1>9. Scopes # << >> /\ Last(Scopes) = ScopeAt(l)
  BY <1>3, <1>7, Seen
<1>10. Last(Scopes).kind = "dispatch" /\ Last(Scopes).clauses = frames[l].clauses
       /\ Last(Scopes).exc = Last(stack).data
  BY <1>8, <1>9
<1>11. Matched
  BY <1>2, <1>7, <1>9, <1>10 DEF Matched, SeesAll
<1>12. Matches = {i \in DOMAIN frames[l].clauses :
                    Last(stack).data.type \in frames[l].clauses[i]}
  BY <1>10 DEF Matches
<1>13. QED
  BY <1>2, <1>3, <1>4, <1>5, <1>6, <1>7, <1>8, <1>9, <1>11, <1>12

\* A condition that does not hold is not seen.
LEMMA SkipCatchAllowed ==
  ASSUME IInv, IInv', SkipCatch
  PROVE  Allowed
<1>1. /\ TopIs({"dispatch"}) /\ frames' = [frames EXCEPT ![Len(frames)].next = @ + 1]
      /\ UNCHANGED <<thrown, alive, terminated, stack, caught>>
  BY DEF SkipCatch, library
<1>2. PICK l : l = Len(frames)
  OBVIOUS
<1>3. /\ ~terminated /\ frames # << >> /\ l \in 1 .. l /\ l \in Nat
      /\ frames[l].kind = "dispatch" /\ frames[l] \in Frame
      /\ Of({"throw"}) = {} /\ Sees(l)
  BY <1>1, <1>2, DispatchOnTop
<1> DEFINE e == [frames[l] EXCEPT !.next = frames[l].next + 1]
<1>4. e \in Frame /\ e.kind = "dispatch" /\ e.clauses = frames[l].clauses
  BY <1>3 DEF Frame
<1>5. frames' = [frames EXCEPT ![Len(frames)] = e]
  BY <1>1, <1>2
<1> HIDE DEF e
<1>6. TypeOK
  BY DEF IInv
<1>7. PICK n \in Nat : Len(frames) = n + 1 /\ StaysTo(n, n + 1) /\ frames'[n + 1] = e
  BY <1>3, <1>4, <1>5, <1>6, Changed
<1>8. l = n + 1 /\ StaysTo(n, l) /\ frames'[l] = e /\ n < Len(frames)
  BY <1>2, <1>7
<1>9. Sees(l)' /\ KeepsRest /\ KeepsLive
  BY <1>1, <1>3, <1>4, <1>8, QuietMoves
<1>10. \A f \in 1 .. n : ScopeAt(f)' = ScopeAt(f)
  BY <1>1, <1>8, ScopesKept
<1>11. ScopeAt(l)' = ScopeAt(l)
  <2>1. DataAt(stack, l)' = DataAt(stack, l)
    BY <1>1 DEF DataAt
  <2>2. QED
    BY <1>3, <1>4, <1>8, <2>1 DEF ScopeAt, ExceptionOf
<1>12. \A f \in 1 .. l : ScopeAt(f)' = ScopeAt(f)
  <2>1. \A f \in 1 .. l : f \in 1 .. n \/ f = l
    BY <1>7, <1>8
  <2>2. QED
    BY <1>10, <1>11, <2>1
<1>13. Scopes' = Scopes
  BY <1>3, <1>9, <1>12, SameScopes
<1>14. UNCHANGED Promised!vars
  BY <1>9, <1>13, UnseenIs DEF KeepsRest, KeepsLive
<1>15. QED
  BY <1>14 DEF Allowed

\* With no Throw executing, every handler has its caught node: what the nodes
\* up to c keep, the scopes of their handlers keep.
LEMMA HandlersKept ==
  ASSUME IInv, IInv', Of({"throw"}) = {}, NEW c \in Nat, c <= Len(caught), c <= Len(caught'),
         \A j \in 1 .. c : caught'[j] = caught[j],
         NEW n \in Nat, n < Len(frames), \A f \in 1 .. n : frames'[f] = frames[f],
         c < Len(caught) => c + 1 = Len(caught) /\ caught[c + 1].buf = n + 1
  PROVE  \A f \in 1 .. n : ScopeAt(f)' = ScopeAt(f)
<1> SUFFICES ASSUME NEW f \in 1 .. n
             PROVE  ScopeAt(f)' = ScopeAt(f)
  OBVIOUS
<1>1. TypeOK /\ Len(frames) \in Nat /\ Len(caught) \in Nat
  BY Positions DEF IInv
<1>2. frames[f].kind # "dispatch"
  BY BelowTop
<1>3. ASSUME frames[f].kind = "handler"
      PROVE  DataAt(caught, f)' = DataAt(caught, f)
  <2>1. ~Left(f) /\ f \in 1 .. Len(frames)
    BY <1>1 DEF Left
  <2>2. PICK j \in 1 .. Len(caught) : caught[j].buf = f
    BY <1>3, <2>1 DEF IInv, CaughtInv, CaughtOn, IsCaught
  <2>3. j \in 1 .. c
    <3>1. c < Len(caught) => j # c + 1
      BY <2>2
    <3>2. QED
      BY <1>1, <2>2, <3>1
  <2>4. j \in 1 .. Len(caught') /\ caught'[j] = caught[j]
    <3>1. Len(caught') \in Nat
      BY LenProperties DEF IInv, TypeOK
    <3>2. QED
      BY <2>3, <3>1
  <2>5. QED
    BY <2>2, <2>4, KeptCaught
<1>4. QED
  BY <1>2, <1>3, ScopeKept

\* Nothing matched before the condition that holds: its block is entered.
LEMMA DoCatchAllowed ==
  ASSUME IInv, SkippedInv, IInv', DoCatch
  PROVE  Allowed
<1>1. /\ TopIs({"dispatch"}) /\ MoreConditions /\ CanCatch
      /\ frames' = [frames EXCEPT ![Len(frames)].kind = "handler"]
      /\ caught' = Append(caught, Last(stack))
      /\ UNCHANGED <<thrown, alive, terminated>>
  BY DEF DoCatch
<1>2. PICK l : l = Len(frames)
  OBVIOUS
<1>3. /\ ~terminated /\ frames # << >> /\ l \in 1 .. l /\ l \in Nat
      /\ frames[l].kind = "dispatch" /\ frames[l] \in Frame /\ Last(frames) = frames[l]
      /\ Of({"throw"}) = {} /\ stack # << >> /\ Last(stack).buf = l
      /\ Sees(l) /\ Matched
      /\ ScopeAt(l) = [kind |-> "dispatch", clauses |-> frames[l].clauses, block |-> 0,
                       exc |-> Last(stack).data]
      /\ Last(Scopes) = ScopeAt(l)
      /\ Matches = {i \in DOMAIN frames[l].clauses :
                      Last(stack).data.type \in frames[l].clauses[i]}
  BY <1>1, <1>2, DispatchOnTop
<1>4. TypeOK /\ "handler" \in FrameKinds
  BY DEF IInv, FrameKinds, ClientKinds
<1>5. PICK n \in Nat : /\ Len(frames) = n + 1 /\ StaysTo(n, n + 1)
                       /\ frames'[n + 1] = [frames[n + 1] EXCEPT !.kind = "handler"]
  BY <1>1, <1>3, <1>4, Retagged
<1>6. /\ l = n + 1 /\ StaysTo(n, l) /\ n < Len(frames)
      /\ frames'[l] = [frames[l] EXCEPT !.kind = "handler"]
  BY <1>2, <1>5
<1>7. frames'[l].kind = "handler" /\ frames'[l].clauses = frames[l].clauses
      /\ frames'[l].next = frames[l].next
  BY <1>3, <1>6 DEF Frame
<1>8. Sees(l)' /\ KeepsRest /\ KeepsLive
  BY <1>1, <1>3, <1>6, <1>7, QuietMoves
<1>9. PICK c : c = Len(caught)
  OBVIOUS
<1>10. /\ c \in Nat /\ Len(caught') = c + 1 /\ caught'[c + 1] = Last(stack)
       /\ \A j \in 1 .. c : caught'[j] = caught[j]
  <2>1. caught \in Seq(Node) /\ Last(stack) \in Node /\ c \in Nat
    <3>1. Len(stack) \in 1 .. Len(stack)
      BY <1>3, <1>4, Tops, Positions
    <3>2. QED
      BY <1>3, <1>4, <1>9, <3>1, Tops, Positions DEF TypeOK
  <2>2. QED
    BY <1>1, <1>9, <2>1, Push
<1>11. \A f \in 1 .. n : ScopeAt(f)' = ScopeAt(f)
  <2>1. c <= Len(caught) /\ c <= Len(caught') /\ ~(c < Len(caught))
    BY <1>9, <1>10
  <2>2. \A f \in 1 .. n : frames'[f] = frames[f]
    BY <1>6 DEF StaysTo
  <2>3. QED
    BY <1>3, <1>6, <1>10, <2>1, <2>2, HandlersKept
<1>12. DataAt(caught, l)' = Last(stack).data
  <2>1. PICK d : d = c + 1
    OBVIOUS
  <2>2. d \in 1 .. Len(caught') /\ caught'[d].buf = l /\ caught'[d].data = Last(stack).data
    BY <1>3, <1>10, <2>1
  <2>3. DataAt(caught', caught'[d].buf) = caught'[d].data
    BY <2>2, CaughtDataNext DEF DataAt
  <2>4. QED
    BY <2>2, <2>3 DEF DataAt
<1>13. PICK i : i = frames[l].next
  OBVIOUS
<1>14. Matches # {} /\ Min(Matches) = i
  <2>1. i \in Matches
    BY <1>1, <1>3, <1>13 DEF MoreConditions, CanCatch
  <2>2. Matches \subseteq Nat
    <3>1. frames[l].clauses \in Seq(SUBSET Types)
      BY <1>3, CatchAssumption, EmptySeq DEF Frame
    <3>2. DOMAIN frames[l].clauses = 1 .. Len(frames[l].clauses)
      BY <3>1, LenProperties
    <3>3. QED
      BY <1>3, <3>2
  <2>3. \A k \in Matches : i <= k
    <3>1. \A k \in DOMAIN frames[l].clauses :
            k < i => Last(stack).data.type \notin frames[l].clauses[k]
      BY <1>2, <1>3, <1>13 DEF SkippedInv
    <3>2. \A k \in Matches : ~(k < i) /\ k \in Nat
      BY <1>3, <2>2, <3>1
    <3>3. QED
      BY <2>1, <3>2
  <2>4. PICK S : S = Matches
    OBVIOUS
  <2>5. Min(S) = i
    BY <2>1, <2>2, <2>3, <2>4, MinIs
  <2>6. QED
    BY <2>1, <2>4, <2>5
<1>15. /\ Fills(Scopes, l) /\ Fills(Scopes', l) /\ Len(Scopes) = l
       /\ DOMAIN Scopes = 1 .. l
       /\ \A f \in 1 .. l : Scopes[f] = ScopeAt(f)
       /\ \A f \in 1 .. l : Scopes'[f] = ScopeAt(f)'
  BY <1>3, <1>8, Seen DEF Sees, Fills
<1>16. Scopes' = [Scopes EXCEPT ![l] = Scopes'[l]]
  <2>1. PICK s, u : s = Scopes /\ u = Scopes'
    OBVIOUS
  <2>2. \A f \in 1 .. l : f # l => f \in 1 .. n
    BY <1>5, <1>6
  <2>3. /\ Fills(s, l) /\ Fills(u, l)
        /\ \A f \in 1 .. l : f # l => u[f] = s[f]
    BY <1>11, <1>15, <2>1, <2>2
  <2>4. u = [s EXCEPT ![l] = u[l]]
    BY <1>3, <2>3, ExceptIs
  <2>5. QED
    BY <2>1, <2>4
<1>17. Scopes'[l] = [Scopes[l] EXCEPT !.kind = "handler", !.block = i]
  <2>1. PICK x, e : x = Scopes[l] /\ e = Last(stack).data
    OBVIOUS
  <2>2. x = [kind |-> "dispatch", clauses |-> frames[l].clauses, block |-> 0, exc |-> e]
    BY <1>3, <1>15, <2>1
  <2>3. [x EXCEPT !.kind = "handler", !.block = i]
          = [kind |-> "handler", clauses |-> frames[l].clauses, block |-> i, exc |-> e]
    BY <2>2, HandlerScope
  <2>4. ExceptionOf(l)' = e
    BY <1>7, <1>12, <2>1 DEF ExceptionOf
  <2>5. ScopeAt(l)' = [kind |-> "handler", clauses |-> frames[l].clauses, block |-> i, exc |-> e]
    BY <1>7, <1>13, <2>4 DEF ScopeAt
  <2>6. Scopes'[l] = ScopeAt(l)'
    BY <1>3, <1>15
  <2>7. QED
    BY <2>1, <2>3, <2>5, <2>6
<1>18. Scopes' = [Scopes EXCEPT ![Len(Scopes)] =
                    [@ EXCEPT !.kind = "handler", !.block = Min(Matches)]]
  BY <1>14, <1>15, <1>16, <1>17
<1>19. Promised!Catch
  BY <1>3, <1>8, <1>14, <1>18, CatchIs
<1>20. QED
  BY <1>19 DEF Allowed, Promised!Next

\* The frames that are visible in the next state.
LEMMA SeesVisibleNext == (\A v : v \in Nat /\ Visible = 1 .. v => Sees(v))'
<1>1. \A v : v \in Nat /\ Visible = 1 .. v => Sees(v)
  BY SeesVisible
<1>2. QED
  BY <1>1, PTL

\* While frames and Throw stay, the same scopes are seen.
LEMMA SameView ==
  ASSUME UNCHANGED <<frames, thrown, alive, terminated>>, NEW v, Sees(v)
  PROVE  Sees(v)' /\ KeepsLive /\ KeepsRest
<1>1. v \in Nat /\ Visible = 1 .. v
  <2>1. v \in Nat /\ DOMAIN Scopes = 1 .. v
    BY DEF Sees, Fills
  <2>2. QED
    BY <2>1 DEF Scopes
<1>2. Visible' = Visible
  BY DEF Visible, Of, Left
<1>3. Sees(v)'
  <2>1. Visible' = 1 .. v
    BY <1>1, <1>2
  <2>2. QED
    BY <1>1, <2>1, SeesVisibleNext
<1>4. Dying' = Dying
  BY DEF Dying, Of
<1>5. LiveObjects' = LiveObjects
  BY DEF LiveObjects, Of
<1>6. QED
  BY <1>3, <1>4, <1>5 DEF KeepsLive, KeepsRest, Inflight

\* While the client's code runs, it sees the handlers that have a caught node.
LEMMA HandlersSeen ==
  ASSUME IInv, Running
  PROVE  \E v : /\ Sees(v) /\ v <= Len(frames)
                /\ \A j \in 1 .. Len(caught) : caught[j].buf \in 1 .. v
                /\ \A f \in 1 .. v : frames[f].kind = "handler" => IsCaught(f, Len(caught))
<1>1. TypeOK /\ CaughtOn(Len(frames), Len(stack), Len(caught)) /\ Len(frames) \in Nat /\ ~terminated
  BY Positions DEF IInv, CaughtInv, Running
<1>2. CASE Of({"throw"}) = {}
  <2>1. Sees(Len(frames))
    BY <1>1, <1>2, NoThrow DEF SeesAll
  <2>2. \A f : ~Left(f)
    BY <1>2 DEF Left
  <2>3. QED
    BY <1>1, <2>1, <2>2 DEF CaughtOn
<1>3. CASE Of({"throw"}) # {}
  <2>1. PICK t \in Of({"throw"}) : unwinding_in_progress /\ t < Len(frames)
    BY <1>3, ClientRuns
  <2>2. t \in 1 .. Len(frames) /\ frames[t].kind = "throw"
    BY <1>1, Positions
  <2>3. PICK b : InnermostBody(b, t) /\ Sees(b)
    BY <1>1, TargetSeen
  <2>4. b \in 1 .. t - 1 /\ frames[b].kind = "body" /\ \A f \in b + 1 .. t : frames[f].kind # "body"
    BY <2>3 DEF InnermostBody
  <2>5. \A u \in Of({"throw"}) : u = t
    BY DEF IInv, ControlInv, ControlOn
  <2>6. \A f \in 1 .. b : ~Left(f)
    <3>1. \A f \in 1 .. b : b \in f .. t
      BY <2>2, <2>4
    <3>2. QED
      BY <2>4, <2>5, <3>1 DEF Left
  <2>7. ASSUME NEW j \in 1 .. Len(caught)
        PROVE  caught[j].buf \in 1 .. b
    <3>1. PICK h : h = caught[j].buf
      OBVIOUS
    <3>2. h \in 1 .. Len(frames) /\ frames[h].kind = "handler" /\ ~Left(h)
      BY <1>1, <2>1, <3>1 DEF CaughtOn
    <3>3. ~(h > t)
      <4> SUFFICES ASSUME h > t
                   PROVE  FALSE
        OBVIOUS
      <4>1. h \in t + 1 .. Len(frames)
        BY <2>2, <3>2
      <4>2. QED
        BY <3>2, <4>1 DEF IInv, ControlInv, ControlOn
    <3>4. h # t
      BY <2>2, <3>2
    <3>5. h < t
      BY <2>2, <3>2, <3>3, <3>4
    <3>6. h <= b
      <4> SUFFICES ASSUME ~(h <= b)
                   PROVE  FALSE
        OBVIOUS
      <4>1. \A f \in h .. t : f \in b + 1 .. t
        BY <2>2, <2>4, <3>2
      <4>2. QED
        BY <2>4, <3>2, <3>5, <4>1 DEF Left
    <3>7. QED
      BY <2>4, <3>1, <3>2, <3>6
  <2>8. b <= Len(frames) /\ \A f \in 1 .. b : f \in 1 .. Len(frames)
    BY <2>2, <2>4
  <2>9. \A f \in 1 .. b : frames[f].kind = "handler" => IsCaught(f, Len(caught))
    BY <1>1, <2>6, <2>8 DEF CaughtOn
  <2>10. QED
    BY <2>3, <2>7, <2>8, <2>9
<1>4. QED
  BY <1>2, <1>3

\* An exception is changed in its handler.
LEMMA EditCaughtAllowed ==
  ASSUME IInv, IInv', NEW i \in DOMAIN caught, EditCaught(i)
  PROVE  Allowed
<1>1. /\ Running /\ ~terminated /\ caught' = [caught EXCEPT ![i].data.edited = TRUE]
      /\ UNCHANGED <<frames, thrown, alive, terminated>>
  BY DEF EditCaught, Running, client
<1>2. TypeOK /\ TypeOK' /\ i \in 1 .. Len(caught) /\ DOMAIN caught = 1 .. Len(caught)
      /\ Len(caught) \in Nat
  BY Positions DEF IInv
<1>3. PICK v : /\ Sees(v) /\ v <= Len(frames)
               /\ \A j \in 1 .. Len(caught) : caught[j].buf \in 1 .. v
               /\ \A f \in 1 .. v : frames[f].kind = "handler" => IsCaught(f, Len(caught))
  BY <1>1, HandlersSeen
<1>4. Sees(v)' /\ KeepsLive /\ KeepsRest
  BY <1>1, <1>3, SameView
<1>5. PICK h : h = caught[i].buf
  OBVIOUS
<1>6. h \in 1 .. v /\ frames[h].kind = "handler"
  BY <1>2, <1>3, <1>5 DEF IInv, CaughtInv, CaughtOn
<1>7. PICK e : e = caught[i].data
  OBVIOUS
<1>8. /\ DOMAIN caught' = 1 .. Len(caught) /\ Len(caught') = Len(caught)
      /\ \A j \in 1 .. Len(caught) : j # i => caught'[j] = caught[j]
      /\ caught'[i] = [caught[i] EXCEPT !.data.edited = TRUE]
  <2>1. /\ DOMAIN caught' = 1 .. Len(caught)
        /\ \A j \in 1 .. Len(caught) : j # i => caught'[j] = caught[j]
        /\ caught'[i] = [caught[i] EXCEPT !.data.edited = TRUE]
    BY <1>1, <1>2
  <2>2. Len(caught') \in Nat /\ DOMAIN caught' = 1 .. Len(caught')
    BY <1>2, LenProperties DEF TypeOK
  <2>3. Len(caught') = Len(caught)
    BY <1>2, <2>1, <2>2
  <2>4. QED
    BY <2>1, <2>3
<1>9. caught'[i].buf = h /\ caught'[i].data = [e EXCEPT !.edited = TRUE]
  <2>1. caught[i] \in Node
    BY <1>2, Positions
  <2>2. QED
    BY <1>5, <1>7, <1>8, <2>1 DEF Node
<1>10. DataAt(caught, h) = e
  BY <1>2, <1>5, <1>7, CaughtData
<1>11. DataAt(caught, h)' = [e EXCEPT !.edited = TRUE]
  <2>1. i \in 1 .. Len(caught')
    BY <1>2, <1>8
  <2>2. DataAt(caught', caught'[i].buf) = caught'[i].data
    BY <2>1, CaughtDataNext DEF DataAt
  <2>3. QED
    BY <1>9, <2>2 DEF DataAt
<1>12. /\ v \in Nat /\ Fills(Scopes, v) /\ Fills(Scopes', v) /\ DOMAIN Scopes = 1 .. v
       /\ \A f \in 1 .. v : Scopes[f] = ScopeAt(f)
       /\ \A f \in 1 .. v : Scopes'[f] = ScopeAt(f)'
  BY <1>3, <1>4, Seen DEF Sees, Fills
<1>13. ASSUME NEW f \in 1 .. v, f # h
       PROVE  Scopes'[f] = Scopes[f]
  <2>1. frames[f].kind # "dispatch"
    <3>1. Of({"dispatch"}) = {}
      BY <1>1, NoDispatch
    <3>2. QED
      BY <1>3, <1>12, <3>1, BelowTop
  <2>2. ASSUME frames[f].kind = "handler"
        PROVE  DataAt(caught, f)' = DataAt(caught, f)
    <3>1. PICK j \in 1 .. Len(caught) : caught[j].buf = f
      BY <1>3, <2>2 DEF IsCaught
    <3>2. j # i
      BY <1>5, <1>13, <3>1
    <3>3. j \in 1 .. Len(caught') /\ caught'[j] = caught[j]
      BY <1>8, <3>1, <3>2
    <3>4. QED
      BY <3>1, <3>3, KeptCaught
  <2>3. frames'[f] = frames[f]
    BY <1>1
  <2>4. ScopeAt(f)' = ScopeAt(f)
    BY <2>1, <2>2, <2>3, ScopeKept
  <2>5. QED
    BY <1>12, <2>4
<1>14. Scopes' = [Scopes EXCEPT ![h] = Scopes'[h]]
  <2>1. PICK s, u : s = Scopes /\ u = Scopes'
    OBVIOUS
  <2>2. /\ Fills(s, v) /\ Fills(u, v)
        /\ \A f \in 1 .. v : f # h => u[f] = s[f]
    BY <1>12, <1>13, <2>1
  <2>3. u = [s EXCEPT ![h] = u[h]]
    BY <1>6, <1>12, <2>2, ExceptIs
  <2>4. QED
    BY <2>1, <2>3
<1>15. Scopes'[h] = [Scopes[h] EXCEPT !.exc.edited = TRUE]
  <2>1. PICK x, y, k : x = Scopes[h] /\ y = [e EXCEPT !.edited = TRUE] /\ k = frames[h].next
    OBVIOUS
  <2>2. ExceptionOf(h) = e /\ ExceptionOf(h)' = y
    BY <1>1, <1>6, <1>10, <1>11, <2>1 DEF ExceptionOf
  <2>3. ScopeAt(h) = [kind |-> "handler", clauses |-> frames[h].clauses, block |-> k, exc |-> e]
    BY <1>6, <2>1, <2>2 DEF ScopeAt
  <2>4. ScopeAt(h)' = [kind |-> "handler", clauses |-> frames[h].clauses, block |-> k, exc |-> y]
    BY <1>1, <1>6, <2>1, <2>2 DEF ScopeAt
  <2>5. x = [kind |-> "handler", clauses |-> frames[h].clauses, block |-> k, exc |-> e]
    BY <1>6, <1>12, <2>1, <2>3
  <2>6. [x EXCEPT !.exc.edited = TRUE]
          = [kind |-> "handler", clauses |-> frames[h].clauses, block |-> k,
             exc |-> [e EXCEPT !.edited = TRUE]]
    BY <2>5, EditedScope
  <2>7. Scopes'[h] = ScopeAt(h)'
    BY <1>6, <1>12
  <2>8. QED
    BY <2>1, <2>4, <2>6, <2>7
<1>16. Scopes' = [Scopes EXCEPT ![h].exc.edited = TRUE]
  BY <1>6, <1>12, <1>14, <1>15
<1>17. h \in ScopesOf("handler", Scopes)
  BY <1>6, <1>12 DEF ScopesOf, ScopeAt
<1>18. Promised!Edit
  BY <1>1, <1>4, <1>16, <1>17, EditIs
<1>19. QED
  BY <1>18 DEF Allowed, Promised!Next

-----------------------------------------------------------------------------
(* The end of a TRY statement.                                             *)

\* What is left of the scopes when the innermost one ends.
LEMMA FrontScopes ==
  ASSUME NEW n \in Nat, NEW s, Fills(s, n + 1)
  PROVE  Fills(Front(s), n) /\ \A f \in 1 .. n : Front(s)[f] = s[f]
<1>1. PICK t : t = [f \in 1 .. n |-> s[f]]
  OBVIOUS
<1>2. Fills(t, n) /\ \A f \in 1 .. n : t[f] = s[f]
  BY <1>1 DEF Fills
<1>3. t = Front(s)
  BY <1>2, FrontIs
<1>4. QED
  BY <1>2, <1>3

\* No condition held.
LEMMA NothingMatched ==
  ASSUME IInv, SkippedInv, TopIs({"dispatch"}), ~MoreConditions
  PROVE  Matches = {}
<1>1. PICK l : l = Len(frames)
  OBVIOUS
<1>2. /\ l \in 1 .. Len(frames) /\ frames[l].kind = "dispatch" /\ frames[l] \in Frame
      /\ Last(frames) = frames[l]
      /\ Matches = {i \in DOMAIN frames[l].clauses :
                      Last(stack).data.type \in frames[l].clauses[i]}
  BY <1>1, DispatchOnTop
<1>3. frames[l].clauses \in Seq(SUBSET Types) /\ frames[l].next \in Nat
  BY <1>2, CatchAssumption, EmptySeq DEF Frame
<1>4. DOMAIN frames[l].clauses = 1 .. Len(frames[l].clauses) /\ Len(frames[l].clauses) \in Nat
  BY <1>3, LenProperties
<1>5. /\ frames[l].next > 0
      /\ \A i \in DOMAIN frames[l].clauses :
           i < frames[l].next => Last(stack).data.type \notin frames[l].clauses[i]
  BY <1>1, <1>2 DEF SkippedInv
<1>6. frames[l].next \notin 1 .. Len(frames[l].clauses)
  BY <1>2, <1>4 DEF MoreConditions
<1>7. \A i \in DOMAIN frames[l].clauses : i < frames[l].next
  BY <1>3, <1>4, <1>5, <1>6
<1>8. QED
  BY <1>2, <1>5, <1>7

\* An exception that nothing matched goes on to the enclosing TRY.
LEMMA FinishRaisedAllowed ==
  ASSUME IInv, SkippedInv, IInv', AtEndOfTry, FinishRaised
  PROVE  Allowed
<1>1. /\ TypeOK /\ TypeOK' /\ frames # << >> /\ Last(frames) = frames[Len(frames)]
      /\ frames[Len(frames)].kind = "dispatch"
  BY FinishCases, Tops DEF IInv
<1>2. TopIs({"dispatch"}) /\ ~MoreConditions
  BY <1>1 DEF AtEndOfTry, TopIs
<1>3. Matches = {}
  BY <1>2, NothingMatched
<1>4. PICK l : l = Len(frames)
  OBVIOUS
<1>5. /\ ~terminated /\ l \in 1 .. l /\ l \in Nat
      /\ Of({"throw"}) = {} /\ ~unwinding_in_progress
      /\ stack # << >> /\ Last(stack).buf = l
      /\ SeesAll /\ Sees(l) /\ Matched
      /\ ScopeAt(l) = [kind |-> "dispatch", clauses |-> frames[l].clauses, block |-> 0,
                       exc |-> Last(stack).data]
      /\ Last(Scopes) = ScopeAt(l)
  BY <1>2, <1>4, DispatchOnTop
<1>6. /\ Fills(Scopes, l) /\ DOMAIN Scopes = 1 .. l
      /\ \A f \in 1 .. l : Scopes[f] = ScopeAt(f)
  BY <1>5, Seen
<1>7. stack' = Front(stack) /\ alive' = alive /\ caught' = caught
      /\ CallThrow(Last(stack).data, Front(frames), Front(stack))
  BY DEF FinishRaised
<1>8. PICK n \in Nat : n + 1 = l
  <2>1. l \in Nat /\ l \in 1 .. l
    BY <1>5
  <2>2. l \in Nat /\ l > 0
    BY <2>1
  <2> QED
    BY <2>2, Predecessor
<1>9. CASE Front(stack) = << >>
  <2>1. PICK m : m = Len(stack)
    OBVIOUS
  <2>2. m \in Nat /\ m > 0 /\ stack \in Seq(Node) /\ Last(stack) = stack[m]
    BY <1>1, <1>5, <2>1, Tops, Positions DEF TypeOK
  <2>3. m = 1
    <3>1. PICK k \in Nat : k + 1 = m
      BY <2>2, Predecessor
    <3>2. Len(Front(stack)) = k
      BY <2>1, <2>2, <3>1, Pop
    <3>3. k = 0
      BY <1>9, <3>2, EmptySeq
    <3>4. QED
      BY <3>1, <3>3
  <2>4. ASSUME NEW f \in 1 .. l, frames[f].kind = "body"
        PROVE  FALSE
    <3>1. PICK i \in 1 .. m : stack[i].buf = f
      BY <1>4, <2>1, <2>4 DEF IInv, NodeInv, NodesOn, IsTry
    <3>2. i = m
      BY <2>3, <3>1
    <3>3. f = l
      BY <1>5, <2>2, <3>1, <3>2
    <3>4. QED
      BY <1>1, <1>4, <2>4, <3>3
  <2>5. \A f \in 1 .. l : Scopes[f].kind # "body"
    BY <1>6, <2>4 DEF ScopeAt
  <2>6. ScopesOf("body", Scopes) = {}
    BY <1>6, <2>5 DEF ScopesOf
  <2>7. terminated'
    BY <1>7, <1>9 DEF CallThrow, Terminate
  <2>8. QED
    BY <1>3, <1>5, <2>6, <2>7, Ends
<1>10. CASE Front(stack) # << >>
  <2> DEFINE e == NewFrame("throw", << >>)
  <2>1. /\ frames' = Append(Front(frames), e)
        /\ thrown' = Last(stack).data /\ terminated' = terminated
    BY <1>5, <1>7, <1>10 DEF CallThrow
  <2>2. frames \in Seq(Frame) /\ e \in Frame /\ e.kind = "throw"
    BY <1>1 DEF TypeOK, NewFrame, Frame, FrameKinds
  <2> HIDE DEF e
  <2>3. /\ Front(frames) \in Seq(Frame) /\ Len(Front(frames)) = n
        /\ \A f \in 1 .. n : Front(frames)[f] = frames[f]
    BY <1>4, <1>8, <2>2, Pop
  <2>4. /\ Len(frames') = n + 1
        /\ \A f \in 1 .. n : frames'[f] = Front(frames)[f]
        /\ frames'[n + 1] = e
    BY <2>1, <2>2, <2>3, Push
  <2>5. l = n + 1 /\ n < Len(frames) /\ StaysTo(n, l) /\ frames'[l].kind = "throw"
    BY <1>4, <1>8, <2>2, <2>3, <2>4 DEF StaysTo
  <2>6. \A f \in 1 .. n : ScopeAt(f)' = ScopeAt(f)
    BY <1>7, <2>5, ScopesKept
  <2>7. \A o \in alive : o <= n
    <3>1. \A o \in alive : o \in 1 .. l /\ frames[o].kind = "object"
      BY <1>4 DEF IInv, RecordInv, RecordsOn
    <3>2. \A o \in alive : o # l
      BY <1>1, <1>4, <3>1
    <3>3. QED
      BY <1>8, <3>1, <3>2
  <2>8. PICK s : s = Front(Scopes)
    OBVIOUS
  <2>9. Fills(s, n) /\ \A f \in 1 .. n : s[f] = ScopeAt(f)
    <3>1. PICK u : u = Scopes
      OBVIOUS
    <3>2. Fills(u, n + 1)
      BY <1>6, <1>8, <3>1
    <3>3. Fills(Front(u), n) /\ \A f \in 1 .. n : Front(u)[f] = u[f]
      BY <3>2, FrontScopes
    <3>4. \A f \in 1 .. n : f \in 1 .. l
      BY <1>8
    <3>5. QED
      BY <1>6, <2>8, <3>1, <3>3, <3>4
  <2>10. PICK x : x = Last(stack).data
    OBVIOUS
  <2>11. x = thrown'
    BY <2>1, <2>10
  <2>12. LiveObjects = alive /\ ~Dying
    BY <1>5 DEF SeesAll
  <2>13. Propagates(x, s)
    BY <1>5, <1>7, <2>1, <2>5, <2>6, <2>7, <2>9, <2>11, <2>12, Propagated
  <2>14. Last(Scopes).exc = x
    BY <1>5, <2>10
  <2>15. Promised!NoMatch
    BY <1>3, <1>5, <2>8, <2>13, <2>14, NoMatchIs
  <2>16. QED
    BY <2>15 DEF Allowed, Promised!Next
<1>11. QED
  BY <1>9, <1>10

\* A body or a handler ends.
LEMMA FinishScope ==
  ASSUME IInv, IInv', AtEndOfTry, frames[Len(frames)].kind \in {"body", "handler"},
         Of({"throw"}) = {}, frames' = Front(frames), UNCHANGED <<thrown, alive, terminated>>,
         \A n : n \in Nat /\ n + 1 = Len(frames) => \A f \in 1 .. n : ScopeAt(f)' = ScopeAt(f)
  PROVE  Allowed
<1>1. TypeOK /\ frames # << >> /\ Last(frames) = frames[Len(frames)]
  BY FinishCases, Tops DEF IInv
<1>2. TopIs({"object", "dtor", "body", "handler"}) /\ ~terminated
  BY <1>1 DEF AtEndOfTry, TopIs
<1>3. SeesAll /\ Calm
  BY <1>1, <1>2, TopRuns, CalmNow
<1>4. PICK n \in Nat : Len(frames) = n + 1 /\ StaysTo(n, n)
  BY <1>1, Dropped
<1>5. PICK l : l = n + 1
  OBVIOUS
<1>6. Sees(l) /\ Sees(n)' /\ KeepsRest /\ KeepsLive
  BY <1>2, <1>3, <1>4, <1>5, QuietMoves DEF SeesAll
<1>7. \A f \in 1 .. n : ScopeAt(f)' = ScopeAt(f)
  BY <1>4
<1>8. /\ Fills(Scopes, l) /\ l \in Nat /\ Fills(Scopes', n)
      /\ Scopes = << >> <=> l = 0
      /\ l > 0 => Last(Scopes) = ScopeAt(l)
      /\ \A f \in 1 .. l : Scopes[f] = ScopeAt(f)
      /\ \A f \in 1 .. n : Scopes'[f] = ScopeAt(f)'
  BY <1>6, Seen DEF Sees, Fills
<1>9. Scopes' = Front(Scopes)
  <2>1. PICK s, u : s = Scopes /\ u = Scopes'
    OBVIOUS
  <2>2. \A f \in 1 .. n : f \in 1 .. l
    BY <1>5
  <2>3. Fills(s, n + 1) /\ Fills(u, n) /\ \A f \in 1 .. n : u[f] = s[f]
    BY <1>5, <1>7, <1>8, <2>1, <2>2
  <2>4. u = Front(s)
    BY <2>3, FrontIs
  <2>5. QED
    BY <2>1, <2>4
<1>10. l > 0 /\ l = Len(frames)
  BY <1>4, <1>5
<1>11. Scopes # << >> /\ Last(Scopes).kind \in {"body", "handler"}
  BY <1>8, <1>10 DEF ScopeAt
<1>12. Promised!LeaveTry
  BY <1>3, <1>6, <1>9, <1>11, LeaveTryIs
<1>13. QED
  BY <1>12 DEF Allowed, Promised!Next

\* A handler ends.
LEMMA FinishHandlerAllowed ==
  ASSUME IInv, IInv', AtEndOfTry, FinishHandler
  PROVE  Allowed
<1>1. /\ TypeOK /\ frames # << >> /\ frames[Len(frames)].kind = "handler"
      /\ frames' = Front(frames) /\ UNCHANGED <<thrown, alive, terminated>>
      /\ caught' = Front(caught)
  BY FinishCases DEF IInv, FinishHandler
<1>2. Of({"throw"}) = {}
  BY <1>1, NothingThrown
<1>3. caught # << >> /\ Last(caught).buf = Len(frames)
  BY <1>1, TopHandler
<1>4. caught \in Seq(Node) /\ Len(caught) \in Nat /\ Len(caught) > 0
  BY <1>1, <1>3, Tops, Positions DEF TypeOK
<1>5. PICK c \in Nat : c + 1 = Len(caught)
  BY <1>4, Predecessor
<1>6. /\ Len(caught') = c /\ \A j \in 1 .. c : caught'[j] = caught[j]
      /\ Last(caught) = caught[c + 1]
  BY <1>1, <1>4, <1>5, Pop
<1>7. ASSUME NEW n \in Nat, n + 1 = Len(frames)
      PROVE  \A f \in 1 .. n : ScopeAt(f)' = ScopeAt(f)
  <2>1. frames \in Seq(Frame) /\ \A f \in 1 .. n : frames'[f] = frames[f]
    BY <1>1, <1>7, Pop DEF TypeOK
  <2>2. c <= Len(caught) /\ c <= Len(caught') /\ n < Len(frames)
    BY <1>5, <1>6, <1>7
  <2>3. c + 1 = Len(caught) /\ caught[c + 1].buf = n + 1
    BY <1>3, <1>5, <1>6, <1>7
  <2>4. QED
    BY <1>2, <1>6, <2>1, <2>2, <2>3, HandlersKept
<1>8. QED
  BY <1>1, <1>2, <1>7, FinishScope

\* A body ends.
LEMMA FinishBodyAllowed ==
  ASSUME IInv, IInv', AtEndOfTry, FinishBody
  PROVE  Allowed
<1>1. /\ TypeOK /\ frames # << >> /\ frames[Len(frames)].kind = "body"
      /\ Last(frames) = frames[Len(frames)]
      /\ frames' = Front(frames) /\ UNCHANGED <<thrown, alive, terminated, caught>>
  BY FinishCases, Tops DEF IInv, FinishBody
<1>2. Running
  <2>1. TopIs({"object", "dtor", "body", "handler"})
    BY <1>1 DEF AtEndOfTry, TopIs
  <2>2. QED
    BY <1>1, <2>1, TopRuns
<1>3. CASE Of({"throw"}) = {}
  <2>1. ASSUME NEW n \in Nat, n + 1 = Len(frames)
        PROVE  \A f \in 1 .. n : ScopeAt(f)' = ScopeAt(f)
    <3>1. PICK k \in Nat : Len(frames) = k + 1 /\ StaysTo(k, k)
      BY <1>1, Dropped
    <3>2. n = k /\ n < Len(frames)
      BY <2>1, <3>1
    <3>3. StaysTo(n, n)
      BY <3>1, <3>2
    <3>4. QED
      BY <1>1, <3>2, <3>3, ScopesKept
  <2>2. QED
    BY <1>1, <1>3, <2>1, FinishScope
<1>4. CASE Of({"throw"}) # {}
  <2>1. PICK t \in Of({"throw"}) : TRUE
    BY <1>4
  <2>2. QED
    BY <1>1, <1>2, <2>1, LeftInside
<1>5. QED
  BY <1>3, <1>4

-----------------------------------------------------------------------------
(* The theorem.                                                            *)

\* Nothing changes.
LEMMA NothingAllowed ==
  ASSUME UNCHANGED vars
  PROVE  Allowed
<1>1. UNCHANGED <<frames, thrown, alive, terminated, stack, caught>>
  BY DEF vars
<1>2. Visible' = Visible
  BY <1>1 DEF Visible, Of, Left
<1>3. \A f : ScopeAt(f)' = ScopeAt(f)
  BY <1>1 DEF ScopeAt, ExceptionOf, DataAt
<1>4. Scopes' = Scopes
  BY <1>2, <1>3 DEF Scopes
<1>5. Inflight' = Inflight
  BY <1>1 DEF Inflight
<1>6. Dying' = Dying
  BY <1>1 DEF Dying, Of
<1>7. LiveObjects' = LiveObjects
  BY <1>1 DEF LiveObjects, Of
<1>8. UNCHANGED Promised!vars
  BY <1>1, <1>4, <1>5, <1>6, <1>7, UnseenIs
<1>9. QED
  BY <1>8 DEF Allowed

\* Every step of the library is one of TryCatch, or is not seen.
LEMMA StepsAllowed ==
  ASSUME RInv, IInv', [Next]_vars
  PROVE  Allowed
<1>1. IInv /\ SkippedInv /\ CarriedInv
  BY DEF RInv
<1>2. CASE \E clauses \in CatchSequences : StartTry(clauses)
  BY <1>1, <1>2, StartTryAllowed
<1>3. CASE RecordObject
  BY <1>1, <1>3, RecordObjectAllowed
<1>4. CASE PopObject
  BY <1>1, <1>4, PopObjectAllowed
<1>5. CASE EndDestructor
  BY <1>1, <1>5, EndDestructorAllowed
<1>6. CASE \E type \in Types : Throw(type)
  BY <1>1, <1>6, ThrowAllowed
<1>7. CASE Rethrow
  BY <1>1, <1>7, RethrowAllowed
<1>8. CASE ThrowSteps
  BY <1>1, <1>8, AbandonHandlerAllowed, RaiseAllowed, DestroyObjectAllowed, LongjmpAllowed
     DEF ThrowSteps
<1>9. CASE CatchSteps
  BY <1>1, <1>9, SkipCatchAllowed, DoCatchAllowed DEF CatchSteps
<1>10. CASE \E i \in DOMAIN caught : EditCaught(i)
  BY <1>1, <1>10, EditCaughtAllowed
<1>11. CASE FinishTry
  BY <1>1, <1>11, FinishRaisedAllowed, FinishHandlerAllowed, FinishBodyAllowed DEF FinishTry
<1>12. CASE UNCHANGED vars
  BY <1>12, NothingAllowed
<1>13. QED
  BY <1>2, <1>3, <1>4, <1>5, <1>6, <1>7, <1>8, <1>9, <1>10, <1>11, <1>12 DEF Next, Stopped

\* A program starts with no scope open.
LEMMA StartsEmpty == Init => Promised!Init
<1> SUFFICES ASSUME Init
             PROVE  Promised!Init
  OBVIOUS
<1>1. IInv
  BY Initially
<1>2. frames = << >> /\ thrown = NoException /\ alive = {} /\ terminated = FALSE
  BY DEF Init
<1>3. DOMAIN frames = {}
  BY <1>2
<1>4. Of({"throw"}) = {}
  BY <1>3 DEF Of
<1>5. SeesAll
  BY <1>1, <1>2, <1>4, NoThrow
<1>6. PICK v : v = Len(frames)
  OBVIOUS
<1>7. v = 0
  BY <1>2, <1>6, EmptySeq
<1>8. Sees(v)
  BY <1>5, <1>6 DEF SeesAll
<1>9. Scopes = << >> <=> v = 0
  BY <1>8, Seen
<1>10. Scopes = << >>
  BY <1>7, <1>9
<1>11. Inflight = NoException /\ LiveObjects = {} /\ Dying = FALSE
  BY <1>2, <1>5 DEF SeesAll, Dying
<1>12. QED
  BY <1>2, <1>10, <1>11 DEF Promised!Init, Scopes, ScopeAt, Inflight, LiveObjects, Dying

\* The library implements TryCatch: whatever it does with its two node stacks,
\* its depths, its destroyers and its jump buffers, a client sees the scopes,
\* the exceptions and the destructor calls that TRY, CATCH and Throw promise.
THEOREM LibraryImplements == Spec => ImplementsTryCatch
<1>1. Init => Promised!Init
  BY StartsEmpty
<1>2. RInv /\ RInv' /\ [Next]_vars => [Promised!Next]_(Promised!vars)
  <2> SUFFICES ASSUME RInv, RInv', [Next]_vars
               PROVE  [Promised!Next]_(Promised!vars)
    OBVIOUS
  <2>1. IInv'
    BY DEF RInv
  <2>2. QED
    BY <2>1, StepsAllowed DEF Allowed
<1>3. QED
  BY <1>1, <1>2, RefinementInvariance, PTL DEF Spec, ImplementsTryCatch, Promised!Spec

=============================================================================
