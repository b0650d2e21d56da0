--------------------- MODULE KarmaCompileRefinementProofs ---------------------
(***************************************************************************)
(* KarmaCompile implements Assembler: whatever the files, the number of    *)
(* workers and their schedule, an executable that is written is the one of *)
(* the whole program, and what is refused is not valid or has a file with  *)
(* no line.                                                                *)
(*                                                                         *)
(* Assembler sees the program as sequences of places, the compiler as a    *)
(* stack of calls, slices of files and tables of labels.  Three invariants *)
(* connect them, one for each part of the compilation: SearchedInv of      *)
(* KarmaCompileProofs (the calls of the search lead to the order of the    *)
(* traversal), CollectedInv (the data of an open file are those of its     *)
(* lines so far, and a slot holds those of its whole file) and MergedInv   *)
(* (the merged data are those of the files so far).  The tables are        *)
(* described by Marks: which labels stand at which element of a sequence.  *)
(***************************************************************************)
EXTENDS KarmaCompileProofs
-----------------------------------------------------------------------------
(***************************************************************************)
(* Sequences of sequences, flattened.                                      *)
(***************************************************************************)
\* p builds up ss flattened.
IsFlattening(p, ss, T) ==
    /\ p \in [0 .. Len(ss) -> Seq(T)]
    /\ p[0] = <<>> /\ p[Len(ss)] = FlattenSeq(ss)
    /\ \A i \in 1 .. Len(ss) : p[i] = p[i - 1] \o ss[i]

\* Every sequence of sequences is flattened step by step.
LEMMA Flattening ==
    ASSUME NEW T, NEW ss \in Seq(Seq(T))
    PROVE  \E p : IsFlattening(p, ss, T)
<1>1. PICK p \in [0 .. Len(ss) -> Seq(T)] :
              /\ p[0] = <<>> /\ p[Len(ss)] = FlattenSeq(ss)
              /\ \A i \in 1 .. Len(ss) : p[i] = p[i - 1] \o ss[i]
  BY FlattenSteps
<1> QED
  BY <1>1 DEF IsFlattening

\* What it is built of.
LEMMA FlatteningStep ==
    ASSUME NEW T, NEW ss \in Seq(Seq(T)), NEW p, IsFlattening(p, ss, T),
           NEW i \in 1 .. Len(ss)
    PROVE  /\ p[i - 1] \in Seq(T) /\ p[i] \in Seq(T) /\ ss[i] \in Seq(T)
           /\ p[i] = p[i - 1] \o ss[i]
<1>1. Len(ss) \in Nat
  OBVIOUS
<1>2. i - 1 \in 0 .. Len(ss) /\ i \in 0 .. Len(ss)
  BY <1>1
<1>3. p[i - 1] \in Seq(T) /\ p[i] \in Seq(T)
  BY <1>2 DEF IsFlattening
<1>4. p[i] = p[i - 1] \o ss[i]
  BY DEF IsFlattening
<1>5. ss[i] \in Seq(T)
  OBVIOUS
<1> QED
  BY <1>3, <1>4, <1>5

StepIs(p, ss, T, i) == /\ p[i - 1] \in Seq(T) /\ p[i] \in Seq(T) /\ ss[i] \in Seq(T)
                       /\ p[i] = p[i - 1] \o ss[i]

\* The same with a name for the provers.
LEMMA FlatteningStepIs ==
    ASSUME NEW T, NEW ss \in Seq(Seq(T)), NEW p, IsFlattening(p, ss, T),
           NEW i \in 1 .. Len(ss)
    PROVE  StepIs(p, ss, T, i)
BY FlatteningStep DEF StepIs

\* Nothing flattened is nothing.
LEMMA FlattenNothing == FlattenSeq(<<>>) = <<>>
<1>1. <<>> \in Seq(Seq({})) /\ Len(<<>>) = 0
  OBVIOUS
<1>2. PICK p : IsFlattening(p, <<>>, {})
  BY <1>1, Flattening
<1> QED
  BY <1>1, <1>2 DEF IsFlattening

\* ss and tt have their first n elements in common.
Common(ss, tt, n) == /\ n \in Nat /\ n <= Len(ss) /\ n <= Len(tt)
                     /\ \A i \in 1 .. n : ss[i] = tt[i]

\* Sequences that begin in the same way are flattened in the same way so far.
LEMMA SameFlattening ==
    ASSUME NEW T, NEW ss \in Seq(Seq(T)), NEW tt \in Seq(Seq(T)), NEW p, NEW q,
           IsFlattening(p, ss, T), IsFlattening(q, tt, T), NEW n, Common(ss, tt, n)
    PROVE  p[n] = q[n]
<1> DEFINE S == {i \in 0 .. n : p[i] = q[i]}
<1>0. Len(ss) \in Nat /\ Len(tt) \in Nat /\ n \in Nat
  BY DEF Common
<1>1. 0 \in S
  BY <1>0 DEF IsFlattening
<1>2. ASSUME NEW m \in 1 .. n, m - 1 \in S
      PROVE  m \in S
  <2>1. m \in 1 .. Len(ss) /\ m \in 1 .. Len(tt) /\ m \in 0 .. n /\ ss[m] = tt[m]
    BY <1>0 DEF Common
  <2>2. p[m] = p[m - 1] \o ss[m] /\ q[m] = q[m - 1] \o tt[m]
    BY <2>1 DEF IsFlattening
  <2> QED
    BY <1>2, <2>1, <2>2
<1> HIDE DEF S
<1>3. n \in S
  <2>1. 0 .. n \subseteq S
    BY <1>0, <1>1, <1>2, UpTo
  <2> QED
    BY <1>0, <2>1
<1> QED
  BY <1>3 DEF S

\* The type of a sequence flattened.
LEMMA FlattenType ==
    ASSUME NEW T, NEW ss \in Seq(Seq(T))
    PROVE  FlattenSeq(ss) \in Seq(T)
<1>1. PICK p : IsFlattening(p, ss, T)
  BY Flattening
<1>2. Len(ss) \in 0 .. Len(ss)
  OBVIOUS
<1> QED
  BY <1>1, <1>2 DEF IsFlattening

\* One sequence more comes after what is there.
LEMMA FlattenAppended ==
    ASSUME NEW T, NEW ss \in Seq(Seq(T)), NEW x \in Seq(T)
    PROVE  FlattenSeq(Append(ss, x)) = FlattenSeq(ss) \o x
<1>1. PICK tt : tt = Append(ss, x)
  OBVIOUS
<1>2. PICK n : n = Len(ss)
  OBVIOUS
<1>3. n \in Nat /\ tt \in Seq(Seq(T)) /\ Len(tt) = n + 1
      /\ (\A i \in 1 .. n : ss[i] = tt[i]) /\ tt[n + 1] = x
  BY <1>1, <1>2
<1>4. PICK p : IsFlattening(p, ss, T)
  BY Flattening
<1>5. PICK q : IsFlattening(q, tt, T)
  BY <1>3, Flattening
<1>6. p[n] = q[n]
  <2>1. Common(ss, tt, n)
    BY <1>2, <1>3 DEF Common
  <2> QED
    BY <1>3, <1>4, <1>5, <2>1, SameFlattening
<1>7. n + 1 \in 1 .. n + 1 /\ n + 1 - 1 = n
  BY <1>3
<1>8. q[n + 1] = q[n] \o x /\ q[n + 1] = FlattenSeq(tt)
  <2>1. n + 1 \in 1 .. Len(tt)
    BY <1>3
  <2>2. q[n + 1] = q[n + 1 - 1] \o tt[n + 1]
    <3>1. PICK i \in 1 .. Len(tt) : i = n + 1
      BY <2>1
    <3>2. q[i] = q[i - 1] \o tt[i]
      BY <1>3, <1>5, FlatteningStep
    <3> QED
      BY <1>3, <3>1, <3>2
  <2>3. q[n + 1] = FlattenSeq(tt)
    BY <1>3, <1>5 DEF IsFlattening
  <2> QED
    BY <1>3, <1>7, <2>2, <2>3
<1>9. p[n] = FlattenSeq(ss)
  BY <1>2, <1>4 DEF IsFlattening
<1> QED
  BY <1>1, <1>6, <1>8, <1>9

\* Sequences put together are flattened one after the other.
LEMMA FlattenJoined ==
    ASSUME NEW T, NEW ss \in Seq(Seq(T)), NEW tt \in Seq(Seq(T))
    PROVE  FlattenSeq(ss \o tt) = FlattenSeq(ss) \o FlattenSeq(tt)
<1>1. PICK uu : uu = ss \o tt
  OBVIOUS
<1>2. PICK n, k : n = Len(ss) /\ k = Len(tt)
  OBVIOUS
<1>3. n \in Nat /\ k \in Nat
  BY <1>2
<1>4. /\ uu \in Seq(Seq(T)) /\ Len(uu) = n + k
      /\ \A i \in 1 .. n : uu[i] = ss[i]
      /\ \A i \in 1 .. k : uu[n + i] = tt[i]
  BY <1>1, <1>2
<1>5. PICK p : IsFlattening(p, ss, T)
  BY Flattening
<1>6. PICK q : IsFlattening(q, tt, T)
  BY Flattening
<1>7. PICK r : IsFlattening(r, uu, T)
  BY <1>4, Flattening
<1>8. p[n] = r[n]
  <2>1. Common(ss, uu, n)
    BY <1>2, <1>3, <1>4 DEF Common
  <2> QED
    BY <1>4, <1>5, <1>7, <2>1, SameFlattening
<1> DEFINE S == {i \in 0 .. k : r[n + i] = p[n] \o q[i]}
<1>9. p[n] \in Seq(T) /\ \A i \in 0 .. k : q[i] \in Seq(T)
  <2>1. p \in [0 .. n -> Seq(T)] /\ q \in [0 .. k -> Seq(T)]
    BY <1>2, <1>5, <1>6 DEF IsFlattening
  <2> QED
    BY <1>3, <2>1
<1>10. 0 \in S
  <2>1. q[0] = <<>>
    BY <1>6 DEF IsFlattening
  <2>2. p[n] \o <<>> = p[n]
    <3>1. PICK a \in Seq(T) : a = p[n]
      BY <1>9
    <3>2. a \o <<>> = a
      OBVIOUS
    <3> QED
      BY <3>1, <3>2
  <2>3. n + 0 = n
    BY <1>3
  <2>4. r[n + 0] = p[n] \o q[0]
    BY <1>8, <2>1, <2>2, <2>3
  <2>5. 0 \in 0 .. k
    BY <1>3
  <2> QED
    BY <2>4, <2>5, Zenon
<1>11. ASSUME NEW m \in 1 .. k, m - 1 \in S
       PROVE  m \in S
  <2>1. n + m \in 1 .. n + k /\ n + m - 1 = n + (m - 1) /\ m - 1 \in 0 .. k /\ m \in 0 .. k
    BY <1>3
  <2>2. r[n + m] = r[n + m - 1] \o uu[n + m]
    <3>1. PICK i \in 1 .. Len(uu) : i = n + m
      BY <1>4, <2>1
    <3>2. r[i] = r[i - 1] \o uu[i]
      BY <1>4, <1>7, FlatteningStep
    <3>3. r[n + m] = r[i] /\ r[n + m - 1] = r[i - 1] /\ uu[n + m] = uu[i]
      BY <1>3, <3>1
    <3> QED
      BY <3>2, <3>3
  <2>3. q[m] = q[m - 1] \o tt[m]
    <3>1. m \in 1 .. Len(tt)
      BY <1>2
    <3> QED
      BY <1>6, <3>1, FlatteningStep
  <2>4. r[n + (m - 1)] = p[n] \o q[m - 1]
    BY <1>11
  <2>5. tt[m] \in Seq(T) /\ uu[n + m] = tt[m]
    BY <1>2, <1>4
  <2>6. r[n + m] = (p[n] \o q[m - 1]) \o tt[m]
    BY <2>1, <2>2, <2>4, <2>5
  <2>7. p[n] \o (q[m - 1] \o tt[m]) = (p[n] \o q[m - 1]) \o tt[m]
    <3>1. PICK a, b, c \in Seq(T) : a = p[n] /\ b = q[m - 1] /\ c = tt[m]
      BY <1>9, <2>1, <2>5
    <3>2. a \o (b \o c) = (a \o b) \o c
      OBVIOUS
    <3> QED
      BY <3>1, <3>2
  <2> QED
    BY <2>1, <2>3, <2>6, <2>7
<1> HIDE DEF S
<1>12. k \in S
  <2>1. 0 .. k \subseteq S
    BY <1>3, <1>10, <1>11, UpTo
  <2> QED
    BY <1>3, <2>1
<1>13. r[n + k] = p[n] \o q[k]
  BY <1>12 DEF S
<1> QED
  BY <1>1, <1>2, <1>4, <1>5, <1>6, <1>7, <1>13 DEF IsFlattening

\* The elements of a sequence flattened are those of its sequences.
LEMMA FlattenElements ==
    ASSUME NEW T, NEW ss \in Seq(Seq(T))
    PROVE  ToSet(FlattenSeq(ss)) = UNION {ToSet(ss[i]) : i \in 1 .. Len(ss)}
<1>1. PICK p : IsFlattening(p, ss, T)
  BY Flattening
<1>2. PICK n \in Nat : n = Len(ss)
  OBVIOUS
<1> DEFINE S == {m \in 0 .. n : ToSet(p[m]) = UNION {ToSet(ss[i]) : i \in 1 .. m}}
<1>3. 0 \in S
  <2>1. p[0] = <<>> /\ 1 .. 0 = {}
    BY <1>1 DEF IsFlattening
  <2>2. ToSet(<<>>) = {}
    BY DEF ToSet
  <2> QED
    BY <2>1, <2>2
<1>4. ASSUME NEW m \in 1 .. n, m - 1 \in S
      PROVE  m \in S
  <2>0. m \in 1 .. Len(ss)
    BY <1>2
  <2>1. p[m] = p[m - 1] \o ss[m] /\ p[m - 1] \in Seq(T) /\ ss[m] \in Seq(T)
    <3> HIDE DEF S
    <3> QED
      BY <1>1, <2>0, FlatteningStep
  <2>2. ToSet(p[m]) = ToSet(p[m - 1]) \cup ToSet(ss[m])
    BY <2>1, ElementsOfConcat
  <2>3. 1 .. m = 1 .. m - 1 \cup {m}
    OBVIOUS
  <2>4. UNION {ToSet(ss[i]) : i \in 1 .. m}
          = (UNION {ToSet(ss[i]) : i \in 1 .. m - 1}) \cup ToSet(ss[m])
    BY <2>3
  <2> QED
    BY <1>4, <2>2, <2>4
<1> HIDE DEF S
<1>5. n \in S
  <2>1. 0 .. n \subseteq S
    BY <1>3, <1>4, UpTo
  <2> QED
    BY <2>1
<1> QED
  BY <1>1, <1>2, <1>5 DEF S, IsFlattening

\* No element twice.
Distinct(s) == \A i, j \in 1 .. Len(s) : s[i] = s[j] => i = j

\* Two sequences of different elements that share none, one after the other.
LEMMA DistinctJoined ==
    ASSUME NEW T, NEW s \in Seq(T), NEW t \in Seq(T), Distinct(s), Distinct(t),
           ToSet(s) \cap ToSet(t) = {}
    PROVE  Distinct(s \o t)
<1>1. PICK u : u = s \o t
  OBVIOUS
<1>2. PICK n, k \in Nat : n = Len(s) /\ k = Len(t)
  OBVIOUS
<1>3. /\ Len(u) = n + k
      /\ \A i \in 1 .. n + k : u[i] = IF i <= n THEN s[i] ELSE t[i - n]
  BY <1>1, <1>2
<1>4. DOMAIN s = 1 .. n /\ DOMAIN t = 1 .. k
  BY <1>2
<1>5. ASSUME NEW i \in 1 .. n, NEW j \in 1 .. k PROVE s[i] # t[j]
  BY <1>4 DEF ToSet
<1>6. ASSUME NEW i \in 1 .. n + k, NEW j \in 1 .. n + k, u[i] = u[j]
      PROVE  i = j
  <2>1. CASE i <= n /\ j <= n
    BY <1>2, <1>3, <1>6, <2>1 DEF Distinct
  <2>2. CASE i > n /\ j > n
    <3>1. i - n \in 1 .. k /\ j - n \in 1 .. k /\ t[i - n] = t[j - n]
      BY <1>3, <1>6, <2>2
    <3>2. i - n = j - n
      BY <1>2, <3>1 DEF Distinct
    <3> QED
      BY <3>2
  <2>3. CASE i <= n /\ j > n
    <3>1. i \in 1 .. n /\ j - n \in 1 .. k /\ s[i] = t[j - n]
      BY <1>3, <1>6, <2>3
    <3> QED
      BY <1>5, <3>1
  <2>4. CASE i > n /\ j <= n
    <3>1. j \in 1 .. n /\ i - n \in 1 .. k /\ s[j] = t[i - n]
      BY <1>3, <1>6, <2>4
    <3> QED
      BY <1>5, <3>1
  <2> QED
    BY <2>1, <2>2, <2>3, <2>4
<1> QED
  BY <1>1, <1>3, <1>6 DEF Distinct

\* The same of any number of sequences.
LEMMA FlattenDistinct ==
    ASSUME NEW T, NEW ss \in Seq(Seq(T)),
           \A i \in 1 .. Len(ss) : Distinct(ss[i]),
           \A i, j \in 1 .. Len(ss) : i # j => ToSet(ss[i]) \cap ToSet(ss[j]) = {}
    PROVE  Distinct(FlattenSeq(ss))
<1>1. PICK p : IsFlattening(p, ss, T)
  BY Flattening
<1>2. PICK n \in Nat : n = Len(ss)
  OBVIOUS
<1> DEFINE S == {m \in 0 .. n : /\ Distinct(p[m])
                                /\ \A x \in ToSet(p[m]) : \E i \in 1 .. m : x \in ToSet(ss[i])}
<1>3. 0 \in S
  <2>1. p[0] = <<>> /\ Len(<<>>) = 0
    BY <1>1 DEF IsFlattening
  <2>2. ToSet(<<>>) = {} /\ Distinct(<<>>)
    BY DEF ToSet, Distinct
  <2> QED
    BY <2>1, <2>2
<1>4. ASSUME NEW m \in 1 .. n, m - 1 \in S
      PROVE  m \in S
  <2>0. m \in 1 .. Len(ss)
    BY <1>2
  <2>1. p[m] = p[m - 1] \o ss[m] /\ p[m - 1] \in Seq(T) /\ ss[m] \in Seq(T)
    <3> HIDE DEF S
    <3>1. PICK i : i = m
      OBVIOUS
    <3>2. i \in 1 .. Len(ss)
      BY <2>0, <3>1
    <3>3. StepIs(p, ss, T, i)
      BY <1>1, <3>2, FlatteningStepIs
    <3>4. p[i] = p[i - 1] \o ss[i] /\ p[i - 1] \in Seq(T) /\ ss[i] \in Seq(T)
      BY <3>3 DEF StepIs
    <3> QED
      BY <3>1, <3>4
  <2>2. ToSet(p[m]) = ToSet(p[m - 1]) \cup ToSet(ss[m])
    BY <2>1, ElementsOfConcat
  <2>3. /\ Distinct(p[m - 1])
        /\ \A x \in ToSet(p[m - 1]) : \E i \in 1 .. m - 1 : x \in ToSet(ss[i])
    BY <1>4
  <2>4. ToSet(p[m - 1]) \cap ToSet(ss[m]) = {}
    <3> SUFFICES ASSUME NEW x \in ToSet(p[m - 1]), x \in ToSet(ss[m]) PROVE FALSE
      OBVIOUS
    <3>1. PICK i \in 1 .. m - 1 : x \in ToSet(ss[i])
      BY <2>3
    <3>2. i \in 1 .. Len(ss) /\ m \in 1 .. Len(ss) /\ i # m
      BY <1>2
    <3> QED
      BY <3>1, <3>2
  <2>5. Distinct(p[m])
    <3>1. Distinct(ss[m])
      BY <1>2
    <3> QED
      BY <2>1, <2>3, <2>4, <3>1, DistinctJoined
  <2>6. \A x \in ToSet(p[m]) : \E i \in 1 .. m : x \in ToSet(ss[i])
    <3>1. m \in 1 .. m /\ \A i \in 1 .. m - 1 : i \in 1 .. m
      OBVIOUS
    <3> QED
      BY <2>2, <2>3, <3>1
  <2> QED
    BY <2>5, <2>6
<1> HIDE DEF S
<1>5. n \in S
  <2>1. 0 .. n \subseteq S
    BY <1>3, <1>4, UpTo
  <2> QED
    BY <2>1
<1> QED
  BY <1>1, <1>2, <1>5 DEF S, IsFlattening
-----------------------------------------------------------------------------
(***************************************************************************)
(* What is taken of every element of a sequence, and the labels that mark  *)
(* some of them.                                                           *)
(***************************************************************************)
\* The same with a name for the provers.
Plus(x, a) == Append(x, a)
Join(x, y) == x \o y

\* c gives each element of X one of Y.
IsMap(c, X, Y) == c \in [X -> Y]

\* c applied to each element.
Mapped(x, c) == [i \in DOMAIN x |-> c[x[i]]]

\* A sequence of as many elements of Y.
LEMMA MappedType ==
    ASSUME NEW X, NEW Y, NEW x \in Seq(X), NEW c, IsMap(c, X, Y)
    PROVE  /\ Mapped(x, c) \in Seq(Y) /\ Len(Mapped(x, c)) = Len(x)
           /\ DOMAIN Mapped(x, c) = 1 .. Len(x)
           /\ \A i \in 1 .. Len(x) : Mapped(x, c)[i] = c[x[i]]
<1>1. DOMAIN x = 1 .. Len(x) /\ Len(x) \in Nat /\ \A i \in 1 .. Len(x) : x[i] \in X
  OBVIOUS
<1>2. PICK y : y = Mapped(x, c)
  OBVIOUS
<1>3. y = [i \in 1 .. Len(x) |-> c[x[i]]]
  BY <1>1, <1>2 DEF Mapped
<1>4. y \in [1 .. Len(x) -> Y]
  BY <1>1, <1>3 DEF IsMap
<1>5. y \in Seq(Y)
  BY <1>1, <1>4, SeqDef
<1>6. Len(y) = Len(x)
  BY <1>1, <1>4, <1>5, LenProperties
<1> QED
  BY <1>2, <1>3, <1>5, <1>6

IsMapped(y, x, c, Y) == y \in Seq(Y) /\ Len(y) = Len(x) /\ \A i \in 1 .. Len(x) : y[i] = c[x[i]]

\* The same with a name for the provers.
LEMMA MappedIs ==
    ASSUME NEW X, NEW Y, NEW x \in Seq(X), NEW c, IsMap(c, X, Y)
    PROVE  IsMapped(Mapped(x, c), x, c, Y)
BY MappedType DEF IsMapped

\* The elements of a sequence with one more,
LEMMA MappedAppended ==
    ASSUME NEW X, NEW Y, NEW x \in Seq(X), NEW c, IsMap(c, X, Y), NEW a \in X
    PROVE  Mapped(Plus(x, a), c) = Plus(Mapped(x, c), c[a])
<1>1. PICK n \in Nat : n = Len(x)
  OBVIOUS
<1>2. PICK z : z = Append(x, a)
  OBVIOUS
<1>3. /\ z \in Seq(X) /\ Len(z) = n + 1 /\ z[n + 1] = a
      /\ \A i \in 1 .. n : z[i] = x[i]
  BY <1>1, <1>2
<1>4. PICK y, w : y = Mapped(x, c) /\ w = Mapped(z, c)
  OBVIOUS
<1>5. y \in Seq(Y) /\ Len(y) = n /\ \A i \in 1 .. n : y[i] = c[x[i]]
  BY <1>1, <1>4, MappedType
<1>6. w \in Seq(Y) /\ Len(w) = n + 1 /\ \A i \in 1 .. n + 1 : w[i] = c[z[i]]
  <2>1. z \in Seq(X)
    BY <1>3
  <2>2. IsMapped(Mapped(z, c), z, c, Y)
    BY <2>1, MappedIs
  <2> QED
    BY <1>3, <1>4, <2>2 DEF IsMapped
<1>7. c[a] \in Y
  BY DEF IsMap
<1>8. PICK b \in Y : b = c[a]
  BY <1>7
<1>9. n + 1 \in 1 .. n + 1 /\ \A i \in 1 .. n : i \in 1 .. n + 1
  OBVIOUS
<1>10. w[n + 1] = b /\ \A i \in 1 .. n : w[i] = y[i]
  BY <1>3, <1>5, <1>6, <1>8, <1>9
<1>11. w = Append(y, b)
  BY <1>5, <1>6, <1>10
<1> QED
  BY <1>2, <1>4, <1>8, <1>11 DEF Plus

\* and of two sequences.
LEMMA MappedJoined ==
    ASSUME NEW X, NEW Y, NEW x \in Seq(X), NEW z \in Seq(X), NEW c, IsMap(c, X, Y)
    PROVE  Mapped(Join(x, z), c) = Join(Mapped(x, c), Mapped(z, c))
<1>1. PICK n, k \in Nat : n = Len(x) /\ k = Len(z)
  OBVIOUS
<1>2. PICK u : u = x \o z
  OBVIOUS
<1>3. /\ u \in Seq(X) /\ Len(u) = n + k
      /\ \A i \in 1 .. n + k : u[i] = IF i <= n THEN x[i] ELSE z[i - n]
  BY <1>1, <1>2
<1>4. PICK p, q, r : p = Mapped(x, c) /\ q = Mapped(z, c) /\ r = Mapped(u, c)
  OBVIOUS
<1>5. p \in Seq(Y) /\ Len(p) = n /\ \A i \in 1 .. n : p[i] = c[x[i]]
  <2>1. IsMapped(Mapped(x, c), x, c, Y)
    BY MappedIs
  <2> QED
    BY <1>1, <1>4, <2>1 DEF IsMapped
<1>6. q \in Seq(Y) /\ Len(q) = k /\ \A i \in 1 .. k : q[i] = c[z[i]]
  <2>1. IsMapped(Mapped(z, c), z, c, Y)
    BY MappedIs
  <2> QED
    BY <1>1, <1>4, <2>1 DEF IsMapped
<1>7. r \in Seq(Y) /\ Len(r) = n + k /\ \A i \in 1 .. n + k : r[i] = c[u[i]]
  <2>1. u \in Seq(X)
    BY <1>3
  <2>2. IsMapped(Mapped(u, c), u, c, Y)
    BY <2>1, MappedIs
  <2> QED
    BY <1>3, <1>4, <2>2 DEF IsMapped
<1>8. \A i \in 1 .. n + k : r[i] = IF i <= n THEN p[i] ELSE q[i - n]
  <2> SUFFICES ASSUME NEW i \in 1 .. n + k
               PROVE  r[i] = IF i <= n THEN p[i] ELSE q[i - n]
    OBVIOUS
  <2>1. CASE i <= n
    <3>1. i \in 1 .. n
      BY <2>1
    <3> QED
      BY <1>3, <1>5, <1>7, <2>1, <3>1
  <2>2. CASE ~(i <= n)
    <3>1. i - n \in 1 .. k
      BY <2>2
    <3> QED
      BY <1>3, <1>6, <1>7, <2>2, <3>1
  <2> QED
    BY <2>1, <2>2
<1>9. r = p \o q
  <2>1. /\ p \o q \in Seq(Y) /\ Len(p \o q) = n + k
        /\ \A i \in 1 .. n + k : (p \o q)[i] = IF i <= n THEN p[i] ELSE q[i - n]
    <3>1. p \in Seq(Y) /\ q \in Seq(Y) /\ Len(p) = n /\ Len(q) = k
      BY <1>5, <1>6
    <3> QED
      BY <3>1, ConcatProperties
  <2>2. PICK v : v = p \o q
    OBVIOUS
  <2>3. v \in Seq(Y) /\ Len(v) = n + k /\ \A i \in 1 .. n + k : v[i] = r[i]
    BY <1>8, <2>1, <2>2
  <2> QED
    BY <1>7, <2>2, <2>3
<1> QED
  BY <1>2, <1>4, <1>9 DEF Join

\* The table of the marks m of each element, at the positions of the elements.
Marks(x, m) == {e \in Labels \X Nat : e[2] + 1 \in DOMAIN x /\ e[1] \in m[x[e[2] + 1]]}

\* Labels at one position.
Put(labels, n) == {<<l, n>> : l \in labels}

\* A table with one element more, and two tables put together.
MarksWith(x, m, labels) == Marks(x, m) \cup Put(labels, Len(x))
MarksOfBoth(x, y, m) == Marks(x, m) \cup Shift(Marks(y, m), Len(x))

\* No element is marked,
LEMMA MarksOfNothing ==
    ASSUME NEW m
    PROVE  Marks(<<>>, m) = {}
<1>1. DOMAIN <<>> = 1 .. 0
  OBVIOUS
<1> QED
  BY <1>1 DEF Marks

\* one more is,
LEMMA MarksAppended ==
    ASSUME NEW X, NEW x \in Seq(X), NEW m, IsMap(m, X, SUBSET Labels), NEW a \in X
    PROVE  Marks(Plus(x, a), m) = MarksWith(x, m, m[a])
<1>1. PICK n \in Nat : n = Len(x)
  OBVIOUS
<1>2. PICK z : z = Append(x, a)
  OBVIOUS
<1>3. /\ DOMAIN z = 1 .. n + 1 /\ z[n + 1] = a /\ DOMAIN x = 1 .. n
      /\ \A i \in 1 .. n : z[i] = x[i]
  BY <1>1, <1>2
<1>4. ASSUME NEW e \in Labels \X Nat
      PROVE  e \in Marks(z, m) <=> e \in Marks(x, m) \cup {<<l, n>> : l \in m[a]}
  <2>1. PICK l \in Labels, k \in Nat : e = <<l, k>>
    OBVIOUS
  <2>2. /\ e \in Marks(z, m) <=> k + 1 \in 1 .. n + 1 /\ l \in m[z[k + 1]]
        /\ e \in Marks(x, m) <=> k + 1 \in 1 .. n /\ l \in m[x[k + 1]]
    BY <1>3, <2>1 DEF Marks
  <2>3. e \in {<<j, n>> : j \in m[a]} <=> k = n /\ l \in m[a]
    BY <2>1
  <2>4. CASE k = n
    <3>1. k + 1 \in 1 .. n + 1 /\ ~(k + 1 \in 1 .. n) /\ z[k + 1] = a
      BY <1>3, <2>4
    <3> QED
      BY <2>2, <2>3, <2>4, <3>1
  <2>5. CASE k # n
    <3>1. k + 1 \in 1 .. n + 1 <=> k + 1 \in 1 .. n
      BY <2>5
    <3>2. k + 1 \in 1 .. n => z[k + 1] = x[k + 1]
      BY <1>3
    <3> QED
      BY <2>2, <2>3, <2>5, <3>1, <3>2
  <2> QED
    BY <2>4, <2>5
<1>5. Marks(z, m) \subseteq Labels \X Nat /\ Marks(x, m) \subseteq Labels \X Nat
  BY DEF Marks
<1>6. {<<l, n>> : l \in m[a]} \subseteq Labels \X Nat
  <2>1. m[a] \subseteq Labels
    BY DEF IsMap
  <2> QED
    BY <2>1
<1>7. Marks(z, m) = Marks(x, m) \cup {<<l, n>> : l \in m[a]}
  BY <1>4, <1>5, <1>6
<1> QED
  BY <1>1, <1>2, <1>7 DEF Plus, Put, MarksWith

\* those of a second sequence are, further on.
LEMMA MarksJoined ==
    ASSUME NEW X, NEW x \in Seq(X), NEW y \in Seq(X), NEW m
    PROVE  Marks(Join(x, y), m) = MarksOfBoth(x, y, m)
<1>1. PICK n, k \in Nat : n = Len(x) /\ k = Len(y)
  OBVIOUS
<1>2. PICK z : z = x \o y
  OBVIOUS
<1>3. /\ DOMAIN z = 1 .. n + k /\ DOMAIN x = 1 .. n /\ DOMAIN y = 1 .. k
      /\ \A i \in 1 .. n + k : z[i] = IF i <= n THEN x[i] ELSE y[i - n]
  BY <1>1, <1>2
<1>4. PICK t : t = Shift(Marks(y, m), n)
  OBVIOUS
<1>5. ASSUME NEW l \in Labels, NEW a \in Nat
      PROVE  <<l, a>> \in t <=> a >= n /\ a - n + 1 \in 1 .. k /\ l \in m[y[a - n + 1]]
  <2>1. ASSUME <<l, a>> \in t
        PROVE  a >= n /\ a - n + 1 \in 1 .. k /\ l \in m[y[a - n + 1]]
    <3>1. PICK e \in Marks(y, m) : <<l, a>> = <<e[1], e[2] + n>>
      BY <1>4, <2>1 DEF Shift
    <3>2. /\ e \in Labels \X Nat /\ e[2] + 1 \in 1 .. k /\ e[1] \in m[y[e[2] + 1]]
      BY <1>3 DEF Marks
    <3>3. e[1] = l /\ e[2] \in Nat /\ a = e[2] + n /\ a - n = e[2] /\ a >= n
      BY <3>1, <3>2
    <3> QED
      BY <3>2, <3>3
  <2>2. ASSUME a >= n, a - n + 1 \in 1 .. k, l \in m[y[a - n + 1]]
        PROVE  <<l, a>> \in t
    <3>1. PICK b \in Nat : b = a - n
      BY <2>2
    <3>2. b + 1 \in 1 .. k /\ l \in m[y[b + 1]] /\ a = b + n
      BY <2>2, <3>1
    <3>3. <<l, b>> \in Marks(y, m)
      BY <1>3, <3>2 DEF Marks
    <3>4. <<l, b>>[1] = l /\ <<l, b>>[2] = b
      OBVIOUS
    <3>5. PICK e : e = <<l, b>>
      OBVIOUS
    <3>6. e \in Marks(y, m) /\ <<l, a>> = <<e[1], e[2] + n>>
      BY <3>2, <3>3, <3>4, <3>5
    <3> QED
      BY <1>4, <3>6 DEF Shift
  <2> QED
    BY <2>1, <2>2
<1>6. ASSUME NEW l \in Labels, NEW a \in Nat
      PROVE  <<l, a>> \in Marks(z, m) <=> <<l, a>> \in Marks(x, m) \cup t
  <2>2. /\ <<l, a>> \in Marks(z, m) <=> a + 1 \in 1 .. n + k /\ l \in m[z[a + 1]]
        /\ <<l, a>> \in Marks(x, m) <=> a + 1 \in 1 .. n /\ l \in m[x[a + 1]]
    BY <1>3 DEF Marks
  <2>3. CASE a < n
    <3>1. /\ a + 1 \in 1 .. n + k /\ a + 1 \in 1 .. n /\ z[a + 1] = x[a + 1]
          /\ ~(a >= n)
      BY <1>3, <2>3
    <3> QED
      BY <1>5, <2>2, <3>1
  <2>4. CASE a >= n
    <3>1. ~(a + 1 \in 1 .. n) /\ (a + 1 \in 1 .. n + k <=> a - n + 1 \in 1 .. k)
      BY <2>4
    <3>2. a + 1 \in 1 .. n + k => z[a + 1] = y[a - n + 1]
      <4>1. a + 1 - n = a - n + 1 /\ ~(a + 1 <= n)
        BY <2>4
      <4> QED
        BY <1>3, <4>1
    <3> QED
      BY <1>5, <2>2, <2>4, <3>1, <3>2
  <2> QED
    BY <2>3, <2>4
<1>7. Marks(z, m) \subseteq Labels \X Nat /\ Marks(x, m) \subseteq Labels \X Nat
      /\ Marks(y, m) \subseteq Labels \X Nat
  BY DEF Marks
<1>8. t \subseteq Labels \X Nat
  BY <1>4, <1>7 DEF Shift
<1>9. Marks(z, m) = Marks(x, m) \cup t
  BY <1>6, <1>7, <1>8
<1> QED
  BY <1>1, <1>2, <1>4, <1>9 DEF Join, MarksOfBoth
-----------------------------------------------------------------------------
(***************************************************************************)
(* The places of the items in the files.                                   *)
(***************************************************************************)
\* The places of the program s.
AllPlaces(s) == {p \in Files \X (Nat \ {0}) : p[2] \in DOMAIN s[p[1]].lines}

IsProgram(s) == s \in [Files -> SourceFile]

\* The lines of a file.
LEMMA FileFacts ==
    ASSUME NEW s, IsProgram(s), NEW f \in Files
    PROVE  /\ s[f] \in SourceFile /\ s[f].lines \in Seq(Line)
           /\ DOMAIN s[f].lines = 1 .. Len(s[f].lines) /\ Len(s[f].lines) \in Nat
           /\ \A n \in 1 .. Len(s[f].lines) : s[f].lines[n] \in Line
<1>1. s[f] \in SourceFile
  BY DEF IsProgram
<1>2. s[f].lines \in Seq(Line)
  BY <1>1 DEF SourceFile
<1> QED
  BY <1>1, <1>2, LenProperties, ElementOfSeq

\* A line of a file is a place.
LEMMA PlaceIn ==
    ASSUME NEW s, IsProgram(s), NEW f \in Files, NEW n \in 1 .. Len(s[f].lines)
    PROVE  <<f, n>> \in AllPlaces(s) /\ <<f, n>>[1] = f /\ <<f, n>>[2] = n
<1>1. DOMAIN s[f].lines = 1 .. Len(s[f].lines) /\ Len(s[f].lines) \in Nat
  BY FileFacts
<1> QED
  BY <1>1 DEF AllPlaces

\* A pair and one element more.
LEMMA PairAndOne ==
    ASSUME NEW S, NEW a \in S, NEW b \in S, NEW c \in S
    PROVE  Append(<<a, b>>, c) = <<a, b, c>>
<1>1. PICK t, u, v : t = <<a, b>> /\ u = <<a, b, c>> /\ v = Append(t, c)
  OBVIOUS
<1>2. t \in Seq(S) /\ Len(t) = 2 /\ t[1] = a /\ t[2] = b
  BY <1>1
<1>3. u \in Seq(S) /\ Len(u) = 3 /\ u[1] = a /\ u[2] = b /\ u[3] = c
  BY <1>1
<1>4. /\ v \in Seq(S) /\ Len(v) = 3 /\ v[1] = a /\ v[2] = b /\ v[3] = c
  BY <1>1, <1>2
<1>5. \A i \in 1 .. 3 : i = 1 \/ i = 2 \/ i = 3
  OBVIOUS
<1>6. u = v
  BY <1>3, <1>4, <1>5, SeqEqual
<1> QED
  BY <1>1, <1>6

\* A place and the number of a part of its item.
LEMMA PlaceAndPart ==
    ASSUME NEW f \in Files, NEW n \in Nat, NEW k \in Nat
    PROVE  Append(<<f, n>>, k) = <<f, n, k>>
<1>1. f \in Files \cup Nat /\ n \in Files \cup Nat /\ k \in Files \cup Nat
  OBVIOUS
<1> QED
  BY <1>1, PairAndOne, Zenon

\* A place is a file and the number of a line.
LEMMA PlaceOf ==
    ASSUME NEW s, IsProgram(s), NEW p \in AllPlaces(s)
    PROVE  /\ p = <<p[1], p[2]>> /\ p[1] \in Files /\ p[2] \in Nat \ {0}
           /\ p[2] \in 1 .. Len(s[p[1]].lines)
<1>1. p[1] \in Files /\ p[2] \in DOMAIN s[p[1]].lines /\ p = <<p[1], p[2]>>
      /\ p[2] \in Nat \ {0}
  BY DEF AllPlaces
<1>2. DOMAIN s[p[1]].lines = 1 .. Len(s[p[1]].lines)
  BY <1>1, FileFacts
<1> QED
  BY <1>1, <1>2

\* Assembler!PlacesIn(f, kind) of the program s
IsPlaces(s, f, kind, u) ==
    u = [n \in 0 .. Len(s[f].lines) |->
            IF n = 0 THEN <<>>
            ELSE IF s[f].lines[n].item = kind THEN Append(u[n - 1], <<f, n>>)
            ELSE u[n - 1]]

PlacesOf(s, f, kind) == CHOOSE u : IsPlaces(s, f, kind, u)

\* The places the abstract assembler looks for.
LEMMA AbstractPlacesIn ==
    ASSUME NEW f, NEW kind
    PROVE  Abstract!PlacesIn(f, kind) = PlacesOf(source, f, kind)
BY Zenon DEF Abstract!PlacesIn, PlacesOf, IsPlaces

\* The places of an item kind up to a line.
LinesOfKind(s, f, kind, n) == {<<f, k>> : k \in {j \in 1 .. n : s[f].lines[j].item = kind}}

\* There is a sequence of places for every kind.
LEMMA PlacesExist ==
    ASSUME NEW s, IsProgram(s), NEW f \in Files, NEW kind
    PROVE  IsPlaces(s, f, kind, PlacesOf(s, f, kind))
<1> DEFINE X == Seq(AllPlaces(s))
           line(n) == s[f].lines[n]
<1>1. PICK n \in Nat : n = Len(s[f].lines)
  BY FileFacts
<1> DEFINE h == [p \in X \X (1 .. n) |->
                    IF line(p[2]).item = kind THEN Append(p[1], <<f, p[2]>>) ELSE p[1]]
           a == <<>>
<1>2. a \in X
  OBVIOUS
<1>3. h \in [X \X (1 .. n) -> X]
  <2> SUFFICES ASSUME NEW x \in X, NEW i \in 1 .. n
               PROVE  (IF line(i).item = kind THEN Append(x, <<f, i>>) ELSE x) \in X
    OBVIOUS
  <2>1. <<f, i>> \in AllPlaces(s)
    BY <1>1, PlaceIn
  <2>2. Append(x, <<f, i>>) \in X
    BY <2>1
  <2> QED
    BY <2>2
<1> HIDE DEF X, h, a
<1>4. PICK u : IsRecursion(u, X, a, n, h)
  BY <1>2, <1>3, Recursion
<1>5. u \in [0 .. n -> X] /\ u[0] = a /\ \A i \in 1 .. n : u[i] = h[<<u[i - 1], i>>]
  BY <1>4 DEF IsRecursion
<1>6. ASSUME NEW i \in 0 .. n
      PROVE  u[i] = IF i = 0 THEN <<>>
                    ELSE IF line(i).item = kind THEN Append(u[i - 1], <<f, i>>)
                    ELSE u[i - 1]
  <2>1. CASE i = 0
    BY <1>5, <2>1 DEF a
  <2>2. CASE i # 0
    <3>1. i \in 1 .. n /\ i - 1 \in 0 .. n
      BY <2>2
    <3>2. u[i - 1] \in X /\ u[i] = h[<<u[i - 1], i>>]
      BY <1>5, <3>1
    <3>3. h[<<u[i - 1], i>>]
            = IF line(i).item = kind THEN Append(u[i - 1], <<f, i>>) ELSE u[i - 1]
      BY <3>1, <3>2 DEF h
    <3> QED
      BY <2>2, <3>2, <3>3
  <2> QED
    BY <2>1, <2>2
<1>7. IsPlaces(s, f, kind, u)
  <2> DEFINE value(i) == IF i = 0 THEN <<>>
                         ELSE IF line(i).item = kind THEN Append(u[i - 1], <<f, i>>)
                         ELSE u[i - 1]
  <2>1. u = [i \in 0 .. n |-> u[i]]
    BY <1>5
  <2>2. \A i \in 0 .. n : u[i] = value(i)
    BY <1>6
  <2> HIDE DEF value
  <2>3. u = [i \in 0 .. n |-> value(i)]
    BY <2>1, <2>2
  <2> QED
    BY <1>1, <2>3, Zenon DEF IsPlaces, value
<1> QED
  BY <1>7, Zenon DEF PlacesOf

\* The places up to a line are built line by line.
LEMMA PlacesSteps ==
    ASSUME NEW s, IsProgram(s), NEW f \in Files, NEW kind
    PROVE  /\ PlacesOf(s, f, kind)[0] = <<>>
           /\ \A n \in 1 .. Len(s[f].lines) :
                 PlacesOf(s, f, kind)[n]
                   = IF s[f].lines[n].item = kind
                     THEN Append(PlacesOf(s, f, kind)[n - 1], <<f, n>>)
                     ELSE PlacesOf(s, f, kind)[n - 1]
<1>1. PICK u : u = PlacesOf(s, f, kind)
  OBVIOUS
<1>2. IsPlaces(s, f, kind, u)
  BY <1>1, PlacesExist
<1>3. PICK m \in Nat : m = Len(s[f].lines)
  BY FileFacts
<1> DEFINE value(n) == IF n = 0 THEN <<>>
                       ELSE IF s[f].lines[n].item = kind THEN Append(u[n - 1], <<f, n>>)
                       ELSE u[n - 1]
<1>4. u = [n \in 0 .. m |-> value(n)]
  BY <1>2, <1>3, Zenon DEF IsPlaces
<1> HIDE DEF value
<1>5. \A n \in 0 .. m : u[n] = value(n)
  BY <1>4
<1>6. 0 \in 0 .. m /\ \A n \in 1 .. m : n \in 0 .. m /\ n # 0
  OBVIOUS
<1>7. u[0] = <<>>
  BY <1>5, <1>6 DEF value
<1>8. \A n \in 1 .. m : u[n] = IF s[f].lines[n].item = kind THEN Append(u[n - 1], <<f, n>>)
                               ELSE u[n - 1]
  BY <1>5, <1>6 DEF value
<1> QED
  BY <1>1, <1>3, <1>7, <1>8

\* They are the lines of the kind, each once.
ArePlaces(s, f, kind, n, x) ==
    /\ x \in Seq(AllPlaces(s))
    /\ ToSet(x) = LinesOfKind(s, f, kind, n)
    /\ Distinct(x)

\* A new element after different ones.
LEMMA DistinctAppended ==
    ASSUME NEW T, NEW x \in Seq(T), NEW a \in T, Distinct(x), a \notin ToSet(x)
    PROVE  Distinct(Append(x, a))
<1>1. PICK n \in Nat : n = Len(x)
  OBVIOUS
<1>2. PICK z : z = Append(x, a)
  OBVIOUS
<1>3. Len(z) = n + 1 /\ z[n + 1] = a /\ \A i \in 1 .. n : z[i] = x[i]
  BY <1>1, <1>2
<1>4. \A i \in 1 .. n : x[i] # a
  <2>1. DOMAIN x = 1 .. n
    BY <1>1
  <2> QED
    BY <2>1 DEF ToSet
<1>5. \A i, j \in 1 .. n + 1 : z[i] = z[j] => i = j
  <2> SUFFICES ASSUME NEW i \in 1 .. n + 1, NEW j \in 1 .. n + 1, z[i] = z[j]
               PROVE  i = j
    OBVIOUS
  <2>1. CASE i \in 1 .. n /\ j \in 1 .. n
    BY <1>1, <1>3, <2>1 DEF Distinct
  <2>2. CASE i = n + 1 /\ j \in 1 .. n
    BY <1>3, <1>4, <2>2
  <2>3. CASE j = n + 1 /\ i \in 1 .. n
    BY <1>3, <1>4, <2>3
  <2> QED
    BY <2>1, <2>2, <2>3
<1> QED
  BY <1>2, <1>3, <1>5 DEF Distinct

\* The places of a kind are the lines of the kind, each once.
LEMMA PlacesFacts ==
    ASSUME NEW s, IsProgram(s), NEW f \in Files, NEW kind,
           NEW n \in 0 .. Len(s[f].lines)
    PROVE  ArePlaces(s, f, kind, n, PlacesOf(s, f, kind)[n])
<1>1. PICK u : u = PlacesOf(s, f, kind)
  OBVIOUS
<1>2. PICK m \in Nat : m = Len(s[f].lines)
  BY FileFacts
<1>3. /\ u[0] = <<>>
      /\ \A k \in 1 .. m : u[k] = IF s[f].lines[k].item = kind
                                  THEN Append(u[k - 1], <<f, k>>) ELSE u[k - 1]
  BY <1>1, <1>2, PlacesSteps
<1> DEFINE S == {k \in 0 .. m : ArePlaces(s, f, kind, k, u[k])}
<1>4. 0 \in S
  <2>1. ToSet(<<>>) = {} /\ <<>> \in Seq(AllPlaces(s)) /\ Len(<<>>) = 0
    BY DEF ToSet
  <2>2. LinesOfKind(s, f, kind, 0) = {}
    BY DEF LinesOfKind
  <2>3. Distinct(<<>>)
    BY DEF Distinct
  <2> QED
    <3>1. u[0] = <<>>
      BY <1>3
    <3>2. ArePlaces(s, f, kind, 0, u[0])
      BY <2>1, <2>2, <2>3, <3>1 DEF ArePlaces
    <3> QED
      BY <3>2
<1>5. ASSUME NEW k \in 1 .. m, k - 1 \in S
      PROVE  k \in S
  <2>1. PICK x : x = u[k - 1]
    OBVIOUS
  <2>2. /\ x \in Seq(AllPlaces(s)) /\ Distinct(x)
        /\ ToSet(x) = LinesOfKind(s, f, kind, k - 1)
    BY <1>5, <2>1 DEF ArePlaces
  <2>3. CASE s[f].lines[k].item = kind
    <3>1. u[k] = Append(x, <<f, k>>)
      BY <1>3, <2>1, <2>3
    <3>2. <<f, k>> \in AllPlaces(s)
      BY <1>2, PlaceIn
    <3>3. <<f, k>> \notin ToSet(x)
      BY <2>2 DEF LinesOfKind
    <3>4. Distinct(u[k])
      BY <2>2, <3>1, <3>2, <3>3, DistinctAppended
    <3>5. ToSet(u[k]) = ToSet(x) \cup {<<f, k>>} /\ u[k] \in Seq(AllPlaces(s))
      BY <2>2, <3>1, <3>2, ElementsOfAppend
    <3>6. LinesOfKind(s, f, kind, k) = LinesOfKind(s, f, kind, k - 1) \cup {<<f, k>>}
      <4>1. {j \in 1 .. k : s[f].lines[j].item = kind}
              = {j \in 1 .. k - 1 : s[f].lines[j].item = kind} \cup {k}
        BY <2>3
      <4> QED
        BY <4>1 DEF LinesOfKind
    <3>7. ArePlaces(s, f, kind, k, u[k])
      BY <2>2, <3>4, <3>5, <3>6 DEF ArePlaces
    <3> QED
      BY <3>7
  <2>4. CASE s[f].lines[k].item # kind
    <3>1. u[k] = x
      BY <1>3, <2>1, <2>4
    <3>2. {j \in 1 .. k : s[f].lines[j].item = kind}
            = {j \in 1 .. k - 1 : s[f].lines[j].item = kind}
      BY <2>4
    <3>3. LinesOfKind(s, f, kind, k) = LinesOfKind(s, f, kind, k - 1)
      BY <3>2 DEF LinesOfKind
    <3> QED
      BY <2>2, <3>1, <3>3 DEF ArePlaces
  <2> QED
    BY <2>3, <2>4
<1> HIDE DEF S
<1>6. 0 .. m \subseteq S
  BY <1>4, <1>5, UpTo
<1>7. n \in S
  BY <1>2, <1>6
<1> QED
  BY <1>1, <1>7 DEF S
-----------------------------------------------------------------------------
(***************************************************************************)
(* The data of a sequence of places: the words and the tables of labels that*)
(* the compiler builds from them.                                          *)
(***************************************************************************)
LineOf(s, p) == s[p[1]].lines[p[2]]

\* Assembler!NextLine(f, n) and the labels of Assembler!Defined, of the program s
NextOf(s, f, n) ==
    LET later == {k \in n + 1 .. Len(s[f].lines) : ~IsBlank(s[f].lines[k])}
    IN  IF later = {} THEN 0 ELSE Min(later)

StandsBefore(s, l, p) ==
    \/ LineOf(s, p).label = l
    \/ \E n \in 1 .. p[2] - 1 :
          /\ s[p[1]].lines[n].label = l
          /\ s[p[1]].lines[n].item = "none"
          /\ NextOf(s, p[1], n) = p[2]

LabelsAt(s, p) == {l \in Labels : StandsBefore(s, l, p)}

\* The words of the items and what is recorded for them.
CodeCell(s) ==
    [p \in AllPlaces(s) |->
        [origin |-> <<p[1], p[2], 0>>,
         addr   |-> IF LineOf(s, p).use = NoLabel THEN LineOf(s, p).arg ELSE 0]]
PartsOf(s) ==
    [p \in AllPlaces(s) |-> [k \in 1 .. LineOf(s, p).arg + 1 |-> <<p[1], p[2], k - 1>>]]
ConstantCell == [o \in Origins |-> [origin |-> o, addr |-> 0]]

LabelMark(s) == [p \in AllPlaces(s) |-> LabelsAt(s, p)]
UseMark(s)   == [p \in AllPlaces(s) |-> {LineOf(s, p).use} \ {NoLabel}]
WordMark(s)  == [o \in Origins |-> IF o[3] = 1 THEN LabelsAt(s, <<o[1], o[2]>>) ELSE {}]

Words(s, constants) == FlattenSeq(Mapped(constants, PartsOf(s)))

\* What compiling these commands, constants and entrypoint directives collects.
DataOf(s, commands, constants, ends) ==
    [commandsLabels  |-> Marks(commands, LabelMark(s)),
     constantsLabels |-> Marks(Words(s, constants), WordMark(s)),
     entrypointLabel |-> IF ends = <<>> THEN NoLabel ELSE LineOf(s, ends[1]).use,
     usages          |-> Marks(commands, UseMark(s)),
     entrypoint      |-> IF ends = <<>> THEN NoAddress
                         ELSE IF LineOf(s, ends[1]).use = NoLabel
                         THEN LineOf(s, ends[1]).arg ELSE 0,
     code            |-> Mapped(commands, CodeCell(s)),
     constants       |-> Mapped(Words(s, constants), ConstantCell)]

\* The line at a place.
LEMMA LineType ==
    ASSUME NEW s, IsProgram(s), NEW p \in AllPlaces(s)
    PROVE  /\ LineOf(s, p) \in Line /\ LineOf(s, p).arg \in Nat
           /\ LineOf(s, p).use \in MaybeLabel /\ LineOf(s, p).label \in MaybeLabel
<1>1. p[1] \in Files /\ p[2] \in 1 .. Len(s[p[1]].lines)
  BY PlaceOf
<1>2. LineOf(s, p) \in Line
  BY <1>1, FileFacts DEF LineOf
<1> QED
  BY <1>2 DEF Line

\* The origins of the words of a constant, its type first.
LEMMA PartsFacts ==
    ASSUME NEW s, IsProgram(s), NEW p \in AllPlaces(s)
    PROVE  /\ PartsOf(s)[p] = [k \in 1 .. LineOf(s, p).arg + 1 |-> <<p[1], p[2], k - 1>>]
           /\ PartsOf(s)[p] \in Seq(Origins)
           /\ Len(PartsOf(s)[p]) = LineOf(s, p).arg + 1
           /\ DOMAIN PartsOf(s)[p] = 1 .. LineOf(s, p).arg + 1
           /\ \A k \in 1 .. LineOf(s, p).arg + 1 : PartsOf(s)[p][k] = <<p[1], p[2], k - 1>>
<1>1. p[1] \in Files /\ p[2] \in Nat \ {0}
  BY PlaceOf
<1>2. PICK n \in Nat : n = LineOf(s, p).arg + 1
  BY LineType
<1>3. PICK x : x = PartsOf(s)[p]
  OBVIOUS
<1>4. x = [k \in 1 .. n |-> <<p[1], p[2], k - 1>>]
  BY <1>2, <1>3 DEF PartsOf
<1>5. \A k \in 1 .. n : <<p[1], p[2], k - 1>> \in Origins
  BY <1>1 DEF Origins
<1>6. x \in [1 .. n -> Origins]
  BY <1>4, <1>5
<1>7. x \in Seq(Origins)
  BY <1>6, SeqDef
<1>8. Len(x) = n
  BY <1>6, <1>7, LenProperties
<1> QED
  BY <1>2, <1>3, <1>4, <1>7, <1>8

\* What is taken of the places and of the origins.
LEMMA MarkTypes ==
    ASSUME NEW s, IsProgram(s)
    PROVE  /\ IsMap(LabelMark(s), AllPlaces(s), SUBSET Labels)
           /\ IsMap(UseMark(s), AllPlaces(s), SUBSET Labels)
           /\ IsMap(WordMark(s), Origins, SUBSET Labels)
           /\ IsMap(CodeCell(s), AllPlaces(s), Cell)
           /\ IsMap(PartsOf(s), AllPlaces(s), Seq(Origins))
           /\ IsMap(ConstantCell, Origins, Cell)
<1>1. \A p : LabelsAt(s, p) \subseteq Labels
  BY DEF LabelsAt
<1>2. IsMap(LabelMark(s), AllPlaces(s), SUBSET Labels)
  BY <1>1 DEF LabelMark, IsMap
<1>3. IsMap(WordMark(s), Origins, SUBSET Labels)
  BY <1>1 DEF WordMark, IsMap
<1>4. \A p \in AllPlaces(s) : {LineOf(s, p).use} \ {NoLabel} \subseteq Labels
  BY LineType DEF MaybeLabel
<1>5. IsMap(UseMark(s), AllPlaces(s), SUBSET Labels)
  BY <1>4 DEF UseMark, IsMap
<1>6. IsMap(ConstantCell, Origins, Cell)
  BY DEF ConstantCell, Cell, IsMap
<1>7. ASSUME NEW p \in AllPlaces(s)
      PROVE  [origin |-> <<p[1], p[2], 0>>,
              addr   |-> IF LineOf(s, p).use = NoLabel THEN LineOf(s, p).arg ELSE 0] \in Cell
  <2>1. p[1] \in Files /\ p[2] \in Nat \ {0} /\ LineOf(s, p).arg \in Nat
    BY PlaceOf, LineType
  <2> QED
    BY <2>1 DEF Cell, Origins
<1>8. IsMap(CodeCell(s), AllPlaces(s), Cell)
  BY <1>7 DEF CodeCell, IsMap
<1>9. IsMap(PartsOf(s), AllPlaces(s), Seq(Origins))
  <2>1. \A p \in AllPlaces(s) : PartsOf(s)[p] \in Seq(Origins)
    BY PartsFacts
  <2>2. PartsOf(s) = [p \in AllPlaces(s) |-> PartsOf(s)[p]]
    BY DEF PartsOf
  <2> QED
    BY <2>1, <2>2 DEF IsMap
<1> QED
  BY <1>2, <1>3, <1>5, <1>6, <1>8, <1>9

\* FlattenAppended and FlattenJoined with their operators named.
LEMMA FlattenPlus ==
    ASSUME NEW T, NEW ss \in Seq(Seq(T)), NEW x \in Seq(T)
    PROVE  FlattenSeq(Plus(ss, x)) = Join(FlattenSeq(ss), x)
BY FlattenAppended DEF Plus, Join

\* See FlattenPlus.
LEMMA FlattenJoin ==
    ASSUME NEW T, NEW ss \in Seq(Seq(T)), NEW tt \in Seq(Seq(T))
    PROVE  FlattenSeq(Join(ss, tt)) = Join(FlattenSeq(ss), FlattenSeq(tt))
BY FlattenJoined DEF Join

\* The words of the constants.
LEMMA WordsType ==
    ASSUME NEW s, IsProgram(s), NEW x \in Seq(AllPlaces(s))
    PROVE  Words(s, x) \in Seq(Origins) /\ Mapped(x, PartsOf(s)) \in Seq(Seq(Origins))
<1>1. IsMap(PartsOf(s), AllPlaces(s), Seq(Origins))
  BY MarkTypes
<1>2. Mapped(x, PartsOf(s)) \in Seq(Seq(Origins))
  BY <1>1, MappedType
<1> QED
  BY <1>2, FlattenType DEF Words

\* No constant has no words,
LEMMA WordsOfNothing ==
    ASSUME NEW s
    PROVE  Words(s, <<>>) = <<>>
<1>1. Mapped(<<>>, PartsOf(s)) = <<>>
  <2>1. DOMAIN <<>> = {}
    OBVIOUS
  <2> QED
    BY <2>1 DEF Mapped
<1> QED
  BY <1>1, FlattenNothing DEF Words

\* one more constant adds its own,
LEMMA WordsAppended ==
    ASSUME NEW s, IsProgram(s), NEW x \in Seq(AllPlaces(s)), NEW p \in AllPlaces(s)
    PROVE  Words(s, Plus(x, p)) = Join(Words(s, x), PartsOf(s)[p])
<1>1. IsMap(PartsOf(s), AllPlaces(s), Seq(Origins))
  BY MarkTypes
<1>2. Mapped(x, PartsOf(s)) \in Seq(Seq(Origins)) /\ PartsOf(s)[p] \in Seq(Origins)
  BY <1>1, MappedType, PartsFacts
<1>3. Mapped(Plus(x, p), PartsOf(s)) = Plus(Mapped(x, PartsOf(s)), PartsOf(s)[p])
  BY <1>1, MappedAppended
<1> QED
  BY <1>2, <1>3, FlattenPlus DEF Words

\* and the constants of a second file theirs.
LEMMA WordsJoined ==
    ASSUME NEW s, IsProgram(s), NEW x \in Seq(AllPlaces(s)), NEW y \in Seq(AllPlaces(s))
    PROVE  Words(s, Join(x, y)) = Join(Words(s, x), Words(s, y))
<1>1. IsMap(PartsOf(s), AllPlaces(s), Seq(Origins))
  BY MarkTypes
<1>2. /\ Mapped(x, PartsOf(s)) \in Seq(Seq(Origins))
      /\ Mapped(y, PartsOf(s)) \in Seq(Seq(Origins))
  BY <1>1, MappedType
<1>3. Mapped(Join(x, y), PartsOf(s)) = Join(Mapped(x, PartsOf(s)), Mapped(y, PartsOf(s)))
  BY <1>1, MappedJoined
<1> QED
  BY <1>2, <1>3, FlattenJoin DEF Words

\* Nothing compiled.
LEMMA DataOfNothing ==
    ASSUME NEW s
    PROVE  DataOf(s, <<>>, <<>>, <<>>) = EmptyData
<1>1. \A c : Mapped(<<>>, c) = <<>>
  <2>1. DOMAIN <<>> = {}
    OBVIOUS
  <2> QED
    BY <2>1 DEF Mapped
<1>2. \A m : Marks(<<>>, m) = {}
  BY MarksOfNothing
<1> QED
  BY <1>1, <1>2, WordsOfNothing DEF DataOf, EmptyData

\* A label, or no label, as the set of those that stand there.
OneLabel(label) == IF label = NoLabel THEN {} ELSE {label}

\* A label at an address, when there is one.
LEMMA AtOneLabel ==
    ASSUME NEW label, NEW a
    PROVE  At(label, a) = Put(OneLabel(label), a)
BY DEF At, OneLabel, Put

\* The fields of the data.
LEMMA DataParts ==
    ASSUME NEW s, NEW c, NEW k, NEW e
    PROVE  LET d == DataOf(s, c, k, e)
           IN  /\ d.commandsLabels = Marks(c, LabelMark(s))
               /\ d.constantsLabels = Marks(Words(s, k), WordMark(s))
               /\ d.usages = Marks(c, UseMark(s))
               /\ d.code = Mapped(c, CodeCell(s))
               /\ d.constants = Mapped(Words(s, k), ConstantCell)
               /\ d.entrypoint = IF e = <<>> THEN NoAddress
                                 ELSE IF LineOf(s, e[1]).use = NoLabel
                                 THEN LineOf(s, e[1]).arg ELSE 0
               /\ d.entrypointLabel = IF e = <<>> THEN NoLabel ELSE LineOf(s, e[1]).use
BY DEF DataOf

\* One word of code for each command.
LEMMA DataLengths ==
    ASSUME NEW s, IsProgram(s), NEW c \in Seq(AllPlaces(s)), NEW k \in Seq(AllPlaces(s)),
           NEW e
    PROVE  /\ Len(DataOf(s, c, k, e).code) = Len(c)
           /\ Len(DataOf(s, c, k, e).constants) = Len(Words(s, k))
<1>1. Words(s, k) \in Seq(Origins)
  BY WordsType
<1>2. IsMap(CodeCell(s), AllPlaces(s), Cell) /\ IsMap(ConstantCell, Origins, Cell)
  BY MarkTypes
<1>3. Len(Mapped(c, CodeCell(s))) = Len(c)
  <2>1. IsMapped(Mapped(c, CodeCell(s)), c, CodeCell(s), Cell)
    BY <1>2, MappedIs
  <2> QED
    BY <2>1 DEF IsMapped
<1>4. Len(Mapped(Words(s, k), ConstantCell)) = Len(Words(s, k))
  <2>1. IsMapped(Mapped(Words(s, k), ConstantCell), Words(s, k), ConstantCell, Cell)
    BY <1>1, <1>2, MappedIs
  <2> QED
    BY <2>1 DEF IsMapped
<1> QED
  BY <1>3, <1>4, DataParts

\* A command adds its cell, its labels and its use.
LEMMA CommandData ==
    ASSUME IsProgram(source), NEW c \in Seq(AllPlaces(source)),
           NEW k \in Seq(AllPlaces(source)), NEW e,
           NEW f \in Files, NEW n \in 1 .. Len(source[f].lines), NEW label,
           LabelsAt(source, <<f, n>>) = OneLabel(label)
    PROVE  AddCommand(DataOf(source, c, k, e), label, f, n)
             = DataOf(source, Plus(c, <<f, n>>), k, e)
<1>1. PICK p : p = <<f, n>>
  OBVIOUS
<1>2. p \in AllPlaces(source) /\ p[1] = f /\ p[2] = n
  BY <1>1, PlaceIn
<1>3. PICK line : line = source[f].lines[n]
  OBVIOUS
<1>4. LineOf(source, p) = line
  BY <1>2, <1>3 DEF LineOf
<1>5. PICK size : size = Len(c)
  OBVIOUS
<1>6. PICK d, new : d = DataOf(source, c, k, e) /\ new = DataOf(source, Plus(c, p), k, e)
  OBVIOUS
<1>7. Len(d.code) = size
  BY <1>5, <1>6, DataLengths
<1>8. /\ IsMap(LabelMark(source), AllPlaces(source), SUBSET Labels)
      /\ IsMap(UseMark(source), AllPlaces(source), SUBSET Labels)
      /\ IsMap(CodeCell(source), AllPlaces(source), Cell)
  BY MarkTypes
<1>9. new.commandsLabels = d.commandsLabels \cup At(label, size)
  <2>1. Marks(Plus(c, p), LabelMark(source))
          = MarksWith(c, LabelMark(source), LabelMark(source)[p])
    BY <1>2, <1>8, MarksAppended
  <2>2. LabelMark(source)[p] = OneLabel(label)
    BY <1>1, <1>2 DEF LabelMark
  <2>3. At(label, size) = Put(LabelMark(source)[p], size)
    BY <2>2, AtOneLabel
  <2> QED
    BY <1>5, <1>6, <2>1, <2>3, DataParts DEF MarksWith
<1>10. new.usages = d.usages \cup At(line.use, size)
  <2>1. Marks(Plus(c, p), UseMark(source))
          = MarksWith(c, UseMark(source), UseMark(source)[p])
    BY <1>2, <1>8, MarksAppended
  <2>2. UseMark(source)[p] = OneLabel(line.use)
    BY <1>2, <1>4 DEF UseMark, OneLabel
  <2>3. At(line.use, size) = Put(UseMark(source)[p], size)
    BY <2>2, AtOneLabel
  <2> QED
    BY <1>5, <1>6, <2>1, <2>3, DataParts DEF MarksWith
<1>11. new.code = Append(d.code, [origin |-> <<f, n, 0>>,
                                  addr |-> IF line.use = NoLabel THEN line.arg ELSE 0])
  <2>1. Mapped(Plus(c, p), CodeCell(source)) = Plus(Mapped(c, CodeCell(source)), CodeCell(source)[p])
    BY <1>2, <1>8, MappedAppended
  <2>2. CodeCell(source)[p] = [origin |-> <<f, n, 0>>,
                               addr |-> IF line.use = NoLabel THEN line.arg ELSE 0]
    BY <1>2, <1>4 DEF CodeCell
  <2> QED
    BY <1>6, <2>1, <2>2, DataParts DEF Plus
<1>12. /\ new.constantsLabels = d.constantsLabels /\ new.constants = d.constants
       /\ new.entrypoint = d.entrypoint /\ new.entrypointLabel = d.entrypointLabel
  BY <1>6, DataParts
<1>13. /\ new = [commandsLabels |-> new.commandsLabels,
                 constantsLabels |-> new.constantsLabels,
                 entrypointLabel |-> new.entrypointLabel, usages |-> new.usages,
                 entrypoint |-> new.entrypoint, code |-> new.code,
                 constants |-> new.constants]
       /\ d = [commandsLabels |-> d.commandsLabels,
               constantsLabels |-> d.constantsLabels,
               entrypointLabel |-> d.entrypointLabel, usages |-> d.usages,
               entrypoint |-> d.entrypoint, code |-> d.code,
               constants |-> d.constants]
  BY <1>6 DEF DataOf
<1>14. AddCommand(d, label, f, n)
         = [d EXCEPT !.commandsLabels = d.commandsLabels \cup At(label, size),
                     !.usages = d.usages \cup At(line.use, size),
                     !.code = Append(d.code, [origin |-> <<f, n, 0>>,
                                  addr |-> IF line.use = NoLabel THEN line.arg ELSE 0])]
  BY <1>3, <1>7 DEF AddCommand
<1>15. AddCommand(d, label, f, n)
         = [d EXCEPT !.commandsLabels = new.commandsLabels,
                     !.usages = new.usages, !.code = new.code]
  BY <1>9, <1>10, <1>11, <1>14
<1>16. AddCommand(d, label, f, n) = new
  BY <1>12, <1>13, <1>15
<1> QED
  BY <1>1, <1>6, <1>16

\* The label of a constant is at its value, the word after its type.
LEMMA MarksOfParts ==
    ASSUME NEW s, IsProgram(s), NEW p \in AllPlaces(s), LineOf(s, p).arg > 0
    PROVE  Marks(PartsOf(s)[p], WordMark(s)) = Put(LabelsAt(s, p), 1)
<1>1. PICK size \in Nat : size = LineOf(s, p).arg + 1 /\ size > 1
  BY LineType
<1>2. PICK x : x = PartsOf(s)[p]
  OBVIOUS
<1>3. DOMAIN x = 1 .. size /\ \A k \in 1 .. size : x[k] = <<p[1], p[2], k - 1>>
  BY <1>1, <1>2, PartsFacts
<1>4. p = <<p[1], p[2]>> /\ p[1] \in Files /\ p[2] \in Nat \ {0}
  BY PlaceOf
<1>5. ASSUME NEW k \in 1 .. size
      PROVE  WordMark(s)[x[k]] = IF k = 2 THEN LabelsAt(s, p) ELSE {}
  <2>1. PICK o : o = <<p[1], p[2], k - 1>>
    OBVIOUS
  <2>2. o \in Origins /\ o[1] = p[1] /\ o[2] = p[2] /\ o[3] = k - 1
    BY <1>4, <2>1 DEF Origins
  <2>3. WordMark(s)[o] = IF o[3] = 1 THEN LabelsAt(s, <<o[1], o[2]>>) ELSE {}
    BY <2>2 DEF WordMark
  <2>4. WordMark(s)[o] = IF k - 1 = 1 THEN LabelsAt(s, p) ELSE {}
    BY <1>4, <2>2, <2>3
  <2>5. k - 1 = 1 <=> k = 2
    OBVIOUS
  <2> QED
    BY <1>3, <2>1, <2>4, <2>5
<1>6. PICK here : here = LabelsAt(s, p)
  OBVIOUS
<1>7. here \subseteq Labels
  BY <1>6 DEF LabelsAt
<1>8. ASSUME NEW l \in Labels, NEW a \in Nat
      PROVE  <<l, a>> \in Marks(x, WordMark(s)) <=> <<l, a>> \in {<<j, 1>> : j \in here}
  <2>1. <<l, a>> \in Marks(x, WordMark(s)) <=> a + 1 \in 1 .. size /\ l \in WordMark(s)[x[a + 1]]
    BY <1>3 DEF Marks
  <2>2. <<l, a>> \in {<<j, 1>> : j \in here} <=> a = 1 /\ l \in here
    OBVIOUS
  <2>3. CASE a = 1
    <3>1. a + 1 \in 1 .. size /\ a + 1 = 2
      BY <1>1, <2>3
    <3>2. WordMark(s)[x[a + 1]] = here
      BY <1>5, <1>6, <3>1
    <3> QED
      BY <2>1, <2>2, <2>3, <3>1, <3>2
  <2>4. CASE a # 1
    <3>1. a + 1 \in 1 .. size => WordMark(s)[x[a + 1]] = {}
      <4>1. a + 1 # 2
        BY <2>4
      <4> QED
        BY <1>5, <4>1
    <3> QED
      BY <2>1, <2>2, <2>4, <3>1
  <2> QED
    BY <2>3, <2>4
<1>9. Marks(x, WordMark(s)) \subseteq Labels \X Nat
  BY DEF Marks
<1>10. {<<j, 1>> : j \in here} \subseteq Labels \X Nat
  BY <1>7
<1>11. Marks(x, WordMark(s)) = {<<j, 1>> : j \in here}
  BY <1>8, <1>9, <1>10
<1> QED
  BY <1>2, <1>6, <1>11 DEF Put

\* The label of a constant is at its value, behind the word of its type.
LEMMA WordsAndLabels ==
    ASSUME NEW s, IsProgram(s), NEW k \in Seq(AllPlaces(s)), NEW p \in AllPlaces(s),
           LineOf(s, p).arg > 0
    PROVE  Marks(Words(s, Plus(k, p)), WordMark(s))
             = Marks(Words(s, k), WordMark(s))
                 \cup Put(LabelsAt(s, p), Len(Words(s, k)) + 1)
<1>1. Words(s, Plus(k, p)) = Join(Words(s, k), PartsOf(s)[p])
  BY WordsAppended
<1>2. Words(s, k) \in Seq(Origins) /\ PartsOf(s)[p] \in Seq(Origins)
  BY WordsType, PartsFacts
<1>3. Marks(Join(Words(s, k), PartsOf(s)[p]), WordMark(s))
        = MarksOfBoth(Words(s, k), PartsOf(s)[p], WordMark(s))
  BY <1>2, MarksJoined
<1>4. PICK n \in Nat : n = Len(Words(s, k))
  BY <1>2
<1>5. PICK here : here = LabelsAt(s, p)
  OBVIOUS
<1>6. Shift(Put(here, 1), n) = Put(here, n + 1)
  <2>1. \A l \in here : <<l, 1>>[1] = l /\ <<l, 1>>[2] + n = n + 1
    OBVIOUS
  <2> QED
    BY <2>1 DEF Shift, Put
<1>7. Marks(PartsOf(s)[p], WordMark(s)) = Put(here, 1)
  BY <1>5, MarksOfParts
<1> QED
  BY <1>1, <1>3, <1>4, <1>5, <1>6, <1>7 DEF MarksOfBoth

\* The data are their fields.
LEMMA DataIs ==
    ASSUME NEW s, NEW c, NEW k, NEW e, NEW d, d = DataOf(s, c, k, e)
    PROVE  d = [commandsLabels |-> d.commandsLabels,
                constantsLabels |-> d.constantsLabels,
                entrypointLabel |-> d.entrypointLabel, usages |-> d.usages,
                entrypoint |-> d.entrypoint, code |-> d.code,
                constants |-> d.constants]
BY DEF DataOf

\* A constant adds its words and its labels.
LEMMA ConstantData ==
    ASSUME IsProgram(source), NEW c \in Seq(AllPlaces(source)),
           NEW k \in Seq(AllPlaces(source)), NEW e,
           NEW f \in Files, NEW n \in 1 .. Len(source[f].lines), NEW label,
           LabelsAt(source, <<f, n>>) = OneLabel(label), source[f].lines[n].arg > 0
    PROVE  AddConstant(DataOf(source, c, k, e), label, f, n)
             = DataOf(source, c, Plus(k, <<f, n>>), e)
<1>1. PICK p : p = <<f, n>>
  OBVIOUS
<1>2. p \in AllPlaces(source) /\ p[1] = f /\ p[2] = n
  BY <1>1, PlaceIn
<1>3. PICK arg \in Nat : arg = source[f].lines[n].arg /\ arg > 0
  BY FileFacts DEF Line
<1>4. LineOf(source, p).arg = arg
  BY <1>2, <1>3 DEF LineOf
<1>5. PICK w, parts : w = Words(source, k) /\ parts = PartsOf(source)[p]
  OBVIOUS
<1>6. w \in Seq(Origins) /\ parts \in Seq(Origins) /\ DOMAIN parts = 1 .. arg + 1
      /\ \A i \in 1 .. arg + 1 : parts[i] = <<f, n, i - 1>>
  <2>1. w \in Seq(Origins)
    BY <1>5, WordsType
  <2>2. /\ PartsOf(source)[p] \in Seq(Origins)
        /\ DOMAIN PartsOf(source)[p] = 1 .. LineOf(source, p).arg + 1
        /\ \A i \in 1 .. LineOf(source, p).arg + 1 :
              PartsOf(source)[p][i] = <<p[1], p[2], i - 1>>
    BY <1>2, PartsFacts
  <2> QED
    BY <1>2, <1>4, <1>5, <2>1, <2>2
<1>7. PICK d, new : d = DataOf(source, c, k, e) /\ new = DataOf(source, c, Plus(k, p), e)
  OBVIOUS
<1>8. Len(d.constants) = Len(w)
  BY <1>5, <1>7, DataLengths
<1>9. new.constantsLabels = d.constantsLabels \cup At(label, Len(d.constants) + 1)
  <2>1. Marks(Words(source, Plus(k, p)), WordMark(source))
          = Marks(Words(source, k), WordMark(source))
              \cup Put(LabelsAt(source, p), Len(Words(source, k)) + 1)
    BY <1>2, <1>3, <1>4, WordsAndLabels
  <2>2. Put(LabelsAt(source, p), Len(Words(source, k)) + 1) = At(label, Len(d.constants) + 1)
    BY <1>1, <1>5, <1>8, AtOneLabel
  <2> QED
    BY <1>7, <2>1, <2>2, DataParts
<1>10. new.constants = d.constants \o [i \in 1 .. arg + 1 |->
                                          [origin |-> <<f, n, i - 1>>, addr |-> 0]]
  <2>1. Words(source, Plus(k, p)) = Join(w, parts)
    BY <1>2, <1>5, WordsAppended
  <2>2. IsMap(ConstantCell, Origins, Cell)
    BY MarkTypes
  <2>3. Mapped(Join(w, parts), ConstantCell)
          = Join(Mapped(w, ConstantCell), Mapped(parts, ConstantCell))
    BY <1>6, <2>2, MappedJoined
  <2>4. Mapped(parts, ConstantCell)
          = [i \in 1 .. arg + 1 |-> [origin |-> <<f, n, i - 1>>, addr |-> 0]]
    <3>1. \A i \in 1 .. arg + 1 : parts[i] \in Origins
      BY <1>6
    <3>2. \A i \in 1 .. arg + 1 :
             ConstantCell[parts[i]] = [origin |-> <<f, n, i - 1>>, addr |-> 0]
      BY <1>6, <3>1 DEF ConstantCell
    <3> QED
      BY <1>6, <3>2 DEF Mapped
  <2>5. new.constants = Join(d.constants, Mapped(parts, ConstantCell))
    BY <1>5, <1>7, <2>1, <2>3, DataParts
  <2> QED
    BY <2>4, <2>5 DEF Join
<1>11. /\ new.commandsLabels = d.commandsLabels /\ new.code = d.code
       /\ new.usages = d.usages
       /\ new.entrypoint = d.entrypoint /\ new.entrypointLabel = d.entrypointLabel
  BY <1>7, DataParts
<1>12. /\ new = [commandsLabels |-> new.commandsLabels,
                 constantsLabels |-> new.constantsLabels,
                 entrypointLabel |-> new.entrypointLabel, usages |-> new.usages,
                 entrypoint |-> new.entrypoint, code |-> new.code,
                 constants |-> new.constants]
       /\ d = [commandsLabels |-> d.commandsLabels,
               constantsLabels |-> d.constantsLabels,
               entrypointLabel |-> d.entrypointLabel, usages |-> d.usages,
               entrypoint |-> d.entrypoint, code |-> d.code,
               constants |-> d.constants]
  BY <1>7 DEF DataOf
<1>13. AddConstant(d, label, f, n)
         = [d EXCEPT !.constantsLabels = d.constantsLabels \cup At(label, Len(d.constants) + 1),
                     !.constants = d.constants \o [i \in 1 .. arg + 1 |->
                                      [origin |-> <<f, n, i - 1>>, addr |-> 0]]]
  BY <1>3 DEF AddConstant
<1>14. AddConstant(d, label, f, n)
         = [d EXCEPT !.constantsLabels = new.constantsLabels,
                     !.constants = new.constants]
  BY <1>9, <1>10, <1>13
<1>15. AddConstant(d, label, f, n) = new
  BY <1>11, <1>12, <1>14
<1> QED
  BY <1>1, <1>7, <1>15

\* The first entrypoint directive.
LEMMA EntrypointData ==
    ASSUME NEW s, NEW c, NEW k, NEW p
    PROVE  AddEntrypoint(DataOf(s, c, k, <<>>), LineOf(s, p))
             = DataOf(s, c, k, Plus(<<>>, p))
<1>1. PICK d, new : d = DataOf(s, c, k, <<>>) /\ new = DataOf(s, c, k, Plus(<<>>, p))
  OBVIOUS
<1>2. PICK e : e = Plus(<<>>, p)
  OBVIOUS
<1>3. e # <<>> /\ e[1] = p
  <2>1. PICK S : S = {p}
    OBVIOUS
  <2>2. <<>> \in Seq(S) /\ p \in S
    BY <2>1
  <2>3. Append(<<>>, p) # <<>> /\ Append(<<>>, p)[Len(<<>>) + 1] = p /\ Len(<<>>) = 0
    BY <2>2, AppendProperties
  <2> QED
    BY <1>2, <2>3 DEF Plus
<1>4. PICK line : line = LineOf(s, p)
  OBVIOUS
<1>5. d.entrypoint = NoAddress /\ d.entrypointLabel = NoLabel
  BY <1>1, DataParts
<1>6. /\ new.entrypoint = IF line.use = NoLabel THEN line.arg ELSE 0
      /\ new.entrypointLabel = line.use
  BY <1>1, <1>2, <1>3, <1>4, DataParts
<1>7. /\ new.commandsLabels = d.commandsLabels /\ new.code = d.code
      /\ new.constantsLabels = d.constantsLabels /\ new.constants = d.constants
      /\ new.usages = d.usages
  BY <1>1, DataParts
<1>8. /\ new = [commandsLabels |-> new.commandsLabels,
                constantsLabels |-> new.constantsLabels,
                entrypointLabel |-> new.entrypointLabel, usages |-> new.usages,
                entrypoint |-> new.entrypoint, code |-> new.code,
                constants |-> new.constants]
      /\ d = [commandsLabels |-> d.commandsLabels,
              constantsLabels |-> d.constantsLabels,
              entrypointLabel |-> d.entrypointLabel, usages |-> d.usages,
              entrypoint |-> d.entrypoint, code |-> d.code,
              constants |-> d.constants]
  BY <1>1 DEF DataOf
<1>9. AddEntrypoint(d, line)
        = [d EXCEPT !.entrypointLabel = IF line.use = NoLabel THEN d.entrypointLabel ELSE line.use,
                    !.entrypoint = IF line.use = NoLabel THEN line.arg ELSE 0]
  BY DEF AddEntrypoint
<1>10. AddEntrypoint(d, line) = [d EXCEPT !.entrypointLabel = new.entrypointLabel,
                                          !.entrypoint = new.entrypoint]
  BY <1>5, <1>6, <1>9
<1>11. AddEntrypoint(d, line) = new
  BY <1>7, <1>8, <1>10
<1> QED
  BY <1>1, <1>4, <1>11

\* Two results merged are those of the items one after the other.
LEMMA MergeData ==
    ASSUME NEW s, IsProgram(s),
           NEW c \in Seq(AllPlaces(s)), NEW k \in Seq(AllPlaces(s)), NEW e \in Seq(AllPlaces(s)),
           NEW c2 \in Seq(AllPlaces(s)), NEW k2 \in Seq(AllPlaces(s)), NEW e2 \in Seq(AllPlaces(s)),
           e = <<>> \/ e2 = <<>>
    PROVE  Merge(DataOf(s, c, k, e), DataOf(s, c2, k2, e2))
             = DataOf(s, Join(c, c2), Join(k, k2), Join(e, e2))
<1>1. PICK d, used, new : /\ d = DataOf(s, c, k, e) /\ used = DataOf(s, c2, k2, e2)
                          /\ new = DataOf(s, Join(c, c2), Join(k, k2), Join(e, e2))
  OBVIOUS
<1>2. PICK w, w2 : w = Words(s, k) /\ w2 = Words(s, k2)
  OBVIOUS
<1>3. w \in Seq(Origins) /\ w2 \in Seq(Origins) /\ Words(s, Join(k, k2)) = Join(w, w2)
  BY <1>2, WordsType, WordsJoined
<1>4. Len(d.code) = Len(c) /\ Len(d.constants) = Len(w)
  BY <1>1, <1>2, DataLengths
<1>5. IsMap(CodeCell(s), AllPlaces(s), Cell) /\ IsMap(ConstantCell, Origins, Cell)
  BY MarkTypes
<1>6. new.commandsLabels = d.commandsLabels \cup Shift(used.commandsLabels, Len(d.code))
  <2>1. Marks(Join(c, c2), LabelMark(s)) = MarksOfBoth(c, c2, LabelMark(s))
    BY MarksJoined
  <2> QED
    BY <1>1, <1>4, <2>1, DataParts DEF MarksOfBoth
<1>7. new.usages = d.usages \cup Shift(used.usages, Len(d.code))
  <2>1. Marks(Join(c, c2), UseMark(s)) = MarksOfBoth(c, c2, UseMark(s))
    BY MarksJoined
  <2> QED
    BY <1>1, <1>4, <2>1, DataParts DEF MarksOfBoth
<1>8. new.constantsLabels = d.constantsLabels \cup Shift(used.constantsLabels, Len(d.constants))
  <2>1. Marks(Join(w, w2), WordMark(s)) = MarksOfBoth(w, w2, WordMark(s))
    BY <1>3, MarksJoined
  <2> QED
    BY <1>1, <1>2, <1>3, <1>4, <2>1, DataParts DEF MarksOfBoth
<1>9. new.code = d.code \o used.code
  <2>1. Mapped(Join(c, c2), CodeCell(s)) = Join(Mapped(c, CodeCell(s)), Mapped(c2, CodeCell(s)))
    BY <1>5, MappedJoined
  <2>2. new.code = Join(d.code, used.code)
    BY <1>1, <2>1, DataParts
  <2> QED
    BY <2>2 DEF Join
<1>10. new.constants = d.constants \o used.constants
  <2>1. Mapped(Join(w, w2), ConstantCell) = Join(Mapped(w, ConstantCell), Mapped(w2, ConstantCell))
    BY <1>3, <1>5, MappedJoined
  <2>2. new.constants = Join(d.constants, used.constants)
    BY <1>1, <1>2, <1>3, <2>1, DataParts
  <2> QED
    BY <2>2 DEF Join
<1>11. /\ new.entrypoint = IF used.entrypoint # NoAddress THEN used.entrypoint
                           ELSE d.entrypoint
       /\ new.entrypointLabel = IF used.entrypointLabel # NoLabel
                                THEN used.entrypointLabel ELSE d.entrypointLabel
  <2>1. CASE e2 = <<>>
    <3>1. Join(e, e2) = e
      BY <2>1 DEF Join
    <3>2. used.entrypoint = NoAddress /\ used.entrypointLabel = NoLabel
      BY <1>1, <2>1, DataParts
    <3>3. new.entrypoint = d.entrypoint /\ new.entrypointLabel = d.entrypointLabel
      BY <1>1, <3>1, DataParts
    <3> QED
      BY <3>2, <3>3
  <2>2. CASE e2 # <<>> /\ e = <<>>
    <3>1. Join(e, e2) = e2
      BY <2>2 DEF Join
    <3>2. d.entrypoint = NoAddress /\ d.entrypointLabel = NoLabel
      BY <1>1, <2>2, DataParts
    <3>3. new.entrypoint = used.entrypoint /\ new.entrypointLabel = used.entrypointLabel
      BY <1>1, <3>1, DataParts
    <3>4. used.entrypoint # NoAddress
      <4>1. e2[1] \in AllPlaces(s)
        BY <2>2
      <4>2. LineOf(s, e2[1]).arg \in Nat
        BY <4>1, LineType
      <4>3. used.entrypoint \in Nat
        BY <1>1, <2>2, <4>2, DataParts
      <4> QED
        BY <4>3 DEF NoAddress
    <3> QED
      BY <3>2, <3>3, <3>4
  <2> QED
    BY <2>1, <2>2
<1>12. new = [commandsLabels |-> new.commandsLabels,
              constantsLabels |-> new.constantsLabels,
              entrypointLabel |-> new.entrypointLabel, usages |-> new.usages,
              entrypoint |-> new.entrypoint, code |-> new.code,
              constants |-> new.constants]
  BY <1>1 DEF DataOf
<1>13. Merge(d, used) = new
  BY <1>6, <1>7, <1>8, <1>9, <1>10, <1>11, <1>12, Zenon DEF Merge, MergedConstantsLabels
<1> QED
  BY <1>1, <1>13
-----------------------------------------------------------------------------
(***************************************************************************)
(* The labels of the data are those before the items.                      *)
(***************************************************************************)
\* l is in the table, l is a label of an element.
HasEntry(table, l) == \E e \in table : e[1] = l
HasElement(x, m, l) == \E a \in ToSet(x) : l \in m[a]

\* The labels of a table are those of the elements.
LEMMA FirstsOfMarks ==
    ASSUME NEW X, NEW x \in Seq(X), NEW m, IsMap(m, X, SUBSET Labels), NEW l
    PROVE  HasEntry(Marks(x, m), l) <=> HasElement(x, m, l)
<1>1. PICK n \in Nat : n = Len(x)
  OBVIOUS
<1>2. DOMAIN x = 1 .. n /\ \A i \in 1 .. n : x[i] \in X
  BY <1>1
<1>3. ASSUME NEW e \in Marks(x, m), e[1] = l
      PROVE  \E a \in ToSet(x) : l \in m[a]
  <2>1. e[2] + 1 \in 1 .. n /\ e[1] \in m[x[e[2] + 1]]
    BY <1>2 DEF Marks
  <2>2. x[e[2] + 1] \in ToSet(x)
    BY <1>2, <2>1 DEF ToSet
  <2> QED
    BY <1>3, <2>1, <2>2
<1>4. ASSUME NEW a \in ToSet(x), l \in m[a]
      PROVE  \E e \in Marks(x, m) : e[1] = l
  <2>1. PICK i \in 1 .. n : a = x[i]
    BY <1>2 DEF ToSet
  <2>2. PICK e : e = <<l, i - 1>>
    OBVIOUS
  <2>3. e[1] = l /\ e[2] = i - 1 /\ e[2] + 1 = i /\ i - 1 \in Nat
    BY <2>2
  <2>4. l \in Labels
    BY <1>2, <1>4, <2>1 DEF IsMap
  <2>5. e \in Labels \X Nat
    BY <2>2, <2>3, <2>4
  <2>6. e \in Marks(x, m)
    BY <1>2, <1>4, <2>1, <2>3, <2>5 DEF Marks
  <2> QED
    BY <2>3, <2>6
<1> QED
  BY <1>3, <1>4 DEF HasEntry, HasElement

\* Which words the constants have.
LEMMA WordsElements ==
    ASSUME NEW s, IsProgram(s), NEW k \in Seq(AllPlaces(s)), NEW o
    PROVE  o \in ToSet(Words(s, k))
             <=> \E p \in ToSet(k) : \E i \in 1 .. LineOf(s, p).arg + 1 : o = <<p[1], p[2], i - 1>>
<1>1. PICK n \in Nat : n = Len(k)
  OBVIOUS
<1>2. DOMAIN k = 1 .. n /\ \A i \in 1 .. n : k[i] \in AllPlaces(s)
  BY <1>1
<1>3. PICK x : x = Mapped(k, PartsOf(s))
  OBVIOUS
<1>4. IsMapped(x, k, PartsOf(s), Seq(Origins))
  <2>1. IsMap(PartsOf(s), AllPlaces(s), Seq(Origins))
    BY MarkTypes
  <2> QED
    BY <1>3, <2>1, MappedIs
<1>5. x \in Seq(Seq(Origins)) /\ Len(x) = n /\ \A i \in 1 .. n : x[i] = PartsOf(s)[k[i]]
  BY <1>1, <1>4 DEF IsMapped
<1>6. ToSet(Words(s, k)) = UNION {ToSet(x[i]) : i \in 1 .. n}
  <2>1. x \in Seq(Seq(Origins)) /\ Len(x) = n
    BY <1>5
  <2>2. ToSet(FlattenSeq(x)) = UNION {ToSet(x[i]) : i \in 1 .. Len(x)}
    BY <2>1, FlattenElements, Zenon
  <2> QED
    BY <1>3, <2>1, <2>2, Zenon DEF Words
<1>7. ASSUME NEW i \in 1 .. n
      PROVE  o \in ToSet(x[i])
               <=> \E j \in 1 .. LineOf(s, k[i]).arg + 1 : o = <<k[i][1], k[i][2], j - 1>>
  <2>1. PICK p \in AllPlaces(s) : p = k[i]
    BY <1>2
  <2>2. PICK y : y = PartsOf(s)[p]
    OBVIOUS
  <2>3. /\ DOMAIN y = 1 .. LineOf(s, p).arg + 1
        /\ \A j \in 1 .. LineOf(s, p).arg + 1 : y[j] = <<p[1], p[2], j - 1>>
    BY <2>2, PartsFacts
  <2>4. o \in ToSet(y) <=> \E j \in 1 .. LineOf(s, p).arg + 1 : o = y[j]
    BY <2>3 DEF ToSet
  <2>5. o \in ToSet(y) <=> \E j \in 1 .. LineOf(s, p).arg + 1 : o = <<p[1], p[2], j - 1>>
    BY <2>3, <2>4
  <2> QED
    BY <1>5, <2>1, <2>2, <2>5
<1>8. ASSUME o \in ToSet(Words(s, k))
      PROVE  \E p \in ToSet(k) : \E i \in 1 .. LineOf(s, p).arg + 1 : o = <<p[1], p[2], i - 1>>
  <2>1. PICK i \in 1 .. n : o \in ToSet(x[i])
    BY <1>6, <1>8
  <2>2. k[i] \in ToSet(k)
    BY <1>2 DEF ToSet
  <2> QED
    BY <1>7, <2>1, <2>2
<1>9. ASSUME NEW p \in ToSet(k), NEW j \in 1 .. LineOf(s, p).arg + 1, o = <<p[1], p[2], j - 1>>
      PROVE  o \in ToSet(Words(s, k))
  <2>1. PICK i \in 1 .. n : p = k[i]
    BY <1>2 DEF ToSet
  <2>2. o \in ToSet(x[i])
    BY <1>7, <1>9, <2>1
  <2> QED
    BY <1>6, <2>2
<1> QED
  BY <1>8, <1>9

\* Every constant has a value.
ConstantsHaveValues(s, k) == \A p \in ToSet(k) : LineOf(s, p).arg > 0

\* The labels a result knows are those of its commands and constants.
LEMMA SeenInData ==
    ASSUME NEW s, IsProgram(s), NEW c \in Seq(AllPlaces(s)), NEW k \in Seq(AllPlaces(s)),
           NEW e, ConstantsHaveValues(s, k), NEW l
    PROVE  l \in SeenLabels(DataOf(s, c, k, e))
             <=> \E p \in ToSet(c) \cup ToSet(k) : l \in LabelsAt(s, p)
<1>1. PICK w : w = Words(s, k)
  OBVIOUS
<1>2. w \in Seq(Origins)
  BY <1>1, WordsType
<1>3. PICK A, B : A = Marks(c, LabelMark(s)) /\ B = Marks(w, WordMark(s))
  OBVIOUS
<1>4. l \in SeenLabels(DataOf(s, c, k, e)) <=> \/ \E x \in A : x[1] = l
                                               \/ \E x \in B : x[1] = l
  <2>1. SeenLabels(DataOf(s, c, k, e)) = {x[1] : x \in A \cup B}
    BY <1>1, <1>3, DataParts DEF SeenLabels
  <2> QED
    BY <2>1
<1>5. (\E x \in A : x[1] = l) <=> \E p \in ToSet(c) : l \in LabelsAt(s, p)
  <2>1. IsMap(LabelMark(s), AllPlaces(s), SUBSET Labels)
    BY MarkTypes
  <2>2. (\E x \in A : x[1] = l) <=> \E p \in ToSet(c) : l \in LabelMark(s)[p]
    <3>1. HasEntry(Marks(c, LabelMark(s)), l) <=> HasElement(c, LabelMark(s), l)
      BY <2>1, FirstsOfMarks
    <3> QED
      BY <1>3, <3>1 DEF HasEntry, HasElement
  <2>3. \A p \in ToSet(c) : LabelMark(s)[p] = LabelsAt(s, p)
    BY DEF ToSet, LabelMark
  <2> QED
    BY <2>2, <2>3
<1>6. (\E x \in B : x[1] = l) <=> \E p \in ToSet(k) : l \in LabelsAt(s, p)
  <2>1. IsMap(WordMark(s), Origins, SUBSET Labels)
    BY MarkTypes
  <2>2. (\E x \in B : x[1] = l) <=> \E o \in ToSet(w) : l \in WordMark(s)[o]
    <3>1. HasEntry(Marks(w, WordMark(s)), l) <=> HasElement(w, WordMark(s), l)
      BY <1>2, <2>1, FirstsOfMarks
    <3> QED
      BY <1>3, <3>1 DEF HasEntry, HasElement
  <2>3. ASSUME NEW p \in ToSet(k)
        PROVE  p \in AllPlaces(s) /\ p = <<p[1], p[2]>> /\ LineOf(s, p).arg \in Nat
    <3>1. p \in AllPlaces(s)
      BY DEF ToSet
    <3> QED
      BY <3>1, PlaceOf, LineType
  <2>4. ASSUME NEW o \in ToSet(w), l \in WordMark(s)[o]
        PROVE  \E p \in ToSet(k) : l \in LabelsAt(s, p)
    <3>0. PICK p \in ToSet(k) : \E i \in 1 .. LineOf(s, p).arg + 1 : o = <<p[1], p[2], i - 1>>
      BY <1>1, WordsElements
    <3>1. PICK i \in 1 .. LineOf(s, p).arg + 1 : o = <<p[1], p[2], i - 1>>
      BY <3>0
    <3>2. o \in Origins
      BY <1>2 DEF ToSet
    <3>3. WordMark(s)[o] = IF o[3] = 1 THEN LabelsAt(s, <<o[1], o[2]>>) ELSE {}
      BY <3>2 DEF WordMark
    <3>4. o[1] = p[1] /\ o[2] = p[2]
      BY <3>1
    <3> QED
      BY <2>3, <2>4, <3>3, <3>4
  <2>5. ASSUME NEW p \in ToSet(k), l \in LabelsAt(s, p)
        PROVE  \E o \in ToSet(w) : l \in WordMark(s)[o]
    <3>1. LineOf(s, p).arg \in Nat /\ LineOf(s, p).arg > 0
      BY <2>3 DEF ConstantsHaveValues
    <3>2. 2 \in 1 .. LineOf(s, p).arg + 1 /\ 2 - 1 = 1
      BY <3>1
    <3>3. PICK o : o = <<p[1], p[2], 2 - 1>>
      OBVIOUS
    <3>4. o \in ToSet(w)
      BY <1>1, <3>2, <3>3, WordsElements
    <3>5. o \in Origins
      BY <1>2, <3>4 DEF ToSet
    <3>6. o[1] = p[1] /\ o[2] = p[2] /\ o[3] = 1
      BY <3>3
    <3>7. WordMark(s)[o] = LabelsAt(s, <<o[1], o[2]>>)
      BY <3>5, <3>6 DEF WordMark
    <3>8. WordMark(s)[o] = LabelsAt(s, p)
      BY <2>3, <3>6, <3>7
    <3> QED
      BY <2>5, <3>4, <3>8
  <2> QED
    BY <2>2, <2>4, <2>5
<1> QED
  BY <1>4, <1>5, <1>6
-----------------------------------------------------------------------------
(***************************************************************************)
(* A label that stands alone waits for the item after it.                  *)
(***************************************************************************)
\* The lines m .. n of the file are blank.
Blanks(s, f, m, n) == \A k \in m .. n : IsBlank(s[f].lines[k])

\* A label stands alone on line k, and up to line n nothing follows it.
Waits(s, f, k, n) ==
    /\ s[f].lines[k].item = "none" /\ s[f].lines[k].label # NoLabel
    /\ Blanks(s, f, k + 1, n)

\* The line m is the next one after line n.
Follows(s, f, n, m) ==
    IF m = 0 THEN Blanks(s, f, n + 1, Len(s[f].lines))
    ELSE n < m /\ ~IsBlank(s[f].lines[m]) /\ Blanks(s, f, n + 1, m - 1)

\* NextLine finds that line, or 0.
LEMMA NextOfIs ==
    ASSUME NEW s, IsProgram(s), NEW f \in Files, NEW n \in 0 .. Len(s[f].lines)
    PROVE  NextOf(s, f, n) \in 0 .. Len(s[f].lines) /\ Follows(s, f, n, NextOf(s, f, n))
<1>1. PICK length \in Nat : length = Len(s[f].lines)
  BY FileFacts
<1>2. PICK later : later = {k \in n + 1 .. length : ~IsBlank(s[f].lines[k])}
  OBVIOUS
<1>3. NextOf(s, f, n) = IF later = {} THEN 0 ELSE Min(later)
  BY <1>1, <1>2 DEF NextOf
<1>4. CASE later = {}
  BY <1>1, <1>2, <1>3, <1>4 DEF Follows, Blanks
<1>5. CASE later # {}
  <2>1. later \in SUBSET Nat
    BY <1>1, <1>2
  <2>2. PICK m : m = Min(later)
    OBVIOUS
  <2>3. m \in later /\ \A x \in later : m <= x
    BY <1>5, <2>1, <2>2, MinFacts
  <2>4. m \in n + 1 .. length /\ ~IsBlank(s[f].lines[m])
    BY <1>2, <2>3
  <2>5. ASSUME NEW k \in n + 1 .. m - 1
        PROVE  IsBlank(s[f].lines[k])
    <3>1. k \in n + 1 .. length /\ ~(m <= k)
      BY <1>1, <2>4
    <3> QED
      BY <1>2, <2>3, <3>1
  <2>6. NextOf(s, f, n) = m
    BY <1>3, <1>5, <2>2
  <2> QED
    BY <1>1, <2>4, <2>5, <2>6 DEF Follows, Blanks
<1> QED
  BY <1>4, <1>5

\* Only one line follows.
LEMMA FollowsOnce ==
    ASSUME NEW s, IsProgram(s), NEW f \in Files, NEW n \in 0 .. Len(s[f].lines),
           NEW m \in 0 .. Len(s[f].lines), Follows(s, f, n, m)
    PROVE  NextOf(s, f, n) = m
<1>1. PICK length \in Nat : length = Len(s[f].lines)
  BY FileFacts
<1>2. PICK k : k = NextOf(s, f, n)
  OBVIOUS
<1>3. k \in 0 .. length /\ Follows(s, f, n, k)
  BY <1>1, <1>2, NextOfIs
<1>4. CASE k = 0 /\ m # 0
  BY <1>1, <1>3, <1>4 DEF Follows, Blanks
<1>5. CASE k # 0 /\ m = 0
  BY <1>1, <1>3, <1>5 DEF Follows, Blanks
<1>6. CASE k # 0 /\ m # 0
  <2>1. ~(k < m)
    BY <1>1, <1>3, <1>6 DEF Follows, Blanks
  <2>2. ~(m < k)
    BY <1>1, <1>3, <1>6 DEF Follows, Blanks
  <2> QED
    BY <1>1, <1>2, <1>3, <2>1, <2>2
<1> QED
  BY <1>2, <1>4, <1>5, <1>6

\* What becomes of a label that waits when one more line is read.
LEMMA WaitsMore ==
    ASSUME NEW s, NEW f, NEW n \in Nat, NEW k \in 1 .. n
    PROVE  Waits(s, f, k, n + 1) <=> Waits(s, f, k, n) /\ IsBlank(s[f].lines[n + 1])
BY DEF Waits, Blanks

\* A lone label on the last line waits.
LEMMA WaitsLast ==
    ASSUME NEW s, NEW f, NEW n \in Nat
    PROVE  Waits(s, f, n, n)
             <=> s[f].lines[n].item = "none" /\ s[f].lines[n].label # NoLabel
BY DEF Waits, Blanks

\* The line that ends the waiting is the next one.
LEMMA WaitedFor ==
    ASSUME NEW s, IsProgram(s), NEW f \in Files, NEW n \in Nat, NEW k \in 1 .. n,
           n + 1 <= Len(s[f].lines), Waits(s, f, k, n), ~IsBlank(s[f].lines[n + 1])
    PROVE  NextOf(s, f, k) = n + 1
<1>1. PICK length \in Nat : length = Len(s[f].lines)
  BY FileFacts
<1>2. k \in 0 .. Len(s[f].lines) /\ n + 1 \in 0 .. Len(s[f].lines)
  BY <1>1
<1>3. n + 1 - 1 = n /\ k < n + 1 /\ n + 1 # 0
  OBVIOUS
<1>4. Follows(s, f, k, n + 1)
  BY <1>3 DEF Follows, Waits
<1> QED
  BY <1>2, <1>4, FollowsOnce

\* Nothing follows a label that waits at the end of its file.
LEMMA WaitsInVain ==
    ASSUME NEW s, IsProgram(s), NEW f \in Files, NEW k \in 1 .. Len(s[f].lines),
           Waits(s, f, k, Len(s[f].lines))
    PROVE  NextOf(s, f, k) = 0
<1>1. PICK length \in Nat : length = Len(s[f].lines)
  BY FileFacts
<1>2. k \in 0 .. Len(s[f].lines) /\ 0 \in 0 .. Len(s[f].lines)
  BY <1>1
<1>3. Follows(s, f, k, 0)
  BY DEF Follows, Waits
<1> QED
  BY <1>2, <1>3, FollowsOnce

\* The labels of an item are the one on its line and the one that waits for it.
LEMMA LabelsOfItem ==
    ASSUME NEW s, IsProgram(s), NEW f \in Files, NEW n \in Nat, n + 1 <= Len(s[f].lines),
           ~IsBlank(s[f].lines[n + 1]), NEW l
    PROVE  StandsBefore(s, l, <<f, n + 1>>)
             <=> \/ s[f].lines[n + 1].label = l
                 \/ \E k \in 1 .. n : /\ s[f].lines[k].label = l
                                      /\ s[f].lines[k].item = "none"
                                      /\ Blanks(s, f, k + 1, n)
<1>1. PICK length \in Nat : length = Len(s[f].lines)
  BY FileFacts
<1>2. StandsBefore(s, l, <<f, n + 1>>)
        <=> \/ s[f].lines[n + 1].label = l
            \/ \E k \in 1 .. n : /\ s[f].lines[k].label = l
                                 /\ s[f].lines[k].item = "none"
                                 /\ NextOf(s, f, k) = n + 1
  <2>1. PICK p : p = <<f, n + 1>>
    OBVIOUS
  <2>2. p[1] = f /\ p[2] = n + 1 /\ p[2] - 1 = n
    BY <2>1
  <2>3. StandsBefore(s, l, p)
        <=> \/ s[f].lines[n + 1].label = l
            \/ \E k \in 1 .. n : /\ s[f].lines[k].label = l
                                 /\ s[f].lines[k].item = "none"
                                 /\ NextOf(s, f, k) = n + 1
    BY <2>2 DEF StandsBefore, LineOf
  <2> QED
    BY <2>1, <2>3
<1>3. ASSUME NEW k \in 1 .. n
      PROVE  NextOf(s, f, k) = n + 1 <=> Blanks(s, f, k + 1, n)
  <2>1. k \in 0 .. Len(s[f].lines) /\ n + 1 \in 0 .. Len(s[f].lines)
    BY <1>1
  <2>2. n + 1 - 1 = n /\ k < n + 1 /\ n + 1 # 0
    OBVIOUS
  <2>3. Follows(s, f, k, n + 1) <=> Blanks(s, f, k + 1, n)
    BY <2>2 DEF Follows
  <2> QED
    BY <2>1, <2>3, FollowsOnce, NextOfIs
<1> QED
  BY <1>2, <1>3
-----------------------------------------------------------------------------
(***************************************************************************)
(* What a worker knows of a file that it has read up to a line.            *)
(***************************************************************************)
\* No constant of the program is without a value.
Sized(s) == \A f \in Files : \A n \in DOMAIN s[f].lines :
                s[f].lines[n].item = "constant" => s[f].lines[n].arg > 0

IsItem(s, f, k) == s[f].lines[k].item \in {"command", "constant"}

\* Assembler!LabelsStandBeforeItems for the label of line k
Settled(s, f, k) ==
    LET next == NextOf(s, f, k)
    IN  s[f].lines[k].label # NoLabel =>
            \/ IsItem(s, f, k)
            \/ /\ s[f].lines[k].item = "none"
               /\ next # 0 /\ s[f].lines[next].label = NoLabel /\ IsItem(s, f, next)

\* label is the one that waits after line n; those before stand before items.
Pending(s, f, n, label) ==
    /\ label \in MaybeLabel
    /\ \A k \in 1 .. n : Settled(s, f, k) \/ Waits(s, f, k, n)
    /\ \A k \in 1 .. n : Waits(s, f, k, n) => s[f].lines[k].label = label
    /\ label # NoLabel => \E k \in 1 .. n : Waits(s, f, k, n)

\* No two items up to line n have a label in common.
LabelsOnce(s, f, n) ==
    \A j, k \in 1 .. n :
        \A l : /\ IsItem(s, f, j) /\ IsItem(s, f, k)
               /\ l \in LabelsAt(s, <<f, j>>) /\ l \in LabelsAt(s, <<f, k>>)
               => j = k

\* What the lines up to n give.
FileData(s, f, n) ==
    DataOf(s, PlacesOf(s, f, "command")[n], PlacesOf(s, f, "constant")[n],
              PlacesOf(s, f, "end")[n])

NoneBad(s, f, n) == \A k \in 1 .. n : s[f].lines[k].item # "bad"

\* The lines up to n were read without an error: they gave d, and label waits.
ReadSoFar(s, f, n, label, d) ==
    /\ n \in 0 .. Len(s[f].lines)
    /\ NextOf(s, f, 0) # 0
    /\ Pending(s, f, n, label)
    /\ NoneBad(s, f, n)
    /\ LabelsOnce(s, f, n)
    /\ Len(PlacesOf(s, f, "end")[n]) <= 1
    /\ d = FileData(s, f, n)

\* The places up to a line are places,
LEMMA PlacesType ==
    ASSUME NEW s, IsProgram(s), NEW f \in Files, NEW kind, NEW n \in 0 .. Len(s[f].lines)
    PROVE  PlacesOf(s, f, kind)[n] \in Seq(AllPlaces(s))
BY PlacesFacts DEF ArePlaces

\* the lines of the kind up to there,
LEMMA PlacesElements ==
    ASSUME NEW s, IsProgram(s), NEW f \in Files, NEW kind, NEW n \in 0 .. Len(s[f].lines)
    PROVE  ToSet(PlacesOf(s, f, kind)[n]) = LinesOfKind(s, f, kind, n)
BY PlacesFacts DEF ArePlaces

\* and one more if the next line is of the kind.
LEMMA PlacesStep ==
    ASSUME NEW s, IsProgram(s), NEW f \in Files, NEW kind, NEW n \in Nat,
           n + 1 <= Len(s[f].lines)
    PROVE  PlacesOf(s, f, kind)[n + 1]
             = IF s[f].lines[n + 1].item = kind
               THEN Plus(PlacesOf(s, f, kind)[n], <<f, n + 1>>)
               ELSE PlacesOf(s, f, kind)[n]
<1>1. Len(s[f].lines) \in Nat
  BY FileFacts
<1>2. n + 1 \in 1 .. Len(s[f].lines) /\ (n + 1) - 1 = n
  BY <1>1
<1> QED
  BY <1>2, PlacesSteps DEF Plus

\* The labels of the item on the line after those read.
LEMMA ItemLabels ==
    ASSUME NEW s, IsProgram(s), NEW f \in Files, NEW n \in Nat, n + 1 <= Len(s[f].lines),
           ~IsBlank(s[f].lines[n + 1]), NEW label, Pending(s, f, n, label),
           s[f].lines[n + 1].label = NoLabel \/ label = NoLabel
    PROVE  LabelsAt(s, <<f, n + 1>>)
             = OneLabel(IF s[f].lines[n + 1].label # NoLabel THEN s[f].lines[n + 1].label
                                                             ELSE label)
<1>1. PICK own : own = s[f].lines[n + 1].label
  OBVIOUS
<1>2. own \in MaybeLabel /\ label \in MaybeLabel
  <2>1. n + 1 \in 1 .. Len(s[f].lines)
    BY FileFacts
  <2>2. s[f].lines[n + 1] \in Line
    BY <2>1, FileFacts
  <2> QED
    BY <1>1, <2>2 DEF Line, Pending
<1>3. ASSUME NEW l \in Labels
      PROVE  StandsBefore(s, l, <<f, n + 1>>)
               <=> own = l \/ \E k \in 1 .. n : s[f].lines[k].label = l /\ Waits(s, f, k, n)
  <2>1. l # NoLabel
    BY LabelsAssumption
  <2> QED
    BY <1>1, <2>1, LabelsOfItem DEF Waits
<1>4. ASSUME NEW l \in Labels
      PROVE  (\E k \in 1 .. n : s[f].lines[k].label = l /\ Waits(s, f, k, n)) <=> label = l
  <2>1. l # NoLabel
    BY LabelsAssumption
  <2> QED
    BY <2>1 DEF Pending
<1>5. LabelsAt(s, <<f, n + 1>>) = {l \in Labels : own = l \/ label = l}
  BY <1>3, <1>4 DEF LabelsAt
<1>6. {l \in Labels : own = l \/ label = l} = OneLabel(IF own # NoLabel THEN own ELSE label)
  BY <1>1, <1>2, LabelsAssumption DEF OneLabel, MaybeLabel
<1> QED
  BY <1>1, <1>5, <1>6

\* The labels recorded so far are those of the items.
LEMMA SeenSoFar ==
    ASSUME NEW s, IsProgram(s), Sized(s), NEW f \in Files, NEW n \in 0 .. Len(s[f].lines),
           NEW l
    PROVE  l \in SeenLabels(FileData(s, f, n))
             <=> \E k \in 1 .. n : IsItem(s, f, k) /\ l \in LabelsAt(s, <<f, k>>)
<1>1. PICK c, k, e : /\ c = PlacesOf(s, f, "command")[n]
                     /\ k = PlacesOf(s, f, "constant")[n]
                     /\ e = PlacesOf(s, f, "end")[n]
  OBVIOUS
<1>2. c \in Seq(AllPlaces(s)) /\ k \in Seq(AllPlaces(s))
  BY <1>1, PlacesType
<1>3. /\ ToSet(c) = LinesOfKind(s, f, "command", n)
      /\ ToSet(k) = LinesOfKind(s, f, "constant", n)
  BY <1>1, PlacesElements
<1>4. ConstantsHaveValues(s, k)
  <2>1. ASSUME NEW j \in 1 .. n, s[f].lines[j].item = "constant"
        PROVE  LineOf(s, <<f, j>>).arg > 0
    <3>1. j \in DOMAIN s[f].lines
      BY FileFacts
    <3> QED
      BY <2>1, <3>1 DEF LineOf, Sized
  <2> QED
    BY <1>3, <2>1 DEF ConstantsHaveValues, LinesOfKind
<1>5. l \in SeenLabels(DataOf(s, c, k, e))
        <=> \E p \in ToSet(c) \cup ToSet(k) : l \in LabelsAt(s, p)
  BY <1>2, <1>4, SeenInData
<1>6. ToSet(c) \cup ToSet(k) = {<<f, j>> : j \in {i \in 1 .. n : IsItem(s, f, i)}}
  BY <1>3 DEF LinesOfKind, IsItem
<1> QED
  BY <1>1, <1>5, <1>6 DEF FileData

\* The next line of a file.
LEMMA LinesAre ==
    ASSUME NEW s, IsProgram(s), NEW f \in Files, NEW n \in Nat, n + 1 <= Len(s[f].lines)
    PROVE  /\ s[f].lines[n + 1] \in Line /\ s[f].lines[n + 1].label \in MaybeLabel
           /\ n + 1 \in 1 .. Len(s[f].lines) /\ n \in 0 .. Len(s[f].lines)
           /\ n + 1 \in 0 .. Len(s[f].lines)
           /\ n + 1 \in DOMAIN s[f].lines
<1>1. n + 1 \in 1 .. Len(s[f].lines) /\ n \in 0 .. Len(s[f].lines)
  BY FileFacts
<1>2. s[f].lines[n + 1] \in Line
  BY <1>1, FileFacts
<1> QED
  BY <1>1, <1>2, FileFacts DEF Line

\* A label waits on over a blank line,
LEMMA PendingBlank ==
    ASSUME NEW s, NEW f, NEW n \in Nat, NEW label, Pending(s, f, n, label),
           IsBlank(s[f].lines[n + 1])
    PROVE  Pending(s, f, n + 1, label)
<1>1. \A k \in 1 .. n : Waits(s, f, k, n + 1) <=> Waits(s, f, k, n)
  BY WaitsMore
<1>2. ~Waits(s, f, n + 1, n + 1) /\ Settled(s, f, n + 1)
  BY DEF Waits, Settled, IsBlank
<1>3. \A k \in 1 .. n + 1 : k \in 1 .. n \/ k = n + 1
  OBVIOUS
<1>4. \A k \in 1 .. n + 1 : Settled(s, f, k) \/ Waits(s, f, k, n + 1)
  BY <1>1, <1>2, <1>3 DEF Pending
<1>5. \A k \in 1 .. n + 1 : Waits(s, f, k, n + 1) => s[f].lines[k].label = label
  BY <1>1, <1>2, <1>3 DEF Pending
<1>6. label # NoLabel => \E k \in 1 .. n + 1 : Waits(s, f, k, n + 1)
  BY <1>1 DEF Pending
<1> QED
  BY <1>4, <1>5, <1>6 DEF Pending

\* starts to wait on a line of its own,
LEMMA PendingLabel ==
    ASSUME NEW s, NEW f, NEW n \in Nat, Pending(s, f, n, NoLabel),
           s[f].lines[n + 1].item = "none", s[f].lines[n + 1].label \in Labels
    PROVE  Pending(s, f, n + 1, s[f].lines[n + 1].label)
<1>1. s[f].lines[n + 1].label # NoLabel
  BY LabelsAssumption
<1>2. \A k \in 1 .. n : ~Waits(s, f, k, n)
  BY DEF Pending, Waits
<1>3. \A k \in 1 .. n : Settled(s, f, k) /\ ~Waits(s, f, k, n + 1)
  BY <1>2, WaitsMore DEF Pending
<1>4. Waits(s, f, n + 1, n + 1)
  BY <1>1 DEF Waits, Blanks
<1>5. \A k \in 1 .. n + 1 : k \in 1 .. n \/ k = n + 1
  OBVIOUS
<1>6. n + 1 \in 1 .. n + 1
  OBVIOUS
<1> QED
  BY <1>3, <1>4, <1>5, <1>6 DEF Pending, MaybeLabel

\* and waits no longer when an item follows or the program ends.
LEMMA PendingEnds ==
    ASSUME NEW s, IsProgram(s), NEW f \in Files, NEW n \in Nat, n + 1 <= Len(s[f].lines),
           NEW label, Pending(s, f, n, label), ~IsBlank(s[f].lines[n + 1]),
           \/ IsItem(s, f, n + 1) /\ (s[f].lines[n + 1].label = NoLabel \/ label = NoLabel)
           \/ /\ s[f].lines[n + 1].item = "end"
              /\ s[f].lines[n + 1].label = NoLabel /\ label = NoLabel
    PROVE  Pending(s, f, n + 1, NoLabel)
<1>1. \A k \in 1 .. n : ~Waits(s, f, k, n + 1)
  BY WaitsMore
<1>2. ~Waits(s, f, n + 1, n + 1)
  BY DEF Waits, IsItem
<1>3. Settled(s, f, n + 1)
  BY DEF Settled
<1>4. ASSUME NEW k \in 1 .. n
      PROVE  Settled(s, f, k)
  <2>1. CASE Waits(s, f, k, n)
    <3>1. NextOf(s, f, k) = n + 1
      BY <2>1, WaitedFor
    <3>2. s[f].lines[k].label = label /\ s[f].lines[k].item = "none" /\ label # NoLabel
      BY <2>1 DEF Pending, Waits
    <3>3. IsItem(s, f, n + 1) /\ s[f].lines[n + 1].label = NoLabel
      BY <3>2
    <3> QED
      BY <3>1, <3>2, <3>3 DEF Settled
  <2>2. CASE ~Waits(s, f, k, n)
    BY <2>2 DEF Pending
  <2> QED
    BY <2>1, <2>2
<1>5. \A k \in 1 .. n + 1 : k \in 1 .. n \/ k = n + 1
  OBVIOUS
<1> QED
  BY <1>1, <1>2, <1>3, <1>4, <1>5 DEF Pending, MaybeLabel

\* The labels stay different when those of the next item are new.
LEMMA LabelsOnceMore ==
    ASSUME NEW s, NEW f, NEW n \in Nat, LabelsOnce(s, f, n),
           ASSUME IsItem(s, f, n + 1), NEW k \in 1 .. n, IsItem(s, f, k), NEW l,
                  l \in LabelsAt(s, <<f, k>>), l \in LabelsAt(s, <<f, n + 1>>)
           PROVE  FALSE
    PROVE  LabelsOnce(s, f, n + 1)
<1>1. \A k \in 1 .. n + 1 : k \in 1 .. n \/ k = n + 1
  OBVIOUS
<1> QED
  BY <1>1 DEF LabelsOnce

\* No line is rejected up to the next one.
LEMMA NoneBadMore ==
    ASSUME NEW s, NEW f, NEW n \in Nat, NoneBad(s, f, n), s[f].lines[n + 1].item # "bad"
    PROVE  NoneBad(s, f, n + 1)
<1>1. \A k \in 1 .. n + 1 : k \in 1 .. n \/ k = n + 1
  OBVIOUS
<1> QED
  BY <1>1 DEF NoneBad

\* Nothing but blank lines was read.
LEMMA NothingRead ==
    ASSUME NEW s, IsProgram(s), NEW f \in Files, NEW n \in 0 .. Len(s[f].lines),
           NextOf(s, f, 0) # 0, Blanks(s, f, 1, n)
    PROVE  ReadSoFar(s, f, n, NoLabel, EmptyData)
<1>1. \A k \in 1 .. n : s[f].lines[k].item = "none" /\ s[f].lines[k].label = NoLabel
  BY DEF Blanks, IsBlank
<1>2. Pending(s, f, n, NoLabel)
  BY <1>1 DEF Pending, Waits, Settled, MaybeLabel
<1>3. NoneBad(s, f, n) /\ LabelsOnce(s, f, n)
  BY <1>1 DEF NoneBad, LabelsOnce, IsItem
<1>4. ASSUME NEW kind \in {"command", "constant", "end"}
      PROVE  PlacesOf(s, f, kind)[n] = <<>>
  <2>1. PICK x : x = PlacesOf(s, f, kind)[n]
    OBVIOUS
  <2>2. LinesOfKind(s, f, kind, n) = {}
    BY <1>1 DEF LinesOfKind
  <2>3. x \in Seq(AllPlaces(s)) /\ ToSet(x) = {}
    BY <2>1, <2>2, PlacesType, PlacesElements
  <2>4. 1 \notin DOMAIN x
    BY <2>3 DEF ToSet
  <2>5. x = <<>>
    BY <2>3, <2>4, NonEmpty
  <2> QED
    BY <2>1, <2>5
<1>5. EmptyData = FileData(s, f, n)
  BY <1>4, DataOfNothing DEF FileData
<1>6. Len(PlacesOf(s, f, "end")[n]) <= 1
  BY <1>4
<1> QED
  BY <1>2, <1>3, <1>5, <1>6 DEF ReadSoFar

\* One line more.
LEMMA LabelRead ==
    ASSUME NEW s, IsProgram(s), NEW f \in Files, NEW n \in Nat, n + 1 <= Len(s[f].lines),
           NEW label, NEW d, ReadSoFar(s, f, n, label, d),
           s[f].lines[n + 1].item = "none",
           s[f].lines[n + 1].label = NoLabel \/ label = NoLabel
    PROVE  ReadSoFar(s, f, n + 1, IF s[f].lines[n + 1].label # NoLabel
                                  THEN s[f].lines[n + 1].label ELSE label, d)
<1>1. /\ s[f].lines[n + 1].label \in MaybeLabel /\ n + 1 \in 0 .. Len(s[f].lines)
  BY LinesAre
<1>2. Pending(s, f, n, label)
  BY DEF ReadSoFar
<1>3. Pending(s, f, n + 1, IF s[f].lines[n + 1].label # NoLabel
                           THEN s[f].lines[n + 1].label ELSE label)
  <2>1. CASE s[f].lines[n + 1].label = NoLabel
    BY <1>2, <2>1, PendingBlank DEF IsBlank
  <2>2. CASE s[f].lines[n + 1].label # NoLabel
    BY <1>1, <1>2, <2>2, PendingLabel DEF MaybeLabel
  <2> QED
    BY <2>1, <2>2
<1>4. LabelsOnce(s, f, n + 1)
  <2>1. LabelsOnce(s, f, n) /\ ~IsItem(s, f, n + 1)
    BY DEF ReadSoFar, IsItem
  <2> QED
    BY <2>1, LabelsOnceMore
<1>5. NoneBad(s, f, n + 1)
  BY NoneBadMore DEF ReadSoFar
<1>6. ASSUME NEW kind \in {"command", "constant", "end"}
      PROVE  PlacesOf(s, f, kind)[n + 1] = PlacesOf(s, f, kind)[n]
  <2>1. s[f].lines[n + 1].item # kind
    OBVIOUS
  <2>2. PlacesOf(s, f, kind)[n + 1]
          = IF s[f].lines[n + 1].item = kind
            THEN Plus(PlacesOf(s, f, kind)[n], <<f, n + 1>>)
            ELSE PlacesOf(s, f, kind)[n]
    BY PlacesStep
  <2> QED
    BY <2>1, <2>2
<1>7. FileData(s, f, n + 1) = FileData(s, f, n)
  BY <1>6 DEF FileData
<1> QED
  BY <1>1, <1>3, <1>4, <1>5, <1>6, <1>7 DEF ReadSoFar
-----------------------------------------------------------------------------
(***************************************************************************)
(* Every kind of line is read rightly.                                     *)
(***************************************************************************)
\* The label before the item on line n, when label waits.
Before(s, f, n, label) ==
    IF s[f].lines[n].label # NoLabel THEN s[f].lines[n].label ELSE label

\* The places of a kind up to the next line.
LEMMA PlacesMore ==
    ASSUME NEW s, IsProgram(s), NEW f \in Files, NEW n \in Nat, n + 1 <= Len(s[f].lines)
    PROVE  PlacesOf(s, f, s[f].lines[n + 1].item)[n + 1]
             = Plus(PlacesOf(s, f, s[f].lines[n + 1].item)[n], <<f, n + 1>>)
<1>1. PICK kind : kind = s[f].lines[n + 1].item
  OBVIOUS
<1>2. PICK m : m = n + 1
  OBVIOUS
<1>3. m \in 1 .. Len(s[f].lines) /\ m - 1 = n
  BY <1>2, LinesAre
<1>4. PlacesOf(s, f, kind)[m]
        = IF s[f].lines[m].item = kind
          THEN Append(PlacesOf(s, f, kind)[m - 1], <<f, m>>)
          ELSE PlacesOf(s, f, kind)[m - 1]
  BY <1>3, PlacesSteps
<1> QED
  BY <1>1, <1>2, <1>3, <1>4 DEF Plus

\* A line of another kind adds no place.
LEMMA PlacesSame ==
    ASSUME NEW s, IsProgram(s), NEW f \in Files, NEW n \in Nat, n + 1 <= Len(s[f].lines),
           NEW kind, s[f].lines[n + 1].item # kind
    PROVE  PlacesOf(s, f, kind)[n + 1] = PlacesOf(s, f, kind)[n]
<1>2. PICK m : m = n + 1
  OBVIOUS
<1>3. m \in 1 .. Len(s[f].lines) /\ m - 1 = n
  BY <1>2, LinesAre
<1>4. PlacesOf(s, f, kind)[m]
        = IF s[f].lines[m].item = kind
          THEN Append(PlacesOf(s, f, kind)[m - 1], <<f, m>>)
          ELSE PlacesOf(s, f, kind)[m - 1]
  BY <1>3, PlacesSteps
<1> QED
  BY <1>2, <1>3, <1>4

\* What an item with a new label leaves as it was.
LEMMA ItemReadPart ==
    ASSUME NEW s, IsProgram(s), Sized(s), NEW f \in Files, NEW n \in Nat,
           n + 1 <= Len(s[f].lines),
           NEW label, NEW d, ReadSoFar(s, f, n, label, d), IsItem(s, f, n + 1),
           s[f].lines[n + 1].label = NoLabel \/ label = NoLabel,
           Before(s, f, n + 1, label) \notin SeenLabels(d)
    PROVE  /\ n + 1 \in 0 .. Len(s[f].lines)
           /\ Pending(s, f, n + 1, NoLabel) /\ LabelsOnce(s, f, n + 1)
           /\ NoneBad(s, f, n + 1)
           /\ PlacesOf(s, f, "end")[n + 1] = PlacesOf(s, f, "end")[n]
           /\ LabelsAt(s, <<f, n + 1>>) = OneLabel(Before(s, f, n + 1, label))
<1>1. ~IsBlank(s[f].lines[n + 1])
  BY DEF IsBlank, IsItem
<1>2. Pending(s, f, n, label) /\ n \in 0 .. Len(s[f].lines) /\ d = FileData(s, f, n)
  BY DEF ReadSoFar
<1>3. Pending(s, f, n + 1, NoLabel)
  BY <1>1, <1>2, PendingEnds
<1>4. LabelsAt(s, <<f, n + 1>>) = OneLabel(Before(s, f, n + 1, label))
  BY <1>1, <1>2, ItemLabels DEF Before
<1>5. NoneBad(s, f, n + 1)
  BY NoneBadMore DEF ReadSoFar, IsItem
<1>6. n + 1 \in 0 .. Len(s[f].lines)
  BY LinesAre
<1>7. PlacesOf(s, f, "end")[n + 1] = PlacesOf(s, f, "end")[n]
  <2>1. s[f].lines[n + 1].item # "end"
    BY DEF IsItem
  <2> QED
    BY <2>1, PlacesSame
<1>8. LabelsOnce(s, f, n + 1)
  <2>1. ASSUME NEW k \in 1 .. n, IsItem(s, f, k), NEW l,
               l \in LabelsAt(s, <<f, k>>), l \in LabelsAt(s, <<f, n + 1>>)
        PROVE  FALSE
    <3>1. l \in SeenLabels(FileData(s, f, n))
      BY <1>2, <2>1, SeenSoFar
    <3>2. l = Before(s, f, n + 1, label)
      BY <1>4, <2>1 DEF OneLabel
    <3> QED
      BY <1>2, <3>1, <3>2
  <2>2. LabelsOnce(s, f, n)
    BY DEF ReadSoFar
  <2> QED
    BY <2>1, <2>2, LabelsOnceMore
<1> QED
  BY <1>3, <1>4, <1>5, <1>6, <1>7, <1>8

\* A command is read with the label before it,
LEMMA CommandRead ==
    ASSUME IsProgram(source), Sized(source), NEW f \in Files, NEW n \in Nat,
           n + 1 <= Len(source[f].lines),
           NEW label, NEW d, ReadSoFar(source, f, n, label, d),
           source[f].lines[n + 1].item = "command",
           source[f].lines[n + 1].label = NoLabel \/ label = NoLabel,
           Before(source, f, n + 1, label) \notin SeenLabels(d)
    PROVE  ReadSoFar(source, f, n + 1, NoLabel,
                     AddCommand(d, Before(source, f, n + 1, label), f, n + 1))
<1>1. PICK before : before = Before(source, f, n + 1, label)
  OBVIOUS
<1>2. IsItem(source, f, n + 1)
  BY DEF IsItem
<1>3. /\ n + 1 \in 0 .. Len(source[f].lines)
      /\ Pending(source, f, n + 1, NoLabel) /\ LabelsOnce(source, f, n + 1)
      /\ NoneBad(source, f, n + 1)
      /\ PlacesOf(source, f, "end")[n + 1] = PlacesOf(source, f, "end")[n]
      /\ LabelsAt(source, <<f, n + 1>>) = OneLabel(before)
  BY <1>1, <1>2, ItemReadPart
<1>4. PICK c, k, e : /\ c = PlacesOf(source, f, "command")[n]
                     /\ k = PlacesOf(source, f, "constant")[n]
                     /\ e = PlacesOf(source, f, "end")[n]
  OBVIOUS
<1>5. PlacesOf(source, f, "command")[n + 1] = Plus(c, <<f, n + 1>>)
  BY <1>4, PlacesMore
<1>6. PlacesOf(source, f, "constant")[n + 1] = k
  BY <1>4, PlacesSame
<1>7. n \in 0 .. Len(source[f].lines) /\ n + 1 \in 1 .. Len(source[f].lines)
  BY LinesAre
<1>8. c \in Seq(AllPlaces(source)) /\ k \in Seq(AllPlaces(source))
  BY <1>4, <1>7, PlacesType
<1>9. AddCommand(DataOf(source, c, k, e), before, f, n + 1)
        = DataOf(source, Plus(c, <<f, n + 1>>), k, e)
  BY <1>3, <1>7, <1>8, CommandData
<1>10. AddCommand(d, before, f, n + 1) = FileData(source, f, n + 1)
  BY <1>3, <1>4, <1>5, <1>6, <1>9 DEF ReadSoFar, FileData
<1> QED
  BY <1>1, <1>3, <1>10 DEF ReadSoFar

\* a constant likewise,
LEMMA ConstantRead ==
    ASSUME IsProgram(source), Sized(source), NEW f \in Files, NEW n \in Nat,
           n + 1 <= Len(source[f].lines),
           NEW label, NEW d, ReadSoFar(source, f, n, label, d),
           source[f].lines[n + 1].item = "constant",
           source[f].lines[n + 1].label = NoLabel \/ label = NoLabel,
           Before(source, f, n + 1, label) \notin SeenLabels(d)
    PROVE  ReadSoFar(source, f, n + 1, NoLabel,
                     AddConstant(d, Before(source, f, n + 1, label), f, n + 1))
<1>1. PICK before : before = Before(source, f, n + 1, label)
  OBVIOUS
<1>2. IsItem(source, f, n + 1)
  BY DEF IsItem
<1>3. /\ n + 1 \in 0 .. Len(source[f].lines)
      /\ Pending(source, f, n + 1, NoLabel) /\ LabelsOnce(source, f, n + 1)
      /\ NoneBad(source, f, n + 1)
      /\ PlacesOf(source, f, "end")[n + 1] = PlacesOf(source, f, "end")[n]
      /\ LabelsAt(source, <<f, n + 1>>) = OneLabel(before)
  BY <1>1, <1>2, ItemReadPart
<1>4. PICK c, k, e : /\ c = PlacesOf(source, f, "command")[n]
                     /\ k = PlacesOf(source, f, "constant")[n]
                     /\ e = PlacesOf(source, f, "end")[n]
  OBVIOUS
<1>5. PlacesOf(source, f, "constant")[n + 1] = Plus(k, <<f, n + 1>>)
  BY <1>4, PlacesMore
<1>6. PlacesOf(source, f, "command")[n + 1] = c
  BY <1>4, PlacesSame
<1>7. /\ n \in 0 .. Len(source[f].lines) /\ n + 1 \in 1 .. Len(source[f].lines)
      /\ n + 1 \in DOMAIN source[f].lines
  BY LinesAre
<1>8. c \in Seq(AllPlaces(source)) /\ k \in Seq(AllPlaces(source))
  BY <1>4, <1>7, PlacesType
<1>9. source[f].lines[n + 1].arg > 0
  BY <1>7 DEF Sized
<1>10. AddConstant(DataOf(source, c, k, e), before, f, n + 1)
         = DataOf(source, c, Plus(k, <<f, n + 1>>), e)
  BY <1>3, <1>7, <1>8, <1>9, ConstantData
<1>11. AddConstant(d, before, f, n + 1) = FileData(source, f, n + 1)
  BY <1>3, <1>4, <1>5, <1>6, <1>10 DEF ReadSoFar, FileData
<1> QED
  BY <1>1, <1>3, <1>11 DEF ReadSoFar

\* An entrypoint directive is there exactly if the entrypoint is.
LEMMA EntrypointOf ==
    ASSUME NEW s, IsProgram(s), NEW c, NEW k, NEW e \in Seq(AllPlaces(s))
    PROVE  DataOf(s, c, k, e).entrypoint = NoAddress <=> e = <<>>
<1>1. CASE e = <<>>
  BY <1>1, DataParts
<1>2. CASE e # <<>>
  <2>1. e[1] \in AllPlaces(s)
    BY <1>2, NonEmpty
  <2>2. LineOf(s, e[1]).arg \in Nat
    BY <2>1, LineType
  <2> QED
    BY <1>2, <2>2, DataParts DEF NoAddress
<1> QED
  BY <1>1, <1>2

\* and the entrypoint, which no label stands before.
LEMMA EndRead ==
    ASSUME IsProgram(source), NEW f \in Files, NEW n \in Nat,
           n + 1 <= Len(source[f].lines), NEW d, ReadSoFar(source, f, n, NoLabel, d),
           source[f].lines[n + 1].item = "end",
           source[f].lines[n + 1].label = NoLabel, d.entrypoint = NoAddress
    PROVE  ReadSoFar(source, f, n + 1, NoLabel, AddEntrypoint(d, source[f].lines[n + 1]))
<1>1. /\ n \in 0 .. Len(source[f].lines) /\ n + 1 \in 1 .. Len(source[f].lines)
      /\ n + 1 \in 0 .. Len(source[f].lines)
  BY LinesAre
<1>2. PICK c, k, e : /\ c = PlacesOf(source, f, "command")[n]
                     /\ k = PlacesOf(source, f, "constant")[n]
                     /\ e = PlacesOf(source, f, "end")[n]
  OBVIOUS
<1>3. e \in Seq(AllPlaces(source)) /\ d = DataOf(source, c, k, e)
  BY <1>1, <1>2, PlacesType DEF ReadSoFar, FileData
<1>4. e = <<>>
  BY <1>3, EntrypointOf
<1>5. PlacesOf(source, f, "end")[n + 1] = Plus(<<>>, <<f, n + 1>>)
  BY <1>2, <1>4, PlacesMore
<1>6. PlacesOf(source, f, "command")[n + 1] = c
  BY <1>2, PlacesSame
<1>7. PlacesOf(source, f, "constant")[n + 1] = k
  BY <1>2, PlacesSame
<1>8. PICK p : p = <<f, n + 1>>
  OBVIOUS
<1>9. LineOf(source, p) = source[f].lines[n + 1]
  BY <1>8 DEF LineOf
<1>10. AddEntrypoint(DataOf(source, c, k, <<>>), LineOf(source, p))
         = DataOf(source, c, k, Plus(<<>>, p))
  BY EntrypointData
<1>11. AddEntrypoint(d, source[f].lines[n + 1]) = FileData(source, f, n + 1)
  BY <1>3, <1>4, <1>5, <1>6, <1>7, <1>8, <1>9, <1>10 DEF FileData
<1>12. Len(Plus(<<>>, <<f, n + 1>>)) <= 1
  BY DEF Plus
<1>13. Pending(source, f, n + 1, NoLabel)
  <2>1. ~IsBlank(source[f].lines[n + 1]) /\ Pending(source, f, n, NoLabel)
    BY DEF IsBlank, ReadSoFar
  <2> QED
    BY <2>1, PendingEnds
<1>14. LabelsOnce(source, f, n + 1)
  <2>1. LabelsOnce(source, f, n) /\ ~IsItem(source, f, n + 1)
    BY DEF ReadSoFar, IsItem
  <2> QED
    BY <2>1, LabelsOnceMore
<1>15. NoneBad(source, f, n + 1)
  BY NoneBadMore DEF ReadSoFar
<1> QED
  BY <1>1, <1>5, <1>11, <1>12, <1>13, <1>14, <1>15 DEF ReadSoFar
-----------------------------------------------------------------------------
(***************************************************************************)
(* The workers, step by step: the data of an open file are those of its lines*)
(* so far, the slots hold the results of whole files.                      *)
(***************************************************************************)
\* The whole file was read.
Finished(s, f, d) == ReadSoFar(s, f, Len(s[f].lines), NoLabel, d)

StillToCome(i) == \E w \in DOMAIN workers : workers[w].next <= i /\ i <= workers[w].last

\* An open file was read up to the current line, and a slot below the last slice
\* holds what its whole file gives, or a worker has still to come to it.
OpenInv ==
    \A w \in DOMAIN workers :
        /\ workers[w].line = 0 => workers[w].label = NoLabel
        /\ workers[w].line > 0 =>
              ReadSoFar(source, files_[workers[w].next], workers[w].line - 1,
                        workers[w].label, workers[w].data)

ResultsInv ==
    workers # <<>> =>
        \A i \in 1 .. Last(workers).last :
            Finished(source, files_[i], files_data[i]) \/ StillToCome(i)

CollectedInv == Sized(source) /\ OpenInv /\ ResultsInv

\* No file is open and none was read.
LEMMA CollectedInvInit == Init => CollectedInv
<1> SUFFICES ASSUME Init PROVE CollectedInv
  OBVIOUS
<1>1. source \in Sources /\ workers = <<>>
  BY DEF Init
<1>2. Sized(source)
  BY <1>1, SourcesAssumption DEF Sized
<1>3. DOMAIN workers = {}
  BY <1>1
<1> QED
  BY <1>1, <1>2, <1>3 DEF CollectedInv, OpenInv, ResultsInv

\* A step of the main thread, or of no worker, changes no data of a worker.
LEMMA CollectedKept ==
    ASSUME CollectedInv, UNCHANGED <<source, workers>>,
           workers = <<>> \/ UNCHANGED <<files_, files_data>>
    PROVE  CollectedInv'
<1>1. CASE workers = <<>>
  <2>1. DOMAIN workers = {}
    BY <1>1
  <2> QED
    BY <1>1, <2>1 DEF CollectedInv, OpenInv, ResultsInv
<1>2. CASE UNCHANGED <<files_, files_data>>
  BY <1>2 DEF CollectedInv, OpenInv, ResultsInv, StillToCome
<1> QED
  BY <1>1, <1>2

\* A new worker has its whole slice before it.
LEMMA StartWorkerCollected ==
    ASSUME IInv, IInv', CollectedInv, StartWorker
    PROVE  CollectedInv'
<1>1. PICK start, end : /\ start = SliceStart
                        /\ end = SliceStart + SliceSize(Len(workers)) - 1
  OBVIOUS
<1>2. PICK worker : worker = Worker(start, end)
  OBVIOUS
<1>3. /\ workers' = Append(workers, worker) /\ UNCHANGED <<source, files_>>
      /\ files_data' = IF workers = <<>> THEN [i \in DOMAIN files_ |-> EmptyData]
                                         ELSE files_data
  BY <1>1, <1>2 DEF StartWorker, mainVars, includesVars
<1>4. /\ workers \in Seq(WorkerType) /\ workers' \in Seq(WorkerType)
  BY DEF IInv, TypeOK
<1>5. PICK k \in Nat : k = Len(workers)
  BY <1>4
<1>6. /\ worker.next = start /\ worker.last = end /\ worker.line = 0
      /\ worker.label = NoLabel
  BY <1>2 DEF Worker
<1>7. /\ DOMAIN workers = 1 .. k /\ DOMAIN workers' = 1 .. k + 1 /\ Len(workers') = k + 1
      /\ \A w \in 1 .. k : workers'[w] = workers[w]
      /\ workers'[k + 1] = worker
  BY <1>3, <1>4, <1>5
<1>8. worker \in WorkerType
  <2>1. k + 1 \in 1 .. k + 1
    OBVIOUS
  <2> QED
    BY <1>4, <1>7, <2>1, ElementOfSeq
<1>9. start \in Nat /\ end \in Nat
  BY <1>6, <1>8 DEF WorkerType
<1>10. OpenInv'
  <2>1. ASSUME NEW w \in 1 .. k + 1
        PROVE  /\ workers'[w].line = 0 => workers'[w].label = NoLabel
               /\ workers'[w].line > 0 =>
                     ReadSoFar(source, files_[workers'[w].next], workers'[w].line - 1,
                               workers'[w].label, workers'[w].data)
    <3>1. CASE w = k + 1
      BY <1>6, <1>7, <3>1
    <3>2. CASE w # k + 1
      <4>1. w \in DOMAIN workers /\ workers'[w] = workers[w]
        BY <1>7, <3>2
      <4> QED
        BY <4>1 DEF CollectedInv, OpenInv
    <3> QED
      BY <3>1, <3>2
  <2> QED
    BY <1>3, <1>7, <2>1 DEF OpenInv
<1>11. ResultsInv'
  <2>1. Last(workers') = worker
    BY <1>7 DEF Last
  <2>2. ASSUME NEW i \in 1 .. end
        PROVE  Finished(source, files_[i], files_data'[i]) \/ StillToCome(i)'
    <3>1. CASE start <= i
      <4>1. k + 1 \in DOMAIN workers' /\ workers'[k + 1].next <= i /\ i <= workers'[k + 1].last
        BY <1>6, <1>7, <1>9, <3>1
      <4> QED
        BY <4>1 DEF StillToCome
    <3>2. CASE i < start
      <4>1. workers # <<>>
        <5>1. workers = <<>> => start = 1
          BY <1>1 DEF SliceStart
        <5> QED
          BY <3>2, <5>1
      <4>2. start = Last(workers).last + 1
        BY <1>1, <4>1 DEF SliceStart
      <4>3. Last(workers).last \in Nat
        <5>1. Last(workers) \in WorkerType
          BY <1>4, <4>1, FrontAndLast
        <5> QED
          BY <5>1 DEF WorkerType
      <4>4. i \in 1 .. Last(workers).last
        BY <1>9, <3>2, <4>2, <4>3
      <4>5. Finished(source, files_[i], files_data[i]) \/ StillToCome(i)
        BY <4>1, <4>4 DEF CollectedInv, ResultsInv
      <4>6. files_data' = files_data
        BY <1>3, <4>1
      <4>7. \A w \in DOMAIN workers : w \in DOMAIN workers' /\ workers'[w] = workers[w]
        BY <1>7
      <4> QED
        BY <4>5, <4>6, <4>7 DEF StillToCome
    <3> QED
      BY <1>9, <3>1, <3>2
  <2> QED
    BY <1>3, <1>6, <2>1, <2>2 DEF ResultsInv
<1> QED
  BY <1>3, <1>10, <1>11 DEF CollectedInv

\* A worker that goes on in its file.
LEMMA GoesOnCollected ==
    ASSUME IInv, CollectedInv, NEW w \in DOMAIN workers, Runs(w),
           NEW state \in WorkerType, Becomes(w, state),
           state.next = workers[w].next, state.last = workers[w].last, state.line > 0,
           ReadSoFar(source, File(w), state.line - 1, state.label, state.data)
    PROVE  CollectedInv'
<1>1. /\ workers' = [workers EXCEPT ![w] = state]
      /\ UNCHANGED <<source, files_, files_data>>
  BY DEF Becomes, mainVars, includesVars
<1>2. workers \in Seq(WorkerType)
  BY DEF IInv, TypeOK
<1>3. PICK k \in Nat : k = Len(workers)
  BY <1>2
<1>4. DOMAIN workers = 1 .. k /\ w \in 1 .. k /\ workers # <<>>
  BY <1>2, <1>3
<1>5. /\ workers' \in Seq(WorkerType) /\ Len(workers') = k /\ DOMAIN workers' = 1 .. k
      /\ \A v \in 1 .. k : workers'[v] = IF v = w THEN state ELSE workers[v]
  BY <1>1, <1>2, <1>3, <1>4, ExceptSeq
<1>6. \A v \in 1 .. k : workers'[v].next = workers[v].next /\ workers'[v].last = workers[v].last
  BY <1>5
<1>7. Last(workers').last = Last(workers).last
  <2>1. k \in 1 .. k
    BY <1>4
  <2> QED
    BY <1>3, <1>5, <1>6, <2>1 DEF Last
<1>8. OpenInv'
  <2>1. ASSUME NEW v \in 1 .. k
        PROVE  /\ workers'[v].line = 0 => workers'[v].label = NoLabel
               /\ workers'[v].line > 0 =>
                     ReadSoFar(source, files_[workers'[v].next], workers'[v].line - 1,
                               workers'[v].label, workers'[v].data)
    <3>1. CASE v = w
      <4>1. workers'[v] = state /\ ~(state.line = 0) /\ File(w) = files_[state.next]
        BY <1>5, <3>1 DEF File
      <4> QED
        BY <4>1
    <3>2. CASE v # w
      <4>1. v \in DOMAIN workers /\ workers'[v] = workers[v]
        BY <1>4, <1>5, <3>2
      <4> QED
        BY <4>1 DEF CollectedInv, OpenInv
    <3> QED
      BY <3>1, <3>2
  <2> QED
    BY <1>1, <1>5, <2>1 DEF OpenInv
<1>9. \A i : StillToCome(i) => StillToCome(i)'
  BY <1>4, <1>5, <1>6 DEF StillToCome
<1>10. ResultsInv'
  BY <1>1, <1>4, <1>7, <1>9 DEF CollectedInv, ResultsInv
<1> QED
  BY <1>1, <1>8, <1>10 DEF CollectedInv

\* What is known of an open file.
LEMMA OpenFacts ==
    ASSUME IInv, CollectedInv, NEW w \in DOMAIN workers, Runs(w)
    PROVE  /\ IsProgram(source) /\ Sized(source) /\ File(w) \in Files
           /\ Lines(w) = source[File(w)].lines
           /\ workers[w] \in WorkerType /\ workers[w].line \in Nat
           /\ workers[w].line = 0 => workers[w].label = NoLabel
           /\ workers[w].line > 0 =>
                 ReadSoFar(source, File(w), workers[w].line - 1, workers[w].label,
                           workers[w].data)
<1>1. File(w) \in Files /\ workers[w] \in WorkerType
  BY RunningFacts
<1>2. IsProgram(source)
  BY DEF IInv, TypeOK, IsProgram
<1>3. workers[w].line \in Nat
  BY <1>1 DEF WorkerType
<1> QED
  BY <1>1, <1>2, <1>3 DEF CollectedInv, OpenInv, Lines, File

\* A file just opened was read up to its first line that is not blank.
LEMMA OpenFileCollected ==
    ASSUME IInv, CollectedInv, NEW w \in DOMAIN workers, OpenFile(w)
    PROVE  CollectedInv'
<1>1. PICK f, first, n : f = File(w) /\ first = FirstLines(w) /\ n = Min(first)
  OBVIOUS
<1>2. PICK state : state = [workers[w] EXCEPT !.line = n, !.data = EmptyData]
  OBVIOUS
<1>3. Runs(w) /\ workers[w].line = 0 /\ first # {} /\ Becomes(w, state)
  BY <1>1, <1>2 DEF OpenFile
<1>4. /\ IsProgram(source) /\ f \in Files /\ Lines(w) = source[f].lines
      /\ workers[w] \in WorkerType /\ workers[w].label = NoLabel
  BY <1>1, <1>3, OpenFacts
<1>5. PICK length \in Nat : length = Len(source[f].lines) /\ DOMAIN source[f].lines = 1 .. length
  BY <1>4, FileFacts
<1>6. first = {k \in 1 .. length : ~IsBlank(source[f].lines[k])}
  BY <1>1, <1>4, <1>5 DEF FirstLines
<1>7. n \in first /\ \A k \in first : n <= k
  <2>1. first \in SUBSET Nat
    BY <1>6
  <2> QED
    BY <1>1, <1>3, <2>1, MinFacts
<1>8. n \in 1 .. length /\ ~IsBlank(source[f].lines[n])
  BY <1>6, <1>7
<1>9. n - 1 \in 0 .. Len(source[f].lines) /\ n > 0 /\ n \in Nat
  BY <1>5, <1>8
<1>10. Blanks(source, f, 1, n - 1)
  <2>1. ASSUME NEW k \in 1 .. n - 1
        PROVE  IsBlank(source[f].lines[k])
    <3>1. k \in 1 .. length /\ ~(n <= k)
      BY <1>8
    <3> QED
      BY <1>6, <1>7, <3>1
  <2> QED
    BY <2>1 DEF Blanks
<1>11. NextOf(source, f, 0) # 0
  <2>1. 0 \in 0 .. Len(source[f].lines)
    BY <1>5
  <2>2. Follows(source, f, 0, NextOf(source, f, 0))
    BY <1>4, <2>1, NextOfIs
  <2>3. ~Follows(source, f, 0, 0)
    BY <1>5, <1>8 DEF Follows, Blanks
  <2> QED
    BY <2>2, <2>3
<1>12. ReadSoFar(source, f, n - 1, NoLabel, EmptyData)
  BY <1>4, <1>9, <1>10, <1>11, NothingRead
<1>13. /\ state \in WorkerType /\ state.next = workers[w].next
       /\ state.last = workers[w].last /\ state.line = n /\ state.data = EmptyData
       /\ state.label = NoLabel
  BY <1>2, <1>4, <1>9, EmptyDataType DEF WorkerType
<1> QED
  BY <1>1, <1>3, <1>9, <1>12, <1>13, GoesOnCollected

\* A worker goes on to the next line.
LEMMA NextLineCollected ==
    ASSUME IInv, CollectedInv, NEW w \in DOMAIN workers, Runs(w),
           NEW n \in Nat, workers[w].line = n + 1,
           NEW label \in MaybeLabel, NEW d \in DataType, NextLine(w, label, d),
           ReadSoFar(source, File(w), n + 1, label, d)
    PROVE  CollectedInv'
<1>1. PICK state : state = [workers[w] EXCEPT !.line = @ + 1, !.label = label, !.data = d]
  OBVIOUS
<1>2. Becomes(w, state)
  BY <1>1 DEF NextLine
<1>3. workers[w] \in WorkerType
  BY OpenFacts
<1>4. /\ state \in WorkerType /\ state.next = workers[w].next
      /\ state.last = workers[w].last /\ state.line = n + 2 /\ state.data = d
      /\ state.label = label
  <2>1. workers[w].line + 1 \in Nat /\ workers[w].line + 1 = n + 2
    OBVIOUS
  <2> QED
    BY <1>1, <1>3, <2>1 DEF WorkerType
<1>5. state.line > 0 /\ state.line - 1 = n + 1
  BY <1>4
<1> QED
  BY <1>2, <1>4, <1>5, GoesOnCollected

\* The worker has read n lines of its file, and the next one holds the item.
IsAtLine(w, n, item) ==
    /\ workers[w].line = n + 1 /\ n + 1 <= Len(source[File(w)].lines)
    /\ Runs(w) /\ IsProgram(source) /\ Sized(source) /\ File(w) \in Files
    /\ ReadSoFar(source, File(w), n, workers[w].label, workers[w].data)
    /\ CurrLine(w) = source[File(w)].lines[n + 1]
    /\ source[File(w)].lines[n + 1].item = item
    /\ LabelBefore(w) = Before(source, File(w), n + 1, workers[w].label)
    /\ ConsecutiveLabels(w) <=> /\ source[File(w)].lines[n + 1].label # NoLabel
                                /\ workers[w].label # NoLabel

\* A worker at an item is at a line of its file.
LEMMA AtLine ==
    ASSUME IInv, CollectedInv, NEW w \in DOMAIN workers, NEW item, AtItem(w, item)
    PROVE  \E n \in Nat : IsAtLine(w, n, item)
<1>1. Runs(w) /\ workers[w].line \in DOMAIN Lines(w) /\ CurrLine(w).item = item
  BY DEF AtItem
<1>2. /\ IsProgram(source) /\ Sized(source) /\ File(w) \in Files
      /\ Lines(w) = source[File(w)].lines /\ workers[w].line \in Nat
      /\ workers[w].line > 0 =>
            ReadSoFar(source, File(w), workers[w].line - 1, workers[w].label,
                      workers[w].data)
  BY <1>1, OpenFacts
<1>3. workers[w].line \in 1 .. Len(source[File(w)].lines) /\ Len(source[File(w)].lines) \in Nat
  BY <1>1, <1>2, FileFacts
<1>4. PICK n \in Nat : n = workers[w].line - 1
  BY <1>3
<1>5. workers[w].line = n + 1 /\ n + 1 <= Len(source[File(w)].lines) /\ workers[w].line > 0
  BY <1>3, <1>4
<1>6. CurrLine(w) = source[File(w)].lines[n + 1]
  BY <1>2, <1>5 DEF CurrLine
<1>7. ReadSoFar(source, File(w), n, workers[w].label, workers[w].data)
  BY <1>2, <1>4, <1>5
<1>8. /\ LabelBefore(w) = Before(source, File(w), n + 1, workers[w].label)
      /\ ConsecutiveLabels(w) <=> /\ source[File(w)].lines[n + 1].label # NoLabel
                                  /\ workers[w].label # NoLabel
  BY <1>6 DEF LabelBefore, Before, ConsecutiveLabels
<1> QED
  BY <1>1, <1>2, <1>5, <1>6, <1>7, <1>8 DEF IsAtLine

\* A line is processed and the blank ones after it are passed over.
LEMMA ProcessLineCollected ==
    ASSUME IInv, IInv', CollectedInv, NEW w \in DOMAIN workers,
           \/ ProcessLabel(w) \/ ProcessCommand(w)
           \/ ProcessConstant(w) \/ ProcessEntrypoint(w)
    PROVE  CollectedInv'
<1>1. PICK f, d, label, before : /\ f = File(w) /\ d = workers[w].data
                                 /\ label = workers[w].label /\ before = LabelBefore(w)
  OBVIOUS
<1>2. CASE ProcessLabel(w)
  <2>1. AtItem(w, "none") /\ ~ConsecutiveLabels(w) /\ NextLine(w, before, d)
    BY <1>1, <1>2 DEF ProcessLabel
  <2>22. PICK n \in Nat : IsAtLine(w, n, "none")
    BY <2>1, AtLine
  <2>2. /\ workers[w].line = n + 1 /\ n + 1 <= Len(source[f].lines)
        /\ Runs(w) /\ IsProgram(source) /\ Sized(source) /\ f \in Files
        /\ ReadSoFar(source, f, n, label, d)
        /\ source[f].lines[n + 1].item = "none"
        /\ before = Before(source, f, n + 1, label)
        /\ ConsecutiveLabels(w) <=> /\ source[f].lines[n + 1].label # NoLabel
                                    /\ label # NoLabel
    BY <1>1, <2>22 DEF IsAtLine
  <2>3. ReadSoFar(source, f, n + 1, before, d)
    BY <2>1, <2>2, LabelRead DEF Before
  <2>4. d \in DataType /\ before \in MaybeLabel
    BY <1>1, <2>1, AtItemFacts
  <2> QED
    BY <1>1, <2>1, <2>2, <2>3, <2>4, NextLineCollected
<1>3. CASE ProcessCommand(w)
  <2>1. /\ AtItem(w, "command") /\ ~ConsecutiveLabels(w)
        /\ before \notin SeenLabels(d)
        /\ NextLine(w, NoLabel, AddCommand(d, before, f, workers[w].line))
    BY <1>1, <1>3 DEF ProcessCommand, NewLabel
  <2>22. PICK n \in Nat : IsAtLine(w, n, "command")
    BY <2>1, AtLine
  <2>2. /\ workers[w].line = n + 1 /\ n + 1 <= Len(source[f].lines)
        /\ Runs(w) /\ IsProgram(source) /\ Sized(source) /\ f \in Files
        /\ ReadSoFar(source, f, n, label, d)
        /\ source[f].lines[n + 1].item = "command"
        /\ before = Before(source, f, n + 1, label)
        /\ ConsecutiveLabels(w) <=> /\ source[f].lines[n + 1].label # NoLabel
                                    /\ label # NoLabel
    BY <1>1, <2>22 DEF IsAtLine
  <2>3. PICK new : new = AddCommand(d, before, f, n + 1)
    OBVIOUS
  <2>4. ReadSoFar(source, f, n + 1, NoLabel, new)
    BY <2>1, <2>2, <2>3, CommandRead
  <2>5. d \in DataType /\ before \in MaybeLabel /\ TypeOK /\ n + 1 \in DOMAIN source[f].lines
    BY <1>1, <2>1, <2>2, AtItemFacts
  <2>6. new \in DataType
    BY <2>2, <2>3, <2>5, AddCommandFacts
  <2>7. NextLine(w, NoLabel, new) /\ NoLabel \in MaybeLabel
    BY <2>1, <2>2, <2>3 DEF MaybeLabel
  <2> QED
    BY <1>1, <2>2, <2>4, <2>6, <2>7, NextLineCollected
<1>4. CASE ProcessConstant(w)
  <2>1. /\ AtItem(w, "constant") /\ ~ConsecutiveLabels(w)
        /\ before \notin SeenLabels(d)
        /\ NextLine(w, NoLabel, AddConstant(d, before, f, workers[w].line))
    BY <1>1, <1>4 DEF ProcessConstant, NewLabel
  <2>22. PICK n \in Nat : IsAtLine(w, n, "constant")
    BY <2>1, AtLine
  <2>2. /\ workers[w].line = n + 1 /\ n + 1 <= Len(source[f].lines)
        /\ Runs(w) /\ IsProgram(source) /\ Sized(source) /\ f \in Files
        /\ ReadSoFar(source, f, n, label, d)
        /\ source[f].lines[n + 1].item = "constant"
        /\ before = Before(source, f, n + 1, label)
        /\ ConsecutiveLabels(w) <=> /\ source[f].lines[n + 1].label # NoLabel
                                    /\ label # NoLabel
    BY <1>1, <2>22 DEF IsAtLine
  <2>3. PICK new : new = AddConstant(d, before, f, n + 1)
    OBVIOUS
  <2>4. ReadSoFar(source, f, n + 1, NoLabel, new)
    BY <2>1, <2>2, <2>3, ConstantRead
  <2>5. d \in DataType /\ before \in MaybeLabel /\ TypeOK /\ n + 1 \in DOMAIN source[f].lines
    BY <1>1, <2>1, <2>2, AtItemFacts
  <2>6. new \in DataType
    BY <2>2, <2>3, <2>5, AddConstantFacts
  <2>7. NextLine(w, NoLabel, new) /\ NoLabel \in MaybeLabel
    BY <2>1, <2>2, <2>3 DEF MaybeLabel
  <2> QED
    BY <1>1, <2>2, <2>4, <2>6, <2>7, NextLineCollected
<1>5. CASE ProcessEntrypoint(w)
  <2>1. /\ AtItem(w, "end") /\ before = NoLabel /\ d.entrypoint = NoAddress
        /\ NextLine(w, NoLabel, AddEntrypoint(d, CurrLine(w)))
    BY <1>1, <1>5 DEF ProcessEntrypoint
  <2>22. PICK n \in Nat : IsAtLine(w, n, "end")
    BY <2>1, AtLine
  <2>2. /\ workers[w].line = n + 1 /\ n + 1 <= Len(source[f].lines)
        /\ Runs(w) /\ IsProgram(source) /\ Sized(source) /\ f \in Files
        /\ ReadSoFar(source, f, n, label, d)
        /\ CurrLine(w) = source[f].lines[n + 1]
        /\ source[f].lines[n + 1].item = "end"
        /\ before = Before(source, f, n + 1, label)
        /\ ConsecutiveLabels(w) <=> /\ source[f].lines[n + 1].label # NoLabel
                                    /\ label # NoLabel
    BY <1>1, <2>22 DEF IsAtLine
  <2>3. source[f].lines[n + 1].label = NoLabel /\ label = NoLabel
    BY <2>1, <2>2 DEF Before
  <2>4. PICK new : new = AddEntrypoint(d, source[f].lines[n + 1])
    OBVIOUS
  <2>5. ReadSoFar(source, f, n + 1, NoLabel, new)
    BY <2>1, <2>2, <2>3, <2>4, EndRead
  <2>6. d \in DataType /\ CurrLine(w) \in Line
    BY <1>1, <2>1, AtItemFacts
  <2>7. new \in DataType
    BY <2>2, <2>4, <2>6, AddEntrypointFacts
  <2>8. NextLine(w, NoLabel, new) /\ NoLabel \in MaybeLabel
    BY <2>1, <2>2, <2>4 DEF MaybeLabel
  <2> QED
    BY <1>1, <2>2, <2>5, <2>7, <2>8, NextLineCollected
<1> QED
  BY <1>2, <1>3, <1>4, <1>5

\* A worker at the end of its file has read the whole of it.
LEMMA AtEndFacts ==
    ASSUME IInv, CollectedInv, NEW w \in DOMAIN workers, AtEnd(w)
    PROVE  /\ IsProgram(source) /\ File(w) \in Files
           /\ ReadSoFar(source, File(w), Len(source[File(w)].lines), workers[w].label,
                        workers[w].data)
<1>1. PICK f, n : f = File(w) /\ n = workers[w].line - 1
  OBVIOUS
<1>2. Runs(w) /\ workers[w].line > Len(Lines(w))
  BY DEF AtEnd
<1>3. /\ IsProgram(source) /\ f \in Files /\ Lines(w) = source[f].lines
      /\ workers[w].line \in Nat
      /\ workers[w].line > 0 =>
            ReadSoFar(source, f, n, workers[w].label, workers[w].data)
  BY <1>1, <1>2, OpenFacts
<1>4. PICK length \in Nat : length = Len(source[f].lines)
  BY <1>3, FileFacts
<1>5. ReadSoFar(source, f, n, workers[w].label, workers[w].data)
  BY <1>2, <1>3, <1>4
<1>6. n \in 0 .. length
  BY <1>4, <1>5 DEF ReadSoFar
<1>7. n = length
  BY <1>1, <1>2, <1>3, <1>4, <1>6
<1> QED
  BY <1>1, <1>3, <1>4, <1>5, <1>7

\* The result of a file is put in its slot.
LEMMA FinishFileCollected ==
    ASSUME IInv, IInv', CollectedInv, NEW w \in DOMAIN workers, FinishFile(w)
    PROVE  CollectedInv'
<1>1. PICK i, d, state : /\ i = workers[w].next /\ d = workers[w].data
                         /\ state = [workers[w] EXCEPT !.next = @ + 1, !.line = 0]
  OBVIOUS
<1>2. /\ AtEnd(w) /\ Runs(w) /\ workers[w].label = NoLabel
      /\ files_data' = [files_data EXCEPT ![i] = d]
      /\ workers' = [workers EXCEPT ![w] = state]
      /\ UNCHANGED <<source, files_>>
  BY <1>1 DEF FinishFile, AtEnd, mainVars, includesVars
<1>3. Finished(source, files_[i], d)
  BY <1>1, <1>2, AtEndFacts DEF Finished, File
<1>4. /\ workers \in Seq(WorkerType) /\ files_data \in Seq(DataType)
      /\ workers' \in Seq(WorkerType) /\ \A v \in DOMAIN workers' : workers'[v].last <= Len(files_)
  BY <1>2 DEF IInv, TypeOK
<1>5. /\ workers[w] \in WorkerType /\ i \in 1 .. Len(files_) /\ Len(files_) \in Nat
      /\ Len(files_data) = Len(files_)
  BY <1>1, <1>2, RunningFacts
<1>6. d \in DataType /\ workers[w].last \in Nat /\ i \in Nat
  BY <1>1, <1>5 DEF WorkerType
<1>7. \A j \in 1 .. Len(files_) : files_data'[j] = IF j = i THEN d ELSE files_data[j]
  BY <1>2, <1>4, <1>5, <1>6, ExceptSeq
<1>8. PICK k \in Nat : k = Len(workers)
  BY <1>4
<1>9. DOMAIN workers = 1 .. k /\ w \in 1 .. k /\ workers # <<>>
  BY <1>4, <1>8
<1>10. /\ state \in WorkerType /\ state.next = i + 1
       /\ state.last = workers[w].last /\ state.line = 0 /\ state.label = NoLabel
  <2>1. workers[w].next + 1 \in Nat \ {0}
    BY <1>1, <1>6
  <2> QED
    BY <1>1, <1>2, <1>5, <2>1 DEF WorkerType
<1>11. /\ Len(workers') = k /\ DOMAIN workers' = 1 .. k
       /\ \A v \in 1 .. k : workers'[v] = IF v = w THEN state ELSE workers[v]
  BY <1>2, <1>4, <1>8, <1>9, <1>10, ExceptSeq
<1>12. \A v \in 1 .. k : workers'[v].last = workers[v].last
  BY <1>10, <1>11
<1>13. Last(workers').last = Last(workers).last /\ Last(workers').last <= Len(files_)
       /\ Last(workers').last \in Nat
  <2>1. k \in 1 .. k
    BY <1>9
  <2>2. Last(workers') = workers'[k] /\ Last(workers) = workers[k]
    BY <1>8, <1>11 DEF Last
  <2>3. workers'[k] \in WorkerType
    BY <1>4, <1>11, <2>1, ElementOfSeq
  <2> QED
    BY <1>4, <1>11, <1>12, <2>1, <2>2, <2>3 DEF WorkerType
<1>14. OpenInv'
  <2>1. ASSUME NEW v \in 1 .. k
        PROVE  /\ workers'[v].line = 0 => workers'[v].label = NoLabel
               /\ workers'[v].line > 0 =>
                     ReadSoFar(source, files_[workers'[v].next], workers'[v].line - 1,
                               workers'[v].label, workers'[v].data)
    <3>1. CASE v = w
      BY <1>10, <1>11, <3>1
    <3>2. CASE v # w
      <4>1. v \in DOMAIN workers /\ workers'[v] = workers[v]
        BY <1>9, <1>11, <3>2
      <4> QED
        BY <4>1 DEF CollectedInv, OpenInv
    <3> QED
      BY <3>1, <3>2
  <2> QED
    BY <1>2, <1>11, <2>1 DEF OpenInv
<1>15. ResultsInv'
  <2>1. ASSUME NEW j \in 1 .. Last(workers').last
        PROVE  Finished(source, files_[j], files_data'[j]) \/ StillToCome(j)'
    <3>1. j \in 1 .. Len(files_) /\ j \in 1 .. Last(workers).last
      BY <1>5, <1>13
    <3>2. CASE j = i
      BY <1>3, <1>7, <3>1, <3>2
    <3>3. CASE j # i
      <4>1. files_data'[j] = files_data[j]
        BY <1>7, <3>1, <3>3
      <4>2. Finished(source, files_[j], files_data[j]) \/ StillToCome(j)
        BY <1>9, <3>1 DEF CollectedInv, ResultsInv
      <4>3. ASSUME NEW v \in 1 .. k, workers[v].next <= j, j <= workers[v].last
            PROVE  workers'[v].next <= j /\ j <= workers'[v].last
        <5>1. CASE v = w
          <6>1. i <= j /\ i \in Nat /\ j \in Nat
            BY <1>1, <1>6, <3>1, <4>3, <5>1
          <6>2. i + 1 <= j
            BY <3>3, <6>1
          <6> QED
            BY <1>10, <1>11, <4>3, <5>1, <6>2
        <5>2. CASE v # w
          BY <1>11, <4>3, <5>2
        <5> QED
          BY <5>1, <5>2
      <4>4. StillToCome(j) => StillToCome(j)'
        BY <1>9, <1>11, <4>3 DEF StillToCome
      <4> QED
        BY <4>1, <4>2, <4>4
    <3> QED
      BY <3>2, <3>3
  <2> QED
    BY <1>2, <2>1 DEF ResultsInv
<1> QED
  BY <1>2, <1>14, <1>15 DEF CollectedInv

\* A step of a worker keeps what is known of the data,
LEMMA WorkerCollected ==
    ASSUME IInv, IInv', CollectedInv, NEW w \in DOMAIN workers, WorkerStep(w)
    PROVE  CollectedInv'
<1>1. CASE OpenFile(w)
  BY <1>1, OpenFileCollected
<1>2. CASE \/ ProcessLabel(w) \/ ProcessCommand(w)
           \/ ProcessConstant(w) \/ ProcessEntrypoint(w)
  BY <1>2, ProcessLineCollected
<1>3. CASE FinishFile(w)
  BY <1>3, FinishFileCollected
<1>4. CASE OpenEmptyFile(w) \/ RejectLine(w) \/ FileEndsWithLabel(w)
  <2>1. Terminate
    BY <1>4 DEF OpenEmptyFile, RejectLine, FileEndsWithLabel
  <2>2. UNCHANGED <<source, workers, files_, files_data>>
    BY <2>1 DEF Terminate, mainVars, includesVars
  <2> QED
    BY <2>2, CollectedKept
<1>5. CASE CannotReopen(w)
  <2>1. UNCHANGED <<source, workers, files_, files_data>>
    BY <1>5 DEF CannotReopen, mainVars, includesVars
  <2> QED
    BY <2>1, CollectedKept
<1> QED
  BY <1>1, <1>2, <1>3, <1>4, <1>5 DEF WorkerStep

\* and so does a step of the main thread,
LEMMA MainCollected ==
    ASSUME IInv, IInv', CollectedInv, MainStep
    PROVE  CollectedInv'
<1>1. CASE StartWorker
  BY <1>1, StartWorkerCollected
<1>2. CASE GetFiles \/ SkipInclude \/ FollowInclude \/ LeaveFile
  <2>1. phase \in {"start", "includes"} /\ UNCHANGED <<source, workers>>
    BY <1>2 DEF GetFiles, SkipInclude, FollowInclude, LeaveFile, ProcessFileIncludes,
                resultVars
  <2>2. workers = <<>>
    BY <2>1 DEF IInv, PhasesInv
  <2> QED
    BY <2>1, <2>2, CollectedKept
<1>3. CASE \/ DivideByZero \/ CannotStartWorker \/ JoinWorkers \/ MergeFile \/ MergeFails
           \/ Substitute \/ Write
  <2>1. UNCHANGED <<source, workers, files_, files_data>>
    BY <1>3 DEF DivideByZero, CannotStartWorker, JoinWorkers, MergeFile, MergeFails,
                Substitute, Write, mainVars, mergeVars, includesVars
  <2> QED
    BY <2>1, CollectedKept
<1> QED
  BY <1>1, <1>2, <1>3 DEF MainStep

\* so that every step does.
LEMMA CollectedInvNext ==
    ASSUME IInv, IInv', CollectedInv, [Next]_vars
    PROVE  CollectedInv'
<1>1. CASE Stopped \/ UNCHANGED vars
  <2>1. UNCHANGED <<source, workers, files_, files_data>>
    BY <1>1 DEF Stopped, vars
  <2> QED
    BY <2>1, CollectedKept
<1> QED
  BY <1>1, MainCollected, WorkerCollected DEF Next
-----------------------------------------------------------------------------
(***************************************************************************)
(* The whole program.                                                      *)
(***************************************************************************)
\* The places of the files, one file after the other.
FilePlaces(s, kind) == [f \in Files |-> PlacesOf(s, f, kind)[Len(s[f].lines)]]

AllOf(s, fs, kind) == FlattenSeq(Mapped(fs, FilePlaces(s, kind)))

\* The places of a whole file.
LEMMA FilePlacesFacts ==
    ASSUME NEW s, IsProgram(s), NEW kind, NEW f \in Files
    PROVE  ArePlaces(s, f, kind, Len(s[f].lines), FilePlaces(s, kind)[f])
<1>1. Len(s[f].lines) \in 0 .. Len(s[f].lines)
  BY FileFacts
<1>2. ArePlaces(s, f, kind, Len(s[f].lines), PlacesOf(s, f, kind)[Len(s[f].lines)])
  BY <1>1, PlacesFacts
<1> QED
  BY <1>2 DEF FilePlaces

\* They are places, for every file.
LEMMA FilePlacesType ==
    ASSUME NEW s, IsProgram(s), NEW kind
    PROVE  IsMap(FilePlaces(s, kind), Files, Seq(AllPlaces(s)))
<1>1. \A f \in Files : FilePlaces(s, kind)[f] \in Seq(AllPlaces(s))
  BY FilePlacesFacts DEF ArePlaces
<1>2. FilePlaces(s, kind) = [f \in Files |-> FilePlaces(s, kind)[f]]
  BY DEF FilePlaces
<1> QED
  BY <1>1, <1>2 DEF IsMap

\* The places of several files are places.
LEMMA AllOfType ==
    ASSUME NEW s, IsProgram(s), NEW kind, NEW fs \in Seq(Files)
    PROVE  /\ AllOf(s, fs, kind) \in Seq(AllPlaces(s))
           /\ IsMapped(Mapped(fs, FilePlaces(s, kind)), fs, FilePlaces(s, kind),
                       Seq(AllPlaces(s)))
           /\ Mapped(fs, FilePlaces(s, kind)) \in Seq(Seq(AllPlaces(s)))
<1>1. IsMap(FilePlaces(s, kind), Files, Seq(AllPlaces(s)))
  BY FilePlacesType
<1>2. IsMapped(Mapped(fs, FilePlaces(s, kind)), fs, FilePlaces(s, kind), Seq(AllPlaces(s)))
  BY <1>1, MappedIs
<1>3. Mapped(fs, FilePlaces(s, kind)) \in Seq(Seq(AllPlaces(s)))
  BY <1>2 DEF IsMapped
<1> QED
  BY <1>2, <1>3, FlattenType DEF AllOf

\* No file has no places,
LEMMA AllOfNothing ==
    ASSUME NEW s, NEW kind
    PROVE  AllOf(s, <<>>, kind) = <<>>
<1>1. Mapped(<<>>, FilePlaces(s, kind)) = <<>>
  <2>1. DOMAIN <<>> = {}
    OBVIOUS
  <2> QED
    BY <2>1 DEF Mapped
<1> QED
  BY <1>1, FlattenNothing DEF AllOf

\* one more file adds its own.
LEMMA AllOfMore ==
    ASSUME NEW s, IsProgram(s), NEW kind, NEW fs \in Seq(Files), NEW f \in Files
    PROVE  AllOf(s, Plus(fs, f), kind) = Join(AllOf(s, fs, kind), FilePlaces(s, kind)[f])
<1>1. IsMap(FilePlaces(s, kind), Files, Seq(AllPlaces(s)))
  BY FilePlacesType
<1>2. Mapped(Plus(fs, f), FilePlaces(s, kind))
        = Plus(Mapped(fs, FilePlaces(s, kind)), FilePlaces(s, kind)[f])
  BY <1>1, MappedAppended
<1>3. Mapped(fs, FilePlaces(s, kind)) \in Seq(Seq(AllPlaces(s)))
  BY AllOfType
<1>4. FilePlaces(s, kind)[f] \in Seq(AllPlaces(s))
  BY FilePlacesFacts DEF ArePlaces
<1>5. FlattenSeq(Plus(Mapped(fs, FilePlaces(s, kind)), FilePlaces(s, kind)[f]))
        = Join(FlattenSeq(Mapped(fs, FilePlaces(s, kind))), FilePlaces(s, kind)[f])
  BY <1>3, <1>4, FlattenPlus
<1> QED
  BY <1>2, <1>5 DEF AllOf

\* The places of the kind in the files fs.
IsPlaceOf(s, fs, kind, p) ==
    p \in AllPlaces(s) /\ p[1] \in ToSet(fs) /\ LineOf(s, p).item = kind

\* A place of the files is a line of the kind in one of them.
LEMMA AllOfElements ==
    ASSUME NEW s, IsProgram(s), NEW kind, NEW fs \in Seq(Files), NEW p
    PROVE  p \in ToSet(AllOf(s, fs, kind)) <=> IsPlaceOf(s, fs, kind, p)
<1>1. PICK n \in Nat : n = Len(fs) /\ DOMAIN fs = 1 .. n /\ \A i \in 1 .. n : fs[i] \in Files
  OBVIOUS
<1>2. PICK x : x = Mapped(fs, FilePlaces(s, kind))
  OBVIOUS
<1>3. /\ x \in Seq(Seq(AllPlaces(s))) /\ Len(x) = n
      /\ \A i \in 1 .. n : x[i] = FilePlaces(s, kind)[fs[i]]
  BY <1>1, <1>2, AllOfType DEF IsMapped
<1>4. ToSet(AllOf(s, fs, kind)) = UNION {ToSet(x[i]) : i \in 1 .. n}
  <2>1. ToSet(FlattenSeq(x)) = UNION {ToSet(x[i]) : i \in 1 .. Len(x)}
    BY <1>3, FlattenElements
  <2> QED
    BY <1>2, <1>3, <2>1 DEF AllOf
<1>5. ASSUME NEW i \in 1 .. n
      PROVE  ToSet(x[i]) = LinesOfKind(s, fs[i], kind, Len(s[fs[i]].lines))
  BY <1>1, <1>3, FilePlacesFacts DEF ArePlaces
<1>6. ASSUME p \in ToSet(AllOf(s, fs, kind))
      PROVE  IsPlaceOf(s, fs, kind, p)
  <2>1. PICK i \in 1 .. n : p \in LinesOfKind(s, fs[i], kind, Len(s[fs[i]].lines))
    BY <1>4, <1>5, <1>6
  <2>2. PICK f \in Files : f = fs[i] /\ f \in ToSet(fs)
    BY <1>1 DEF ToSet
  <2>3. PICK k \in 1 .. Len(s[f].lines) : p = <<f, k>> /\ s[f].lines[k].item = kind
    BY <2>1, <2>2 DEF LinesOfKind
  <2>4. p \in AllPlaces(s) /\ p[1] = f /\ p[2] = k
    BY <2>3, PlaceIn
  <2> QED
    BY <2>2, <2>3, <2>4 DEF IsPlaceOf, LineOf
<1>7. ASSUME IsPlaceOf(s, fs, kind, p)
      PROVE  p \in ToSet(AllOf(s, fs, kind))
  <2>1. p \in AllPlaces(s) /\ p[1] \in ToSet(fs) /\ s[p[1]].lines[p[2]].item = kind
    BY <1>7 DEF IsPlaceOf, LineOf
  <2>2. PICK i \in 1 .. n : p[1] = fs[i]
    BY <1>1, <2>1 DEF ToSet
  <2>3. p = <<p[1], p[2]>> /\ p[2] \in 1 .. Len(s[p[1]].lines)
    BY <2>1, PlaceOf
  <2>4. p \in LinesOfKind(s, fs[i], kind, Len(s[fs[i]].lines))
    BY <2>1, <2>2, <2>3 DEF LinesOfKind
  <2> QED
    BY <1>4, <1>5, <2>4
<1> QED
  BY <1>6, <1>7

\* Different files have different places.
LEMMA AllOfDistinct ==
    ASSUME NEW s, IsProgram(s), NEW kind, NEW fs \in Seq(Files), Distinct(fs)
    PROVE  Distinct(AllOf(s, fs, kind))
<1>1. PICK n \in Nat : n = Len(fs) /\ \A i \in 1 .. n : fs[i] \in Files
  OBVIOUS
<1>2. PICK x : x = Mapped(fs, FilePlaces(s, kind))
  OBVIOUS
<1>3. /\ x \in Seq(Seq(AllPlaces(s))) /\ Len(x) = n
      /\ \A i \in 1 .. n : x[i] = FilePlaces(s, kind)[fs[i]]
  BY <1>1, <1>2, AllOfType DEF IsMapped
<1>4. \A i \in 1 .. Len(x) : Distinct(x[i])
  BY <1>1, <1>3, FilePlacesFacts DEF ArePlaces
<1>5. ASSUME NEW i \in 1 .. Len(x), NEW p \in ToSet(x[i])
      PROVE  p[1] = fs[i]
  <2>1. p \in LinesOfKind(s, fs[i], kind, Len(s[fs[i]].lines))
    BY <1>1, <1>3, <1>5, FilePlacesFacts DEF ArePlaces
  <2> QED
    BY <2>1 DEF LinesOfKind
<1>6. \A i, j \in 1 .. Len(x) : i # j => ToSet(x[i]) \cap ToSet(x[j]) = {}
  <2> SUFFICES ASSUME NEW i \in 1 .. n, NEW j \in 1 .. n, i # j,
                      NEW p \in ToSet(x[i]), p \in ToSet(x[j])
               PROVE  FALSE
    BY <1>3
  <2>1. p[1] = fs[i] /\ p[1] = fs[j]
    BY <1>3, <1>5
  <2> QED
    BY <1>1, <2>1 DEF Distinct
<1>7. Distinct(FlattenSeq(x))
  BY <1>3, <1>4, <1>6, FlattenDistinct
<1> QED
  BY <1>2, <1>7 DEF AllOf

\* Assembler!Places when fs is the order of the abstract assembler.
LEMMA AbstractPlaces ==
    ASSUME TypeOK, files_ = Abstract!Order, NEW kind
    PROVE  Abstract!Places(kind) = AllOf(source, files_, kind)
<1>1. files_ \in Seq(Files)
  BY DEF TypeOK
<1>2. DOMAIN files_ = 1 .. Len(files_) /\ \A i \in DOMAIN files_ : files_[i] \in Files
  BY <1>1
<1>3. \A i \in DOMAIN files_ :
         Abstract!PlacesIn(files_[i], kind)[Len(source[files_[i]].lines)]
           = FilePlaces(source, kind)[files_[i]]
  <2>1. \A f \in Files : FilePlaces(source, kind)[f] = PlacesOf(source, f, kind)[Len(source[f].lines)]
    BY DEF FilePlaces
  <2> QED
    BY <1>2, <2>1, AbstractPlacesIn
<1>4. [i \in DOMAIN files_ |-> Abstract!PlacesIn(files_[i], kind)[Len(source[files_[i]].lines)]]
        = Mapped(files_, FilePlaces(source, kind))
  BY <1>3, Zenon DEF Mapped
<1>5. \A x : Abstract!FlattenSeq(x) = FlattenSeq(x)
  BY Zenon DEF Abstract!FlattenSeq, FlattenSeq
<1>6. Abstract!Places(kind)
        = Abstract!FlattenSeq([i \in DOMAIN files_ |->
              Abstract!PlacesIn(files_[i], kind)[Len(source[files_[i]].lines)]])
  BY Zenon DEF Abstract!Places
<1> QED
  BY <1>4, <1>5, <1>6 DEF AllOf
-----------------------------------------------------------------------------
(***************************************************************************)
(* The results merged, file after file.                                    *)
(***************************************************************************)
\* The first m elements.
Firsts(x, m) == [i \in 1 .. m |-> x[i]]

\* They are as many elements,
LEMMA FirstsType ==
    ASSUME NEW X, NEW x \in Seq(X), NEW m \in 0 .. Len(x)
    PROVE  Firsts(x, m) \in Seq(X) /\ Len(Firsts(x, m)) = m
<1>1. PICK n \in Nat : n = Len(x) /\ DOMAIN x = 1 .. n /\ \A i \in 1 .. n : x[i] \in X
  OBVIOUS
<1>2. m \in Nat
  BY <1>1
<1>3. Firsts(x, m) \in [1 .. m -> X]
  BY <1>1 DEF Firsts
<1>4. Firsts(x, m) \in Seq(X)
  BY <1>2, <1>3, SeqDef
<1> QED
  BY <1>2, <1>3, <1>4, LenProperties

\* none at first,
LEMMA FirstsNone ==
    ASSUME NEW x
    PROVE  Firsts(x, 0) = <<>>
<1>1. Firsts(x, 0) \in Seq({}) /\ Len(Firsts(x, 0)) = 0
  <2>1. Firsts(x, 0) \in [1 .. 0 -> {}]
    BY DEF Firsts
  <2>2. Firsts(x, 0) \in Seq({})
    BY <2>1, SeqDef
  <2> QED
    BY <2>1, <2>2, LenProperties
<1> QED
  BY <1>1, EmptySeq

\* all in the end,
LEMMA FirstsAll ==
    ASSUME NEW X, NEW x \in Seq(X)
    PROVE  Firsts(x, Len(x)) = x
BY DEF Firsts

\* and one more with every step.
LEMMA FirstsMore ==
    ASSUME NEW X, NEW x \in Seq(X), NEW m \in Nat, m < Len(x)
    PROVE  /\ Firsts(x, m + 1) = Plus(Firsts(x, m), x[m + 1])
           /\ Firsts(x, m) \in Seq(X) /\ x[m + 1] \in X
<1>1. PICK n \in Nat : n = Len(x) /\ DOMAIN x = 1 .. n /\ \A i \in 1 .. n : x[i] \in X
  OBVIOUS
<1>2. m \in 0 .. Len(x) /\ m + 1 \in 0 .. Len(x) /\ m + 1 \in 1 .. n
  BY <1>1
<1>3. PICK y, z, w : y = Firsts(x, m) /\ z = Firsts(x, m + 1) /\ w = Append(y, x[m + 1])
  OBVIOUS
<1>4. y \in Seq(X) /\ Len(y) = m /\ z \in Seq(X) /\ Len(z) = m + 1 /\ x[m + 1] \in X
  BY <1>1, <1>2, <1>3, FirstsType
<1>5. w \in Seq(X) /\ Len(w) = m + 1 /\ w[m + 1] = x[m + 1] /\ \A i \in 1 .. m : w[i] = y[i]
  BY <1>3, <1>4, AppendProperties
<1>6. \A i \in 1 .. m + 1 : z[i] = x[i]
  BY <1>3 DEF Firsts
<1>7. \A i \in 1 .. m : y[i] = x[i]
  BY <1>3 DEF Firsts
<1>8. \A i \in 1 .. m + 1 : z[i] = w[i]
  BY <1>5, <1>6, <1>7
<1>9. z = w
  BY <1>4, <1>5, <1>8
<1> QED
  BY <1>3, <1>4, <1>9 DEF Plus

\* What the files give together.
AllData(s, fs) ==
    DataOf(s, AllOf(s, fs, "command"), AllOf(s, fs, "constant"), AllOf(s, fs, "end"))

ItemPlace(s, fs, p) ==
    p \in AllPlaces(s) /\ p[1] \in ToSet(fs) /\ LineOf(s, p).item \in {"command", "constant"}

\* No two items have a label in common.
OneEach(s, fs) ==
    \A p, q, l : /\ ItemPlace(s, fs, p) /\ ItemPlace(s, fs, q)
                 /\ l \in LabelsAt(s, p) /\ l \in LabelsAt(s, q)
                 => p = q

MergedSoFar(s, fs, d) ==
    /\ d = AllData(s, fs)
    /\ OneEach(s, fs)
    /\ Len(AllOf(s, fs, "end")) <= 1

\* Nothing is merged at first.
LEMMA NothingMerged ==
    ASSUME NEW s
    PROVE  MergedSoFar(s, <<>>, EmptyData)
<1>1. AllData(s, <<>>) = EmptyData
  BY AllOfNothing, DataOfNothing DEF AllData
<1>2. \A p : ~ItemPlace(s, <<>>, p)
  BY DEF ItemPlace, ToSet
<1>3. Len(AllOf(s, <<>>, "end")) <= 1
  BY AllOfNothing
<1> QED
  BY <1>1, <1>2, <1>3 DEF MergedSoFar, OneEach

\* The labels a result of these places knows.
HasLabel(s, c, k, l) == \E p \in ToSet(c) \cup ToSet(k) : l \in LabelsAt(s, p)

\* The labels of the merged data are those of the items,
LEMMA SeenInAll ==
    ASSUME NEW s, IsProgram(s), Sized(s), NEW fs \in Seq(Files), NEW l
    PROVE  l \in SeenLabels(AllData(s, fs))
             <=> \E p : ItemPlace(s, fs, p) /\ l \in LabelsAt(s, p)
<1>1. PICK c, k, e : /\ c = AllOf(s, fs, "command") /\ k = AllOf(s, fs, "constant")
                     /\ e = AllOf(s, fs, "end")
  OBVIOUS
<1>2. c \in Seq(AllPlaces(s)) /\ k \in Seq(AllPlaces(s))
  BY <1>1, AllOfType
<1>3. \A p : p \in ToSet(c) <=> IsPlaceOf(s, fs, "command", p)
  BY <1>1, AllOfElements
<1>4. \A p : p \in ToSet(k) <=> IsPlaceOf(s, fs, "constant", p)
  BY <1>1, AllOfElements
<1>5. ConstantsHaveValues(s, k)
  <2>1. ASSUME NEW p \in ToSet(k)
        PROVE  LineOf(s, p).arg > 0
    <3>1. p \in AllPlaces(s) /\ LineOf(s, p).item = "constant"
      BY <1>4, <2>1 DEF IsPlaceOf
    <3>2. p[1] \in Files /\ p[2] \in DOMAIN s[p[1]].lines
      BY <3>1 DEF AllPlaces
    <3> QED
      BY <3>1, <3>2 DEF LineOf, Sized
  <2> QED
    BY <2>1 DEF ConstantsHaveValues
<1>6. l \in SeenLabels(DataOf(s, c, k, e))
        <=> \E p \in ToSet(c) \cup ToSet(k) : l \in LabelsAt(s, p)
  BY <1>2, <1>5, SeenInData
<1>7. \A p : p \in ToSet(c) \cup ToSet(k) <=> ItemPlace(s, fs, p)
  BY <1>3, <1>4 DEF IsPlaceOf, ItemPlace
<1> QED
  BY <1>1, <1>6, <1>7 DEF AllData

\* The result of a file by its places.
LEMMA FinishedData ==
    ASSUME NEW s, IsProgram(s), NEW f \in Files, NEW u, Finished(s, f, u)
    PROVE  u = DataOf(s, FilePlaces(s, "command")[f], FilePlaces(s, "constant")[f],
                         FilePlaces(s, "end")[f])
BY DEF Finished, ReadSoFar, FileData, FilePlaces

\* An item of the files with f is one of the files or one of f.
LEMMA ItemsOfBoth ==
    ASSUME NEW s, IsProgram(s), NEW fs \in Seq(Files), NEW f \in Files, NEW p,
           ItemPlace(s, Plus(fs, f), p)
    PROVE  \/ ItemPlace(s, fs, p)
           \/ p = <<f, p[2]>> /\ p[2] \in 1 .. Len(s[f].lines) /\ IsItem(s, f, p[2])
<1>1. ToSet(Plus(fs, f)) = ToSet(fs) \cup {f}
  BY ElementsOfAppend DEF Plus
<1>2. p \in AllPlaces(s) /\ p[1] \in ToSet(fs) \cup {f} /\ LineOf(s, p).item \in {"command", "constant"}
  BY <1>1 DEF ItemPlace
<1>3. CASE p[1] = f
  BY <1>2, <1>3, PlaceOf DEF IsItem, LineOf
<1>4. CASE p[1] \in ToSet(fs)
  BY <1>2, <1>4 DEF ItemPlace
<1> QED
  BY <1>2, <1>3, <1>4

\* those of the data of a file the labels of its items.
LEMMA SeenInFile ==
    ASSUME NEW s, IsProgram(s), Sized(s), NEW f \in Files, NEW u, Finished(s, f, u), NEW l
    PROVE  l \in SeenLabels(u)
             <=> \E k \in 1 .. Len(s[f].lines) : IsItem(s, f, k) /\ l \in LabelsAt(s, <<f, k>>)
<1>1. Len(s[f].lines) \in 0 .. Len(s[f].lines)
  BY FileFacts
<1>2. u = FileData(s, f, Len(s[f].lines))
  BY DEF Finished, ReadSoFar
<1> QED
  BY <1>1, <1>2, SeenSoFar

\* Every label is at one item, if the next file brings new ones.
LEMMA OneEachMore ==
    ASSUME NEW s, IsProgram(s), Sized(s), NEW fs \in Seq(Files), NEW f \in Files,
           NEW d, NEW u, MergedSoFar(s, fs, d), Finished(s, f, u),
           SeenLabels(d) \cap SeenLabels(u) = {}
    PROVE  OneEach(s, Plus(fs, f))
<1>1. ASSUME NEW p, NEW q, NEW l, ItemPlace(s, Plus(fs, f), p), ItemPlace(s, Plus(fs, f), q),
             l \in LabelsAt(s, p), l \in LabelsAt(s, q)
      PROVE  p = q
  <2>1. d = AllData(s, fs) /\ OneEach(s, fs)
    BY DEF MergedSoFar
  <2>2. LabelsOnce(s, f, Len(s[f].lines))
    BY DEF Finished, ReadSoFar
  <2>3. \/ ItemPlace(s, fs, p)
        \/ p = <<f, p[2]>> /\ p[2] \in 1 .. Len(s[f].lines) /\ IsItem(s, f, p[2])
    BY <1>1, ItemsOfBoth
  <2>4. \/ ItemPlace(s, fs, q)
        \/ q = <<f, q[2]>> /\ q[2] \in 1 .. Len(s[f].lines) /\ IsItem(s, f, q[2])
    BY <1>1, ItemsOfBoth
  <2>5. CASE ItemPlace(s, fs, p) /\ ItemPlace(s, fs, q)
    BY <1>1, <2>1, <2>5 DEF OneEach
  <2>6. CASE ~ItemPlace(s, fs, p) /\ ~ItemPlace(s, fs, q)
    <3>1. PICK j, k \in 1 .. Len(s[f].lines) :
             p = <<f, j>> /\ q = <<f, k>> /\ IsItem(s, f, j) /\ IsItem(s, f, k)
      BY <2>3, <2>4, <2>6
    <3>2. l \in LabelsAt(s, <<f, j>>) /\ l \in LabelsAt(s, <<f, k>>)
      BY <1>1, <3>1
    <3>3. j = k
      BY <2>2, <3>1, <3>2 DEF LabelsOnce
    <3> QED
      BY <3>1, <3>3
  <2>7. ASSUME NEW a, NEW b, ItemPlace(s, fs, a), l \in LabelsAt(s, a),
               l \in LabelsAt(s, b),
               b = <<f, b[2]>> /\ b[2] \in 1 .. Len(s[f].lines) /\ IsItem(s, f, b[2])
        PROVE  FALSE
    <3>1. l \in SeenLabels(AllData(s, fs))
      BY <2>7, SeenInAll
    <3>2. PICK k \in 1 .. Len(s[f].lines) : b = <<f, k>> /\ IsItem(s, f, k)
      BY <2>7
    <3>3. l \in LabelsAt(s, <<f, k>>)
      BY <2>7, <3>2
    <3>4. l \in SeenLabels(u)
      BY <3>2, <3>3, SeenInFile
    <3> QED
      BY <2>1, <3>1, <3>4
  <2>8. CASE ItemPlace(s, fs, p) /\ ~ItemPlace(s, fs, q)
    BY <1>1, <2>4, <2>7, <2>8
  <2>9. CASE ~ItemPlace(s, fs, p) /\ ItemPlace(s, fs, q)
    BY <1>1, <2>3, <2>7, <2>9
  <2> QED
    BY <2>5, <2>6, <2>8, <2>9
<1> QED
  BY <1>1 DEF OneEach

\* Merging the result of one file more.
LEMMA MergedMore ==
    ASSUME NEW s, IsProgram(s), Sized(s), NEW fs \in Seq(Files), NEW f \in Files,
           NEW d, NEW u, MergedSoFar(s, fs, d), Finished(s, f, u), CanMerge(d, u)
    PROVE  MergedSoFar(s, Plus(fs, f), Merge(d, u))
<1>1. PICK c, k, e : /\ c = AllOf(s, fs, "command") /\ k = AllOf(s, fs, "constant")
                     /\ e = AllOf(s, fs, "end")
  OBVIOUS
<1>2. PICK c2, k2, e2 : /\ c2 = FilePlaces(s, "command")[f]
                        /\ k2 = FilePlaces(s, "constant")[f]
                        /\ e2 = FilePlaces(s, "end")[f]
  OBVIOUS
<1>3. c \in Seq(AllPlaces(s)) /\ k \in Seq(AllPlaces(s)) /\ e \in Seq(AllPlaces(s))
  BY <1>1, AllOfType
<1>4. c2 \in Seq(AllPlaces(s)) /\ k2 \in Seq(AllPlaces(s)) /\ e2 \in Seq(AllPlaces(s))
  BY <1>2, FilePlacesFacts DEF ArePlaces
<1>5. d = DataOf(s, c, k, e) /\ Len(e) <= 1
  BY <1>1 DEF MergedSoFar, AllData
<1>6. u = DataOf(s, c2, k2, e2) /\ Len(e2) <= 1
  <2>1. u = DataOf(s, c2, k2, e2)
    BY <1>2, FinishedData
  <2>2. Len(e2) <= 1
    BY <1>2 DEF Finished, ReadSoFar, FilePlaces
  <2> QED
    BY <2>1, <2>2
<1>7. e = <<>> \/ e2 = <<>>
  <2>1. d.entrypoint = NoAddress <=> e = <<>>
    BY <1>3, <1>5, EntrypointOf
  <2>2. u.entrypoint = NoAddress <=> e2 = <<>>
    BY <1>4, <1>6, EntrypointOf
  <2> QED
    BY <2>1, <2>2 DEF CanMerge
<1>8. Merge(DataOf(s, c, k, e), DataOf(s, c2, k2, e2))
        = DataOf(s, Join(c, c2), Join(k, k2), Join(e, e2))
  BY <1>3, <1>4, <1>7, MergeData
<1>9. AllOf(s, Plus(fs, f), "command") = Join(c, c2)
  BY <1>1, <1>2, AllOfMore
<1>10. AllOf(s, Plus(fs, f), "constant") = Join(k, k2)
  BY <1>1, <1>2, AllOfMore
<1>11. AllOf(s, Plus(fs, f), "end") = Join(e, e2)
  BY <1>1, <1>2, AllOfMore
<1>12. Merge(d, u) = AllData(s, Plus(fs, f))
  BY <1>5, <1>6, <1>8, <1>9, <1>10, <1>11 DEF AllData
<1>13. Len(Join(e, e2)) <= 1
  <2>1. Len(e \o e2) = Len(e) + Len(e2) /\ Len(e) \in Nat /\ Len(e2) \in Nat
    BY <1>3, <1>4
  <2>2. Len(e) = 0 \/ Len(e2) = 0
    BY <1>7
  <2> QED
    BY <1>5, <1>6, <2>1, <2>2 DEF Join
<1>14. OneEach(s, Plus(fs, f))
  BY OneEachMore DEF CanMerge
<1> QED
  BY <1>11, <1>12, <1>13, <1>14 DEF MergedSoFar

\* When the workers are joined every slot holds what its whole file gives.
LEMMA ResultsFinished ==
    ASSUME IInv, CollectedInv, phase \in {"merge", "write"}, NEW i \in 1 .. Len(files_)
    PROVE  Finished(source, files_[i], files_data[i])
<1>1. TypeOK /\ PhasesInv /\ SlicesInv
  BY DEF IInv
<1>2. /\ workers # <<>> /\ Len(workers) = NWorkers
      /\ \A w \in DOMAIN workers : workers[w].next > workers[w].last
  BY <1>1 DEF PhasesInv
<1>3. NWorkers \in Nat \ {0} /\ Len(files_) \in Nat
  <2>1. Len(workers) \in Nat \ {0}
    BY <1>1, <1>2, EmptySeq DEF TypeOK
  <2> QED
    BY <1>1, <1>2, <2>1, NWorkersFacts
<1>4. Last(workers).last = Len(files_)
  <2>1. NWorkers \in 0 .. NWorkers
    BY <1>3
  <2>2. SliceEnd(NWorkers, NWorkers, Len(files_)) = Len(files_)
    BY <1>3, <2>1, SliceFacts
  <2> QED
    BY <1>1, <1>2, <2>2 DEF SlicesInv
<1>5. ~StillToCome(i)
  <2> SUFFICES ASSUME NEW w \in DOMAIN workers,
                      workers[w].next <= i, i <= workers[w].last
               PROVE  FALSE
    BY DEF StillToCome
  <2>1. workers[w] \in WorkerType
    BY <1>1, LenProperties, ElementOfSeq DEF TypeOK
  <2>2. workers[w].next \in Nat /\ workers[w].last \in Nat /\ i \in Nat
    BY <1>3, <2>1 DEF WorkerType
  <2> QED
    BY <1>2, <2>2
<1> QED
  BY <1>2, <1>4, <1>5 DEF CollectedInv, ResultsInv

\* The data merged so far are what the first files give together.
MergedInv ==
    /\ phase \in {"start", "includes", "spawn", "join"} => merged = 0 /\ data = EmptyData
    /\ phase \in {"merge", "write"} => MergedSoFar(source, Firsts(files_, merged), data)
    /\ phase = "write" =>
          merged = Len(files_) /\ CanSubstitute(data) /\ exec = ToExecData(data)

\* Nothing is merged before the workers are joined.
LEMMA MergedInvInit == Init => MergedInv
  BY DEF Init, MergedInv

\* What is known before a file is merged.
LEMMA AtMerge ==
    ASSUME IInv, CollectedInv, MergedInv, phase = "merge", merged < Len(files_)
    PROVE  /\ IsProgram(source) /\ Sized(source) /\ files_ \in Seq(Files) /\ merged \in Nat
           /\ files_[merged + 1] \in Files
           /\ Firsts(files_, merged) \in Seq(Files)
           /\ Firsts(files_, merged + 1) = Plus(Firsts(files_, merged), files_[merged + 1])
           /\ MergedSoFar(source, Firsts(files_, merged), data)
           /\ Finished(source, files_[merged + 1], files_data[merged + 1])
           /\ merged + 1 \in 1 .. Len(files_)
<1>1. /\ IsProgram(source) /\ files_ \in Seq(Files) /\ merged \in 0 .. Len(files_)
      /\ Len(files_) \in Nat
  BY DEF IInv, TypeOK, IsProgram
<1>2. merged \in Nat /\ merged + 1 \in 1 .. Len(files_)
  BY <1>1
<1>3. Finished(source, files_[merged + 1], files_data[merged + 1])
  BY <1>2, ResultsFinished
<1> QED
  BY <1>1, <1>2, <1>3, FirstsMore DEF MergedInv, CollectedInv

\* One more file is merged.
LEMMA MergeFileMerged ==
    ASSUME IInv, CollectedInv, MergedInv, MergeFile
    PROVE  MergedInv'
<1>1. PICK fs, f, u : /\ fs = Firsts(files_, merged) /\ f = files_[merged + 1]
                      /\ u = files_data[merged + 1]
  OBVIOUS
<1>2. /\ phase = "merge" /\ phase' = phase /\ merged < Len(files_) /\ CanMerge(data, u)
      /\ data' = Merge(data, u) /\ merged' = merged + 1 /\ UNCHANGED <<source, files_>>
  BY <1>1 DEF MergeFile, mergeVars, includesVars
<1>3. /\ IsProgram(source) /\ Sized(source) /\ f \in Files /\ fs \in Seq(Files)
      /\ Firsts(files_, merged + 1) = Plus(fs, f)
      /\ MergedSoFar(source, fs, data) /\ Finished(source, f, u)
  BY <1>1, <1>2, AtMerge
<1>4. MergedSoFar(source, Plus(fs, f), Merge(data, u))
  BY <1>2, <1>3, MergedMore
<1>5. MergedSoFar(source', Firsts(files_', merged'), data')
  BY <1>2, <1>3, <1>4
<1> QED
  BY <1>2, <1>5 DEF MergedInv

\* Every step keeps what is known of the merged data.
LEMMA MergedInvNext ==
    ASSUME IInv, CollectedInv, MergedInv, [Next]_vars
    PROVE  MergedInv'
<1>1. CASE MergeFile
  BY <1>1, MergeFileMerged
<1>2. CASE Substitute
  <2>1. phase = "merge" /\ merged = Len(files_) /\ UNCHANGED <<source, files_, data, merged>>
    BY <1>2 DEF Substitute, mergeVars, includesVars
  <2>2. CASE CanSubstitute(data)
    <3>1. phase' = "write" /\ exec' = ToExecData(data)
      BY <1>2, <2>2 DEF Substitute
    <3>2. MergedSoFar(source, Firsts(files_, merged), data)
      BY <2>1 DEF MergedInv
    <3>3. MergedSoFar(source', Firsts(files_', merged'), data')
      BY <2>1, <3>2
    <3>4. CanSubstitute(data') /\ exec' = ToExecData(data') /\ merged' = Len(files_')
      BY <2>1, <2>2, <3>1
    <3> QED
      BY <3>1, <3>3, <3>4 DEF MergedInv
  <2>3. CASE ~CanSubstitute(data)
    <3>1. phase' = "failed"
      BY <1>2, <2>3 DEF Substitute
    <3> QED
      BY <3>1 DEF MergedInv
  <2> QED
    BY <2>2, <2>3
<1>3. CASE JoinWorkers
  <2>1. phase = "join" /\ phase' = "merge" /\ UNCHANGED <<source, files_, data, merged>>
    BY <1>3 DEF JoinWorkers, mainVars, includesVars
  <2>2. merged = 0 /\ data = EmptyData
    BY <2>1 DEF MergedInv
  <2>3. Firsts(files_', merged') = <<>> /\ data' = EmptyData
    BY <2>1, <2>2, FirstsNone
  <2>4. MergedSoFar(source', Firsts(files_', merged'), data')
    BY <2>3, NothingMerged
  <2> QED
    BY <2>1, <2>4 DEF MergedInv
<1>4. CASE GetFiles \/ SkipInclude \/ FollowInclude \/ LeaveFile \/ StartWorker
  <2>1. /\ phase \in {"start", "includes", "spawn"} /\ UNCHANGED <<data, merged>>
        /\ phase' \in {"start", "includes", "spawn", "join"} \cup Ended
    BY <1>4 DEF GetFiles, SkipInclude, FollowInclude, LeaveFile, ProcessFileIncludes,
                resultVars, StartWorker, mainVars, Ended
  <2>2. merged = 0 /\ data = EmptyData
    BY <2>1 DEF MergedInv
  <2> QED
    BY <2>1, <2>2 DEF MergedInv, Ended
<1>5. CASE DivideByZero \/ CannotStartWorker \/ MergeFails \/ Write
  <2>1. phase' \in Ended
    BY <1>5 DEF DivideByZero, CannotStartWorker, MergeFails, Write, Ended
  <2> QED
    BY <2>1 DEF MergedInv, Ended
<1>6. ASSUME NEW w \in DOMAIN workers, WorkerStep(w)
      PROVE  MergedInv'
  <2>1. CASE \/ OpenEmptyFile(w) \/ RejectLine(w) \/ FileEndsWithLabel(w) \/ CannotReopen(w)
    <3>1. phase' \in Ended
      BY <2>1 DEF OpenEmptyFile, RejectLine, FileEndsWithLabel, CannotReopen, Terminate, Ended
    <3> QED
      BY <3>1 DEF MergedInv, Ended
  <2>2. CASE \/ OpenFile(w) \/ ProcessLabel(w) \/ ProcessCommand(w) \/ ProcessConstant(w)
             \/ ProcessEntrypoint(w) \/ FinishFile(w)
    <3>1. Runs(w) /\ UNCHANGED <<phase, data, merged>>
      BY <2>2 DEF OpenFile, ProcessLabel, ProcessCommand, ProcessConstant, ProcessEntrypoint,
                  FinishFile, AtEnd, AtItem, NextLine, Becomes, mainVars
    <3>2. phase \in {"spawn", "join"}
      BY <3>1 DEF Runs
    <3> QED
      BY <3>1, <3>2 DEF MergedInv
  <2> QED
    BY <1>6, <2>1, <2>2 DEF WorkerStep
<1>7. CASE Stopped \/ UNCHANGED vars
  <2>1. UNCHANGED <<source, phase, files_, data, merged, exec>>
    BY <1>7 DEF Stopped, vars
  <2> QED
    BY <2>1 DEF MergedInv
<1> QED
  BY <1>1, <1>2, <1>3, <1>4, <1>5, <1>6, <1>7 DEF Next, MainStep
-----------------------------------------------------------------------------
(***************************************************************************)
(* What the abstract assembler says of a program, in the terms of the data.*)
(***************************************************************************)
\* The operators of the abstract assembler.
LEMMA AbstractLine ==
    /\ \A x : Abstract!IsBlank(x) = IsBlank(x)
    /\ \A p : Abstract!LineAt(p) = LineOf(source, p)
    /\ \A f : Abstract!CanInclude(f) = CanInclude(f)
    /\ \A S : Abstract!Min(S) = Min(S)
    /\ \A S : Abstract!Cardinality(S) = Cardinality(S)
    /\ \A x : Abstract!ToSet(x) = ToSet(x)
<1>1. \A x : Abstract!IsBlank(x) = IsBlank(x)
  BY Zenon DEF Abstract!IsBlank, IsBlank
<1>2. \A p : Abstract!LineAt(p) = LineOf(source, p)
  BY Zenon DEF Abstract!LineAt, LineOf
<1>3. \A x : Abstract!ToSet(x) = ToSet(x)
  BY Zenon DEF Abstract!ToSet, ToSet
<1>4. \A f : Abstract!CanInclude(f) = CanInclude(f)
  BY <1>3, Zenon DEF Abstract!CanInclude, CanInclude
<1>5. \A S : Abstract!Min(S) = Min(S)
  BY Zenon DEF Abstract!Min, Min
<1>6. \A S : Abstract!Cardinality(S) = Cardinality(S)
  BY Zenon DEF Abstract!Cardinality, Cardinality
<1> QED
  BY <1>1, <1>2, <1>3, <1>4, <1>5, <1>6

\* The line after the blank ones,
LEMMA AbstractNextLine ==
    ASSUME NEW f, NEW n
    PROVE  Abstract!NextLine(f, n) = NextOf(source, f, n)
<1>1. {k \in n + 1 .. Len(source[f].lines) : ~Abstract!IsBlank(source[f].lines[k])}
        = {k \in n + 1 .. Len(source[f].lines) : ~IsBlank(source[f].lines[k])}
  BY AbstractLine, Zenon
<1>2. PICK later : later = {k \in n + 1 .. Len(source[f].lines) : ~IsBlank(source[f].lines[k])}
  OBVIOUS
<1>3. Abstract!NextLine(f, n) = IF later = {} THEN 0 ELSE Abstract!Min(later)
  BY <1>1, <1>2, Zenon DEF Abstract!NextLine
<1>4. NextOf(source, f, n) = IF later = {} THEN 0 ELSE Min(later)
  BY <1>2, Zenon DEF NextOf
<1> QED
  BY <1>3, <1>4, AbstractLine

\* the labels that stand before an item,
LEMMA AbstractSettled ==
    ASSUME NEW f
    PROVE  Abstract!LabelsStandBeforeItems(f)
             <=> \A n \in DOMAIN source[f].lines : Settled(source, f, n)
BY AbstractNextLine DEF Abstract!LabelsStandBeforeItems, Settled, IsItem

\* The items a label stands before, in the files fs.
DefinedIn(s, fs, l) == {p \in AllPlaces(s) : ItemPlace(s, fs, p) /\ StandsBefore(s, l, p)}

\* The uses of labels.
UsePlace(s, fs, p) ==
    /\ IsPlaceOf(s, fs, "command", p) \/ IsPlaceOf(s, fs, "end", p)
    /\ LineOf(s, p).use # NoLabel

\* the items of a label,
LEMMA AbstractDefined ==
    ASSUME TypeOK, files_ = Abstract!Order, NEW l
    PROVE  Abstract!Defined(l) = DefinedIn(source, files_, l)
<1>1. IsProgram(source) /\ files_ \in Seq(Files)
  BY DEF TypeOK, IsProgram
<1>2. Abstract!Places("command") = AllOf(source, files_, "command")
  BY AbstractPlaces
<1>3. Abstract!Places("constant") = AllOf(source, files_, "constant")
  BY AbstractPlaces
<1>4. PICK c, k : /\ c = AllOf(source, files_, "command")
                  /\ k = AllOf(source, files_, "constant")
  OBVIOUS
<1>5. \A p : p \in ToSet(c) <=> IsPlaceOf(source, files_, "command", p)
  BY <1>1, <1>4, AllOfElements
<1>6. \A p : p \in ToSet(k) <=> IsPlaceOf(source, files_, "constant", p)
  BY <1>1, <1>4, AllOfElements
<1>7. \A p : p \in ToSet(c) \cup ToSet(k) <=> ItemPlace(source, files_, p)
  BY <1>5, <1>6 DEF IsPlaceOf, ItemPlace
<1>8. Abstract!Defined(l) = {p \in ToSet(c) \cup ToSet(k) : StandsBefore(source, l, p)}
  <2>1. \A p : StandsBefore(source, l, p)
                 <=> \/ Abstract!LineAt(p).label = l
                     \/ \E n \in 1 .. p[2] - 1 :
                           /\ source[p[1]].lines[n].label = l
                           /\ source[p[1]].lines[n].item = "none"
                           /\ Abstract!NextLine(p[1], n) = p[2]
    BY AbstractLine, AbstractNextLine DEF StandsBefore
  <2>2. Abstract!ToSet(Abstract!Places("command")) \cup Abstract!ToSet(Abstract!Places("constant"))
          = ToSet(c) \cup ToSet(k)
    BY <1>2, <1>3, <1>4, AbstractLine
  <2> QED
    BY <2>1, <2>2, Zenon DEF Abstract!Defined
<1> QED
  BY <1>7, <1>8 DEF DefinedIn, ItemPlace

\* and the items that use one.
LEMMA AbstractUses ==
    ASSUME TypeOK, files_ = Abstract!Order, NEW p
    PROVE  p \in Abstract!Uses <=> UsePlace(source, files_, p)
<1>1. IsProgram(source) /\ files_ \in Seq(Files)
  BY DEF TypeOK, IsProgram
<1>2. Abstract!Places("command") = AllOf(source, files_, "command")
  BY AbstractPlaces
<1>3. Abstract!Places("end") = AllOf(source, files_, "end")
  BY AbstractPlaces
<1>4. PICK c, e : /\ c = AllOf(source, files_, "command")
                  /\ e = AllOf(source, files_, "end")
  OBVIOUS
<1>5. p \in ToSet(c) <=> IsPlaceOf(source, files_, "command", p)
  BY <1>1, <1>4, AllOfElements
<1>6. p \in ToSet(e) <=> IsPlaceOf(source, files_, "end", p)
  BY <1>1, <1>4, AllOfElements
<1>7. Abstract!Uses = {q \in ToSet(c) \cup ToSet(e) : LineOf(source, q).use # NoLabel}
  <2>1. Abstract!ToSet(Abstract!Places("command")) \cup Abstract!ToSet(Abstract!Places("end"))
          = ToSet(c) \cup ToSet(e)
    BY <1>2, <1>3, <1>4, AbstractLine
  <2> QED
    BY <2>1, AbstractLine, Zenon DEF Abstract!Uses
<1> QED
  BY <1>5, <1>6, <1>7 DEF UsePlace

\* A sequence has finitely many elements.
LEMMA ToSetFinite ==
    ASSUME NEW X, NEW x \in Seq(X)
    PROVE  IsFiniteSet(ToSet(x))
<1>1. x \in Surjection(1 .. Len(x), ToSet(x))
  BY DEF ToSet, Surjection
<1>2. IsFiniteSet(1 .. Len(x))
  BY FS_Interval
<1> QED
  BY <1>1, <1>2, FS_Surjection

\* A label stands before finitely many items.
LEMMA DefinedFinite ==
    ASSUME NEW s, IsProgram(s), NEW fs \in Seq(Files), NEW l
    PROVE  IsFiniteSet(DefinedIn(s, fs, l))
<1>1. PICK c, k : c = AllOf(s, fs, "command") /\ k = AllOf(s, fs, "constant")
  OBVIOUS
<1>2. c \in Seq(AllPlaces(s)) /\ k \in Seq(AllPlaces(s))
  BY <1>1, AllOfType
<1>3. IsFiniteSet(ToSet(c)) /\ IsFiniteSet(ToSet(k))
  BY <1>2, ToSetFinite
<1>4. IsFiniteSet(ToSet(c) \cup ToSet(k))
  BY <1>3, FS_Union
<1>5. /\ \A p : p \in ToSet(c) <=> IsPlaceOf(s, fs, "command", p)
      /\ \A p : p \in ToSet(k) <=> IsPlaceOf(s, fs, "constant", p)
  BY <1>1, AllOfElements
<1>6. DefinedIn(s, fs, l) \in SUBSET (ToSet(c) \cup ToSet(k))
  BY <1>5 DEF DefinedIn, ItemPlace, IsPlaceOf
<1> QED
  BY <1>4, <1>6, FS_Subset

\* At most one element.
LEMMA AtMostOne ==
    ASSUME NEW S, IsFiniteSet(S)
    PROVE  Cardinality(S) <= 1 <=> \A p, q \in S : p = q
<1>1. ASSUME Cardinality(S) <= 1, NEW p \in S, NEW q \in S, p # q
      PROVE  FALSE
  <2>1. Cardinality(S) \in Nat
    BY FS_CardinalityType
  <2>2. IsFiniteSet(S \ {p}) /\ Cardinality(S \ {p}) = Cardinality(S) - 1
    BY <1>1, FS_RemoveElement
  <2>3. Cardinality(S \ {p}) \in Nat
    BY <2>2, FS_CardinalityType
  <2>4. Cardinality(S \ {p}) = 0
    BY <1>1, <2>1, <2>2, <2>3
  <2>5. S \ {p} = {}
    BY <2>2, <2>4, FS_EmptySet
  <2> QED
    BY <1>1, <2>5
<1>2. ASSUME \A p, q \in S : p = q
      PROVE  Cardinality(S) <= 1
  <2>1. CASE S = {}
    BY <2>1, FS_EmptySet
  <2>2. CASE S # {}
    <3>1. PICK p : S = {p}
      BY <1>2, <2>2
    <3> QED
      BY <3>1, FS_Singleton
  <2> QED
    BY <2>1, <2>2
<1> QED
  BY <1>1, <1>2

\* It stands before one at most, when every label is at one item.
LEMMA DefinedOnce ==
    ASSUME NEW s, IsProgram(s), NEW fs \in Seq(Files)
    PROVE  (\A l \in Labels : Cardinality(DefinedIn(s, fs, l)) <= 1) <=> OneEach(s, fs)
<1>1. ASSUME NEW l
      PROVE  Cardinality(DefinedIn(s, fs, l)) <= 1
               <=> \A p, q \in DefinedIn(s, fs, l) : p = q
  BY DefinedFinite, AtMostOne
<1>2. OneEach(s, fs) <=> \A l \in Labels : \A p, q \in DefinedIn(s, fs, l) : p = q
  BY DEF OneEach, DefinedIn, ItemPlace, LabelsAt
<1> QED
  BY <1>1, <1>2

\* What Assembler!Compilable says of the program s, whose files are fs.
ValidProgram(s, fs) ==
    /\ \A f \in ToSet(fs) : NextOf(s, f, 0) # 0
    /\ \A f \in ToSet(fs) : \A n \in DOMAIN s[f].lines : Settled(s, f, n)
    /\ AllOf(s, fs, "bad") = <<>>
    /\ Len(AllOf(s, fs, "end")) = 1
    /\ OneEach(s, fs)
    /\ \A p : UsePlace(s, fs, p) => DefinedIn(s, fs, LineOf(s, p).use) # {}

\* What the abstract assembler asks of a program that can be compiled.
LEMMA ValidIs ==
    ASSUME IInv, SearchedInv, phase \in {"spawn", "join", "merge", "write"}
    PROVE  Abstract!Compilable <=> ValidProgram(source, files_)
<1>1. /\ files_ = Abstract!Order /\ ToSet(files_) = Abstract!Program
      /\ \A f \in Abstract!Program : CanInclude(f)
  BY ListedInOrder
<1>2. TypeOK /\ IsProgram(source) /\ files_ \in Seq(Files)
  BY DEF IInv, TypeOK, IsProgram
<1>3. \A f \in Abstract!Program : Abstract!CanInclude(f)
  BY <1>1, AbstractLine
<1>4. (\A f \in Abstract!Program : Abstract!NextLine(f, 0) # 0)
        <=> \A f \in ToSet(files_) : NextOf(source, f, 0) # 0
  BY <1>1, AbstractNextLine
<1>5. (\A f \in Abstract!Program : Abstract!LabelsStandBeforeItems(f))
        <=> \A f \in ToSet(files_) : \A n \in DOMAIN source[f].lines : Settled(source, f, n)
  BY <1>1, AbstractSettled
<1>6. Abstract!Places("bad") = AllOf(source, files_, "bad")
  BY <1>1, <1>2, AbstractPlaces
<1>7. Abstract!Places("end") = AllOf(source, files_, "end")
  BY <1>1, <1>2, AbstractPlaces
<1>8. (\A l \in Labels : Abstract!Cardinality(Abstract!Defined(l)) <= 1)
        <=> OneEach(source, files_)
  <2>1. \A l : Abstract!Defined(l) = DefinedIn(source, files_, l)
    BY <1>1, <1>2, AbstractDefined
  <2>2. (\A l \in Labels : Cardinality(DefinedIn(source, files_, l)) <= 1)
          <=> OneEach(source, files_)
    BY <1>2, DefinedOnce
  <2> QED
    BY <2>1, <2>2, AbstractLine
<1>9. (\A p \in Abstract!Uses : Abstract!Defined(Abstract!LineAt(p).use) # {})
        <=> \A p : UsePlace(source, files_, p)
                     => DefinedIn(source, files_, LineOf(source, p).use) # {}
  <2>1. \A p : p \in Abstract!Uses <=> UsePlace(source, files_, p)
    BY <1>1, <1>2, AbstractUses
  <2>2. \A l : Abstract!Defined(l) = DefinedIn(source, files_, l)
    BY <1>1, <1>2, AbstractDefined
  <2> QED
    BY <2>1, <2>2, AbstractLine
<1> QED
  BY <1>3, <1>4, <1>5, <1>6, <1>7, <1>8, <1>9, Zenon DEF Abstract!Compilable, Abstract!Valid, Abstract!FilesHaveLines,
                                                      ValidProgram
-----------------------------------------------------------------------------
(***************************************************************************)
(* Every error is one of the program.                                      *)
(***************************************************************************)
\* A line of a kind is a place of the program.
LEMMA LineIsPlace ==
    ASSUME NEW s, IsProgram(s), NEW fs \in Seq(Files), NEW f \in ToSet(fs),
           NEW n \in 1 .. Len(s[f].lines), NEW kind, s[f].lines[n].item = kind
    PROVE  <<f, n>> \in ToSet(AllOf(s, fs, kind))
<1>1. f \in Files
  BY DEF ToSet
<1>2. <<f, n>> \in AllPlaces(s) /\ <<f, n>>[1] = f /\ <<f, n>>[2] = n
  BY <1>1, PlaceIn
<1>3. IsPlaceOf(s, fs, kind, <<f, n>>)
  BY <1>2 DEF IsPlaceOf, LineOf
<1> QED
  BY <1>3, AllOfElements

\* A line with an item is an item of the program.
LEMMA LineIsItem ==
    ASSUME NEW s, IsProgram(s), NEW fs \in Seq(Files), NEW f \in ToSet(fs),
           NEW n \in 1 .. Len(s[f].lines), IsItem(s, f, n)
    PROVE  ItemPlace(s, fs, <<f, n>>)
<1>1. f \in Files
  BY DEF ToSet
<1>2. <<f, n>> \in AllPlaces(s) /\ <<f, n>>[1] = f /\ <<f, n>>[2] = n
  BY <1>1, PlaceIn
<1> QED
  BY <1>2 DEF ItemPlace, LineOf, IsItem

\* A line that is rejected,
LEMMA BadLine ==
    ASSUME NEW s, IsProgram(s), NEW fs \in Seq(Files), NEW f \in ToSet(fs),
           NEW n \in 1 .. Len(s[f].lines), s[f].lines[n].item = "bad"
    PROVE  ~ValidProgram(s, fs)
<1>1. <<f, n>> \in ToSet(AllOf(s, fs, "bad"))
  BY LineIsPlace
<1>2. ToSet(<<>>) = {}
  BY DEF ToSet
<1> QED
  BY <1>1, <1>2 DEF ValidProgram

\* a label that stands before no item,
LEMMA NotSettled ==
    ASSUME NEW s, IsProgram(s), NEW fs \in Seq(Files), NEW f \in ToSet(fs),
           NEW n \in 1 .. Len(s[f].lines), ~Settled(s, f, n)
    PROVE  ~ValidProgram(s, fs)
<1>1. f \in Files
  BY DEF ToSet
<1>2. n \in DOMAIN s[f].lines
  BY <1>1, FileFacts
<1> QED
  BY <1>2 DEF ValidProgram

\* A label waits, and what comes next is no item of its own.
LEMMA WaitsForNoItem ==
    ASSUME NEW s, IsProgram(s), NEW fs \in Seq(Files), NEW f \in ToSet(fs),
           NEW n \in Nat, n + 1 <= Len(s[f].lines), NEW label, label # NoLabel,
           Pending(s, f, n, label), ~IsBlank(s[f].lines[n + 1]),
           s[f].lines[n + 1].label # NoLabel \/ ~IsItem(s, f, n + 1)
    PROVE  ~ValidProgram(s, fs)
<1>1. f \in Files /\ Len(s[f].lines) \in Nat
  BY FileFacts DEF ToSet
<1>2. PICK k \in 1 .. n : Waits(s, f, k, n)
  BY DEF Pending
<1>3. NextOf(s, f, k) = n + 1
  BY <1>1, <1>2, WaitedFor
<1>4. ~Settled(s, f, k)
  BY <1>2, <1>3 DEF Settled, Waits, IsItem
<1>5. k \in 1 .. Len(s[f].lines)
  BY <1>1
<1> QED
  BY <1>4, <1>5, NotSettled

\* A label of an earlier item.
LEMMA SeenBefore ==
    ASSUME NEW s, IsProgram(s), Sized(s), NEW fs \in Seq(Files), NEW f \in ToSet(fs),
           NEW n \in Nat, n + 1 <= Len(s[f].lines), NEW label, NEW d,
           ReadSoFar(s, f, n, label, d), IsItem(s, f, n + 1),
           s[f].lines[n + 1].label = NoLabel \/ label = NoLabel,
           Before(s, f, n + 1, label) \in SeenLabels(d)
    PROVE  ~ValidProgram(s, fs)
<1>1. f \in Files /\ Len(s[f].lines) \in Nat
  BY FileFacts DEF ToSet
<1>2. n \in 0 .. Len(s[f].lines) /\ n + 1 \in 1 .. Len(s[f].lines)
  BY <1>1
<1>3. PICK l : l = Before(s, f, n + 1, label)
  OBVIOUS
<1>4. PICK k \in 1 .. n : IsItem(s, f, k) /\ l \in LabelsAt(s, <<f, k>>)
  <2>1. l \in SeenLabels(FileData(s, f, n))
    BY <1>3 DEF ReadSoFar
  <2> QED
    BY <1>1, <1>2, <2>1, SeenSoFar
<1>5. l # NoLabel
  BY <1>4, LabelsAssumption DEF LabelsAt
<1>6. l \in LabelsAt(s, <<f, n + 1>>)
  <2>1. ~IsBlank(s[f].lines[n + 1])
    BY DEF IsBlank, IsItem
  <2>2. Pending(s, f, n, label)
    BY DEF ReadSoFar
  <2>3. LabelsAt(s, <<f, n + 1>>)
          = OneLabel(IF s[f].lines[n + 1].label # NoLabel THEN s[f].lines[n + 1].label
                                                          ELSE label)
    BY <1>1, <2>1, <2>2, ItemLabels
  <2>4. LabelsAt(s, <<f, n + 1>>) = OneLabel(l)
    BY <1>3, <2>3 DEF Before
  <2> QED
    BY <1>5, <2>4 DEF OneLabel
<1>7. k \in 1 .. Len(s[f].lines) /\ k # n + 1
  BY <1>1
<1>8. ItemPlace(s, fs, <<f, k>>) /\ ItemPlace(s, fs, <<f, n + 1>>)
  BY <1>2, <1>4, <1>7, LineIsItem
<1>9. <<f, k>> # <<f, n + 1>>
  BY <1>7
<1>10. ~OneEach(s, fs)
  BY <1>4, <1>6, <1>8, <1>9 DEF OneEach
<1> QED
  BY <1>10 DEF ValidProgram

\* Two entrypoint directives.
LEMMA TwoEnds ==
    ASSUME NEW s, IsProgram(s), NEW fs \in Seq(Files), NEW f \in ToSet(fs), NEW g \in ToSet(fs),
           NEW n \in 1 .. Len(s[f].lines), s[f].lines[n].item = "end",
           NEW m \in 1 .. Len(s[g].lines), s[g].lines[m].item = "end",
           <<f, n>> # <<g, m>>
    PROVE  ~ValidProgram(s, fs)
<1>1. PICK e : e = AllOf(s, fs, "end")
  OBVIOUS
<1>2. e \in Seq(AllPlaces(s))
  BY <1>1, AllOfType
<1>3. <<f, n>> \in ToSet(e) /\ <<g, m>> \in ToSet(e)
  BY <1>1, LineIsPlace
<1>4. Len(e) # 1
  BY <1>2, <1>3 DEF ToSet
<1> QED
  BY <1>1, <1>4 DEF ValidProgram

\* and a second entrypoint make a program invalid.
LEMMA SecondEnd ==
    ASSUME NEW s, IsProgram(s), NEW fs \in Seq(Files), NEW f \in ToSet(fs),
           NEW n \in Nat, n + 1 <= Len(s[f].lines), NEW label, NEW d,
           ReadSoFar(s, f, n, label, d), s[f].lines[n + 1].item = "end",
           d.entrypoint # NoAddress
    PROVE  ~ValidProgram(s, fs)
<1>1. f \in Files /\ Len(s[f].lines) \in Nat
  BY FileFacts DEF ToSet
<1>2. n \in 0 .. Len(s[f].lines) /\ n + 1 \in 1 .. Len(s[f].lines)
  BY <1>1
<1>3. PICK e : e = PlacesOf(s, f, "end")[n]
  OBVIOUS
<1>4. e \in Seq(AllPlaces(s)) /\ ToSet(e) = LinesOfKind(s, f, "end", n)
  BY <1>1, <1>2, <1>3, PlacesType, PlacesElements
<1>5. e # <<>>
  <2>1. d = DataOf(s, PlacesOf(s, f, "command")[n], PlacesOf(s, f, "constant")[n], e)
    BY <1>3 DEF ReadSoFar, FileData
  <2> QED
    BY <1>4, <2>1, EntrypointOf
<1>6. e[1] \in ToSet(e)
  BY <1>4, <1>5 DEF ToSet
<1>7. PICK k \in 1 .. n : s[f].lines[k].item = "end"
  BY <1>4, <1>6 DEF LinesOfKind
<1>8. k \in 1 .. Len(s[f].lines) /\ <<f, k>> # <<f, n + 1>>
  BY <1>1
<1> QED
  BY <1>2, <1>7, <1>8, TwoEnds

\* What the file compiler rejects.
LEMMA RejectedLine ==
    ASSUME NEW s, IsProgram(s), Sized(s), NEW fs \in Seq(Files), NEW f \in ToSet(fs),
           NEW n \in Nat, n + 1 <= Len(s[f].lines), NEW label, NEW d,
           ReadSoFar(s, f, n, label, d),
           \/ s[f].lines[n + 1].item = "bad"
           \/ s[f].lines[n + 1].label # NoLabel /\ label # NoLabel
           \/ IsItem(s, f, n + 1) /\ Before(s, f, n + 1, label) \in SeenLabels(d)
           \/ s[f].lines[n + 1].item = "end" /\ Before(s, f, n + 1, label) # NoLabel
           \/ s[f].lines[n + 1].item = "end" /\ d.entrypoint # NoAddress
    PROVE  ~ValidProgram(s, fs)
<1>1. f \in Files /\ Len(s[f].lines) \in Nat
  BY FileFacts DEF ToSet
<1>2. n + 1 \in 1 .. Len(s[f].lines)
  BY <1>1
<1>3. Pending(s, f, n, label)
  BY DEF ReadSoFar
<1>4. CASE s[f].lines[n + 1].item = "bad"
  BY <1>2, <1>4, BadLine
<1>5. CASE s[f].lines[n + 1].label # NoLabel /\ label # NoLabel
  <2>1. ~IsBlank(s[f].lines[n + 1])
    BY <1>5 DEF IsBlank
  <2> QED
    BY <1>3, <1>5, <2>1, WaitsForNoItem
<1>6. CASE /\ s[f].lines[n + 1].label = NoLabel \/ label = NoLabel
           /\ IsItem(s, f, n + 1) /\ Before(s, f, n + 1, label) \in SeenLabels(d)
  BY <1>6, SeenBefore
<1>7. CASE s[f].lines[n + 1].item = "end" /\ Before(s, f, n + 1, label) # NoLabel
  <2>1. CASE s[f].lines[n + 1].label # NoLabel
    <3>1. ~Settled(s, f, n + 1)
      BY <1>7, <2>1 DEF Settled, IsItem
    <3> QED
      BY <1>2, <3>1, NotSettled
  <2>2. CASE s[f].lines[n + 1].label = NoLabel
    <3>1. label # NoLabel
      BY <1>7, <2>2 DEF Before
    <3>2. ~IsBlank(s[f].lines[n + 1]) /\ ~IsItem(s, f, n + 1)
      BY <1>7 DEF IsBlank, IsItem
    <3> QED
      BY <1>3, <3>1, <3>2, WaitsForNoItem
  <2> QED
    BY <2>1, <2>2
<1>8. CASE s[f].lines[n + 1].item = "end" /\ d.entrypoint # NoAddress
  BY <1>8, SecondEnd
<1> QED
  BY <1>4, <1>5, <1>6, <1>7, <1>8

\* The file of a running worker is listed.
LEMMA FileListed ==
    ASSUME IInv, NEW w \in DOMAIN workers, Runs(w)
    PROVE  File(w) \in ToSet(files_) /\ files_ \in Seq(Files)
           /\ phase \in {"spawn", "join", "merge", "write"}
<1>1. files_ \in Seq(Files) /\ Len(files_) \in Nat /\ workers \in Seq(WorkerType)
      /\ workers[w].last <= Len(files_)
  BY DEF IInv, TypeOK
<1>2. workers[w] \in WorkerType
  BY <1>1, LenProperties, ElementOfSeq
<1>3. /\ workers[w].next \in Nat \ {0} /\ workers[w].last \in Nat
      /\ workers[w].next <= workers[w].last
  BY <1>2 DEF WorkerType, Runs, IsDone
<1>4. workers[w].next \in DOMAIN files_
  BY <1>1, <1>3
<1>5. File(w) \in ToSet(files_)
  BY <1>4 DEF File, ToSet
<1> QED
  BY <1>1, <1>5 DEF Runs

\* A file without a line is refused as the abstract assembler refuses it,
LEMMA OpenEmptyFileRefuses ==
    ASSUME IInv, SearchedInv, CollectedInv, NEW w \in DOMAIN workers, OpenEmptyFile(w)
    PROVE  ~Abstract!Compilable
<1>1. PICK f : f = File(w)
  OBVIOUS
<1>2. Runs(w) /\ FirstLines(w) = {}
  BY DEF OpenEmptyFile
<1>3. f \in ToSet(files_) /\ phase \in {"spawn", "join", "merge", "write"}
  BY <1>1, <1>2, FileListed
<1>4. IsProgram(source) /\ f \in Files /\ Lines(w) = source[f].lines
  BY <1>1, <1>2, OpenFacts
<1>5. DOMAIN source[f].lines = 1 .. Len(source[f].lines)
  BY <1>4, FileFacts
<1>6. {k \in 0 + 1 .. Len(source[f].lines) : ~IsBlank(source[f].lines[k])} = {}
  BY <1>2, <1>4, <1>5 DEF FirstLines
<1>7. NextOf(source, f, 0) = 0
  BY <1>6, Zenon DEF NextOf
<1>8. ~ValidProgram(source, files_)
  BY <1>3, <1>7 DEF ValidProgram
<1> QED
  BY <1>3, <1>8, ValidIs

\* and so is a line,
LEMMA RejectLineRefuses ==
    ASSUME IInv, SearchedInv, CollectedInv, NEW w \in DOMAIN workers, RejectLine(w)
    PROVE  ~Abstract!Compilable
<1>1. PICK f, label, d : f = File(w) /\ label = workers[w].label /\ d = workers[w].data
  OBVIOUS
<1>2. PICK item \in Items : AtItem(w, item)
  BY DEF RejectLine
<1>3. PICK n \in Nat : IsAtLine(w, n, item)
  BY <1>2, AtLine
<1>4. /\ n + 1 <= Len(source[f].lines) /\ Runs(w) /\ IsProgram(source) /\ Sized(source)
      /\ ReadSoFar(source, f, n, label, d)
      /\ CurrLine(w) = source[f].lines[n + 1]
      /\ LabelBefore(w) = Before(source, f, n + 1, label)
      /\ ConsecutiveLabels(w) <=> source[f].lines[n + 1].label # NoLabel /\ label # NoLabel
  BY <1>1, <1>3 DEF IsAtLine
<1>5. /\ f \in ToSet(files_) /\ phase \in {"spawn", "join", "merge", "write"}
      /\ files_ \in Seq(Files)
  BY <1>1, <1>4, FileListed
<1>6. \/ CurrLine(w).item = "bad"
      \/ ConsecutiveLabels(w)
      \/ CurrLine(w).item \in {"command", "constant"} /\ ~NewLabel(w)
      \/ CurrLine(w).item = "end" /\ LabelBefore(w) # NoLabel
      \/ CurrLine(w).item = "end" /\ workers[w].data.entrypoint # NoAddress
  BY DEF RejectLine
<1>7. \/ source[f].lines[n + 1].item = "bad"
      \/ source[f].lines[n + 1].label # NoLabel /\ label # NoLabel
      \/ IsItem(source, f, n + 1) /\ Before(source, f, n + 1, label) \in SeenLabels(d)
      \/ source[f].lines[n + 1].item = "end" /\ Before(source, f, n + 1, label) # NoLabel
      \/ source[f].lines[n + 1].item = "end" /\ d.entrypoint # NoAddress
  BY <1>1, <1>4, <1>6 DEF NewLabel, IsItem
<1>8. ~ValidProgram(source, files_)
  BY <1>4, <1>5, <1>7, RejectedLine
<1> QED
  BY <1>5, <1>8, ValidIs

\* and a label at the end of a file.
LEMMA FileEndsWithLabelRefuses ==
    ASSUME IInv, SearchedInv, CollectedInv, NEW w \in DOMAIN workers, FileEndsWithLabel(w)
    PROVE  ~Abstract!Compilable
<1>1. PICK f, label, d : f = File(w) /\ label = workers[w].label /\ d = workers[w].data
  OBVIOUS
<1>2. AtEnd(w) /\ label # NoLabel
  BY <1>1 DEF FileEndsWithLabel
<1>3. /\ IsProgram(source) /\ f \in Files
      /\ ReadSoFar(source, f, Len(source[f].lines), label, d)
  BY <1>1, <1>2, AtEndFacts
<1>4. Runs(w)
  BY <1>2 DEF AtEnd
<1>5. /\ f \in ToSet(files_) /\ phase \in {"spawn", "join", "merge", "write"}
      /\ files_ \in Seq(Files)
  BY <1>1, <1>4, FileListed
<1>6. PICK k \in 1 .. Len(source[f].lines) : Waits(source, f, k, Len(source[f].lines))
  BY <1>2, <1>3 DEF ReadSoFar, Pending
<1>7. NextOf(source, f, k) = 0
  BY <1>3, <1>6, WaitsInVain
<1>8. ~Settled(source, f, k)
  BY <1>6, <1>7 DEF Settled, Waits, IsItem
<1>9. ~ValidProgram(source, files_)
  BY <1>3, <1>5, <1>6, <1>8, NotSettled
<1> QED
  BY <1>5, <1>9, ValidIs

-----------------------------------------------------------------------------
\* A label is defined exactly if it was seen.
LEMMA DefinitionFound ==
    ASSUME NEW d, NEW l
    PROVE  TryGetDefinition(d, l) # {} <=> l \in SeenLabels(d)
<1>1. \A t : Positions(t, l) # {} <=> \E e \in t : e[1] = l
  BY DEF Positions
<1>2. PICK a, b : a = d.commandsLabels /\ b = d.constantsLabels
  OBVIOUS
<1>3. l \in SeenLabels(d) <=> Positions(a, l) # {} \/ Positions(b, l) # {}
  BY <1>1, <1>2 DEF SeenLabels
<1>4. CASE Positions(a, l) # {}
  BY <1>2, <1>3, <1>4 DEF TryGetDefinition
<1>5. CASE Positions(a, l) = {}
  <2>1. TryGetDefinition(d, l) = {Len(d.code) + at : at \in Positions(b, l)}
    BY <1>2, <1>5 DEF TryGetDefinition
  <2>2. TryGetDefinition(d, l) # {} <=> Positions(b, l) # {}
    BY <2>1
  <2> QED
    BY <1>3, <1>5, <2>2
<1> QED
  BY <1>4, <1>5

\* A sequence of at most one element.
LEMMA OneOrNone ==
    ASSUME NEW X, NEW x \in Seq(X), Len(x) <= 1
    PROVE  x = <<>> <=> Len(x) # 1
<1>1. PICK n \in Nat : n = Len(x)
  BY LenProperties
<1>2. CASE x = <<>>
  BY <1>2, EmptySeq
<1>3. CASE x # <<>>
  <2>1. n # 0 /\ n <= 1
    BY <1>1, <1>3, EmptySeq
  <2>2. n = 1
    BY <1>1, <2>1
  <2> QED
    BY <1>1, <1>3, <2>2
<1> QED
  BY <1>2, <1>3

\* The labels that are used.
LEMMA UsedLabels ==
    ASSUME NEW s, IsProgram(s), NEW fs \in Seq(Files), NEW l \in Labels,
           Len(AllOf(s, fs, "end")) <= 1
    PROVE  (l \in {u[1] : u \in AllData(s, fs).usages}
                    \cup ({AllData(s, fs).entrypointLabel} \ {NoLabel}))
             <=> \E p : UsePlace(s, fs, p) /\ LineOf(s, p).use = l
<1>1. PICK c, k, e, d : /\ c = AllOf(s, fs, "command") /\ k = AllOf(s, fs, "constant")
                        /\ e = AllOf(s, fs, "end") /\ d = AllData(s, fs)
  OBVIOUS
<1>2. c \in Seq(AllPlaces(s)) /\ e \in Seq(AllPlaces(s))
  BY <1>1, AllOfType
<1>3. \A p : p \in ToSet(c) <=> IsPlaceOf(s, fs, "command", p)
  BY <1>1, AllOfElements
<1>4. \A p : p \in ToSet(e) <=> IsPlaceOf(s, fs, "end", p)
  BY <1>1, AllOfElements
<1>5. /\ d.usages = Marks(c, UseMark(s))
      /\ d.entrypointLabel = IF e = <<>> THEN NoLabel ELSE LineOf(s, e[1]).use
  BY <1>1 DEF AllData, DataOf
<1>6. l # NoLabel
  BY LabelsAssumption
<1>7. l \in {u[1] : u \in d.usages}
        <=> \E p : IsPlaceOf(s, fs, "command", p) /\ LineOf(s, p).use = l
  <2>1. HasEntry(d.usages, l) <=> HasElement(c, UseMark(s), l)
    BY <1>2, <1>5, MarkTypes, FirstsOfMarks
  <2>2. \A p \in AllPlaces(s) : l \in UseMark(s)[p] <=> LineOf(s, p).use = l
    BY <1>6 DEF UseMark
  <2>3. \A p \in ToSet(c) : p \in AllPlaces(s)
    BY <1>3 DEF IsPlaceOf
  <2>4. HasElement(c, UseMark(s), l) <=> \E p \in ToSet(c) : LineOf(s, p).use = l
    BY <2>2, <2>3 DEF HasElement
  <2> QED
    BY <1>3, <2>1, <2>4 DEF HasEntry
<1>8. l \in {d.entrypointLabel} \ {NoLabel}
        <=> \E p : IsPlaceOf(s, fs, "end", p) /\ LineOf(s, p).use = l
  <2>1. CASE e = <<>>
    <3>1. ToSet(e) = {}
      BY <2>1 DEF ToSet
    <3> QED
      BY <1>4, <1>5, <2>1, <3>1
  <2>2. CASE e # <<>>
    <3>1. Len(e) = 1
      <4>1. Len(e) <= 1
        BY <1>1, Zenon
      <4> QED
        BY <1>2, <2>2, <4>1, OneOrNone
    <3>2. ToSet(e) = {e[1]}
      BY <1>2, <3>1 DEF ToSet
    <3> QED
      BY <1>4, <1>5, <1>6, <2>2, <3>2
  <2> QED
    BY <2>1, <2>2
<1>9. ASSUME NEW p
      PROVE  UsePlace(s, fs, p) /\ LineOf(s, p).use = l
        <=> \/ IsPlaceOf(s, fs, "command", p) /\ LineOf(s, p).use = l
            \/ IsPlaceOf(s, fs, "end", p) /\ LineOf(s, p).use = l
  BY <1>6 DEF UsePlace
<1> QED
  BY <1>1, <1>7, <1>8, <1>9

\* Every label that is used is a label.
LEMMA UsedAreLabels ==
    ASSUME NEW s, IsProgram(s), NEW fs \in Seq(Files)
    PROVE  ({u[1] : u \in AllData(s, fs).usages}
                \cup ({AllData(s, fs).entrypointLabel} \ {NoLabel})) \subseteq Labels
<1>1. PICK c, k, e, d : /\ c = AllOf(s, fs, "command") /\ k = AllOf(s, fs, "constant")
                        /\ e = AllOf(s, fs, "end") /\ d = AllData(s, fs)
  OBVIOUS
<1>2. e \in Seq(AllPlaces(s))
  BY <1>1, AllOfType
<1>3. /\ d.usages = Marks(c, UseMark(s))
      /\ d.entrypointLabel = IF e = <<>> THEN NoLabel ELSE LineOf(s, e[1]).use
  BY <1>1 DEF AllData, DataOf
<1>4. \A u \in d.usages : u[1] \in Labels
  BY <1>3 DEF Marks
<1>5. d.entrypointLabel \in MaybeLabel
  <2>1. CASE e = <<>>
    BY <1>3, <2>1 DEF MaybeLabel
  <2>2. CASE e # <<>>
    <3>1. e[1] \in AllPlaces(s)
      BY <1>2, <2>2
    <3>2. LineOf(s, e[1]).use \in MaybeLabel
      BY <3>1, LineType
    <3> QED
      BY <1>3, <2>2, <3>2
  <2> QED
    BY <2>1, <2>2
<1>6. {d.entrypointLabel} \ {NoLabel} \subseteq Labels
  BY <1>5 DEF MaybeLabel
<1> QED
  BY <1>1, <1>4, <1>6

\* The labels of the whole program can be substituted exactly if it has an
\* entrypoint and every label that is used is defined.
LEMMA SubstituteIs ==
    ASSUME NEW s, IsProgram(s), Sized(s), NEW fs \in Seq(Files),
           Len(AllOf(s, fs, "end")) <= 1
    PROVE  CanSubstitute(AllData(s, fs))
             <=> /\ Len(AllOf(s, fs, "end")) = 1
                 /\ \A p : UsePlace(s, fs, p) => DefinedIn(s, fs, LineOf(s, p).use) # {}
<1>1. PICK e, d : e = AllOf(s, fs, "end") /\ d = AllData(s, fs)
  OBVIOUS
<1>2. PICK used : used = {u[1] : u \in d.usages} \cup ({d.entrypointLabel} \ {NoLabel})
  OBVIOUS
<1>3. CanSubstitute(d) <=> /\ d.entrypoint # NoAddress
                           /\ \A l \in used : TryGetDefinition(d, l) # {}
  BY <1>2, Zenon DEF CanSubstitute
<1>4. d.entrypoint # NoAddress <=> Len(e) = 1
  <2>1. e \in Seq(AllPlaces(s)) /\ Len(e) <= 1
    BY <1>1, AllOfType
  <2>2. d = DataOf(s, AllOf(s, fs, "command"), AllOf(s, fs, "constant"), e)
    BY <1>1 DEF AllData
  <2>3. d.entrypoint = NoAddress <=> e = <<>>
    BY <2>1, <2>2, EntrypointOf
  <2>4. e = <<>> <=> Len(e) # 1
    BY <2>1, OneOrNone
  <2> QED
    BY <2>3, <2>4
<1>5. used \subseteq Labels
  BY <1>1, <1>2, UsedAreLabels
<1>6. \A l \in Labels : l \in used <=> \E p : UsePlace(s, fs, p) /\ LineOf(s, p).use = l
  BY <1>1, <1>2, UsedLabels
<1>7. ASSUME NEW l \in Labels
      PROVE  TryGetDefinition(d, l) # {} <=> DefinedIn(s, fs, l) # {}
  <2>1. TryGetDefinition(d, l) # {} <=> l \in SeenLabels(d)
    BY DefinitionFound
  <2>2. l \in SeenLabels(d) <=> \E p : ItemPlace(s, fs, p) /\ l \in LabelsAt(s, p)
    BY <1>1, SeenInAll
  <2>3. (\E p : ItemPlace(s, fs, p) /\ l \in LabelsAt(s, p)) <=> DefinedIn(s, fs, l) # {}
    BY DEF DefinedIn, ItemPlace, LabelsAt
  <2> QED
    BY <2>1, <2>2, <2>3
<1>8. \A p : UsePlace(s, fs, p) => LineOf(s, p).use \in Labels
  <2> SUFFICES ASSUME NEW p, UsePlace(s, fs, p)
               PROVE  LineOf(s, p).use \in Labels
    OBVIOUS
  <2>1. p \in AllPlaces(s) /\ LineOf(s, p).use # NoLabel
    BY DEF UsePlace, IsPlaceOf
  <2> QED
    BY <2>1, LineType DEF MaybeLabel
<1>9. (\A l \in used : TryGetDefinition(d, l) # {})
        <=> \A p : UsePlace(s, fs, p) => DefinedIn(s, fs, LineOf(s, p).use) # {}
  BY <1>5, <1>6, <1>7, <1>8
<1> QED
  BY <1>1, <1>3, <1>4, <1>9

\* A label without an item, or a missing entrypoint, is refused rightly,
LEMMA SubstituteRefuses ==
    ASSUME IInv, SearchedInv, CollectedInv, MergedInv, phase = "merge",
           merged = Len(files_), ~CanSubstitute(data)
    PROVE  ~Abstract!Compilable
<1>1. IsProgram(source) /\ Sized(source) /\ files_ \in Seq(Files)
  BY DEF IInv, TypeOK, IsProgram, CollectedInv
<1>2. MergedSoFar(source, files_, data)
  <2>1. Firsts(files_, merged) = files_
    BY <1>1, FirstsAll
  <2> QED
    BY <2>1 DEF MergedInv
<1>3. data = AllData(source, files_) /\ Len(AllOf(source, files_, "end")) <= 1
  BY <1>2 DEF MergedSoFar
<1>4. ~ValidProgram(source, files_)
  BY <1>1, <1>3, SubstituteIs DEF ValidProgram
<1> QED
  BY <1>4, ValidIs

\* Two results that cannot be merged.
LEMMA MergeRefused ==
    ASSUME NEW s, IsProgram(s), Sized(s), NEW fs \in Seq(Files), NEW gs \in Seq(Files),
           NEW f \in ToSet(gs), ToSet(fs) \subseteq ToSet(gs), f \notin ToSet(fs),
           NEW d, NEW u, MergedSoFar(s, fs, d), Finished(s, f, u), ~CanMerge(d, u)
    PROVE  ~ValidProgram(s, gs)
<1>1. f \in Files
  BY DEF ToSet
<1>2. d = AllData(s, fs)
  BY DEF MergedSoFar
<1>3. CASE d.entrypoint # NoAddress /\ u.entrypoint # NoAddress
  <2>1. PICK e, g : e = AllOf(s, fs, "end") /\ g = FilePlaces(s, "end")[f]
    OBVIOUS
  <2>2. e \in Seq(AllPlaces(s))
    BY <2>1, AllOfType
  <2>3. g \in Seq(AllPlaces(s)) /\ ToSet(g) = LinesOfKind(s, f, "end", Len(s[f].lines))
    BY <1>1, <2>1, FilePlacesFacts DEF ArePlaces
  <2>4. e # <<>>
    <3>1. d = DataOf(s, AllOf(s, fs, "command"), AllOf(s, fs, "constant"), e)
      BY <1>2, <2>1 DEF AllData
    <3> QED
      BY <1>3, <2>2, <3>1, EntrypointOf
  <2>5. g # <<>>
    <3>1. u = DataOf(s, FilePlaces(s, "command")[f], FilePlaces(s, "constant")[f], g)
      BY <1>1, <2>1, FinishedData
    <3> QED
      BY <1>3, <2>3, <3>1, EntrypointOf
  <2>6. PICK p : p \in ToSet(e)
    <3>1. 1 \in DOMAIN e
      BY <2>2, <2>4, EmptySeq, LenProperties
    <3> QED
      BY <3>1 DEF ToSet
  <2>7. PICK q : q \in ToSet(g)
    <3>1. 1 \in DOMAIN g
      BY <2>3, <2>5, EmptySeq, LenProperties
    <3> QED
      BY <3>1 DEF ToSet
  <2>8. PICK n \in 1 .. Len(s[f].lines) : q = <<f, n>> /\ s[f].lines[n].item = "end"
    BY <2>3, <2>7 DEF LinesOfKind
  <2>9. p \in AllPlaces(s) /\ p[1] \in ToSet(fs) /\ LineOf(s, p).item = "end"
    BY <2>1, <2>6, AllOfElements DEF IsPlaceOf
  <2>10. PICK h, m : h = p[1] /\ m = p[2]
    OBVIOUS
  <2>11. /\ h \in ToSet(gs) /\ m \in 1 .. Len(s[h].lines)
         /\ s[h].lines[m].item = "end" /\ h # f
    BY <2>9, <2>10, PlaceOf DEF LineOf
  <2>12. <<f, n>> # <<h, m>>
    BY <2>11
  <2> QED
    BY <2>8, <2>11, <2>12, TwoEnds
<1>4. CASE SeenLabels(d) \cap SeenLabels(u) # {}
  <2>1. PICK l : l \in SeenLabels(d) /\ l \in SeenLabels(u)
    BY <1>4
  <2>2. PICK p : ItemPlace(s, fs, p) /\ l \in LabelsAt(s, p)
    BY <1>2, <2>1, SeenInAll
  <2>3. PICK k \in 1 .. Len(s[f].lines) : IsItem(s, f, k) /\ l \in LabelsAt(s, <<f, k>>)
    BY <1>1, <2>1, SeenInFile
  <2>4. ItemPlace(s, gs, <<f, k>>)
    BY <2>3, LineIsItem
  <2>5. ItemPlace(s, gs, p)
    BY <2>2 DEF ItemPlace
  <2>6. p # <<f, k>>
    <3>1. p[1] \in ToSet(fs) /\ <<f, k>>[1] = f
      BY <2>2 DEF ItemPlace
    <3> QED
      BY <3>1
  <2>7. ~OneEach(s, gs)
    BY <2>2, <2>3, <2>4, <2>5, <2>6 DEF OneEach
  <2> QED
    BY <2>7 DEF ValidProgram
<1> QED
  BY <1>3, <1>4 DEF CanMerge

\* and so are two files with one label or two entrypoints.
LEMMA MergeFailsRefuses ==
    ASSUME IInv, SearchedInv, CollectedInv, MergedInv, MergeFails
    PROVE  ~Abstract!Compilable
<1>1. PICK fs, f, u : /\ fs = Firsts(files_, merged) /\ f = files_[merged + 1]
                      /\ u = files_data[merged + 1]
  OBVIOUS
<1>2. phase = "merge" /\ merged < Len(files_) /\ ~CanMerge(data, u)
  BY <1>1 DEF MergeFails
<1>3. /\ IsProgram(source) /\ Sized(source) /\ f \in Files /\ fs \in Seq(Files)
      /\ files_ \in Seq(Files) /\ merged \in Nat /\ merged + 1 \in 1 .. Len(files_)
      /\ MergedSoFar(source, fs, data) /\ Finished(source, f, u)
  BY <1>1, <1>2, AtMerge
<1>4. f \in ToSet(files_)
  BY <1>1, <1>3 DEF ToSet
<1>5. Len(fs) = merged /\ \A i \in 1 .. merged : fs[i] = files_[i]
  BY <1>1, <1>3 DEF Firsts
<1>6. ToSet(fs) \subseteq ToSet(files_)
  BY <1>3, <1>5 DEF ToSet
<1>7. f \notin ToSet(fs)
  <2>1. ASSUME NEW i \in 1 .. merged, files_[i] = files_[merged + 1]
        PROVE  FALSE
    <3>1. i \in DOMAIN files_ /\ merged + 1 \in DOMAIN files_ /\ i # merged + 1
      BY <1>3
    <3> QED
      BY <2>1, <3>1 DEF IInv, OrderInv
  <2>2. ASSUME f \in ToSet(fs) PROVE \E i \in 1 .. merged : fs[i] = f
    BY <1>3, <1>5, <2>2 DEF ToSet
  <2>3. \A i \in 1 .. merged : fs[i] # f
    BY <1>1, <1>5, <2>1, Zenon
  <2> QED
    BY <2>2, <2>3, Zenon
<1>8. ~ValidProgram(source, files_)
  BY <1>2, <1>3, <1>4, <1>6, <1>7, MergeRefused
<1> QED
  BY <1>2, <1>8, ValidIs
-----------------------------------------------------------------------------
(***************************************************************************)
(* What is written was valid.                                              *)
(***************************************************************************)
\* A file that cannot be included.
LEMMA SearchRefuses ==
    ASSUME IInv, GetFiles \/ FollowInclude, phase' # "includes"
    PROVE  phase' = "failed" /\ ~Abstract!Compilable
<1>1. \E f \in Within(source, Root) : phase' = "failed" /\ ~CanInclude(f)
  <2>1. CASE GetFiles
    <3>1. ProcessFileIncludes(Root, <<>>)
      BY <2>1 DEF GetFiles
    <3>2. Root \in Within(source, Root)
      BY FilesAssumption, WithinSelf
    <3> QED
      BY <3>1, <3>2 DEF ProcessFileIncludes
  <2>2. CASE FollowInclude
    <3>1. /\ phase = "includes" /\ Current.rest # <<>>
          /\ ProcessFileIncludes(NextInclude, WithoutNext)
      BY <2>2 DEF FollowInclude
    <3>2. NextInclude \in Within(source, Root)
      BY <3>1, WithoutNextFacts
    <3> QED
      BY <3>1, <3>2 DEF ProcessFileIncludes
  <2> QED
    BY <2>1, <2>2
<1>2. PICK f \in Within(source, Root) : phase' = "failed" /\ ~CanInclude(f)
  BY <1>1
<1>3. Abstract!Program = Within(source, Root)
  BY DEF Abstract!Program, Abstract!Reachable, Abstract!IsClosed, Abstract!ToSet,
         ToSet, Within
<1>4. ~Abstract!CanInclude(f)
  BY <1>2, AbstractLine
<1> QED
  BY <1>2, <1>3, <1>4 DEF Abstract!Compilable, Abstract!Valid

\* What was read to the end without an error is in order.
LEMMA FinishedFacts ==
    ASSUME NEW s, IsProgram(s), NEW f \in Files, NEW d, Finished(s, f, d)
    PROVE  /\ NextOf(s, f, 0) # 0
           /\ \A n \in DOMAIN s[f].lines : Settled(s, f, n) /\ s[f].lines[n].item # "bad"
<1>1. /\ NextOf(s, f, 0) # 0
      /\ Pending(s, f, Len(s[f].lines), NoLabel)
      /\ NoneBad(s, f, Len(s[f].lines))
  BY DEF Finished, ReadSoFar
<1>2. DOMAIN s[f].lines = 1 .. Len(s[f].lines)
  BY FileFacts
<1>3. ASSUME NEW n \in DOMAIN s[f].lines
      PROVE  Settled(s, f, n) /\ s[f].lines[n].item # "bad"
  <2>1. Settled(s, f, n) \/ Waits(s, f, n, Len(s[f].lines))
    BY <1>1, <1>2, <1>3 DEF Pending
  <2>2. ~Waits(s, f, n, Len(s[f].lines))
    BY <1>1, <1>2, <1>3 DEF Pending, Waits
  <2>3. s[f].lines[n].item # "bad"
    BY <1>1, <1>2, <1>3 DEF NoneBad
  <2> QED
    BY <2>1, <2>2, <2>3
<1> QED
  BY <1>1, <1>3

\* What is known when the executable is ready.
LEMMA AtWrite ==
    ASSUME IInv, CollectedInv, MergedInv, phase = "write"
    PROVE  /\ IsProgram(source) /\ Sized(source) /\ files_ \in Seq(Files)
           /\ Distinct(files_)
           /\ data = AllData(source, files_) /\ OneEach(source, files_)
           /\ Len(AllOf(source, files_, "end")) <= 1
           /\ CanSubstitute(data) /\ exec = ToExecData(data)
           /\ \A f \in ToSet(files_) : \E d : Finished(source, f, d)
<1>1. IsProgram(source) /\ Sized(source) /\ files_ \in Seq(Files)
  BY DEF IInv, TypeOK, IsProgram, CollectedInv
<1>2. DOMAIN files_ = 1 .. Len(files_)
  BY <1>1
<1>3. Distinct(files_)
  BY <1>2 DEF IInv, OrderInv, Distinct
<1>4. merged = Len(files_) /\ CanSubstitute(data) /\ exec = ToExecData(data)
  BY DEF MergedInv
<1>5. MergedSoFar(source, files_, data)
  <2>1. Firsts(files_, merged) = files_
    BY <1>1, <1>4, FirstsAll
  <2> QED
    BY <2>1 DEF MergedInv
<1>6. \A f \in ToSet(files_) : \E d : Finished(source, f, d)
  BY <1>2, ResultsFinished DEF ToSet
<1> QED
  BY <1>1, <1>3, <1>4, <1>5, <1>6 DEF MergedSoFar

\* What is written was a program to compile.
LEMMA WriteIsValid ==
    ASSUME IInv, SearchedInv, CollectedInv, MergedInv, phase = "write"
    PROVE  Abstract!Compilable
<1>1. /\ IsProgram(source) /\ Sized(source) /\ files_ \in Seq(Files)
      /\ data = AllData(source, files_) /\ OneEach(source, files_)
      /\ Len(AllOf(source, files_, "end")) <= 1 /\ CanSubstitute(data)
      /\ \A f \in ToSet(files_) : \E d : Finished(source, f, d)
  BY AtWrite
<1>2. ASSUME NEW f \in ToSet(files_)
      PROVE  /\ NextOf(source, f, 0) # 0
             /\ \A n \in DOMAIN source[f].lines :
                   Settled(source, f, n) /\ source[f].lines[n].item # "bad"
  <2>1. f \in Files
    BY <1>1 DEF ToSet
  <2>2. PICK d : Finished(source, f, d)
    BY <1>1, <1>2
  <2> QED
    BY <1>1, <2>1, <2>2, FinishedFacts
<1>3. AllOf(source, files_, "bad") = <<>>
  <2> SUFFICES ASSUME AllOf(source, files_, "bad") # <<>>
               PROVE  FALSE
    OBVIOUS
  <2>1. PICK b : b = AllOf(source, files_, "bad")
    OBVIOUS
  <2>2. b \in Seq(AllPlaces(source)) /\ b # <<>>
    BY <1>1, <2>1, AllOfType
  <2>3. 1 \in DOMAIN b
    BY <2>2, EmptySeq, LenProperties
  <2>4. PICK p : p \in ToSet(b)
    BY <2>3 DEF ToSet
  <2>5. IsPlaceOf(source, files_, "bad", p)
    BY <1>1, <2>1, <2>4, AllOfElements
  <2>6. p[1] \in ToSet(files_) /\ p[2] \in DOMAIN source[p[1]].lines
        /\ source[p[1]].lines[p[2]].item = "bad"
    BY <2>5 DEF IsPlaceOf, AllPlaces, LineOf
  <2> QED
    BY <1>2, <2>6
<1>4. /\ Len(AllOf(source, files_, "end")) = 1
      /\ \A p : UsePlace(source, files_, p)
                  => DefinedIn(source, files_, LineOf(source, p).use) # {}
  BY <1>1, SubstituteIs
<1>5. ValidProgram(source, files_)
  BY <1>1, <1>2, <1>3, <1>4 DEF ValidProgram
<1> QED
  BY <1>5, ValidIs
-----------------------------------------------------------------------------
(***************************************************************************)
(* The addresses: what the tables of labels give is where the abstract     *)
(* assembler places the items.                                             *)
(***************************************************************************)
\* The first word of every item.
FirstPart(s) == [p \in AllPlaces(s) |-> <<p[1], p[2], 0>>]

\* Assembler!Layout of the program s, whose files are fs.
LayoutOf(s, fs) ==
    Join(Mapped(AllOf(s, fs, "command"), FirstPart(s)), Words(s, AllOf(s, fs, "constant")))

\* The origin of a word is its place and its number.
LEMMA PlaceOrigin ==
    ASSUME NEW s, IsProgram(s), NEW p \in AllPlaces(s), NEW k \in Nat
    PROVE  <<p[1], p[2], k>> \in Origins /\ Append(p, k) = <<p[1], p[2], k>>
<1>1. p = <<p[1], p[2]>> /\ p[1] \in Files /\ p[2] \in Nat \ {0}
  BY PlaceOf
<1>2. PICK f \in Files, n \in Nat \ {0} : p[1] = f /\ p[2] = n
  BY <1>1
<1>3. p = <<f, n>>
  BY <1>1, <1>2
<1>4. Append(<<f, n>>, k) = <<f, n, k>>
  BY PlaceAndPart
<1>5. <<f, n, k>> \in Origins
  BY DEF Origins
<1> QED
  BY <1>2, <1>3, <1>4, <1>5

\* The origins of the commands are origins.
LEMMA FirstPartType ==
    ASSUME NEW s, IsProgram(s)
    PROVE  IsMap(FirstPart(s), AllPlaces(s), Origins)
<1>1. \A p \in AllPlaces(s) : <<p[1], p[2], 0>> \in Origins
  BY PlaceOrigin
<1> QED
  BY <1>1 DEF FirstPart, IsMap

\* The words of different constants, and of one constant, are different.
LEMMA WordsDistinct ==
    ASSUME NEW s, IsProgram(s), NEW k \in Seq(AllPlaces(s)), Distinct(k)
    PROVE  Distinct(Words(s, k))
<1>1. PICK x : x = Mapped(k, PartsOf(s))
  OBVIOUS
<1>2. IsMapped(x, k, PartsOf(s), Seq(Origins))
  BY <1>1, MarkTypes, MappedIs
<1>3. PICK n \in Nat : n = Len(k) /\ \A i \in 1 .. n : k[i] \in AllPlaces(s)
  OBVIOUS
<1>4. x \in Seq(Seq(Origins)) /\ Len(x) = n /\ \A i \in 1 .. n : x[i] = PartsOf(s)[k[i]]
  BY <1>2, <1>3 DEF IsMapped
<1>5. ASSUME NEW i \in 1 .. n
      PROVE  /\ DOMAIN x[i] = 1 .. LineOf(s, k[i]).arg + 1
             /\ \A j \in 1 .. LineOf(s, k[i]).arg + 1 : x[i][j] = <<k[i][1], k[i][2], j - 1>>
             /\ LineOf(s, k[i]).arg \in Nat
             /\ k[i] = <<k[i][1], k[i][2]>> /\ x[i] \in Seq(Origins)
  <2>1. PICK p \in AllPlaces(s) : p = k[i]
    BY <1>3
  <2>2. x[i] = PartsOf(s)[p]
    BY <1>4, <2>1
  <2>3. /\ PartsOf(s)[p] \in Seq(Origins)
        /\ DOMAIN PartsOf(s)[p] = 1 .. LineOf(s, p).arg + 1
        /\ \A j \in 1 .. LineOf(s, p).arg + 1 : PartsOf(s)[p][j] = <<p[1], p[2], j - 1>>
    BY PartsFacts
  <2>4. LineOf(s, p).arg \in Nat
    BY LineType
  <2>5. p = <<p[1], p[2]>>
    BY PlaceOf
  <2> QED
    BY <2>1, <2>2, <2>3, <2>4, <2>5
<1>6. ASSUME NEW i \in 1 .. n
      PROVE  Distinct(x[i])
  <2>1. PICK m \in Nat : m = LineOf(s, k[i]).arg
    BY <1>5
  <2>2. PICK f, l : f = k[i][1] /\ l = k[i][2]
    OBVIOUS
  <2>3. DOMAIN x[i] = 1 .. m + 1 /\ \A j \in 1 .. m + 1 : x[i][j] = <<f, l, j - 1>>
    BY <1>5, <2>1, <2>2
  <2>4. \A a, b \in 1 .. m + 1 : <<f, l, a - 1>> = <<f, l, b - 1>> => a = b
    OBVIOUS
  <2>5. Len(x[i]) = m + 1
    BY <1>5, <2>3
  <2> QED
    BY <2>3, <2>4, <2>5 DEF Distinct
<1>7. ASSUME NEW i \in 1 .. n, NEW j \in 1 .. n, i # j
      PROVE  ToSet(x[i]) \cap ToSet(x[j]) = {}
  <2> SUFFICES ASSUME NEW o \in ToSet(x[i]), o \in ToSet(x[j])
               PROVE  FALSE
    OBVIOUS
  <2>1. o[1] = k[i][1] /\ o[2] = k[i][2]
    <3>1. PICK m \in DOMAIN x[i] : o = x[i][m]
      BY DEF ToSet
    <3>2. o = <<k[i][1], k[i][2], m - 1>>
      BY <1>5, <3>1
    <3> QED
      BY <3>2
  <2>2. o[1] = k[j][1] /\ o[2] = k[j][2]
    <3>1. PICK m \in DOMAIN x[j] : o = x[j][m]
      BY DEF ToSet
    <3>2. o = <<k[j][1], k[j][2], m - 1>>
      BY <1>5, <3>1
    <3> QED
      BY <3>2
  <2>3. k[i] = k[j]
    BY <1>5, <2>1, <2>2
  <2> QED
    BY <1>3, <1>7, <2>3 DEF Distinct
<1>8. Distinct(FlattenSeq(x))
  <2>1. /\ \A i \in 1 .. Len(x) : Distinct(x[i])
        /\ \A i, j \in 1 .. Len(x) : i # j => ToSet(x[i]) \cap ToSet(x[j]) = {}
    BY <1>4, <1>6, <1>7
  <2> QED
    BY <1>4, <2>1, FlattenDistinct
<1> QED
  BY <1>1, <1>8 DEF Words

\* No two words of the layout are the same.
LEMMA LayoutDistinct ==
    ASSUME NEW s, IsProgram(s), NEW fs \in Seq(Files), Distinct(fs)
    PROVE  /\ LayoutOf(s, fs) \in Seq(Origins)
           /\ Distinct(LayoutOf(s, fs))
<1>1. PICK c, k : c = AllOf(s, fs, "command") /\ k = AllOf(s, fs, "constant")
  OBVIOUS
<1>2. /\ c \in Seq(AllPlaces(s)) /\ k \in Seq(AllPlaces(s))
      /\ Distinct(c) /\ Distinct(k)
  BY <1>1, AllOfType, AllOfDistinct
<1>3. PICK a, b : a = Mapped(c, FirstPart(s)) /\ b = Words(s, k)
  OBVIOUS
<1>4. IsMapped(a, c, FirstPart(s), Origins)
  BY <1>2, <1>3, FirstPartType, MappedIs
<1>5. b \in Seq(Origins) /\ Distinct(b)
  BY <1>2, <1>3, WordsType, WordsDistinct
<1>6. PICK n \in Nat : n = Len(c) /\ \A i \in 1 .. n : c[i] \in AllPlaces(s)
  BY <1>2
<1>7. a \in Seq(Origins) /\ Len(a) = n /\ DOMAIN a = 1 .. n
      /\ \A i \in 1 .. n : a[i] = <<c[i][1], c[i][2], 0>>
  <2>1. a \in Seq(Origins) /\ Len(a) = n /\ \A i \in 1 .. n : a[i] = FirstPart(s)[c[i]]
    BY <1>4, <1>6 DEF IsMapped
  <2>2. \A p \in AllPlaces(s) : FirstPart(s)[p] = <<p[1], p[2], 0>>
    BY DEF FirstPart
  <2>3. DOMAIN a = 1 .. n
    BY <2>1
  <2> QED
    BY <1>6, <2>1, <2>2, <2>3
<1>8. Distinct(a)
  <2> SUFFICES ASSUME NEW i \in 1 .. n, NEW j \in 1 .. n, a[i] = a[j]
               PROVE  i = j
    BY <1>7 DEF Distinct
  <2>1. c[i][1] = c[j][1] /\ c[i][2] = c[j][2]
    BY <1>7
  <2>2. c[i] = <<c[i][1], c[i][2]>> /\ c[j] = <<c[j][1], c[j][2]>>
    BY <1>6, PlaceOf
  <2>3. c[i] = c[j]
    BY <2>1, <2>2
  <2> QED
    BY <1>2, <1>6, <2>3 DEF Distinct
<1>9. ToSet(a) \cap ToSet(b) = {}
  <2> SUFFICES ASSUME NEW o, o \in ToSet(a), o \in ToSet(b)
               PROVE  FALSE
    OBVIOUS
  <2>1. PICK i \in 1 .. n : o = <<c[i][1], c[i][2], 0>>
    BY <1>7 DEF ToSet
  <2>2. PICK q \in ToSet(k) : \E j \in 1 .. LineOf(s, q).arg + 1 : o = <<q[1], q[2], j - 1>>
    BY <1>2, <1>3, WordsElements
  <2>3. PICK p : p = c[i] /\ p \in ToSet(c)
    BY <1>2, <1>6 DEF ToSet
  <2>4. p[1] = q[1] /\ p[2] = q[2]
    BY <2>1, <2>2, <2>3
  <2>5. LineOf(s, p).item = "command"
    BY <1>1, <2>3, AllOfElements DEF IsPlaceOf
  <2>6. LineOf(s, q).item = "constant"
    BY <1>1, <2>2, AllOfElements DEF IsPlaceOf
  <2> QED
    BY <2>4, <2>5, <2>6 DEF LineOf
<1>10. LayoutOf(s, fs) = Join(a, b)
  BY <1>1, <1>3 DEF LayoutOf
<1>11. a \o b \in Seq(Origins)
  BY <1>5, <1>7, JoinedType
<1>12. Distinct(a \o b)
  BY <1>5, <1>7, <1>8, <1>9, DistinctJoined
<1> QED
  BY <1>10, <1>11, <1>12 DEF Join

\* The addresses of a label are those of the elements it marks.
LEMMA PositionsOfMarks ==
    ASSUME NEW X, NEW x \in Seq(X), NEW m, NEW l \in Labels, NEW a
    PROVE  a \in Positions(Marks(x, m), l)
             <=> a \in Nat /\ a + 1 \in DOMAIN x /\ l \in m[x[a + 1]]
<1>1. ASSUME a \in Positions(Marks(x, m), l)
      PROVE  a \in Nat /\ a + 1 \in DOMAIN x /\ l \in m[x[a + 1]]
  <2>1. PICK e \in Marks(x, m) : e[1] = l /\ e[2] = a
    BY <1>1 DEF Positions
  <2> QED
    BY <2>1 DEF Marks
<1>2. ASSUME a \in Nat, a + 1 \in DOMAIN x, l \in m[x[a + 1]]
      PROVE  a \in Positions(Marks(x, m), l)
  <2>1. PICK e \in Labels \X Nat : e[1] = l /\ e[2] = a
    <3>1. <<l, a>> \in Labels \X Nat /\ <<l, a>>[1] = l /\ <<l, a>>[2] = a
      BY <1>2
    <3> QED
      BY <3>1
  <2>2. e \in Marks(x, m)
    BY <1>2, <2>1 DEF Marks
  <2> QED
    BY <2>1, <2>2 DEF Positions
<1> QED
  BY <1>1, <1>2

\* The word of the layout with the address.
IsAddress(s, fs, o, a) ==
    /\ a \in Nat /\ a + 1 \in DOMAIN LayoutOf(s, fs)
    /\ LayoutOf(s, fs)[a + 1] = o

\* The word a label before p stands for.
WordFor(s, p) == <<p[1], p[2], IF LineOf(s, p).item = "command" THEN 0 ELSE 1>>

\* The layout and the data, by the places of the items.
AreParts(s, fs, c, k, a, b) ==
    /\ c = AllOf(s, fs, "command") /\ k = AllOf(s, fs, "constant")
    /\ c \in Seq(AllPlaces(s)) /\ k \in Seq(AllPlaces(s)) /\ Distinct(c)
    /\ a = Mapped(c, FirstPart(s)) /\ b = Words(s, k)
    /\ a \in Seq(Origins) /\ b \in Seq(Origins) /\ Len(a) = Len(c) /\ Distinct(b)
    /\ \A i \in 1 .. Len(c) : a[i] = <<c[i][1], c[i][2], 0>>
    /\ LayoutOf(s, fs) = a \o b
    /\ AllData(s, fs).commandsLabels = Marks(c, LabelMark(s))
    /\ AllData(s, fs).constantsLabels = Marks(b, WordMark(s))
    /\ Len(AllData(s, fs).code) = Len(c)
    /\ AllData(s, fs).code = Mapped(c, CodeCell(s))
    /\ AllData(s, fs).constants = Mapped(b, ConstantCell)
    /\ AllData(s, fs).usages = Marks(c, UseMark(s))
    /\ \A p : p \in ToSet(c) <=> IsPlaceOf(s, fs, "command", p)
    /\ \A p : p \in ToSet(k) <=> IsPlaceOf(s, fs, "constant", p)

\* What the layout and the data are made of.
LEMMA LayoutParts ==
    ASSUME NEW s, IsProgram(s), NEW fs \in Seq(Files), Distinct(fs)
    PROVE  \E c, k, a, b : AreParts(s, fs, c, k, a, b)
<1>1. PICK c, k, e : /\ c = AllOf(s, fs, "command") /\ k = AllOf(s, fs, "constant")
                     /\ e = AllOf(s, fs, "end")
  OBVIOUS
<1>2. PICK a, b : a = Mapped(c, FirstPart(s)) /\ b = Words(s, k)
  OBVIOUS
<1>3. c \in Seq(AllPlaces(s)) /\ k \in Seq(AllPlaces(s)) /\ Distinct(c) /\ Distinct(k)
  BY <1>1, AllOfType, AllOfDistinct
<1>4. b \in Seq(Origins) /\ Distinct(b)
  BY <1>2, <1>3, WordsType, WordsDistinct
<1>5. IsMapped(a, c, FirstPart(s), Origins)
  BY <1>2, <1>3, FirstPartType, MappedIs
<1>6. a \in Seq(Origins) /\ Len(a) = Len(c)
      /\ \A i \in 1 .. Len(c) : a[i] = <<c[i][1], c[i][2], 0>>
  <2>1. a \in Seq(Origins) /\ Len(a) = Len(c)
        /\ \A i \in 1 .. Len(c) : a[i] = FirstPart(s)[c[i]]
    BY <1>5 DEF IsMapped
  <2>2. \A p \in AllPlaces(s) : FirstPart(s)[p] = <<p[1], p[2], 0>>
    BY DEF FirstPart
  <2>3. \A i \in 1 .. Len(c) : c[i] \in AllPlaces(s)
    BY <1>3
  <2> QED
    BY <2>1, <2>2, <2>3
<1>7. LayoutOf(s, fs) = a \o b
  BY <1>1, <1>2 DEF LayoutOf, Join
<1>8. AllData(s, fs) = DataOf(s, c, k, e)
  BY <1>1 DEF AllData
<1>9. /\ AllData(s, fs).commandsLabels = Marks(c, LabelMark(s))
      /\ AllData(s, fs).constantsLabels = Marks(b, WordMark(s))
      /\ AllData(s, fs).code = Mapped(c, CodeCell(s))
      /\ AllData(s, fs).constants = Mapped(b, ConstantCell)
      /\ AllData(s, fs).usages = Marks(c, UseMark(s))
  BY <1>2, <1>8, DataParts
<1>10. Len(AllData(s, fs).code) = Len(c)
  BY <1>3, <1>8, DataLengths
<1>11. \A p : p \in ToSet(c) <=> IsPlaceOf(s, fs, "command", p)
  BY <1>1, AllOfElements
<1>12. \A p : p \in ToSet(k) <=> IsPlaceOf(s, fs, "constant", p)
  BY <1>1, AllOfElements
<1>13. AreParts(s, fs, c, k, a, b)
  BY <1>1, <1>2, <1>3, <1>4, <1>6, <1>7, <1>9, <1>10, <1>11, <1>12 DEF AreParts
<1> QED
  BY <1>13

\* A label before a command is its address.
LEMMA CommandAddress ==
    ASSUME NEW s, IsProgram(s), NEW fs \in Seq(Files), Distinct(fs), OneEach(s, fs),
           NEW l \in Labels, NEW p \in DefinedIn(s, fs, l), LineOf(s, p).item = "command"
    PROVE  \E x : /\ TryGetDefinition(AllData(s, fs), l) = {x}
                  /\ IsAddress(s, fs, <<p[1], p[2], 0>>, x)
<1>1. PICK c, k, a, b :
         /\ c \in Seq(AllPlaces(s)) /\ Distinct(c)
         /\ a \in Seq(Origins) /\ b \in Seq(Origins) /\ Len(a) = Len(c)
         /\ \A i \in 1 .. Len(c) : a[i] = <<c[i][1], c[i][2], 0>>
         /\ LayoutOf(s, fs) = a \o b
         /\ AllData(s, fs).commandsLabels = Marks(c, LabelMark(s))
         /\ \A q : q \in ToSet(c) <=> IsPlaceOf(s, fs, "command", q)
  <2>1. PICK c, k, a, b : AreParts(s, fs, c, k, a, b)
    BY LayoutParts, Zenon
  <2> QED
    BY <2>1 DEF AreParts
<1>2. PICK n \in Nat : n = Len(c) /\ DOMAIN c = 1 .. n /\ \A i \in 1 .. n : c[i] \in AllPlaces(s)
  BY <1>1
<1>3. /\ ItemPlace(s, fs, p) /\ l \in LabelsAt(s, p) /\ p \in AllPlaces(s)
  BY DEF DefinedIn, ItemPlace, LabelsAt
<1>4. PICK i \in 1 .. n : c[i] = p
  <2>1. p \in ToSet(c)
    BY <1>1, <1>3 DEF IsPlaceOf, ItemPlace
  <2> QED
    BY <1>2, <2>1 DEF ToSet
<1>5. \A q \in AllPlaces(s) : LabelMark(s)[q] = LabelsAt(s, q)
  BY DEF LabelMark
<1>6. ASSUME NEW x
      PROVE  x \in Positions(AllData(s, fs).commandsLabels, l) <=> x = i - 1
  <2>1. x \in Positions(AllData(s, fs).commandsLabels, l)
          <=> x \in Nat /\ x + 1 \in 1 .. n /\ l \in LabelMark(s)[c[x + 1]]
    BY <1>1, <1>2, PositionsOfMarks
  <2>2. ASSUME x \in Nat, x + 1 \in 1 .. n, l \in LabelMark(s)[c[x + 1]]
        PROVE  x = i - 1
    <3>1. PICK q : q = c[x + 1]
      OBVIOUS
    <3>2. l \in LabelsAt(s, q) /\ q \in ToSet(c)
      BY <1>2, <1>5, <2>2, <3>1 DEF ToSet
    <3>3. ItemPlace(s, fs, q)
      BY <1>1, <3>2 DEF IsPlaceOf, ItemPlace
    <3>4. q = p
      BY <1>3, <3>2, <3>3 DEF OneEach
    <3>5. x + 1 = i
      BY <1>1, <1>2, <1>4, <2>2, <3>1, <3>4 DEF Distinct
    <3> QED
      BY <2>2, <3>5
  <2>3. i - 1 \in Nat /\ (i - 1) + 1 \in 1 .. n /\ l \in LabelMark(s)[c[(i - 1) + 1]]
    BY <1>3, <1>4, <1>5
  <2> QED
    BY <2>1, <2>2, <2>3
<1>7. Positions(AllData(s, fs).commandsLabels, l) = {i - 1}
  BY <1>6
<1>8. TryGetDefinition(AllData(s, fs), l) = {i - 1}
  BY <1>7 DEF TryGetDefinition
<1>9. IsAddress(s, fs, <<p[1], p[2], 0>>, i - 1)
  <2>1. i \in DOMAIN a /\ a[i] = <<p[1], p[2], 0>>
    BY <1>1, <1>2, <1>4
  <2>2. i \in DOMAIN (a \o b) /\ (a \o b)[i] = a[i]
    BY <1>1, <2>1, JoinedLeft
  <2>3. (i - 1) + 1 = i /\ i - 1 \in Nat
    OBVIOUS
  <2> QED
    BY <1>1, <2>1, <2>2, <2>3 DEF IsAddress
<1> QED
  BY <1>8, <1>9

\* A label before a constant is the address of its value.
LEMMA ConstantAddress ==
    ASSUME NEW s, IsProgram(s), Sized(s), NEW fs \in Seq(Files), Distinct(fs),
           OneEach(s, fs), NEW l \in Labels, NEW p \in DefinedIn(s, fs, l),
           LineOf(s, p).item = "constant"
    PROVE  \E x : /\ TryGetDefinition(AllData(s, fs), l) = {x}
                  /\ IsAddress(s, fs, <<p[1], p[2], 1>>, x)
<1>1. PICK c, k, a, b :
         /\ c \in Seq(AllPlaces(s)) /\ k \in Seq(AllPlaces(s)) /\ b = Words(s, k)
         /\ a \in Seq(Origins) /\ b \in Seq(Origins) /\ Len(a) = Len(c) /\ Distinct(b)
         /\ LayoutOf(s, fs) = a \o b
         /\ AllData(s, fs).commandsLabels = Marks(c, LabelMark(s))
         /\ AllData(s, fs).constantsLabels = Marks(b, WordMark(s))
         /\ Len(AllData(s, fs).code) = Len(c)
         /\ \A q : q \in ToSet(c) <=> IsPlaceOf(s, fs, "command", q)
         /\ \A q : q \in ToSet(k) <=> IsPlaceOf(s, fs, "constant", q)
  <2>1. PICK c, k, a, b : AreParts(s, fs, c, k, a, b)
    BY LayoutParts, Zenon
  <2> QED
    BY <2>1 DEF AreParts
<1>2. PICK n \in Nat : n = Len(c) /\ DOMAIN c = 1 .. n /\ \A i \in 1 .. n : c[i] \in AllPlaces(s)
  BY <1>1
<1>3. PICK m \in Nat : m = Len(b) /\ DOMAIN b = 1 .. m /\ \A i \in 1 .. m : b[i] \in Origins
  BY <1>1
<1>4. ItemPlace(s, fs, p) /\ l \in LabelsAt(s, p) /\ p \in AllPlaces(s) /\ p \in ToSet(k)
  BY <1>1 DEF DefinedIn, ItemPlace, LabelsAt, IsPlaceOf
<1>5. /\ p = <<p[1], p[2]>> /\ LineOf(s, p).arg \in Nat /\ LineOf(s, p).arg > 0
  <2>1. p = <<p[1], p[2]>> /\ LineOf(s, p).arg \in Nat
    BY <1>4, PlaceOf, LineType
  <2>2. p[1] \in Files /\ p[2] \in DOMAIN s[p[1]].lines
    BY <1>4 DEF AllPlaces
  <2> QED
    BY <2>1, <2>2 DEF Sized, LineOf
<1>6. PICK i \in 1 .. m : b[i] = <<p[1], p[2], 1>>
  <2>1. 2 \in 1 .. LineOf(s, p).arg + 1 /\ 2 - 1 = 1
    BY <1>5
  <2>2. <<p[1], p[2], 1>> \in ToSet(b)
    BY <1>1, <1>4, <2>1, WordsElements
  <2> QED
    BY <1>3, <2>2 DEF ToSet
<1>7. \A q \in AllPlaces(s) : LabelMark(s)[q] = LabelsAt(s, q)
  BY DEF LabelMark
<1>8. Positions(AllData(s, fs).commandsLabels, l) = {}
  <2> SUFFICES ASSUME NEW x, x \in Positions(AllData(s, fs).commandsLabels, l)
               PROVE  FALSE
    OBVIOUS
  <2>1. x \in Nat /\ x + 1 \in 1 .. n /\ l \in LabelMark(s)[c[x + 1]]
    BY <1>1, <1>2, PositionsOfMarks
  <2>2. PICK q : q = c[x + 1]
    OBVIOUS
  <2>3. l \in LabelsAt(s, q) /\ q \in ToSet(c)
    BY <1>2, <1>7, <2>1, <2>2 DEF ToSet
  <2>4. ItemPlace(s, fs, q) /\ LineOf(s, q).item = "command"
    BY <1>1, <2>3 DEF IsPlaceOf, ItemPlace
  <2>5. q = p
    BY <1>4, <2>3, <2>4 DEF OneEach
  <2> QED
    BY <2>4, <2>5
<1>9. ASSUME NEW x
      PROVE  x \in Positions(AllData(s, fs).constantsLabels, l) <=> x = i - 1
  <2>1. x \in Positions(AllData(s, fs).constantsLabels, l)
          <=> x \in Nat /\ x + 1 \in 1 .. m /\ l \in WordMark(s)[b[x + 1]]
    BY <1>1, <1>3, PositionsOfMarks
  <2>2. \A o \in Origins : l \in WordMark(s)[o] <=> o[3] = 1 /\ l \in LabelsAt(s, <<o[1], o[2]>>)
    BY DEF WordMark
  <2>3. ASSUME x \in Nat, x + 1 \in 1 .. m, l \in WordMark(s)[b[x + 1]]
        PROVE  x = i - 1
    <3>1. PICK o : o = b[x + 1]
      OBVIOUS
    <3>2. o \in Origins /\ o \in ToSet(b)
      BY <1>3, <2>3, <3>1 DEF ToSet
    <3>3. o[3] = 1 /\ l \in LabelsAt(s, <<o[1], o[2]>>)
      BY <2>2, <2>3, <3>1, <3>2
    <3>4. PICK q \in ToSet(k) : \E j \in 1 .. LineOf(s, q).arg + 1 : o = <<q[1], q[2], j - 1>>
      <4>1. o \in ToSet(Words(s, k)) /\ k \in Seq(AllPlaces(s))
        BY <1>1, <3>2
      <4>2. \E q \in ToSet(k) : \E j \in 1 .. LineOf(s, q).arg + 1 : o = <<q[1], q[2], j - 1>>
        BY <4>1, WordsElements
      <4> QED
        BY <4>2
    <3>5. q \in AllPlaces(s) /\ ItemPlace(s, fs, q)
      BY <1>1, <3>4 DEF IsPlaceOf, ItemPlace
    <3>6. q = <<q[1], q[2]>>
      BY <3>5, PlaceOf
    <3>7. o[1] = q[1] /\ o[2] = q[2]
      BY <3>4
    <3>8. l \in LabelsAt(s, q)
      BY <3>3, <3>6, <3>7
    <3>9. q = p
      BY <1>4, <3>5, <3>8 DEF OneEach
    <3>10. o = <<p[1], p[2], 1>>
      BY <3>3, <3>4, <3>9
    <3>11. x + 1 = i
      BY <1>1, <1>3, <1>6, <2>3, <3>1, <3>10 DEF Distinct
    <3> QED
      BY <2>3, <3>11
  <2>4. i - 1 \in Nat /\ (i - 1) + 1 = i
    OBVIOUS
  <2>5. l \in WordMark(s)[b[i]]
    <3>1. PICK o : o = b[i]
      OBVIOUS
    <3>2. o \in Origins /\ o = <<p[1], p[2], 1>>
      BY <1>3, <1>6, <3>1
    <3>3. o[3] = 1 /\ o[1] = p[1] /\ o[2] = p[2]
      BY <3>2
    <3> QED
      BY <1>4, <1>5, <2>2, <3>1, <3>2, <3>3
  <2> QED
    BY <2>1, <2>3, <2>4, <2>5
<1>10. Positions(AllData(s, fs).constantsLabels, l) = {i - 1}
  BY <1>9
<1>11. TryGetDefinition(AllData(s, fs), l) = {n + (i - 1)}
  <2>1. TryGetDefinition(AllData(s, fs), l)
          = {Len(AllData(s, fs).code) + at : at \in Positions(AllData(s, fs).constantsLabels, l)}
    BY <1>8 DEF TryGetDefinition
  <2> QED
    BY <1>1, <1>2, <1>10, <2>1
<1>12. IsAddress(s, fs, <<p[1], p[2], 1>>, n + (i - 1))
  <2>1. i \in DOMAIN b
    BY <1>3
  <2>2. n + i \in DOMAIN (a \o b) /\ (a \o b)[n + i] = b[i]
    BY <1>1, <1>2, <2>1, JoinedRight
  <2>3. (n + (i - 1)) + 1 = n + i /\ n + (i - 1) \in Nat
    OBVIOUS
  <2> QED
    BY <1>1, <1>6, <2>2, <2>3 DEF IsAddress
<1> QED
  BY <1>11, <1>12

\* The layout of the abstract assembler.
LEMMA AbstractLayout ==
    ASSUME TypeOK, files_ = Abstract!Order
    PROVE  /\ Abstract!ConstantsLayout = Words(source, AllOf(source, files_, "constant"))
           /\ Abstract!Layout = LayoutOf(source, files_)
<1>1. IsProgram(source) /\ files_ \in Seq(Files)
  BY DEF TypeOK, IsProgram
<1>2. PICK c, k : /\ c = AllOf(source, files_, "command")
                  /\ k = AllOf(source, files_, "constant")
  OBVIOUS
<1>3. Abstract!Places("command") = c /\ Abstract!Places("constant") = k
  BY <1>2, AbstractPlaces
<1>4. c \in Seq(AllPlaces(source)) /\ k \in Seq(AllPlaces(source))
  BY <1>1, <1>2, AllOfType
<1>5. \A i \in DOMAIN c : c[i] \in AllPlaces(source)
  BY <1>4
<1>6. \A i \in DOMAIN k : k[i] \in AllPlaces(source)
  BY <1>4
<1>7. Abstract!CodeLayout = Mapped(c, FirstPart(source))
  <2>1. \A p \in AllPlaces(source) : Append(p, 0) = FirstPart(source)[p]
    BY <1>1, PlaceOrigin DEF FirstPart
  <2>2. [i \in DOMAIN c |-> Append(c[i], 0)] = Mapped(c, FirstPart(source))
    BY <1>5, <2>1, Zenon DEF Mapped
  <2> QED
    BY <1>3, <2>2, Zenon DEF Abstract!CodeLayout
<1>8. Abstract!ConstantsLayout = Words(source, k)
  <2> DEFINE words(p) == [j \in 1 .. Abstract!LineAt(p).arg + 1 |-> Append(p, j - 1)]
  <2>1. ASSUME NEW p \in AllPlaces(source)
        PROVE  words(p) = PartsOf(source)[p]
    <3>1. PICK m : m = LineOf(source, p).arg
      OBVIOUS
    <3>2. m \in Nat /\ Abstract!LineAt(p).arg = m
      BY <1>1, <3>1, LineType, AbstractLine
    <3>3. \A j \in 1 .. m + 1 : Append(p, j - 1) = <<p[1], p[2], j - 1>>
      <4> SUFFICES ASSUME NEW j \in 1 .. m + 1
                   PROVE  Append(p, j - 1) = <<p[1], p[2], j - 1>>
        OBVIOUS
      <4>1. PICK i \in Nat : i = j - 1
        BY <3>2
      <4>2. Append(p, i) = <<p[1], p[2], i>>
        BY <1>1, PlaceOrigin
      <4> QED
        BY <4>1, <4>2
    <3>4. words(p) = [j \in 1 .. m + 1 |-> Append(p, j - 1)]
      BY <3>2, Zenon
    <3>5. PartsOf(source)[p] = [j \in 1 .. m + 1 |-> <<p[1], p[2], j - 1>>]
      BY <1>1, <3>1, PartsFacts
    <3> QED
      BY <3>3, <3>4, <3>5, Zenon
  <2>2. [i \in DOMAIN k |-> words(k[i])] = Mapped(k, PartsOf(source))
    BY <1>6, <2>1, Zenon DEF Mapped
  <2>3. \A x : Abstract!FlattenSeq(x) = FlattenSeq(x)
    BY Zenon DEF Abstract!FlattenSeq, FlattenSeq
  <2>4. Abstract!ConstantsLayout = Abstract!FlattenSeq([i \in DOMAIN k |-> words(k[i])])
    BY <1>3, Zenon DEF Abstract!ConstantsLayout
  <2> HIDE DEF words
  <2> QED
    BY <2>2, <2>3, <2>4, Zenon DEF Words
<1> QED
  BY <1>2, <1>7, <1>8, Zenon DEF Abstract!Layout, LayoutOf, Join

\* Every label of the executable is the address of its item.
LEMMA AbstractAddress ==
    ASSUME IInv, SearchedInv, CollectedInv, MergedInv, phase = "write",
           NEW l \in Labels, DefinedIn(source, files_, l) # {}
    PROVE  AddressOf(data, l) = Abstract!LabelAddress(l)
<1>1. /\ IsProgram(source) /\ Sized(source) /\ files_ \in Seq(Files) /\ Distinct(files_)
      /\ data = AllData(source, files_) /\ OneEach(source, files_)
  BY AtWrite
<1>2. files_ = Abstract!Order /\ TypeOK
  BY ListedInOrder DEF IInv
<1>3. PICK p \in AllPlaces(source) : p \in DefinedIn(source, files_, l)
  BY DEF DefinedIn
<1>4. DefinedIn(source, files_, l) = {p}
  BY <1>1, <1>3 DEF DefinedIn, OneEach, ItemPlace, LabelsAt
<1>5. Abstract!Defined(l) = {p}
  BY <1>2, <1>4, AbstractDefined
<1>6. PICK word \in {0, 1} : word = IF LineOf(source, p).item = "command" THEN 0 ELSE 1
  OBVIOUS
<1>7. \E x : /\ TryGetDefinition(data, l) = {x}
             /\ IsAddress(source, files_, <<p[1], p[2], word>>, x)
  <2>1. CASE LineOf(source, p).item = "command"
    BY <1>1, <1>3, <1>6, <2>1, CommandAddress
  <2>2. CASE LineOf(source, p).item # "command"
    <3>1. LineOf(source, p).item = "constant"
      BY <1>3, <2>2 DEF DefinedIn, ItemPlace
    <3> QED
      BY <1>1, <1>3, <1>6, <2>2, <3>1, ConstantAddress
  <2> QED
    BY <2>1, <2>2
<1>8. PICK x : /\ TryGetDefinition(data, l) = {x}
               /\ IsAddress(source, files_, <<p[1], p[2], word>>, x)
  BY <1>7
<1>9. AddressOf(data, l) = x
  BY <1>8 DEF AddressOf
<1>10. PICK layout : layout = LayoutOf(source, files_)
  OBVIOUS
<1>11. /\ x \in Nat /\ x + 1 \in DOMAIN layout /\ layout[x + 1] = <<p[1], p[2], word>>
       /\ layout \in Seq(Origins) /\ Distinct(layout)
  BY <1>1, <1>8, <1>10, LayoutDistinct DEF IsAddress
<1>12. Append(p, word) = <<p[1], p[2], word>>
  BY <1>1, <1>6, PlaceOrigin
<1>13. \A i \in DOMAIN layout : layout[i] = Append(p, word) <=> i = x + 1
  <2>1. DOMAIN layout = 1 .. Len(layout)
    BY <1>11
  <2> QED
    BY <1>11, <1>12, <2>1 DEF Distinct
<1>14. (CHOOSE i \in DOMAIN layout : layout[i] = Append(p, word)) = x + 1
  BY <1>11, <1>13
<1>15. Abstract!LabelAddress(l) = (CHOOSE i \in DOMAIN layout : layout[i] = Append(p, word)) - 1
  <2>1. (CHOOSE q \in Abstract!Defined(l) : TRUE) = p
    BY <1>5
  <2>2. Abstract!Layout = layout
    BY <1>2, <1>10, AbstractLayout
  <2>3. Abstract!LineAt(p) = LineOf(source, p)
    BY AbstractLine
  <2> QED
    BY <1>6, <2>1, <2>2, <2>3, Zenon DEF Abstract!LabelAddress
<1>16. Abstract!LabelAddress(l) = (x + 1) - 1
  BY <1>14, <1>15, Zenon
<1>17. (x + 1) - 1 = x
  BY <1>11
<1> QED
  BY <1>9, <1>16, <1>17
-----------------------------------------------------------------------------
(***************************************************************************)
(* The executable.                                                         *)
(***************************************************************************)
\* The executable is the one of the abstract assembler.
LEMMA WriteIsImage ==
    ASSUME IInv, SearchedInv, CollectedInv, MergedInv, phase = "write"
    PROVE  exec = Abstract!Image
<1>1. /\ IsProgram(source) /\ Sized(source) /\ files_ \in Seq(Files) /\ Distinct(files_)
      /\ data = AllData(source, files_) /\ OneEach(source, files_)
      /\ Len(AllOf(source, files_, "end")) <= 1
      /\ CanSubstitute(data) /\ exec = ToExecData(data)
  BY AtWrite
<1>2. files_ = Abstract!Order /\ TypeOK
  BY ListedInOrder DEF IInv
<1>3. PICK c, k, e : /\ c = AllOf(source, files_, "command")
                     /\ k = AllOf(source, files_, "constant")
                     /\ e = AllOf(source, files_, "end")
  OBVIOUS
<1>4. /\ Abstract!Places("command") = c /\ Abstract!Places("end") = e
      /\ Abstract!ConstantsLayout = Words(source, k)
  BY <1>2, <1>3, AbstractPlaces, AbstractLayout
<1>5. /\ c \in Seq(AllPlaces(source)) /\ k \in Seq(AllPlaces(source))
      /\ e \in Seq(AllPlaces(source))
  BY <1>1, <1>3, AllOfType
<1>6. /\ Len(e) = 1
      /\ \A p : UsePlace(source, files_, p)
                  => DefinedIn(source, files_, LineOf(source, p).use) # {}
  BY <1>1, <1>3, SubstituteIs
<1>7. ASSUME NEW p \in AllPlaces(source), UsePlace(source, files_, p)
      PROVE  /\ LineOf(source, p).use \in Labels
             /\ AddressOf(data, LineOf(source, p).use)
                  = Abstract!LabelAddress(LineOf(source, p).use)
  <2>1. PICK l : l = LineOf(source, p).use
    OBVIOUS
  <2>2. l # NoLabel
    BY <1>7, <2>1 DEF UsePlace
  <2>3. l \in MaybeLabel
    BY <1>1, <2>1, LineType
  <2>4. l \in Labels /\ DefinedIn(source, files_, l) # {}
    BY <1>6, <1>7, <2>1, <2>2, <2>3 DEF MaybeLabel
  <2>5. AddressOf(data, l) = Abstract!LabelAddress(l)
    BY <2>4, AbstractAddress
  <2> QED
    BY <2>1, <2>4, <2>5
<1>8. \A p : Abstract!Operand(p)
               = IF LineOf(source, p).use = NoLabel THEN LineOf(source, p).arg
                 ELSE Abstract!LabelAddress(LineOf(source, p).use)
  BY AbstractLine, Zenon DEF Abstract!Operand
<1>9. ToExecData(data).entrypoint = Abstract!Operand(e[1])
  <2>1. e[1] \in AllPlaces(source) /\ e[1] \in ToSet(e) /\ e # <<>>
    <3>1. 1 \in DOMAIN e
      BY <1>5, <1>6
    <3>2. e # <<>>
      BY <1>5, <1>6, OneOrNone
    <3> QED
      BY <1>5, <3>1, <3>2 DEF ToSet
  <2>2. /\ data.entrypointLabel = LineOf(source, e[1]).use
        /\ data.entrypoint = IF LineOf(source, e[1]).use = NoLabel
                             THEN LineOf(source, e[1]).arg ELSE 0
    BY <1>1, <1>3, <2>1, DataParts DEF AllData
  <2>3. IsPlaceOf(source, files_, "end", e[1])
    BY <1>1, <1>3, <2>1, AllOfElements
  <2>4. CASE LineOf(source, e[1]).use = NoLabel
    BY <1>8, <2>2, <2>4 DEF ToExecData
  <2>5. CASE LineOf(source, e[1]).use # NoLabel
    <3>1. UsePlace(source, files_, e[1])
      BY <2>3, <2>5 DEF UsePlace
    <3>2. AddressOf(data, LineOf(source, e[1]).use)
            = Abstract!LabelAddress(LineOf(source, e[1]).use)
      BY <1>7, <2>1, <3>1
    <3> QED
      BY <1>8, <2>2, <2>5, <3>2 DEF ToExecData
  <2> QED
    BY <2>4, <2>5
<1>10. SubstituteLabels(data) = [i \in DOMAIN c |-> [origin |-> Append(c[i], 0),
                                                    addr |-> Abstract!Operand(c[i])]]
  <2>1. data.code = Mapped(c, CodeCell(source)) /\ data.usages = Marks(c, UseMark(source))
    BY <1>1, <1>3, DataParts DEF AllData
  <2>2. PICK n \in Nat : n = Len(c) /\ DOMAIN c = 1 .. n
                         /\ \A i \in 1 .. n : c[i] \in AllPlaces(source)
    BY <1>5
  <2>3. DOMAIN data.code = 1 .. n /\ \A i \in 1 .. n : data.code[i] = CodeCell(source)[c[i]]
    BY <2>1, <2>2 DEF Mapped
  <2> DEFINE cell(i) == LET used == {u \in data.usages : u[2] = i - 1}
                        IN  IF used = {} THEN data.code[i]
                            ELSE [data.code[i] EXCEPT !.addr =
                                     AddressOf(data, (CHOOSE u \in used : TRUE)[1])]
  <2>4. ASSUME NEW i \in 1 .. n
        PROVE  cell(i) = [origin |-> Append(c[i], 0), addr |-> Abstract!Operand(c[i])]
    <3>1. PICK p \in AllPlaces(source) : p = c[i]
      BY <2>2
    <3>2. PICK use : use = LineOf(source, p).use
      OBVIOUS
    <3>3. PICK used : used = {u \in data.usages : u[2] = i - 1}
      OBVIOUS
    <3>4. data.code[i] = [origin |-> <<p[1], p[2], 0>>,
                          addr |-> IF use = NoLabel THEN LineOf(source, p).arg ELSE 0]
      BY <2>3, <3>1, <3>2 DEF CodeCell
    <3>5. Append(p, 0) = <<p[1], p[2], 0>>
      BY <1>1, PlaceOrigin
    <3>6. \A u : u \in used <=> u \in Labels \X Nat /\ u[2] = i - 1 /\ u[1] \in {use} \ {NoLabel}
      <4>1. UseMark(source)[p] = {use} \ {NoLabel}
        BY <3>2 DEF UseMark
      <4>2. ASSUME NEW u \in Labels \X Nat, u[2] = i - 1
            PROVE  u \in Marks(c, UseMark(source)) <=> u[1] \in {use} \ {NoLabel}
        <5>1. u[2] + 1 = i
          BY <4>2
        <5> QED
          BY <2>2, <3>1, <4>1, <4>2, <5>1 DEF Marks
      <4>3. \A u \in used : u \in Labels \X Nat
        BY <2>1, <3>3 DEF Marks
      <4> QED
        BY <2>1, <3>3, <4>2, <4>3
    <3>7. CASE use = NoLabel
      <4>1. used = {}
        BY <3>6, <3>7
      <4>2. cell(i) = data.code[i]
        BY <3>3, <4>1
      <4>3. Abstract!Operand(p) = LineOf(source, p).arg
        BY <1>8, <3>2, <3>7
      <4> QED
        BY <3>1, <3>4, <3>5, <3>7, <4>2, <4>3
    <3>8. CASE use # NoLabel
      <4>1. UsePlace(source, files_, p)
        <5>1. p \in ToSet(c)
          BY <2>2, <3>1 DEF ToSet
        <5>2. IsPlaceOf(source, files_, "command", p)
          BY <1>1, <1>3, <5>1, AllOfElements
        <5> QED
          BY <3>2, <3>8, <5>2 DEF UsePlace
      <4>2. use \in Labels /\ AddressOf(data, use) = Abstract!LabelAddress(use)
        BY <1>7, <3>2, <4>1
      <4>3. <<use, i - 1>> \in used
        BY <3>6, <3>8, <4>2
      <4>4. PICK u : u = (CHOOSE x \in used : TRUE)
        OBVIOUS
      <4>5. u[1] = use
        BY <3>6, <4>3, <4>4
      <4>6. cell(i) = [data.code[i] EXCEPT !.addr = AddressOf(data, use)]
        BY <3>3, <4>3, <4>4, <4>5
      <4>7. Abstract!Operand(p) = Abstract!LabelAddress(use)
        BY <1>8, <3>2, <3>8
      <4>8. [data.code[i] EXCEPT !.addr = AddressOf(data, use)]
              = [origin |-> <<p[1], p[2], 0>>, addr |-> AddressOf(data, use)]
        BY <3>4
      <4>9. cell(i) = [origin |-> Append(p, 0), addr |-> Abstract!Operand(p)]
        BY <3>5, <4>2, <4>6, <4>7, <4>8, Zenon
      <4> QED
        BY <3>1, <4>9, Zenon
    <3> QED
      BY <3>7, <3>8
  <2>5. SubstituteLabels(data) = [i \in 1 .. n |-> cell(i)]
    BY <2>3, Zenon DEF SubstituteLabels
  <2> HIDE DEF cell
  <2> QED
    BY <2>2, <2>4, <2>5, Zenon
<1>11. data.constants = [i \in DOMAIN Words(source, k) |->
                            [origin |-> Words(source, k)[i], addr |-> 0]]
  <2>1. PICK b : b = Words(source, k)
    OBVIOUS
  <2>2. b \in Seq(Origins)
    BY <1>1, <1>5, <2>1, WordsType
  <2>3. data.constants = Mapped(b, ConstantCell)
    BY <1>1, <1>3, <2>1, DataParts DEF AllData
  <2>4. \A i \in DOMAIN b : ConstantCell[b[i]] = [origin |-> b[i], addr |-> 0]
    BY <2>2 DEF ConstantCell
  <2>5. Mapped(b, ConstantCell) = [i \in DOMAIN b |-> [origin |-> b[i], addr |-> 0]]
    BY <2>4, Zenon DEF Mapped
  <2> QED
    BY <2>1, <2>3, <2>5, Zenon
<1>12. exec = [entrypoint |-> ToExecData(data).entrypoint,
               code |-> SubstituteLabels(data), constants |-> data.constants]
  BY <1>1 DEF ToExecData
<1>13. Abstract!Image
         = [entrypoint |-> Abstract!Operand(e[1]),
            code |-> [i \in DOMAIN c |-> [origin |-> Append(c[i], 0),
                                         addr |-> Abstract!Operand(c[i])]],
            constants |-> [i \in DOMAIN Words(source, k) |->
                              [origin |-> Words(source, k)[i], addr |-> 0]]]
  BY <1>4, Zenon DEF Abstract!Image
<1> QED
  BY <1>9, <1>10, <1>11, <1>12, <1>13
-----------------------------------------------------------------------------
(***************************************************************************)
(* The compilation implements the abstract assembler.                      *)
(***************************************************************************)
\* What a compilation shows of its executable.
Shown == IF phase = "written" THEN exec ELSE NoImage

\* A step of a compilation that goes on shows nothing,
LEMMA GoingOn ==
    ASSUME source' = source, phase \notin Ended, phase' \notin Ended
    PROVE  UNCHANGED <<source, Outcome, Shown>>
  BY DEF Outcome, Shown, Ended

\* an error of the program shows a refusal,
LEMMA RefusalRefines ==
    ASSUME source' = source, phase \notin Ended, phase' \in {"failed", "terminated"},
           ~Abstract!Compilable
    PROVE  Abstract!Next
<1>1. Outcome = "none" /\ Outcome' = "refused"
  BY DEF Outcome, Ended
<1>2. phase # "written" /\ phase' # "written"
  BY DEF Ended
<1>3. Abstract!Refuse
  BY <1>1, <1>2 DEF Abstract!Refuse
<1> QED
  BY <1>1, <1>3 DEF Abstract!Next

\* a failure of the system an abandoned one,
LEMMA AbandonRefines ==
    ASSUME source' = source, phase \notin Ended,
           phase' \in {"unable", "killed", "crashed"}
    PROVE  Abstract!Next
<1>1. Outcome = "none" /\ Outcome' = "abandoned"
  BY DEF Outcome, Ended
<1>2. phase # "written" /\ phase' # "written"
  BY DEF Ended
<1>3. Abstract!Abandon
  BY <1>1, <1>2 DEF Abstract!Abandon
<1> QED
  BY <1>1, <1>3 DEF Abstract!Next

\* and what is written is the executable of the program.
LEMMA WritingRefines ==
    ASSUME source' = source, exec' = exec, phase = "write", phase' = "written",
           Abstract!Compilable, exec = Abstract!Image
    PROVE  Abstract!Next
<1>1. Outcome = "none" /\ Outcome' = "assembled"
  BY DEF Outcome
<1>2. Abstract!Assemble
  BY <1>1 DEF Abstract!Assemble
<1> QED
  BY <1>1, <1>2 DEF Abstract!Next

\* What the invariants say together.
CompiledInv == IInv /\ SearchedInv /\ CollectedInv /\ MergedInv

\* They hold at first
LEMMA CompiledInvInit == Init => CompiledInv
  BY InitInv, SearchedInvInit, CollectedInvInit, MergedInvInit DEF CompiledInv

\* and after every step.
LEMMA CompiledInvNext == CompiledInv /\ [Next]_vars => CompiledInv'
<1> SUFFICES ASSUME CompiledInv, [Next]_vars PROVE CompiledInv'
  OBVIOUS
<1>1. IInv /\ SearchedInv /\ CollectedInv /\ MergedInv
  BY DEF CompiledInv
<1>2. IInv'
  BY <1>1, NextInv
<1>3. SearchedInv'
  BY <1>1, SearchedInvNext
<1>4. CollectedInv'
  BY <1>1, <1>2, CollectedInvNext
<1>5. MergedInv'
  BY <1>1, MergedInvNext
<1> QED
  BY <1>2, <1>3, <1>4, <1>5 DEF CompiledInv

\* Of the main thread,
LEMMA MainStepRefines ==
    ASSUME CompiledInv, MainStep
    PROVE  Abstract!Next \/ UNCHANGED <<source, Outcome, Shown>>
<1>0. IInv /\ SearchedInv /\ CollectedInv /\ MergedInv
  BY DEF CompiledInv
<1>1. CASE GetFiles \/ FollowInclude
  <2>1. source' = source /\ phase \notin Ended
    BY <1>1 DEF GetFiles, FollowInclude, ProcessFileIncludes, Ended
  <2>2. CASE phase' = "includes"
    <3>1. phase' \notin Ended
      BY <2>2 DEF Ended
    <3> QED
      BY <2>1, <3>1, GoingOn
  <2>3. CASE phase' # "includes"
    <3>1. phase' = "failed" /\ ~Abstract!Compilable
      BY <1>0, <1>1, <2>3, SearchRefuses
    <3> QED
      BY <2>1, <3>1, RefusalRefines
  <2> QED
    BY <2>2, <2>3
<1>2. CASE SkipInclude \/ LeaveFile \/ StartWorker \/ JoinWorkers \/ MergeFile
  <2>1. source' = source /\ phase \notin Ended /\ phase' \notin Ended
    BY <1>2 DEF SkipInclude, LeaveFile, StartWorker, JoinWorkers, MergeFile, mergeVars, Ended
  <2> QED
    BY <2>1, GoingOn
<1>3. CASE DivideByZero \/ CannotStartWorker
  <2>1. /\ source' = source /\ phase \notin Ended
        /\ phase' \in {"unable", "killed", "crashed"}
    BY <1>3 DEF DivideByZero, CannotStartWorker, Ended
  <2> QED
    BY <2>1, AbandonRefines
<1>4. CASE MergeFails
  <2>1. source' = source /\ phase \notin Ended /\ phase' = "failed"
    BY <1>4 DEF MergeFails, mergeVars, Ended
  <2>2. ~Abstract!Compilable
    BY <1>0, <1>4, MergeFailsRefuses
  <2> QED
    BY <2>1, <2>2, RefusalRefines
<1>5. CASE Substitute
  <2>1. source' = source /\ phase \notin Ended /\ phase = "merge" /\ merged = Len(files_)
    BY <1>5 DEF Substitute, mergeVars, Ended
  <2>2. CASE CanSubstitute(data)
    <3>1. phase' \notin Ended
      BY <1>5, <2>2 DEF Substitute, Ended
    <3> QED
      BY <2>1, <3>1, GoingOn
  <2>3. CASE ~CanSubstitute(data)
    <3>1. phase' = "failed"
      BY <1>5, <2>3 DEF Substitute
    <3>2. ~Abstract!Compilable
      BY <1>0, <2>1, <2>3, SubstituteRefuses
    <3> QED
      BY <2>1, <3>1, <3>2, RefusalRefines
  <2> QED
    BY <2>2, <2>3
<1>6. CASE Write
  <2>1. /\ source' = source /\ exec' = exec /\ phase = "write"
        /\ phase \notin Ended /\ phase' \in {"written", "unable"}
    BY <1>6 DEF Write, mergeVars, Ended
  <2>2. CASE phase' = "unable"
    BY <2>1, <2>2, AbandonRefines
  <2>3. CASE phase' = "written"
    <3>1. Abstract!Compilable /\ exec = Abstract!Image
      BY <1>0, <2>1, WriteIsValid, WriteIsImage
    <3> QED
      BY <2>1, <2>3, <3>1, WritingRefines
  <2> QED
    BY <2>1, <2>2, <2>3
<1> QED
  BY <1>1, <1>2, <1>3, <1>4, <1>5, <1>6 DEF MainStep

\* and of a worker, every step is one of the assembler or of no account.
LEMMA WorkerStepRefines ==
    ASSUME CompiledInv, NEW w \in DOMAIN workers, WorkerStep(w)
    PROVE  Abstract!Next \/ UNCHANGED <<source, Outcome, Shown>>
<1>0. IInv /\ SearchedInv /\ CollectedInv
  BY DEF CompiledInv
<1>1. CASE OpenEmptyFile(w) \/ RejectLine(w) \/ FileEndsWithLabel(w)
  <2>1. source' = source /\ phase \notin Ended /\ phase' = "terminated"
    BY <1>1 DEF OpenEmptyFile, RejectLine, FileEndsWithLabel, AtItem, AtEnd, Runs,
                Terminate, Ended
  <2>2. ~Abstract!Compilable
    BY <1>0, <1>1, OpenEmptyFileRefuses, RejectLineRefuses, FileEndsWithLabelRefuses
  <2> QED
    BY <2>1, <2>2, RefusalRefines
<1>2. CASE CannotReopen(w)
  <2>1. source' = source /\ phase \notin Ended /\ phase' = "killed"
    BY <1>2 DEF CannotReopen, Runs, Ended
  <2> QED
    BY <2>1, AbandonRefines
<1>3. CASE \/ OpenFile(w) \/ ProcessLabel(w) \/ ProcessCommand(w)
           \/ ProcessConstant(w) \/ ProcessEntrypoint(w) \/ FinishFile(w)
  <2>1. source' = source /\ phase \notin Ended /\ phase' = phase
    BY <1>3 DEF OpenFile, ProcessLabel, ProcessCommand, ProcessConstant,
                ProcessEntrypoint, FinishFile, AtItem, AtEnd, Runs, NextLine, Becomes, Ended
  <2> QED
    BY <2>1, GoingOn
<1> QED
  BY <1>1, <1>2, <1>3 DEF WorkerStep

\* Every step shows a step of the abstract assembler, or nothing.
LEMMA StepRefinesAssembler ==
    ASSUME CompiledInv, [Next]_vars
    PROVE  Abstract!Next \/ UNCHANGED <<source, Outcome, Shown>>
<1>1. CASE Stopped \/ UNCHANGED vars
  BY <1>1 DEF Stopped, vars, Outcome, Shown
<1>2. CASE MainStep
  BY <1>2, MainStepRefines
<1>3. CASE \E w \in DOMAIN workers : WorkerStep(w)
  BY <1>3, WorkerStepRefines
<1> QED
  BY <1>1, <1>2, <1>3 DEF Next

\* Whatever the files, the number of workers and their schedule: what is
\* written is the executable of the whole program, and a program is refused only
\* if it is not valid or has a file without a line.
THEOREM CompilationImplementsAssembler == Spec => ImplementsAssembler
<1>1. ASSUME Init PROVE Abstract!Init
  <2>1. source \in Sources /\ phase = "start"
    BY <1>1 DEF Init
  <2>2. source \in [Files -> SourceFile]
    BY <1>1, InitInv DEF IInv, TypeOK
  <2>3. Abstract!SourceFile = SourceFile
    BY DEF Abstract!SourceFile, SourceFile, Abstract!Line, Line, Abstract!Items, Items,
           Abstract!MaybeLabel, MaybeLabel
  <2>4. Outcome = "none" /\ phase # "written"
    BY <2>1 DEF Outcome
  <2> QED
    BY <2>2, <2>3, <2>4 DEF Abstract!Init, Abstract!NoImage, NoImage
<1>2. ASSUME CompiledInv, [Next]_vars
      PROVE  [Abstract!Next]_<<source, Outcome, Shown>>
  BY <1>2, StepRefinesAssembler
<1> QED
  BY <1>1, <1>2, CompiledInvInit, CompiledInvNext, PTL
     DEF Spec, ImplementsAssembler, Abstract!Spec, Shown
=============================================================================
