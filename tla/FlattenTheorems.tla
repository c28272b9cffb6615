--------------------------- MODULE FlattenTheorems ---------------------------
(***************************************************************************)
(* What FlattenSeq, the concatenation of a sequence of sequences, makes of *)
(* a sequence that grows at its end or shrinks at its front.               *)
(*                                                                         *)
(* FlattenSeq is a recursive function, and the induction these facts need  *)
(* is over a set of numbers: one that has 0 and with every number the next *)
(* has all of them.                                                        *)
(***************************************************************************)
EXTENDS Integers, SequencesExt, SequenceTheorems, WellFoundedInduction, TLAPS

LEMMA NatOrder ==
  \E R : IsWellFoundedOn(R, Nat) /\ \A x, y \in Nat : x < y => <<x, y>> \in R
<1>1. \A x, y \in Nat : x < y => <<x, y>> \in OpToRel(<, Nat)
  BY DEF OpToRel
<1> QED BY <1>1, NatLessThanWellFounded

LEMMA LeastNat ==
  ASSUME NEW T \in SUBSET Nat, T # {}
  PROVE  \E x \in T : \A y \in T : x <= y
<1>0. PICK R : IsWellFoundedOn(R, Nat) /\ \A x, y \in Nat : x < y => <<x, y>> \in R
  BY NatOrder
<1>1. T \subseteq Nat /\ IsWellFoundedOn(R, Nat)
  BY <1>0
<1>2. PICK x \in T : \A y \in T : ~ (<<y, x>> \in R)
  BY <1>1, WFMin
<1>3. x \in Nat /\ \A y \in T : y \in Nat /\ ~(y < x)
  BY <1>0, <1>1, <1>2
<1> QED BY <1>3

\* A set of numbers has a least one, so induction over a set is sound.
LEMMA SetInduction ==
  ASSUME NEW T, 0 \in T, \A n \in Nat : n \in T => n + 1 \in T
  PROVE  Nat \subseteq T
<1> SUFFICES ASSUME NEW m \in Nat \ T PROVE FALSE
  OBVIOUS
<1>1. PICK x \in Nat \ T : \A y \in Nat \ T : x <= y
  BY LeastNat
<1>2. x - 1 \in Nat /\ x - 1 \in T
  BY <1>1
<1> QED BY <1>1, <1>2

-----------------------------------------------------------------------------
\* f concatenates the first n members of s, one after the other.
Joins(f, s, n) == f = [i \in 1 .. n |-> IF i = 1 THEN s[i] ELSE f[i - 1] \o s[i]]

LEMMA Joinable == ASSUME NEW s PROVE \A n \in Nat : \E f : Joins(f, s, n)
<1> DEFINE T == {n \in Nat : \E f : Joins(f, s, n)}
<1>1. 0 \in T
  <2>1. Joins([i \in {} |-> i], s, 0)
    BY DEF Joins
  <2> QED BY <2>1
<1>2. ASSUME NEW n \in Nat, n \in T PROVE n + 1 \in T
  <2>1. PICK f : Joins(f, s, n)
    BY <1>2
  <2> DEFINE g == [i \in 1 .. n + 1 |->
                     IF i = n + 1 THEN IF i = 1 THEN s[i] ELSE f[n] \o s[i] ELSE f[i]]
  <2>2. \A i \in 1 .. n : i \in 1 .. n + 1 /\ i # n + 1 /\ (i # 1 => i - 1 \in 1 .. n)
    OBVIOUS
  <2>3. \A i \in 1 .. n : g[i] = f[i]
    BY <2>2
  <2>4. \A i \in 1 .. n : f[i] = IF i = 1 THEN s[i] ELSE f[i - 1] \o s[i]
    BY <2>1 DEF Joins
  <2>5. \A i \in 1 .. n + 1 : g[i] = IF i = 1 THEN s[i] ELSE g[i - 1] \o s[i]
    <3> TAKE i \in 1 .. n + 1
    <3>1. CASE i = n + 1
      <4>1. i # 1 => n \in 1 .. n /\ i - 1 = n
        BY <3>1
      <4>2. g[i] = IF i = 1 THEN s[i] ELSE f[n] \o s[i]
        BY <3>1
      <4> HIDE DEF g
      <4> QED BY <2>3, <4>1, <4>2
    <3>2. CASE i # n + 1
      <4>1. i \in 1 .. n
        BY <3>2
      <4> HIDE DEF g
      <4> QED BY <2>2, <2>3, <2>4, <4>1
    <3> QED BY <3>1, <3>2
  <2>6. g = [i \in 1 .. n + 1 |-> g[i]]
    OBVIOUS
  <2> HIDE DEF g
  <2>7. Joins(g, s, n + 1)
    BY <2>5, <2>6 DEF Joins
  <2> QED BY <2>7
<1> HIDE DEF T
<1>3. Nat \subseteq T
  BY <1>1, <1>2, SetInduction
<1> QED BY <1>3 DEF T

LEMMA FlattenUnfolds ==
  ASSUME NEW s, Len(s) \in Nat, Len(s) # 0
  PROVE  \E f : Joins(f, s, Len(s)) /\ FlattenSeq(s) = f[Len(s)]
<1>2. \E f : f = [i \in 1 .. Len(s) |-> IF i = 1 THEN s[i] ELSE f[i - 1] \o s[i]]
  BY Joinable DEF Joins
<1> QED BY <1>2 DEF Joins, FlattenSeq

\* Two sequences with the same beginning are joined the same way that far.
LEMMA JoinedAlike ==
  \A s, t, f, g : \A n, m \in Nat :
    Joins(f, s, n) /\ Joins(g, t, m) /\ n <= m /\ (\A i \in 1 .. n : s[i] = t[i])
      => \A i \in 1 .. n : f[i] = g[i]
<1> SUFFICES ASSUME NEW s, NEW n \in Nat, NEW f, Joins(f, s, n),
                    NEW t, NEW m \in Nat, NEW g, Joins(g, t, m),
                    n <= m, \A i \in 1 .. n : s[i] = t[i]
             PROVE  \A i \in 1 .. n : f[i] = g[i]
  OBVIOUS
<1> DEFINE T == {i \in Nat : i \in 1 .. n => f[i] = g[i]}
<1>1. /\ \A i \in 1 .. n : f[i] = IF i = 1 THEN s[i] ELSE f[i - 1] \o s[i]
      /\ \A i \in 1 .. m : g[i] = IF i = 1 THEN t[i] ELSE g[i - 1] \o t[i]
  BY DEF Joins
<1>2. 0 \in T
  OBVIOUS
<1>3. ASSUME NEW i \in Nat, i \in T PROVE i + 1 \in T
  <2>1. SUFFICES ASSUME i + 1 \in 1 .. n PROVE f[i + 1] = g[i + 1]
    OBVIOUS
  <2>2. i + 1 \in 1 .. n /\ i + 1 \in 1 .. m /\ (i + 1) - 1 = i /\ (i + 1 # 1 => i \in 1 .. n)
    BY <2>1
  <2>3. i + 1 # 1 => f[i] = g[i]
    BY <1>3, <2>2
  <2> QED BY <1>1, <2>1, <2>2, <2>3
<1> HIDE DEF T
<1>4. Nat \subseteq T
  BY <1>2, <1>3, SetInduction
<1> QED BY <1>4 DEF T

LEMMA JoinedType ==
  ASSUME NEW S, NEW s \in Seq(Seq(S)), NEW f, Joins(f, s, Len(s))
  PROVE  \A i \in 1 .. Len(s) : f[i] \in Seq(S)
<1> DEFINE T == {i \in Nat : i \in 1 .. Len(s) => f[i] \in Seq(S)}
<1>0. Len(s) \in Nat /\ \A i \in 1 .. Len(s) : s[i] \in Seq(S)
  OBVIOUS
<1>1. \A i \in 1 .. Len(s) : f[i] = IF i = 1 THEN s[i] ELSE f[i - 1] \o s[i]
  BY DEF Joins
<1>2. 0 \in T
  OBVIOUS
<1>3. ASSUME NEW i \in Nat, i \in T PROVE i + 1 \in T
  <2>1. SUFFICES ASSUME i + 1 \in 1 .. Len(s) PROVE f[i + 1] \in Seq(S)
    OBVIOUS
  <2>2. (i + 1) - 1 = i /\ (i + 1 # 1 => i \in 1 .. Len(s))
    BY <1>0, <2>1
  <2>3. i + 1 # 1 => f[i] \in Seq(S)
    BY <1>3, <2>2
  <2>4. s[i + 1] \in Seq(S) /\ f[i + 1] = IF i + 1 = 1 THEN s[i + 1] ELSE f[i] \o s[i + 1]
    BY <1>0, <1>1, <2>1, <2>2
  <2> QED BY <2>3, <2>4, ConcatProperties
<1> HIDE DEF T
<1>4. Nat \subseteq T
  BY <1>2, <1>3, SetInduction
<1> QED BY <1>4 DEF T

-----------------------------------------------------------------------------
LEMMA FlattenEmpty == FlattenSeq(<<>>) = <<>>
BY DEF FlattenSeq

LEMMA FlattenType ==
  ASSUME NEW S, NEW s \in Seq(Seq(S))
  PROVE  FlattenSeq(s) \in Seq(S)
<1>1. CASE s = <<>>
  BY <1>1, FlattenEmpty, EmptySeq
<1>2. CASE s # <<>>
  <2>1. Len(s) \in 1 .. Len(s)
    BY <1>2
  <2> QED BY <1>2, <2>1, FlattenUnfolds, JoinedType
<1> QED BY <1>1, <1>2

LEMMA FlattenGrows ==
  ASSUME NEW s, NEW t, Len(s) \in Nat, Len(s) # 0,
         Len(t) = Len(s) + 1, \A i \in 1 .. Len(s) : s[i] = t[i]
  PROVE  FlattenSeq(t) = FlattenSeq(s) \o t[Len(t)]
<1>0. Len(t) \in Nat /\ Len(t) # 0 /\ Len(s) <= Len(t) /\ Len(t) \in 1 .. Len(t)
  OBVIOUS
<1>1. PICK f : Joins(f, t, Len(t)) /\ FlattenSeq(t) = f[Len(t)]
  BY <1>0, FlattenUnfolds
<1>2. PICK g : Joins(g, s, Len(s)) /\ FlattenSeq(s) = g[Len(s)]
  BY FlattenUnfolds
<1>3. \A i \in 1 .. Len(s) : g[i] = f[i]
  BY <1>0, <1>1, <1>2, JoinedAlike
<1>4. f[Len(t)] = IF Len(t) = 1 THEN t[1] ELSE f[Len(t) - 1] \o t[Len(t)]
  BY <1>0, <1>1 DEF Joins
<1>5. Len(s) \in 1 .. Len(s) /\ Len(t) # 1 /\ Len(t) - 1 = Len(s)
  OBVIOUS
<1> QED BY <1>1, <1>2, <1>3, <1>4, <1>5

LEMMA FlattenOne ==
  ASSUME NEW s, Len(s) \in Nat, Len(s) # 0
  PROVE  Len(s) = 1 => FlattenSeq(s) = s[1]
<1>1. PICK f : Joins(f, s, Len(s)) /\ FlattenSeq(s) = f[Len(s)]
  BY FlattenUnfolds
<1> QED BY <1>1 DEF Joins

LEMMA FlattenAppend ==
  ASSUME NEW S, NEW s \in Seq(Seq(S)), NEW x \in Seq(S)
  PROVE  FlattenSeq(Append(s, x)) = FlattenSeq(s) \o x
<1>1. /\ Append(s, x) \in Seq(Seq(S)) /\ Len(Append(s, x)) = Len(s) + 1
      /\ Append(s, x)[Len(s) + 1] = x
      /\ \A i \in 1 .. Len(s) : s[i] = Append(s, x)[i]
      /\ Len(s) \in Nat
  BY AppendProperties
<1>2. CASE s = <<>>
  <2>1. /\ Len(Append(s, x)) = 1 /\ Append(s, x)[1] = x
        /\ Len(Append(s, x)) \in Nat /\ Len(Append(s, x)) # 0
    BY <1>1, <1>2
  <2>2. FlattenSeq(Append(s, x)) = x
    BY <1>1, <2>1, FlattenOne
  <2>3. FlattenSeq(s) \o x = x
    BY <1>2, FlattenEmpty, ConcatEmptySeq
  <2> QED BY <2>2, <2>3
<1>3. CASE s # <<>>
  <2>1. Len(s) # 0
    BY <1>3
  <2> QED BY <1>1, <2>1, FlattenGrows
<1> QED BY <1>2, <1>3

LEMMA FlattenHead ==
  ASSUME NEW S, NEW s \in Seq(Seq(S)), s # <<>>
  PROVE  FlattenSeq(s) = Head(s) \o FlattenSeq(Tail(s))
<1> DEFINE t == Tail(s)
<1>0. /\ Len(s) \in Nat /\ Len(s) >= 1 /\ Head(s) = s[1] /\ s[1] \in Seq(S)
      /\ t \in Seq(Seq(S)) /\ Len(t) = Len(s) - 1
      /\ \A i \in 1 .. Len(t) : t[i] = s[i + 1] /\ t[i] \in Seq(S)
  BY HeadTailProperties
<1> HIDE DEF t
<1>1. PICK f : Joins(f, s, Len(s)) /\ FlattenSeq(s) = f[Len(s)]
  BY FlattenUnfolds
<1>2. \A i \in 1 .. Len(s) : f[i] = IF i = 1 THEN s[i] ELSE f[i - 1] \o s[i]
  BY <1>1 DEF Joins
<1>3. CASE t = <<>>
  <2>1. Len(s) = 1 /\ FlattenSeq(t) = <<>>
    BY <1>0, <1>3, FlattenEmpty
  <2> QED BY <1>0, <1>1, <1>2, <2>1, ConcatEmptySeq DEF t
<1>4. CASE t # <<>>
  <2>0. Len(t) \in Nat /\ Len(t) # 0
    BY <1>0, <1>4
  <2>1. PICK g : Joins(g, t, Len(t)) /\ FlattenSeq(t) = g[Len(t)]
    BY <2>0, FlattenUnfolds
  <2>2. \A i \in 1 .. Len(t) : g[i] = IF i = 1 THEN t[i] ELSE g[i - 1] \o t[i]
    BY <2>1 DEF Joins
  <2>3. \A i \in 1 .. Len(t) : g[i] \in Seq(S)
    BY <1>0, <2>1, JoinedType
  <2> DEFINE T == {i \in Nat : i \in 1 .. Len(t) => f[i + 1] = s[1] \o g[i]}
  <2>4. 0 \in T
    OBVIOUS
  <2>5. ASSUME NEW i \in Nat, i \in T PROVE i + 1 \in T
    <3>1. SUFFICES ASSUME i + 1 \in 1 .. Len(t) PROVE f[(i + 1) + 1] = s[1] \o g[i + 1]
      <4>1. i + 1 \in Nat
        OBVIOUS
      <4> QED BY <4>1, Zenon
    <3>2. /\ (i + 1) + 1 \in 1 .. Len(s) /\ (i + 1) + 1 # 1 /\ ((i + 1) + 1) - 1 = i + 1
          /\ i + 1 \in 1 .. Len(s) /\ (i + 1) - 1 = i
          /\ (i + 1 # 1 => i \in 1 .. Len(t))
      BY <1>0, <3>1
    <3>3. /\ f[(i + 1) + 1] = f[i + 1] \o t[i + 1]
          /\ g[i + 1] = IF i + 1 = 1 THEN t[i + 1] ELSE g[i] \o t[i + 1]
      BY <1>0, <1>2, <2>2, <3>1, <3>2
    <3>4. CASE i + 1 = 1
      <4>1. f[i + 1] = s[1]
        BY <1>2, <3>2, <3>4
      <4> QED BY <3>3, <3>4, <4>1
    <3>5. CASE i + 1 # 1
      <4>1. f[i + 1] = s[1] \o g[i] /\ g[i] \in Seq(S) /\ t[i + 1] \in Seq(S)
        BY <1>0, <2>3, <2>5, <3>1, <3>2, <3>5
      <4>2. (s[1] \o g[i]) \o t[i + 1] = s[1] \o (g[i] \o t[i + 1])
        <5> DEFINE a == s[1]
                   b == g[i]
                   c == t[i + 1]
        <5>1. a \in Seq(S) /\ b \in Seq(S) /\ c \in Seq(S)
          BY <1>0, <4>1
        <5> HIDE DEF a, b, c
        <5>2. (a \o b) \o c = a \o (b \o c)
          BY <5>1, ConcatAssociative
        <5> QED BY <5>2 DEF a, b, c
      <4> QED BY <3>3, <3>5, <4>1, <4>2
    <3> QED BY <3>4, <3>5
  <2> HIDE DEF T
  <2>6. Nat \subseteq T
    BY <2>4, <2>5, SetInduction
  <2>7. Len(t) \in Nat /\ Len(t) \in 1 .. Len(t) /\ Len(t) + 1 = Len(s)
    BY <1>0, <1>4
  <2>8. f[Len(s)] = s[1] \o g[Len(t)]
    BY <2>6, <2>7 DEF T
  <2> QED BY <1>0, <1>1, <2>1, <2>8 DEF t
<1> QED BY <1>3, <1>4
=============================================================================
