----------------------------- MODULE TextLemmas -----------------------------
(***************************************************************************)
(* Facts about sequences the proofs of this project share: prefixes, the   *)
(* flattening of a sequence of texts, and the smallest element of a set of *)
(* numbers, which takes the place of induction: the smallest element for   *)
(* which a claim fails has a predecessor for which it does not.            *)
(***************************************************************************)
EXTENDS Integers, Sequences, SequencesExt, SequenceTheorems,
        WellFoundedInduction, TLAPS

LEMMA SmallestExists ==
  ASSUME NEW T \in SUBSET Nat, T # {}
  PROVE  \E n \in T : \A m \in T : n <= m
<1>1. PICK n \in T : \A m \in T : <<m, n>> \notin OpToRel(<, Nat)
  BY NatLessThanWellFounded, WFMin
<1>2. \A m \in T : ~ (m < n)
  BY <1>1 DEF OpToRel
<1> QED BY <1>2

-----------------------------------------------------------------------------
(* Prefixes.                                                               *)

\* A prefix of a text, element by element.
LEMMA PrefixByIndex ==
  ASSUME NEW S, NEW v \in Seq(S), NEW t \in Seq(S)
  PROVE  IsPrefix(v, t) <=>
           Len(v) <= Len(t) /\ \A i \in 1 .. Len(v) : v[i] = t[i]
<1>1. SubSeq(v, 1, Len(v)) = v
  BY SubSeqFull
<1>2. ASSUME Len(v) <= Len(t)
      PROVE  /\ SubSeq(t, 1, Len(v)) \in Seq(S)
             /\ Len(SubSeq(t, 1, Len(v))) = Len(v)
             /\ \A i \in 1 .. Len(v) : SubSeq(t, 1, Len(v))[i] = t[i]
  <2>1. Len(v) \in Nat /\ Len(t) \in Nat
    BY LenProperties
  <2>2. \A i \in 1 .. Len(v) : t[i] \in S
    BY <1>2, <2>1, ElementOfSeq
  <2> QED BY <1>2, <2>1, <2>2, SubSeqProperties
<1>3. ASSUME Len(v) <= Len(t), \A i \in 1 .. Len(v) : v[i] = t[i]
      PROVE  v = SubSeq(t, 1, Len(v))
  BY <1>2, <1>3, SeqEqual
<1> QED BY <1>1, <1>2, <1>3 DEF IsPrefix

\* More text leaves a prefix a prefix.
LEMMA PrefixOfLonger ==
  ASSUME NEW S, NEW v \in Seq(S), NEW t \in Seq(S), NEW c \in Seq(S),
         IsPrefix(v, t)
  PROVE  IsPrefix(v, t \o c)
<1>1. Len(v) \in Nat /\ Len(t) \in Nat /\ Len(c) \in Nat
  BY LenProperties
<1>2. t \o c \in Seq(S) /\ Len(t \o c) = Len(t) + Len(c)
      /\ \A i \in 1 .. Len(t) : (t \o c)[i] = t[i]
  BY <1>1, ConcatProperties
<1>3. Len(v) <= Len(t) /\ \A i \in 1 .. Len(v) : v[i] = t[i]
  BY PrefixByIndex
<1>4. Len(v) <= Len(t \o c) /\ \A i \in 1 .. Len(v) : v[i] = (t \o c)[i]
  BY <1>1, <1>2, <1>3
<1> QED BY <1>2, <1>4, PrefixByIndex

LEMMA PrefixOfItself ==
  ASSUME NEW S, NEW t \in Seq(S)
  PROVE  IsPrefix(t, t) /\ IsPrefix(<<>>, t)
<1>1. <<>> \in Seq(S) /\ Len(<<>>) = 0 /\ Len(t) \in Nat
  BY EmptySeq, LenProperties
<1>2. IsPrefix(t, t)
  BY <1>1, PrefixByIndex
<1>3. IsPrefix(<<>>, t)
  BY <1>1, SubSeqEmpty DEF IsPrefix
<1> QED BY <1>2, <1>3

\* Two prefixes of one text are prefixes one of the other.
LEMMA PrefixesAgree ==
  ASSUME NEW S, NEW v \in Seq(S), NEW w \in Seq(S), NEW t \in Seq(S),
         IsPrefix(v, t), IsPrefix(w, t)
  PROVE  IsPrefix(v, w) \/ IsPrefix(w, v)
<1>1. Len(v) \in Nat /\ Len(w) \in Nat /\ Len(t) \in Nat
  BY LenProperties
<1> QED BY <1>1, PrefixByIndex

LEMMA PrefixTransitive ==
  ASSUME NEW S, NEW v \in Seq(S), NEW t \in Seq(S), NEW w \in Seq(S),
         IsPrefix(v, t), IsPrefix(t, w)
  PROVE  IsPrefix(v, w)
<1>1. Len(v) \in Nat /\ Len(w) \in Nat /\ Len(t) \in Nat
  BY LenProperties
<1> QED BY <1>1, PrefixByIndex

LEMMA MutualPrefixes ==
  ASSUME NEW S, NEW v \in Seq(S), NEW t \in Seq(S),
         IsPrefix(v, t), IsPrefix(t, v)
  PROVE  v = t
<1>1. Len(v) \in Nat /\ Len(t) \in Nat
  BY LenProperties
<1> QED BY <1>1, PrefixByIndex, SeqEqual

-----------------------------------------------------------------------------
(* Flattening. FlattenSeq chooses a function that is defined in terms of   *)
(* itself: there is one, and it is the only one.                           *)

IsFlattening(f, s) ==
  f = [i \in 1 .. Len(s) |-> IF i = 1 THEN s[i] ELSE f[i - 1] \o s[i]]

LEMMA FlattenIsLast ==
  ASSUME NEW s, Len(s) # 0
  PROVE  FlattenSeq(s) = (CHOOSE f : IsFlattening(f, s))[Len(s)]
BY DEF FlattenSeq, IsFlattening

\* One step after the other.
StepOfFlattening(f, s, i) == f[i] = IF i = 1 THEN s[i] ELSE f[i - 1] \o s[i]

LEMMA FlatteningExists ==
  ASSUME NEW S, NEW s \in Seq(Seq(S))
  PROVE  \E f \in [1 .. Len(s) -> Seq(S)] : IsFlattening(f, s)
<1> DEFINE Upto(n) == \E f \in [1 .. n -> Seq(S)] :
                        \A i \in 1 .. n : StepOfFlattening(f, s, i)
           Missing == {n \in 0 .. Len(s) : ~ Upto(n)}
<1>l. Len(s) \in Nat /\ \A i \in 1 .. Len(s) : s[i] \in Seq(S)
  BY LenProperties, ElementOfSeq
<1> HIDE DEF Upto
<1>1. Missing = {}
  <2> SUFFICES ASSUME Missing # {} PROVE FALSE
    OBVIOUS
  <2>1. PICK n \in Missing : \A m \in Missing : n <= m
    <3>1. Missing \in SUBSET Nat
      BY <1>l
    <3> QED BY <3>1, SmallestExists
  <2>2. n # 0
    <3> DEFINE none == [i \in 1 .. 0 |-> s]
    <3>1. none \in [1 .. 0 -> Seq(S)] /\ \A i \in 1 .. 0 : FALSE
      OBVIOUS
    <3> HIDE DEF none
    <3>2. Upto(0)
      BY <3>1 DEF Upto
    <3> QED BY <2>1, <3>2
  <2>3. n \in 1 .. Len(s) /\ Upto(n - 1)
    <3>1. n - 1 \in 0 .. Len(s) /\ ~ (n <= n - 1) /\ n \in 1 .. Len(s)
      BY <1>l, <2>1, <2>2
    <3> QED BY <2>1, <3>1
  <2>4. PICK f \in [1 .. n - 1 -> Seq(S)] :
          \A i \in 1 .. n - 1 : StepOfFlattening(f, s, i)
    BY <2>3 DEF Upto
  <2> DEFINE next == IF n = 1 THEN s[n] ELSE f[n - 1] \o s[n]
             g == [i \in 1 .. n |-> IF i = n THEN next ELSE f[i]]
  <2>5. next \in Seq(S)
    <3>1. CASE n = 1
      BY <1>l, <2>3, <3>1
    <3>2. CASE n # 1
      <4>1. f[n - 1] \in Seq(S) /\ s[n] \in Seq(S)
        BY <1>l, <2>3, <2>4, <3>2
      <4> QED BY <3>2, <4>1, ConcatProperties
    <3> QED BY <3>1, <3>2
  <2> HIDE DEF next
  <2>6. g \in [1 .. n -> Seq(S)]
    BY <2>3, <2>4, <2>5
  <2>7. ASSUME NEW i \in 1 .. n PROVE StepOfFlattening(g, s, i)
    <3>1. CASE i = n
      <4>1. n # 1 => n - 1 \in 1 .. n /\ n - 1 # n
        BY <2>3
      <4> QED BY <2>3, <3>1, <4>1 DEF StepOfFlattening, next
    <3>2. CASE i # n
      <4>1. i \in 1 .. n - 1 /\ (i # 1 => i - 1 \in 1 .. n /\ i - 1 # n)
        BY <2>3, <3>2
      <4>2. StepOfFlattening(f, s, i)
        BY <2>4, <4>1
      <4> QED BY <3>2, <4>1, <4>2 DEF StepOfFlattening
    <3> QED BY <3>1, <3>2
  <2>8. Upto(n)
    <3> HIDE DEF g
    <3> QED BY <2>6, <2>7 DEF Upto
  <2> QED BY <2>1, <2>8
<1>2. Upto(Len(s))
  BY <1>l, <1>1
<1>3. PICK f \in [1 .. Len(s) -> Seq(S)] :
        \A i \in 1 .. Len(s) : StepOfFlattening(f, s, i)
  BY <1>2 DEF Upto
<1>4. IsFlattening(f, s)
  BY <1>3 DEF IsFlattening, StepOfFlattening
<1> QED BY <1>4

\* What flattens a text and what flattens a longer one agree.
Begins(s, t) == Len(s) <= Len(t) /\ \A i \in 1 .. Len(s) : s[i] = t[i]

LEMMA FlatteningsAgree ==
  ASSUME NEW s, NEW t, Len(s) \in Nat, Len(t) \in Nat, Begins(s, t),
         NEW f, IsFlattening(f, s), NEW g, IsFlattening(g, t)
  PROVE  \A i \in 1 .. Len(s) : f[i] = g[i]
<1> DEFINE Differ == {i \in 1 .. Len(s) : f[i] # g[i]}
<1> SUFFICES ASSUME Differ # {} PROVE FALSE
  OBVIOUS
<1>1. PICK n \in Differ : \A m \in Differ : n <= m
  <2>1. Differ \in SUBSET Nat
    OBVIOUS
  <2> QED BY <2>1, SmallestExists
<1>2. StepOfFlattening(f, s, n) /\ StepOfFlattening(g, t, n)
  <2>1. n \in 1 .. Len(s) /\ n \in 1 .. Len(t)
    BY <1>1 DEF Begins
  <2> HIDE DEF Differ
  <2>2. f[n] = IF n = 1 THEN s[n] ELSE f[n - 1] \o s[n]
    BY <2>1, Zenon DEF IsFlattening
  <2>3. g[n] = IF n = 1 THEN t[n] ELSE g[n - 1] \o t[n]
    BY <2>1, Zenon DEF IsFlattening
  <2> QED BY <2>2, <2>3 DEF StepOfFlattening
<1>e. s[n] = t[n]
  BY <1>1 DEF Begins
<1>3. CASE n = 1
  BY <1>1, <1>2, <1>3, <1>e DEF StepOfFlattening
<1>4. CASE n # 1
  <2>1. n - 1 \in 1 .. Len(s) /\ ~ (n <= n - 1)
    BY <1>1, <1>4
  <2>2. f[n - 1] = g[n - 1]
    BY <1>1, <2>1
  <2> QED BY <1>1, <1>2, <1>4, <1>e, <2>2 DEF StepOfFlattening
<1> QED BY <1>3, <1>4

\* The last value of any flattening is the flat text.
LEMMA FlattenByFlattening ==
  ASSUME NEW s, Len(s) \in Nat \ {0}, NEW f, IsFlattening(f, s)
  PROVE  FlattenSeq(s) = f[Len(s)]
<1> DEFINE g == CHOOSE h : IsFlattening(h, s)
<1>1. IsFlattening(g, s)
  OBVIOUS
<1> HIDE DEF g
<1>3. f[Len(s)] = g[Len(s)]
  <2>1. \A i \in 1 .. Len(s) : f[i] = g[i]
    <3>1. Begins(s, s) /\ Len(s) \in Nat
      BY DEF Begins
    <3> QED BY <1>1, <3>1, FlatteningsAgree
  <2> QED BY <2>1
<1> QED BY <1>3, FlattenIsLast DEF g

LEMMA FlattenTyped ==
  ASSUME NEW S, NEW s \in Seq(Seq(S))
  PROVE  FlattenSeq(s) \in Seq(S)
<1>1. CASE s = <<>>
  BY <1>1, EmptySeq DEF FlattenSeq
<1>2. CASE s # <<>>
  <2>1. PICK f \in [1 .. Len(s) -> Seq(S)] : IsFlattening(f, s)
    BY FlatteningExists
  <2>2. Len(s) \in 1 .. Len(s) /\ Len(s) \in Nat \ {0}
    BY <1>2, EmptySeq
  <2>3. FlattenSeq(s) = f[Len(s)]
    BY <2>1, <2>2, FlattenByFlattening
  <2>4. f[Len(s)] \in Seq(S)
    BY <2>1, <2>2
  <2> QED BY <2>3, <2>4
<1> QED BY <1>1, <1>2

\* Concatenation, with no bound names around.
LEMMA Associative ==
  ASSUME NEW S, NEW a \in Seq(S), NEW b \in Seq(S), NEW c \in Seq(S)
  PROVE  (a \o b) \o c = a \o (b \o c)
BY ConcatAssociative

LEMMA AppendToConcat ==
  ASSUME NEW S, NEW s \in Seq(S), NEW q \in Seq(S), NEW e \in S
  PROVE  s \o Append(q, e) = Append(s \o q, e)
<1>1. <<e>> \in Seq(S) /\ s \o q \in Seq(S)
  BY ConcatProperties
<1>2. (s \o q) \o <<e>> = s \o (q \o <<e>>)
  BY <1>1, Associative
<1> QED BY <1>1, <1>2, AppendIsConcat

LEMMA FlattenOne ==
  ASSUME NEW S, NEW e \in Seq(S)
  PROVE  FlattenSeq(<<e>>) = e
<1>1. <<e>> \in Seq(Seq(S)) /\ <<e>> # <<>> /\ Len(<<e>>) = 1
  OBVIOUS
<1>2. PICK f \in [1 .. Len(<<e>>) -> Seq(S)] : IsFlattening(f, <<e>>)
  BY <1>1, FlatteningExists
<1>3. f[1] = e
  BY <1>1, <1>2 DEF IsFlattening
<1>4. Len(<<e>>) \in Nat \ {0}
  BY <1>1
<1>5. FlattenSeq(<<e>>) = f[Len(<<e>>)]
  BY <1>2, <1>4, FlattenByFlattening
<1> QED BY <1>1, <1>3, <1>5

Grown(s, t) == Len(t) = Len(s) + 1 /\ Begins(s, t)

LEMMA FlattenLonger ==
  ASSUME NEW S, NEW s \in Seq(Seq(S)), NEW t \in Seq(Seq(S)), s # <<>>,
         Grown(s, t)
  PROVE  FlattenSeq(t) = FlattenSeq(s) \o t[Len(t)]
<1>1. Len(s) \in Nat \ {0} /\ Len(t) \in Nat \ {0}
  BY EmptySeq, LenProperties DEF Grown
<1>2. PICK f : IsFlattening(f, s)
  BY FlatteningExists
<1>3. PICK g : IsFlattening(g, t)
  BY FlatteningExists
<1>4. FlattenSeq(s) = f[Len(s)] /\ FlattenSeq(t) = g[Len(t)]
  BY <1>1, <1>2, <1>3, FlattenByFlattening
<1>5. f[Len(s)] = g[Len(s)]
  <2>1. Len(s) \in Nat /\ Len(t) \in Nat /\ Begins(s, t)
    BY <1>1 DEF Grown
  <2>2. \A i \in 1 .. Len(s) : f[i] = g[i]
    BY <1>2, <1>3, <2>1, FlatteningsAgree
  <2>3. Len(s) \in 1 .. Len(s)
    BY <1>1
  <2> QED BY <2>2, <2>3, Zenon
<1>6. g[Len(t)] = g[Len(s)] \o t[Len(t)]
  <2>1. Len(t) \in 1 .. Len(t) /\ Len(t) # 1 /\ Len(t) - 1 = Len(s)
    BY <1>1 DEF Grown
  <2> QED BY <1>3, <2>1 DEF IsFlattening
<1> QED BY <1>4, <1>5, <1>6

LEMMA FlattenAppend ==
  ASSUME NEW S, NEW s \in Seq(Seq(S)), NEW e \in Seq(S)
  PROVE  FlattenSeq(Append(s, e)) = FlattenSeq(s) \o e
<1>1. Append(s, e) \in Seq(Seq(S)) /\ Append(s, e)[Len(Append(s, e))] = e
  BY AppendProperties, LenProperties
<1>2. Grown(s, Append(s, e))
  BY AppendProperties, LenProperties DEF Grown, Begins
<1>3. CASE s = <<>>
  <2>1. Append(s, e) = <<e>> /\ FlattenSeq(s) = <<>>
    BY <1>3 DEF FlattenSeq
  <2> QED BY <2>1, FlattenOne, ConcatEmptySeq
<1>4. CASE s # <<>>
  BY <1>1, <1>2, <1>4, FlattenLonger
<1> QED BY <1>3, <1>4

LEMMA FlattenStep ==
  ASSUME NEW S, NEW s \in Seq(Seq(S)), NEW q \in Seq(Seq(S)), NEW e \in Seq(S),
         FlattenSeq(s \o q) = FlattenSeq(s) \o FlattenSeq(q)
  PROVE  FlattenSeq(s \o Append(q, e)) = FlattenSeq(s) \o FlattenSeq(Append(q, e))
<1> DEFINE Texts == Seq(S)
<1>1. s \in Seq(Texts) /\ q \in Seq(Texts) /\ e \in Texts
  OBVIOUS
<1>2. s \o Append(q, e) = Append(s \o q, e) /\ s \o q \in Seq(Texts)
  <2> HIDE DEF Texts
  <2> QED BY <1>1, AppendToConcat, ConcatProperties
<1>3. FlattenSeq(s \o Append(q, e)) = FlattenSeq(s \o q) \o e
  BY <1>2, FlattenAppend
<1>4. FlattenSeq(Append(q, e)) = FlattenSeq(q) \o e
  BY FlattenAppend
<1>5. FlattenSeq(s) \in Seq(S) /\ FlattenSeq(q) \in Seq(S)
  BY FlattenTyped
<1>6. (FlattenSeq(s) \o FlattenSeq(q)) \o e = FlattenSeq(s) \o (FlattenSeq(q) \o e)
  BY <1>5, Associative
<1> QED BY <1>3, <1>4, <1>6

LEMMA FlattenConcat ==
  ASSUME NEW S, NEW s \in Seq(Seq(S)), NEW t \in Seq(Seq(S))
  PROVE  FlattenSeq(s \o t) = FlattenSeq(s) \o FlattenSeq(t)
<1> DEFINE Fails(r) == FlattenSeq(s \o r) # FlattenSeq(s) \o FlattenSeq(r)
           Lengths == {n \in Nat : \E r \in Seq(Seq(S)) : Len(r) = n /\ Fails(r)}
<1> SUFFICES ASSUME Lengths # {} PROVE FALSE
  BY LenProperties
<1>1. PICK n \in Lengths : \A m \in Lengths : n <= m
  BY SmallestExists
<1>2. PICK r \in Seq(Seq(S)) : Len(r) = n /\ Fails(r)
  BY <1>1
<1>3. CASE r = <<>>
  <2>1. s \o r = s /\ FlattenSeq(r) = <<>>
    BY <1>3, ConcatEmptySeq DEF FlattenSeq
  <2>2. FlattenSeq(s) \o <<>> = FlattenSeq(s)
    BY FlattenTyped, ConcatEmptySeq
  <2> QED BY <1>2, <2>1, <2>2
<1>4. CASE r # <<>>
  <2>1. PICK q \in Seq(Seq(S)), e \in Seq(S) : r = Append(q, e)
    BY <1>4, SequenceEmptyOrAppend
  <2>2. ~ Fails(q)
    <3>1. Len(q) \in Nat /\ Len(r) = Len(q) + 1
      BY <2>1, LenProperties, AppendProperties
    <3> HIDE DEF Fails
    <3>2. ~ (n <= Len(q))
      BY <1>2, <3>1
    <3>3. Len(q) \notin Lengths
      BY <1>1, <3>2
    <3> QED BY <3>1, <3>3
  <2> QED BY <1>2, <2>1, <2>2, FlattenStep
<1> QED BY <1>3, <1>4
=============================================================================
