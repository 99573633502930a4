------------------------------ MODULE FoldLemmas ------------------------------
(***************************************************************************)
(* Facts about the folds of the community modules, for every finite set    *)
(* and sequence.  The induction theorems of the library take an operator   *)
(* and cannot be used; these proofs take a least counterexample instead,   *)
(* which exists because the finite sets are well-founded by inclusion.     *)
(***************************************************************************)
EXTENDS Integers, FiniteSetTheorems, SequenceTheorems, SequencesExt, TLAPS

\* A set of finite sets that is not empty has a smallest one by inclusion.
LEMMA SmallestSet ==
  ASSUME NEW S, NEW T \in SUBSET FiniteSubsetsOf(S), T # {}
  PROVE  \E u \in T : \A v \in T : v \subseteq u => v = u
<1>1. PICK u \in T : \A v \in T : ~(<<v, u>> \in StrictSubsetOrdering(S))
  BY WFMin, FS_StrictSubsetOrderingWellFounded
<1>2. \A v \in T : v \subseteq u => v = u
  BY <1>1 DEF StrictSubsetOrdering, FiniteSubsetsOf
<1> QED
  BY <1>2

\* A set of natural numbers that is not empty has a least one.
LEMMA LeastNumber ==
  ASSUME NEW T \in SUBSET Nat, T # {}
  PROVE  \E n \in T : \A m \in T : n <= m
<1> DEFINE U == {0 .. k : k \in T}
<1>1. U # {} /\ U \in SUBSET FiniteSubsetsOf(Nat)
  <2>1. \A k \in T : 0 .. k \in SUBSET Nat /\ IsFiniteSet(0 .. k)
    BY FS_Interval
  <2> QED
    BY <2>1 DEF FiniteSubsetsOf
<1>2. PICK u \in U : \A v \in U : v \subseteq u => v = u
  <2> HIDE DEF U
  <2> QED
    BY <1>1, SmallestSet
<1>3. PICK n \in T : u = 0 .. n
  BY DEF U
<1>4. ASSUME NEW m \in T, m < n PROVE FALSE
  <2>1. 0 .. m \in U /\ 0 .. m \subseteq 0 .. n /\ n \in 0 .. n /\ n \notin 0 .. m
    BY <1>4
  <2> QED
    BY <2>1, <1>2, <1>3
<1> QED
  BY <1>4

-----------------------------------------------------------------------------
(* FlattenSeq *)

\* The function FlattenSeq is defined by.
IsFlattening(f, seqs) ==
  f = [i \in 1 .. Len(seqs) |-> IF i = 1 THEN seqs[i] ELSE f[i - 1] \o seqs[i]]

\* It exists: a least length for which it did not could be reached from the one below.
LEMMA FlatteningExists ==
  ASSUME NEW S, NEW seqs \in Seq(S)
  PROVE  \E f : IsFlattening(f, seqs)
<1> DEFINE Step(f, i) == IF i = 1 THEN seqs[i] ELSE f[i - 1] \o seqs[i]
           Upto(f, n) == f = [i \in 1 .. n |-> Step(f, i)]
           T == {n \in Nat : ~ \E f : Upto(f, n)}
<1>1. SUFFICES ASSUME T # {} PROVE FALSE
  <2>1. Len(seqs) \in Nat
    OBVIOUS
  <2>2. ASSUME NEW f, Upto(f, Len(seqs)) PROVE IsFlattening(f, seqs)
    BY <2>2, Zenon DEF IsFlattening
  <2> HIDE DEF Upto
  <2> QED
    BY <2>1, <2>2
<1>2. PICK n \in T : \A m \in T : n <= m
  <2> HIDE DEF T
  <2>1. T \in SUBSET Nat
    BY DEF T
  <2> QED
    BY <1>1, <2>1, LeastNumber
<1>3. n \in Nat /\ n # 0
  <2>1. Upto([i \in 1 .. 0 |-> i], 0)
    OBVIOUS
  <2> HIDE DEF Upto
  <2> QED
    BY <2>1
<1>4. PICK f : Upto(f, n - 1)
  <2>1. n - 1 \in Nat /\ n - 1 < n
    BY <1>3
  <2> HIDE DEF Upto
  <2> QED
    BY <2>1, <1>2
<1> DEFINE g == [i \in 1 .. n |-> IF i < n THEN f[i] ELSE Step(f, n)]
<1>5. \A i \in 1 .. n : g[i] = Step(g, i)
  <2> TAKE i \in 1 .. n
  <2>1. CASE i < n
    <3>1. f[i] = Step(f, i)
      <4>1. i \in 1 .. n - 1
        BY <1>3, <2>1
      <4>2. f = [j \in 1 .. n - 1 |-> Step(f, j)]
        BY <1>4
      <4> HIDE DEF Step, Upto
      <4> QED
        BY <4>1, <4>2
    <3>2. i # 1 => g[i - 1] = f[i - 1]
      BY <2>1
    <3> QED
      BY <2>1, <3>1, <3>2
  <2>2. CASE i = n
    BY <2>2
  <2> QED
    BY <2>1, <2>2
<1>6. Upto(g, n)
  <2> HIDE DEF Step
  <2> QED
    BY <1>5
<1> QED
  BY <1>6, <1>2

\* So FlattenSeq is the last value of such a function.
LEMMA FlattenSeqLast ==
  ASSUME NEW S, NEW seqs \in Seq(S), Len(seqs) # 0
  PROVE  \E f : IsFlattening(f, seqs) /\ FlattenSeq(seqs) = f[Len(seqs)]
<1> DEFINE F == CHOOSE f : f = [i \in 1 .. Len(seqs) |-> IF i = 1 THEN seqs[i] ELSE f[i - 1] \o seqs[i]]
<1>1. FlattenSeq(seqs) = F[Len(seqs)]
  BY DEF FlattenSeq
<1>2. IsFlattening(F, seqs)
  BY FlatteningExists DEF IsFlattening
<1> QED
  BY <1>1, <1>2

\* It is a sequence of what the sequences have, and misses nothing of them.
LEMMA FlattenSeqRange ==
  ASSUME NEW S, NEW seqs \in Seq(Seq(S))
  PROVE  /\ FlattenSeq(seqs) \in Seq(S)
         /\ Range(FlattenSeq(seqs)) = UNION {Range(seqs[i]) : i \in 1 .. Len(seqs)}
<1>1. CASE Len(seqs) = 0
  <2>1. seqs = <<>> /\ FlattenSeq(seqs) = seqs
    BY <1>1 DEF FlattenSeq
  <2>2. DOMAIN seqs = {} /\ 1 .. Len(seqs) = {} /\ <<>> \in Seq(S)
    BY <1>1, <2>1
  <2>3. Range(seqs) = {}
    BY <2>2 DEF Range
  <2> QED
    BY <2>1, <2>2, <2>3
<1>2. CASE Len(seqs) # 0
  <2>1. PICK f : IsFlattening(f, seqs) /\ FlattenSeq(seqs) = f[Len(seqs)]
    BY <1>2, FlattenSeqLast
  <2>2. \A i \in 1 .. Len(seqs) : f[i] = IF i = 1 THEN seqs[i] ELSE f[i - 1] \o seqs[i]
    BY <2>1 DEF IsFlattening
  <2> DEFINE Good(n) == f[n] \in Seq(S) /\ Range(f[n]) = UNION {Range(seqs[i]) : i \in 1 .. n}
             T == {n \in 1 .. Len(seqs) : ~Good(n)}
  <2>3. Len(seqs) \in 1 .. Len(seqs)
    BY <1>2
  <2>4. SUFFICES ASSUME T # {} PROVE FALSE
    BY <2>1, <2>3
  <2>5. PICK n \in T : \A m \in T : n <= m
    <3> HIDE DEF Good
    <3>1. T \in SUBSET Nat
      OBVIOUS
    <3> HIDE DEF T
    <3> QED
      BY <2>4, <3>1, LeastNumber
  <2>6. n \in 1 .. Len(seqs) /\ n \in Nat /\ ~Good(n) /\ seqs[n] \in Seq(S)
    OBVIOUS
  <2>7. CASE n = 1
    <3>1. f[n] = seqs[n] /\ 1 .. n = {n}
      BY <2>2, <2>6, <2>7
    <3> QED
      BY <2>6, <3>1
  <2>8. CASE n # 1
    <3>1. n - 1 \in 1 .. Len(seqs) /\ n - 1 < n
      BY <2>6, <2>8
    <3>2. Good(n - 1)
      <4> HIDE DEF Good
      <4> QED
        BY <3>1, <2>5
    <3>3. f[n] = f[n - 1] \o seqs[n]
      BY <2>2, <2>6, <2>8
    <3>4. f[n] \in Seq(S) /\ Range(f[n]) = Range(f[n - 1]) \cup Range(seqs[n])
      BY <2>6, <3>2, <3>3, ConcatProperties, RangeConcatenation
    <3>5. 1 .. n = (1 .. n - 1) \cup {n}
      BY <2>6
    <3>6. Range(f[n]) = UNION {Range(seqs[i]) : i \in 1 .. n}
      BY <3>2, <3>4, <3>5
    <3> QED
      BY <2>6, <3>4, <3>6
  <2> QED
    BY <2>7, <2>8
<1> QED
  BY <1>1, <1>2

\* A sequence and a longer one that begins with it are flattened alike as far as the first goes.
LEMMA FlatteningsAgree ==
  ASSUME NEW seqs, NEW more, Len(seqs) \in Nat, Len(more) \in Nat, Len(seqs) <= Len(more),
         \A i \in 1 .. Len(seqs) : more[i] = seqs[i],
         NEW f, IsFlattening(f, seqs), NEW g, IsFlattening(g, more)
  PROVE  \A i \in 1 .. Len(seqs) : f[i] = g[i]
<1> DEFINE T == {i \in 1 .. Len(seqs) : f[i] # g[i]}
<1>1. SUFFICES ASSUME T # {} PROVE FALSE
  OBVIOUS
<1>2. PICK n \in T : \A m \in T : n <= m
  <2>1. T \in SUBSET Nat
    OBVIOUS
  <2> HIDE DEF T
  <2> QED
    BY <1>1, <2>1, LeastNumber
<1>3. \A i \in 1 .. Len(seqs) : f[i] = IF i = 1 THEN seqs[i] ELSE f[i - 1] \o seqs[i]
  BY DEF IsFlattening
<1>4. \A i \in 1 .. Len(seqs) : g[i] = IF i = 1 THEN seqs[i] ELSE g[i - 1] \o seqs[i]
  <2>1. \A i \in 1 .. Len(more) : g[i] = IF i = 1 THEN more[i] ELSE g[i - 1] \o more[i]
    BY DEF IsFlattening
  <2> QED
    BY <2>1
<1>5. n # 1 => n - 1 \in 1 .. Len(seqs) /\ f[n - 1] = g[n - 1]
  BY <1>2
<1> QED
  BY <1>2, <1>3, <1>4, <1>5

\* One more sequence goes to the end.
LEMMA FlattenSeqAppend ==
  ASSUME NEW S, NEW seqs \in Seq(Seq(S)), NEW s \in Seq(S)
  PROVE  FlattenSeq(Append(seqs, s)) = FlattenSeq(seqs) \o s
<1> DEFINE more == Append(seqs, s)
<1>1. /\ more \in Seq(Seq(S)) /\ Len(more) = Len(seqs) + 1 /\ Len(more) # 0 /\ more[Len(more)] = s
      /\ \A i \in 1 .. Len(seqs) : more[i] = seqs[i]
  OBVIOUS
<1> HIDE DEF more
<1>2. PICK g : IsFlattening(g, more) /\ FlattenSeq(more) = g[Len(more)]
  BY <1>1, FlattenSeqLast
<1>3. g[Len(more)] = IF Len(more) = 1 THEN more[Len(more)] ELSE g[Len(more) - 1] \o more[Len(more)]
  <2>1. Len(more) \in 1 .. Len(more)
    BY <1>1
  <2> QED
    BY <1>2, <2>1 DEF IsFlattening
<1>4. CASE Len(seqs) = 0
  <2>1. seqs = <<>> /\ FlattenSeq(seqs) = seqs
    BY <1>4 DEF FlattenSeq
  <2> QED
    BY <1>1, <1>2, <1>3, <1>4, <2>1 DEF more
<1>5. CASE Len(seqs) # 0
  <2>1. PICK f : IsFlattening(f, seqs) /\ FlattenSeq(seqs) = f[Len(seqs)]
    BY <1>5, FlattenSeqLast
  <2>2. Len(seqs) \in 1 .. Len(seqs)
    BY <1>5
  <2>3. f[Len(seqs)] = g[Len(seqs)]
    <3>1. Len(seqs) <= Len(more) /\ Len(seqs) \in Nat /\ Len(more) \in Nat
      BY <1>1
    <3>2. IsFlattening(f, seqs) /\ IsFlattening(g, more)
      BY <1>2, <2>1
    <3>3. \A i \in 1 .. Len(seqs) : f[i] = g[i]
      <4>1. \A i \in 1 .. Len(seqs) : more[i] = seqs[i]
        BY <1>1
      <4> QED
        BY <3>1, <3>2, <4>1, FlatteningsAgree
    <3> QED
      BY <2>2, <3>3
  <2> QED
    BY <1>1, <1>2, <1>3, <1>5, <2>1, <2>3 DEF more
<1> QED
  BY <1>4, <1>5

-----------------------------------------------------------------------------
(* What a flattening keeps of a sequence. *)

Kept(s, K) == FlattenSeq([i \in DOMAIN s |-> IF s[i] \in K THEN <<s[i]>> ELSE <<>>])

\* Nothing of nothing.
LEMMA KeptNothing ==
  ASSUME NEW K
  PROVE  Kept(<<>>, K) = <<>>
<1>1. [i \in DOMAIN <<>> |-> IF <<>>[i] \in K THEN <<<<>>[i]>> ELSE <<>>] = <<>>
  OBVIOUS
<1> QED
  BY <1>1 DEF Kept, FlattenSeq

\* What is kept are the elements that are in the set.
LEMMA KeptRange ==
  ASSUME NEW S, NEW s \in Seq(S), NEW K
  PROVE  Kept(s, K) \in Seq(S) /\ Range(Kept(s, K)) = Range(s) \cap K
<1> DEFINE parts == [i \in DOMAIN s |-> IF s[i] \in K THEN <<s[i]>> ELSE <<>>]
<1>1. parts \in Seq(Seq(S)) /\ Len(parts) = Len(s)
  <2>1. \A i \in 1 .. Len(s) : (IF s[i] \in K THEN <<s[i]>> ELSE <<>>) \in Seq(S)
    OBVIOUS
  <2>2. DOMAIN s = 1 .. Len(s) /\ Len(s) \in Nat
    OBVIOUS
  <2>3. parts \in [1 .. Len(s) -> Seq(S)]
    BY <2>1, <2>2
  <2> HIDE DEF parts
  <2> QED
    BY <2>2, <2>3
<1>2. UNION {Range(parts[i]) : i \in 1 .. Len(parts)} = Range(s) \cap K
  <2>1. \A i \in 1 .. Len(s) : Range(parts[i]) = {s[i]} \cap K
    <3> TAKE i \in 1 .. Len(s)
    <3>1. CASE s[i] \in K
      <4>1. parts[i] = <<s[i]>>
        BY <3>1
      <4> QED
        BY <3>1, <4>1 DEF Range
    <3>2. CASE s[i] \notin K
      <4>1. parts[i] = <<>>
        BY <3>2
      <4> QED
        BY <3>2, <4>1 DEF Range
    <3> QED
      BY <3>1, <3>2
  <2>2. Range(s) = {s[i] : i \in 1 .. Len(s)}
    BY DEF Range
  <2> HIDE DEF parts
  <2> QED
    BY <1>1, <2>1, <2>2
<1>3. FlattenSeq(parts) \in Seq(S) /\ Range(FlattenSeq(parts)) = UNION {Range(parts[i]) : i \in 1 .. Len(parts)}
  <2> HIDE DEF parts
  <2> QED
    BY <1>1, FlattenSeqRange
<1> QED
  BY <1>2, <1>3 DEF Kept

\* An element more is kept at the end, or not at all.
LEMMA KeptAppend ==
  ASSUME NEW S, NEW s \in Seq(S), NEW e \in S, NEW K
  PROVE  /\ e \in K => Kept(Append(s, e), K) = Append(Kept(s, K), e)
         /\ e \notin K => Kept(Append(s, e), K) = Kept(s, K)
<1> DEFINE Part(x) == IF x \in K THEN <<x>> ELSE <<>>
           parts == [i \in DOMAIN s |-> Part(s[i])]
           more == [i \in DOMAIN Append(s, e) |-> Part(Append(s, e)[i])]
<1>1. \A x \in S : Part(x) \in Seq(S)
  OBVIOUS
<1>2. parts \in Seq(Seq(S)) /\ more = Append(parts, Part(e))
  <2> HIDE DEF Part
  <2>1. DOMAIN s = 1 .. Len(s) /\ Len(s) \in Nat /\ DOMAIN Append(s, e) = 1 .. Len(s) + 1
    OBVIOUS
  <2>2. parts \in [1 .. Len(s) -> Seq(S)]
    BY <1>1, <2>1
  <2>3. parts \in Seq(Seq(S)) /\ Len(parts) = Len(s)
    <3> HIDE DEF parts
    <3> QED
      BY <2>1, <2>2
  <2>4. Part(e) \in Seq(S)
    BY <1>1
  <2>5. /\ Append(parts, Part(e)) \in Seq(Seq(S))
        /\ Len(Append(parts, Part(e))) = Len(s) + 1
    <3> HIDE DEF parts, Part
    <3> QED
      BY <2>3, <2>4
  <2>6. \A i \in 1 .. Len(s) + 1 : more[i] = Append(parts, Part(e))[i]
    <3> TAKE i \in 1 .. Len(s) + 1
    <3>1. more[i] = Part(Append(s, e)[i])
      BY <2>1
    <3>2. CASE i = Len(s) + 1
      <4>1. Append(s, e)[i] = e
        BY <3>2
      <4>2. Append(parts, Part(e))[i] = Part(e)
        <5> HIDE DEF parts
        <5> QED
          BY <2>3, <2>4, <3>2
      <4> QED
        BY <3>1, <4>1, <4>2
    <3>3. CASE i # Len(s) + 1
      <4>1. i \in 1 .. Len(s) /\ Append(s, e)[i] = s[i]
        BY <3>3
      <4>2. Append(parts, Part(e))[i] = parts[i]
        <5> HIDE DEF parts
        <5> QED
          BY <2>3, <2>4, <4>1
      <4>3. parts[i] = Part(s[i])
        BY <4>1
      <4> QED
        BY <3>1, <4>1, <4>2, <4>3
    <3> QED
      BY <3>2, <3>3
  <2>7. more = [i \in 1 .. Len(s) + 1 |-> Append(parts, Part(e))[i]]
    <3>1. more = [i \in 1 .. Len(s) + 1 |-> more[i]]
      BY <2>1
    <3> HIDE DEF more
    <3> QED
      BY <2>6, <3>1
  <2>8. Append(parts, Part(e)) = [i \in 1 .. Len(s) + 1 |-> Append(parts, Part(e))[i]]
    <3>1. \A q \in Seq(Seq(S)) : q = [i \in 1 .. Len(q) |-> q[i]]
      OBVIOUS
    <3> HIDE DEF parts, Part
    <3> QED
      BY <2>5, <3>1
  <2> QED
    BY <2>3, <2>7, <2>8
<1>3. FlattenSeq(more) = FlattenSeq(parts) \o Part(e)
  <2> HIDE DEF parts, more, Part
  <2> QED
    BY <1>1, <1>2, FlattenSeqAppend
<1>4. Kept(s, K) = FlattenSeq(parts) /\ Kept(Append(s, e), K) = FlattenSeq(more)
  BY DEF Kept
<1>5. Kept(s, K) \in Seq(S)
  BY KeptRange
<1> HIDE DEF parts, more
<1> QED
  BY <1>3, <1>4, <1>5

\* What is kept depends on what of the sequence is in the set.
LEMMA KeptAgrees ==
  ASSUME NEW S, NEW s \in Seq(S), NEW K, NEW L, \A i \in 1 .. Len(s) : s[i] \in K <=> s[i] \in L
  PROVE  Kept(s, K) = Kept(s, L)
<1>1. DOMAIN s = 1 .. Len(s)
  OBVIOUS
<1>2. [i \in DOMAIN s |-> IF s[i] \in K THEN <<s[i]>> ELSE <<>>] = [i \in DOMAIN s |-> IF s[i] \in L THEN <<s[i]>> ELSE <<>>]
  BY <1>1
<1> QED
  BY <1>2 DEF Kept

\* Sequences with the same last element are the same before it.
LEMMA SameFront ==
  ASSUME NEW S, NEW s \in Seq(S), NEW t \in Seq(S), NEW e \in S, Append(s, e) = Append(t, e)
  PROVE  s = t
<1>1. Len(s) = Len(t)
  <2>1. Len(Append(s, e)) = Len(s) + 1 /\ Len(Append(t, e)) = Len(t) + 1 /\ Len(s) \in Nat /\ Len(t) \in Nat
    OBVIOUS
  <2> QED
    BY <2>1
<1>2. \A i \in 1 .. Len(s) : s[i] = t[i]
  <2>1. \A i \in 1 .. Len(s) : Append(s, e)[i] = s[i] /\ Append(t, e)[i] = t[i]
    BY <1>1
  <2> QED
    BY <2>1
<1> QED
  BY <1>1, <1>2

\* What is kept stays in its order.
LEMMA KeptOrder ==
  ASSUME NEW S, NEW s \in Seq(S), NEW K
  PROVE  \A i, j \in 1 .. Len(Kept(s, K)) : i < j =>
           \E a, b \in 1 .. Len(s) : a < b /\ s[a] = Kept(s, K)[i] /\ s[b] = Kept(s, K)[j]
<1> DEFINE Good(n) ==
             \A i, j \in 1 .. Len(Kept(SubSeq(s, 1, n), K)) : i < j =>
               \E a, b \in 1 .. n :
                 a < b /\ s[a] = Kept(SubSeq(s, 1, n), K)[i] /\ s[b] = Kept(SubSeq(s, 1, n), K)[j]
           T == {n \in 0 .. Len(s) : ~Good(n)}
<1>1. SUFFICES T = {}
  <2>1. SubSeq(s, 1, Len(s)) = s /\ Len(s) \in 0 .. Len(s)
    OBVIOUS
  <2>2. Good(Len(s))
    <3> HIDE DEF Good
    <3> QED
      BY <2>1
  <2>3. Kept(SubSeq(s, 1, Len(s)), K) = Kept(s, K)
    BY <2>1
  <2> QED
    BY <2>2, <2>3
<1>2. SUFFICES ASSUME T # {} PROVE FALSE
  OBVIOUS
<1>3. PICK n \in T : \A m \in T : n <= m
  <2> HIDE DEF T
  <2>1. T \in SUBSET Nat
    BY DEF T
  <2> QED
    BY <1>2, <2>1, LeastNumber
<1>4. n \in 0 .. Len(s) /\ ~Good(n)
  BY <1>3
<1>5. n # 0
  <2>1. SubSeq(s, 1, 0) = <<>>
    OBVIOUS
  <2>2. Len(Kept(SubSeq(s, 1, 0), K)) = 0
    <3>1. Kept(SubSeq(s, 1, 0), K) = <<>>
      BY <2>1, KeptNothing
    <3> QED
      BY <3>1
  <2>3. Good(0)
    BY <2>2
  <2> HIDE DEF Good, T
  <2> QED
    BY <1>4, <2>3
<1>6. n - 1 \in 0 .. Len(s) /\ Good(n - 1)
  <2>1. n - 1 \in 0 .. Len(s) /\ n - 1 < n
    BY <1>4, <1>5
  <2> HIDE DEF Good
  <2> QED
    BY <1>3, <2>1
<1> DEFINE old == SubSeq(s, 1, n - 1)
           kept == Kept(old, K)
           now == Kept(SubSeq(s, 1, n), K)
<1>7. old \in Seq(S) /\ n \in 1 .. Len(s) /\ s[n] \in S /\ SubSeq(s, 1, n) = Append(old, s[n])
  BY <1>4, <1>5
<1>8. kept \in Seq(S) /\ Range(kept) = Range(old) \cap K
  <2> HIDE DEF old
  <2> QED
    BY <1>7, KeptRange
<1>9. \A i \in 1 .. Len(kept) : \E a \in 1 .. n - 1 : s[a] = kept[i]
  <2>1. \A i \in 1 .. Len(kept) : kept[i] \in Range(old)
    <3> HIDE DEF kept, old, Good, T
    <3>1. \A i \in 1 .. Len(kept) : kept[i] \in Range(kept)
      BY <1>8 DEF Range
    <3> QED
      BY <1>8, <3>1
  <2>2. Range(old) = {s[a] : a \in 1 .. n - 1}
    <3>1. Len(old) = n - 1 /\ \A a \in 1 .. n - 1 : old[a] = s[a]
      BY <1>4, <1>5
    <3> HIDE DEF old, Good, T
    <3>2. DOMAIN old = 1 .. n - 1
      BY <1>7, <3>1
    <3> QED
      BY <3>1, <3>2 DEF Range
  <2> HIDE DEF kept
  <2> QED
    BY <2>1, <2>2
<1>10. \/ now = kept
       \/ now = Append(kept, s[n])
  <2>1. now = Kept(Append(old, s[n]), K)
    BY <1>7
  <2>2. \/ Kept(Append(old, s[n]), K) = Append(Kept(old, K), s[n])
        \/ Kept(Append(old, s[n]), K) = Kept(old, K)
    <3> HIDE DEF old, Good, T
    <3> QED
      BY <1>7, KeptAppend
  <2> QED
    BY <2>1, <2>2
<1>11. \A i, j \in 1 .. Len(kept) : i < j => \E a, b \in 1 .. n - 1 : a < b /\ s[a] = kept[i] /\ s[b] = kept[j]
  BY <1>6
<1>12. \A i, j \in 1 .. Len(now) : i < j => \E a, b \in 1 .. n : a < b /\ s[a] = now[i] /\ s[b] = now[j]
  <2> SUFFICES ASSUME NEW i \in 1 .. Len(now), NEW j \in 1 .. Len(now), i < j
               PROVE  \E a, b \in 1 .. n : a < b /\ s[a] = now[i] /\ s[b] = now[j]
    OBVIOUS
  <2> HIDE DEF now, kept, old, Good, T
  <2>1. CASE now = kept
    BY <2>1, <1>7, <1>11
  <2>2. CASE now = Append(kept, s[n])
    <3>1. CASE j = Len(kept) + 1
      <4>1. now[j] = s[n] /\ i \in 1 .. Len(kept) /\ now[i] = kept[i]
        BY <2>2, <3>1, <1>8
      <4>2. PICK a \in 1 .. n - 1 : s[a] = kept[i]
        BY <4>1, <1>9
      <4> QED
        BY <4>1, <4>2, <1>7
    <3>2. CASE j # Len(kept) + 1
      <4>1. {i, j} \subseteq 1 .. Len(kept) /\ now[i] = kept[i] /\ now[j] = kept[j]
        BY <2>2, <3>2, <1>8
      <4> QED
        BY <4>1, <1>7, <1>11
    <3> QED
      BY <3>1, <3>2
  <2> QED
    BY <2>1, <2>2, <1>10
<1> QED
  BY <1>4, <1>12

-----------------------------------------------------------------------------
(* Sums over finite sets: MapThenFoldSet with + *)

\* g sums f over each subset of S, on top of b, in the order CHOOSE makes.
IsSum(g, f, b, S) ==
  g = [s \in SUBSET S |-> IF s = {} THEN b ELSE LET x == CHOOSE x \in s : TRUE IN f[x] + g[s \ {x}]]

\* Two such functions agree where both are defined.
LEMMA SumUnique ==
  ASSUME NEW f, NEW b, NEW S, NEW R, NEW g, NEW h, IsSum(g, f, b, S), IsSum(h, f, b, R),
         NEW U \in FiniteSubsetsOf(S \cap R)
  PROVE  g[U] = h[U]
<1> DEFINE T == {s \in FiniteSubsetsOf(S \cap R) : g[s] # h[s]}
<1> SUFFICES ASSUME T # {} PROVE FALSE
  OBVIOUS
<1>1. PICK u \in T : \A v \in T : v \subseteq u => v = u
  <2>1. T \in SUBSET FiniteSubsetsOf(S \cap R)
    OBVIOUS
  <2> HIDE DEF T
  <2> QED
    BY <2>1, SmallestSet
<1> DEFINE x == CHOOSE x \in u : TRUE
<1>2. u \in SUBSET S /\ u \in SUBSET R /\ u \in FiniteSubsetsOf(S \cap R) /\ IsFiniteSet(u) /\ g[u] # h[u]
  BY DEF FiniteSubsetsOf
<1>3. /\ g[u] = IF u = {} THEN b ELSE f[x] + g[u \ {x}]
      /\ h[u] = IF u = {} THEN b ELSE f[x] + h[u \ {x}]
  BY <1>2 DEF IsSum
<1>4. u # {} /\ x \in u
  BY <1>2, <1>3
<1>5. u \ {x} \in FiniteSubsetsOf(S \cap R)
  BY <1>2, FS_Subset DEF FiniteSubsetsOf
<1>6. g[u \ {x}] = h[u \ {x}]
  <2> HIDE DEF x
  <2> QED
    BY <1>1, <1>4, <1>5
<1> QED
  BY <1>2, <1>3, <1>6

\* One exists for every finite set.
LEMMA SumExists ==
  ASSUME NEW f, NEW b, NEW S, IsFiniteSet(S)
  PROVE  \E g : IsSum(g, f, b, S)
<1> DEFINE T == {s \in FiniteSubsetsOf(S) : ~ \E g : IsSum(g, f, b, s)}
<1>1. S \in FiniteSubsetsOf(S)
  BY DEF FiniteSubsetsOf
<1> SUFFICES ASSUME T # {} PROVE FALSE
  BY <1>1
<1>2. PICK u \in T : \A v \in T : v \subseteq u => v = u
  <2>1. T \in SUBSET FiniteSubsetsOf(S)
    OBVIOUS
  <2> HIDE DEF T
  <2> QED
    BY <2>1, SmallestSet
<1>3. u \in SUBSET S /\ IsFiniteSet(u)
  BY DEF FiniteSubsetsOf
<1> DEFINE G(v) == CHOOSE g : IsSum(g, f, b, v)
           Value(s) == IF s = {} THEN b ELSE LET x == CHOOSE x \in s : TRUE IN f[x] + G(s \ {x})[s \ {x}]
           g == [s \in SUBSET u |-> Value(s)]
<1>4. ASSUME NEW v \in SUBSET u, v # u PROVE IsSum(G(v), f, b, v) /\ v \in FiniteSubsetsOf(S)
  <2>1. v \in FiniteSubsetsOf(S)
    BY <1>3, FS_Subset DEF FiniteSubsetsOf
  <2>2. \E h : IsSum(h, f, b, v)
    BY <1>2, <1>4, <2>1
  <2> QED
    BY <2>1, <2>2
<1>5. ASSUME NEW v \in SUBSET u, v # u PROVE g[v] = G(v)[v]
  <2> DEFINE x == CHOOSE x \in v : TRUE
  <2>1. G(v)[v] = IF v = {} THEN b ELSE f[x] + G(v)[v \ {x}]
    <3>1. IsSum(G(v), f, b, v) /\ v \in SUBSET v
      BY <1>4, <1>5
    <3> HIDE DEF G
    <3> QED
      BY <3>1 DEF IsSum
  <2>2. CASE v = {}
    BY <2>1, <2>2
  <2>3. CASE v # {}
    <3>1. x \in v /\ v \ {x} \in SUBSET u /\ v \ {x} # u
      BY <1>5, <2>3
    <3>2. v \ {x} \in FiniteSubsetsOf(v \cap (v \ {x}))
      BY <1>3, FS_Subset DEF FiniteSubsetsOf
    <3>3. IsSum(G(v), f, b, v) /\ IsSum(G(v \ {x}), f, b, v \ {x})
      BY <1>4, <1>5, <3>1
    <3>4. G(v)[v \ {x}] = G(v \ {x})[v \ {x}]
      <4> HIDE DEF x, G
      <4> QED
        BY <3>2, <3>3, SumUnique
    <3> QED
      BY <2>1, <2>3, <3>4
  <2> QED
    BY <2>2, <2>3
<1>6. ASSUME NEW s \in SUBSET u, s # {} PROVE Value(s) = LET x == CHOOSE x \in s : TRUE IN f[x] + g[s \ {x}]
  <2> DEFINE x == CHOOSE x \in s : TRUE
  <2>1. s \ {x} \in SUBSET u /\ s \ {x} # u
    BY <1>6
  <2>2. g[s \ {x}] = G(s \ {x})[s \ {x}]
    <3> HIDE DEF x, g, G
    <3> QED
      BY <1>5, <2>1
  <2> HIDE DEF g, G
  <2> QED
    BY <1>6, <2>2
<1>7. IsSum(g, f, b, u)
  <2> HIDE DEF G
  <2>1. \A s \in SUBSET u : Value(s) = IF s = {} THEN b ELSE LET x == CHOOSE x \in s : TRUE IN f[x] + g[s \ {x}]
    BY <1>6
  <2> HIDE DEF Value
  <2> QED
    BY <2>1 DEF IsSum
<1> QED
  BY <1>2, <1>7

\* The sum of f over S, on top of b.
Total(f, b, S) == (CHOOSE g : IsSum(g, f, b, S))[S]

\* Whatever function sums f gives the total.
LEMMA TotalIs ==
  ASSUME NEW f, NEW b, NEW S, IsFiniteSet(S), NEW g, IsSum(g, f, b, S)
  PROVE  g[S] = Total(f, b, S)
<1>1. IsSum(CHOOSE h : IsSum(h, f, b, S), f, b, S)
  BY SumExists
<1>2. S \in FiniteSubsetsOf(S \cap S)
  BY DEF FiniteSubsetsOf
<1> QED
  BY <1>1, <1>2, SumUnique DEF Total

\* Nothing sums to the base.
LEMMA TotalEmpty ==
  ASSUME NEW f, NEW b
  PROVE  Total(f, b, {}) = b
<1>1. IsFiniteSet({})
  BY FS_EmptySet
<1>2. PICK g : IsSum(g, f, b, {})
  BY <1>1, SumExists
<1>3. g[{}] = b
  BY <1>2 DEF IsSum
<1> QED
  BY <1>1, <1>2, <1>3, TotalIs

\* One element and the rest: the one that CHOOSE takes, whatever is summed.
LEMMA TotalStep ==
  ASSUME NEW f, NEW h, NEW b, NEW S, IsFiniteSet(S), S # {}
  PROVE  \E x \in S : /\ Total(f, b, S) = f[x] + Total(f, b, S \ {x})
                      /\ Total(h, b, S) = h[x] + Total(h, b, S \ {x})
<1> DEFINE x == CHOOSE x \in S : TRUE
<1>1. ASSUME NEW k PROVE Total(k, b, S) = k[x] + Total(k, b, S \ {x})
  <2>1. PICK g : IsSum(g, k, b, S)
    BY SumExists
  <2>2. g[S] = Total(k, b, S)
    BY <2>1, TotalIs
  <2>3. g[S] = k[x] + g[S \ {x}]
    BY <2>1 DEF IsSum
  <2>4. g[S \ {x}] = Total(k, b, S \ {x})
    <3>1. IsFiniteSet(S \ {x}) /\ S \ {x} \in FiniteSubsetsOf(S \cap (S \ {x}))
      BY FS_Subset DEF FiniteSubsetsOf
    <3>2. PICK m : IsSum(m, k, b, S \ {x})
      BY <3>1, SumExists
    <3>3. m[S \ {x}] = Total(k, b, S \ {x})
      BY <3>1, <3>2, TotalIs
    <3>4. g[S \ {x}] = m[S \ {x}]
      <4> HIDE DEF x
      <4> QED
        BY <2>1, <3>1, <3>2, SumUnique
    <3> QED
      BY <3>3, <3>4
  <2> QED
    BY <2>2, <2>3, <2>4
<1>2. x \in S
  OBVIOUS
<1> HIDE DEF x
<1> QED
  BY <1>1, <1>2

\* Integers sum to an integer.
LEMMA TotalInt ==
  ASSUME NEW f, NEW b \in Int, NEW S, IsFiniteSet(S), \A x \in S : f[x] \in Int
  PROVE  Total(f, b, S) \in Int
<1> DEFINE T == {s \in FiniteSubsetsOf(S) : Total(f, b, s) \notin Int}
<1> SUFFICES ASSUME T # {} PROVE FALSE
  BY DEF FiniteSubsetsOf
<1>1. PICK u \in T : \A v \in T : v \subseteq u => v = u
  <2>1. T \in SUBSET FiniteSubsetsOf(S)
    OBVIOUS
  <2> HIDE DEF T
  <2> QED
    BY <2>1, SmallestSet
<1>2. u \in SUBSET S /\ IsFiniteSet(u) /\ Total(f, b, u) \notin Int
  BY DEF FiniteSubsetsOf
<1>3. u # {}
  BY <1>2, TotalEmpty
<1>4. PICK x \in u : Total(f, b, u) = f[x] + Total(f, b, u \ {x})
  BY <1>2, <1>3, TotalStep
<1>5. Total(f, b, u \ {x}) \in Int
  <2>1. u \ {x} \in FiniteSubsetsOf(S)
    BY <1>2, FS_Subset DEF FiniteSubsetsOf
  <2> QED
    BY <1>1, <2>1
<1>6. f[x] \in Int
  BY <1>2
<1> QED
  BY <1>2, <1>4, <1>5, <1>6

\* Any element may be taken out first: the order does not matter.
LEMMA TotalSplit ==
  ASSUME NEW f, NEW b \in Int, NEW S, IsFiniteSet(S), \A x \in S : f[x] \in Int, NEW y \in S
  PROVE  Total(f, b, S) = f[y] + Total(f, b, S \ {y})
<1> DEFINE T == {s \in FiniteSubsetsOf(S) : \E z \in s : Total(f, b, s) # f[z] + Total(f, b, s \ {z})}
<1> SUFFICES ASSUME T # {} PROVE FALSE
  BY DEF FiniteSubsetsOf
<1>1. PICK u \in T : \A v \in T : v \subseteq u => v = u
  <2>1. T \in SUBSET FiniteSubsetsOf(S)
    OBVIOUS
  <2> HIDE DEF T
  <2> QED
    BY <2>1, SmallestSet
<1>2. u \in SUBSET S /\ IsFiniteSet(u)
  BY DEF FiniteSubsetsOf
<1>3. PICK z \in u : Total(f, b, u) # f[z] + Total(f, b, u \ {z})
  OBVIOUS
<1>4. PICK x \in u : Total(f, b, u) = f[x] + Total(f, b, u \ {x})
  BY <1>2, <1>3, TotalStep
<1>5. x # z
  BY <1>3, <1>4
<1>6. ASSUME NEW v \in SUBSET u, v # u, NEW w \in v
      PROVE  Total(f, b, v) = f[w] + Total(f, b, v \ {w})
  <2>1. v \in FiniteSubsetsOf(S)
    BY <1>2, FS_Subset DEF FiniteSubsetsOf
  <2> QED
    BY <1>1, <1>6, <2>1
<1> HIDE DEF T
<1>7. /\ Total(f, b, u \ {x}) = f[z] + Total(f, b, (u \ {x}) \ {z})
      /\ Total(f, b, u \ {z}) = f[x] + Total(f, b, (u \ {z}) \ {x})
  BY <1>5, <1>6
<1>8. (u \ {x}) \ {z} = (u \ {z}) \ {x}
  OBVIOUS
<1>9. Total(f, b, (u \ {z}) \ {x}) \in Int /\ f[x] \in Int /\ f[z] \in Int
  <2>1. IsFiniteSet((u \ {z}) \ {x})
    BY <1>2, FS_Subset
  <2> QED
    BY <1>2, <2>1, TotalInt
<1> DEFINE rest == Total(f, b, (u \ {z}) \ {x})
<1>10. /\ Total(f, b, u) = f[x] + (f[z] + rest)
       /\ Total(f, b, u \ {z}) = f[x] + rest
  BY <1>4, <1>7, <1>8
<1> HIDE DEF rest
<1>11. rest \in Int /\ f[x] \in Int /\ f[z] \in Int
  BY <1>9 DEF rest
<1> QED
  BY <1>3, <1>10, <1>11

\* Functions that agree on S have the same total.
LEMMA TotalAgrees ==
  ASSUME NEW f, NEW h, NEW b, NEW S, IsFiniteSet(S), \A x \in S : f[x] = h[x]
  PROVE  Total(f, b, S) = Total(h, b, S)
<1> DEFINE T == {s \in FiniteSubsetsOf(S) : Total(f, b, s) # Total(h, b, s)}
<1> SUFFICES ASSUME T # {} PROVE FALSE
  BY DEF FiniteSubsetsOf
<1>1. PICK u \in T : \A v \in T : v \subseteq u => v = u
  <2>1. T \in SUBSET FiniteSubsetsOf(S)
    OBVIOUS
  <2> HIDE DEF T
  <2> QED
    BY <2>1, SmallestSet
<1>2. u \in SUBSET S /\ IsFiniteSet(u) /\ Total(f, b, u) # Total(h, b, u)
  BY DEF FiniteSubsetsOf
<1>3. u # {}
  BY <1>2, TotalEmpty
<1>4. PICK x \in u : /\ Total(f, b, u) = f[x] + Total(f, b, u \ {x})
                     /\ Total(h, b, u) = h[x] + Total(h, b, u \ {x})
  BY <1>2, <1>3, TotalStep
<1>5. Total(f, b, u \ {x}) = Total(h, b, u \ {x})
  <2>1. u \ {x} \in FiniteSubsetsOf(S)
    BY <1>2, FS_Subset DEF FiniteSubsetsOf
  <2> QED
    BY <1>1, <2>1
<1> QED
  BY <1>2, <1>4, <1>5

\* One value of f is changed.
LEMMA TotalUpdate ==
  ASSUME NEW S, IsFiniteSet(S), NEW f, \A x \in S : f[x] \in Int, NEW b \in Int, NEW y \in S,
         NEW h, h[y] \in Int, \A x \in S \ {y} : h[x] = f[x]
  PROVE  Total(h, b, S) = Total(f, b, S) - f[y] + h[y]
<1>1. Total(f, b, S) = f[y] + Total(f, b, S \ {y})
  BY TotalSplit
<1>2. Total(h, b, S) = h[y] + Total(h, b, S \ {y})
  <2>1. \A x \in S : h[x] \in Int
    OBVIOUS
  <2> QED
    BY <2>1, TotalSplit
<1>3. IsFiniteSet(S \ {y})
  BY FS_Subset
<1>4. Total(f, b, S \ {y}) = Total(h, b, S \ {y})
  <2>1. \A x \in S \ {y} : f[x] = h[x]
    OBVIOUS
  <2> QED
    BY <1>3, <2>1, TotalAgrees
<1>5. Total(f, b, S \ {y}) \in Int
  BY <1>3, TotalInt
<1> QED
  BY <1>1, <1>2, <1>4, <1>5

\* Zeros add nothing.
LEMMA TotalZero ==
  ASSUME NEW f, NEW b \in Int, NEW S, IsFiniteSet(S), \A x \in S : f[x] = 0
  PROVE  Total(f, b, S) = b
<1> DEFINE T == {s \in FiniteSubsetsOf(S) : Total(f, b, s) # b}
<1> SUFFICES ASSUME T # {} PROVE FALSE
  BY DEF FiniteSubsetsOf
<1>1. PICK u \in T : \A v \in T : v \subseteq u => v = u
  <2>1. T \in SUBSET FiniteSubsetsOf(S)
    OBVIOUS
  <2> HIDE DEF T
  <2> QED
    BY <2>1, SmallestSet
<1>2. u \in SUBSET S /\ IsFiniteSet(u) /\ Total(f, b, u) # b
  BY DEF FiniteSubsetsOf
<1>3. u # {}
  BY <1>2, TotalEmpty
<1>4. PICK x \in u : Total(f, b, u) = f[x] + Total(f, b, u \ {x})
  BY <1>2, <1>3, TotalStep
<1>5. Total(f, b, u \ {x}) = b /\ f[x] = 0
  <2>1. u \ {x} \in FiniteSubsetsOf(S)
    BY <1>2, FS_Subset DEF FiniteSubsetsOf
  <2> QED
    BY <1>1, <1>2, <2>1
<1> QED
  BY <1>2, <1>4, <1>5

\* What the base is more, the total is more.
LEMMA TotalBase ==
  ASSUME NEW f, NEW b \in Int, NEW c \in Int, NEW S, IsFiniteSet(S), \A x \in S : f[x] \in Int
  PROVE  Total(f, b + c, S) = Total(f, b, S) + c
<1> DEFINE T == {s \in FiniteSubsetsOf(S) : Total(f, b + c, s) # Total(f, b, s) + c}
<1> SUFFICES ASSUME T # {} PROVE FALSE
  BY DEF FiniteSubsetsOf
<1>0. PICK e \in Int : e = b + c
  OBVIOUS
<1>1. PICK u \in T : \A v \in T : v \subseteq u => v = u
  <2>1. T \in SUBSET FiniteSubsetsOf(S)
    OBVIOUS
  <2> HIDE DEF T
  <2> QED
    BY <2>1, SmallestSet
<1>2. u \in SUBSET S /\ IsFiniteSet(u) /\ Total(f, e, u) # Total(f, b, u) + c
  BY <1>0 DEF FiniteSubsetsOf
<1>3. u # {}
  BY <1>0, <1>2, TotalEmpty
<1>4. PICK x \in u : TRUE
  BY <1>3
<1>5. /\ Total(f, e, u) = f[x] + Total(f, e, u \ {x})
      /\ Total(f, b, u) = f[x] + Total(f, b, u \ {x})
  <2>1. \A y \in u : f[y] \in Int
    BY <1>2
  <2> QED
    BY <1>2, <2>1, TotalSplit
<1>6. u \ {x} \in SUBSET S /\ IsFiniteSet(u \ {x}) /\ u \ {x} # u
  BY <1>2, FS_Subset
<1>7. Total(f, e, u \ {x}) = Total(f, b, u \ {x}) + c
  <2>1. u \ {x} \in FiniteSubsetsOf(S)
    BY <1>6 DEF FiniteSubsetsOf
  <2> QED
    BY <1>0, <1>1, <1>6, <2>1
<1>8. Total(f, b, u \ {x}) \in Int /\ f[x] \in Int
  <2>1. \A y \in u \ {x} : f[y] \in Int
    BY <1>2
  <2> QED
    BY <1>2, <1>6, <2>1, TotalInt
<1> QED
  BY <1>2, <1>5, <1>7, <1>8

\* Where every value is c more, the total is c more for every element.
LEMMA TotalPlus ==
  ASSUME NEW f, NEW h, NEW b \in Int, NEW c \in Int, NEW S, IsFiniteSet(S),
         \A x \in S : h[x] \in Int /\ f[x] = h[x] + c
  PROVE  Total(f, b, S) = Total(h, b, S) + c * Cardinality(S)
<1> DEFINE T == {s \in FiniteSubsetsOf(S) : Total(f, b, s) # Total(h, b, s) + c * Cardinality(s)}
<1> SUFFICES ASSUME T # {} PROVE FALSE
  BY DEF FiniteSubsetsOf
<1>1. PICK u \in T : \A v \in T : v \subseteq u => v = u
  <2>1. T \in SUBSET FiniteSubsetsOf(S)
    OBVIOUS
  <2> HIDE DEF T
  <2> QED
    BY <2>1, SmallestSet
<1>2. u \in SUBSET S /\ IsFiniteSet(u) /\ Total(f, b, u) # Total(h, b, u) + c * Cardinality(u)
  BY DEF FiniteSubsetsOf
<1>3. u # {}
  <2>1. Cardinality({}) = 0
    BY FS_EmptySet
  <2> QED
    BY <1>2, <2>1, TotalEmpty
<1>4. PICK x \in u : /\ Total(f, b, u) = f[x] + Total(f, b, u \ {x})
                     /\ Total(h, b, u) = h[x] + Total(h, b, u \ {x})
  BY <1>2, <1>3, TotalStep
<1>5. /\ u \ {x} \in SUBSET S /\ IsFiniteSet(u \ {x}) /\ u \ {x} # u
      /\ Cardinality(u \ {x}) = Cardinality(u) - 1 /\ Cardinality(u) \in Nat
  BY <1>2, FS_Subset, FS_RemoveElement, FS_CardinalityType
<1>6. Total(f, b, u \ {x}) = Total(h, b, u \ {x}) + c * (Cardinality(u) - 1)
  <2>1. u \ {x} \in FiniteSubsetsOf(S)
    BY <1>5 DEF FiniteSubsetsOf
  <2> QED
    BY <1>1, <1>5, <2>1
<1>7. Total(h, b, u \ {x}) \in Int /\ h[x] \in Int /\ f[x] = h[x] + c
  <2>1. \A y \in u \ {x} : h[y] \in Int
    BY <1>2
  <2> QED
    BY <1>2, <1>5, <2>1, TotalInt
<1>8. PICK n \in Nat : n = Cardinality(u)
  BY <1>5
<1>9. c * (n - 1) = c * n - c /\ c * n \in Int
  OBVIOUS
<1> QED
  BY <1>2, <1>4, <1>6, <1>7, <1>8, <1>9

\* FoldFunction with + is the total of the function's values.
LEMMA FoldFunctionTotal ==
  ASSUME NEW f, NEW b, IsFiniteSet(DOMAIN f)
  PROVE  FoldFunction(+, b, f) = Total(f, b, DOMAIN f)
<1> DEFINE S == DOMAIN f
           G == CHOOSE g : g = [s \in SUBSET S |-> IF s = {} THEN b
                                                   ELSE LET x == CHOOSE x \in s : TRUE IN f[x] + g[s \ {x}]]
<1>1. FoldFunction(+, b, f) = G[S]
  BY DEF FoldFunction, FoldFunctionOnSet, MapThenFoldSet
<1>2. IsSum(G, f, b, S)
  <2>0. PICK h : IsSum(h, f, b, S)
    BY SumExists
  <2>1. h = [s \in SUBSET S |-> IF s = {} THEN b ELSE LET x == CHOOSE x \in s : TRUE IN f[x] + h[s \ {x}]]
    BY <2>0 DEF IsSum
  <2>2. G = [s \in SUBSET S |-> IF s = {} THEN b ELSE LET x == CHOOSE x \in s : TRUE IN f[x] + G[s \ {x}]]
    BY <2>1
  <2> HIDE DEF G
  <2> QED
    BY <2>2 DEF IsSum
<1> HIDE DEF G
<1> QED
  BY <1>1, <1>2, TotalIs
===============================================================================
