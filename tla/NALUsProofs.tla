----------------------------- MODULE NALUsProofs -----------------------------
(***************************************************************************)
(* What OfTypes and LastOf of NALUs.tla do with sequences of any length.   *)
(*                                                                         *)
(* Both go over a sequence by recursion, so what they compute is shown by  *)
(* induction, over sets here: a set of natural numbers that has 0 and is   *)
(* closed under successors has them all, and so for sequences.             *)
(***************************************************************************)
EXTENDS NALUs, SequenceTheorems, WellFoundedInduction, TLAPS

-----------------------------------------------------------------------------
(***************************************************************************)
(* Induction.                                                              *)
(***************************************************************************)

\* A set that has 0 and the successors of its numbers has all natural numbers.
LEMMA NumbersInduction ==
  ASSUME NEW S, 0 \in S, \A n \in Nat : n \in S => n + 1 \in S
  PROVE  Nat \subseteq S
<1> DEFINE R == OpToRel(<, Nat)
           T == Nat \ S
<1>1. \A x, y \in Nat : <<x, y>> \in R <=> x < y
  BY Zenon DEF OpToRel
<1>2. IsWellFoundedOn(R, Nat)
  BY NatLessThanWellFounded
<1> HIDE DEF R
<1> SUFFICES ASSUME T # {} PROVE FALSE
  OBVIOUS
<1>3. PICK x \in T : \A y \in T : ~(<<y, x>> \in R)
  BY <1>2, WFMin
<1>4. x # 0 /\ x \in Nat
  OBVIOUS
<1>5. x - 1 \in Nat /\ x - 1 < x
  BY <1>4
<1>6. x - 1 \in S
  BY <1>1, <1>3, <1>5
<1> QED
  BY <1>4, <1>5, <1>6

\* A set that has the empty sequence, and with a sequence each that is longer by one
\* element, has all sequences.
LEMMA SequencesInduction ==
  ASSUME NEW N, NEW S, <<>> \in S,
         \A s \in Seq(N), x \in N : s \in S => Append(s, x) \in S
  PROVE  Seq(N) \subseteq S
<1> DEFINE Short == {n \in Nat : \A s \in Seq(N) : Len(s) = n => s \in S}
<1>1. 0 \in Short
  BY EmptySeq
<1>2. ASSUME NEW n \in Nat, n \in Short PROVE n + 1 \in Short
  <2> SUFFICES ASSUME NEW s \in Seq(N), Len(s) = n + 1 PROVE s \in S
    OBVIOUS
  <2>1. s # <<>>
    BY EmptySeq
  <2>2. PICK t \in Seq(N), x \in N : s = Append(t, x)
    BY <2>1, SequenceEmptyOrAppend
  <2>3. Len(t) = n
    BY <2>2, AppendProperties, LenProperties
  <2> QED
    BY <1>2, <2>2, <2>3
<1> HIDE DEF Short
<1>3. Nat \subseteq Short
  BY <1>1, <1>2, NumbersInduction
<1> QED
  BY <1>3, LenProperties DEF Short

-----------------------------------------------------------------------------
(***************************************************************************)
(* OfTypes.                                                                *)
(***************************************************************************)

\* How OfTypes goes from one place of a sequence to the next.
KeptAt(nalus, types, kept, i) ==
  IF i = 0 THEN <<>>
  ELSE IF nalus[i].typ \in types THEN Append(kept[i - 1], nalus[i])
  ELSE kept[i - 1]

\* The function that OfTypes defines by recursion.
Kept(nalus, types) ==
  CHOOSE kept : kept = [i \in 0..Len(nalus) |-> KeptAt(nalus, types, kept, i)]

\* There is such a function.
LEMMA KeptExists ==
  ASSUME NEW s, Len(s) \in Nat, NEW types
  PROVE  Kept(s, types) = [i \in 0..Len(s) |-> KeptAt(s, types, Kept(s, types), i)]
<1> DEFINE Is(k, n) == k = [i \in 0..n |-> KeptAt(s, types, k, i)]
           Good == {n \in Nat : \E k : Is(k, n)}
<1>1. 0 \in Good
  <2> DEFINE k == [i \in 0..0 |-> <<>>]
  <2>1. \A i \in 0..0 : i = 0
    OBVIOUS
  <2>2. Is(k, 0)
    BY <2>1 DEF KeptAt
  <2> QED
    BY <2>2
<1>2. ASSUME NEW n \in Nat, n \in Good PROVE n + 1 \in Good
  <2>1. PICK k : Is(k, n)
    BY <1>2
  <2> DEFINE g == [i \in 0..(n + 1) |-> IF i = n + 1 THEN KeptAt(s, types, k, i) ELSE k[i]]
  <2>2. ASSUME NEW i \in 0..(n + 1) PROVE g[i] = KeptAt(s, types, g, i)
    <3>1. CASE i = 0
      BY <2>1, <3>1 DEF KeptAt
    <3>2. CASE i # 0
      <4>1. i - 1 \in 0..n /\ i - 1 \in 0..(n + 1) /\ i - 1 # n + 1
        BY <3>2
      <4>2. g[i - 1] = k[i - 1]
        BY <4>1
      <4>3. KeptAt(s, types, g, i) = KeptAt(s, types, k, i)
        BY <4>2 DEF KeptAt
      <4>4. i # n + 1 => i \in 0..n
        OBVIOUS
      <4>5. i # n + 1 => g[i] = KeptAt(s, types, k, i)
        BY <2>1, <4>4
      <4>6. i = n + 1 => g[i] = KeptAt(s, types, k, i)
        OBVIOUS
      <4> QED
        BY <4>3, <4>5, <4>6
    <3> QED
      BY <3>1, <3>2
  <2>3. g = [i \in 0..(n + 1) |-> g[i]]
    OBVIOUS
  <2> HIDE DEF g
  <2>4. Is(g, n + 1)
    BY <2>2, <2>3
  <2> QED
    BY <2>4
<1> HIDE DEF Good
<1>3. Len(s) \in Good
  BY <1>1, <1>2, NumbersInduction
<1>4. \E k : Is(k, Len(s))
  BY <1>3 DEF Good
<1> QED
  BY <1>4 DEF Kept

\* OfTypes is the last value of that function.
LEMMA OfTypesIsKept ==
  ASSUME NEW s, NEW types
  PROVE  OfTypes(s, types) = Kept(s, types)[Len(s)]
BY DEF OfTypes, Kept, KeptAt


\* Nothing is kept of nothing.
LEMMA OfTypesEmpty == ASSUME NEW types PROVE OfTypes(<<>>, types) = <<>>
<1>1. Len(<<>>) = 0
  BY EmptySeq
<1>2. Kept(<<>>, types)[0] = KeptAt(<<>>, types, Kept(<<>>, types), 0)
  BY <1>1, KeptExists
<1> QED
  BY <1>1, <1>2, OfTypesIsKept DEF KeptAt

\* Over a longer sequence the function has the same values where both are defined.
LEMMA KeptPrefix ==
  ASSUME NEW N, NEW s \in Seq(N), NEW x \in N, NEW types
  PROVE  \A i \in 0..Len(s) : Kept(Append(s, x), types)[i] = Kept(s, types)[i]
<1> DEFINE l == Append(s, x)
           Good == {n \in Nat : n <= Len(s) => Kept(l, types)[n] = Kept(s, types)[n]}
<1>1. Len(s) \in Nat /\ Len(l) = Len(s) + 1 /\ \A i \in 1..Len(s) : l[i] = s[i]
  BY LenProperties, AppendProperties
<1> HIDE DEF l
<1>2. ASSUME NEW i \in 0..Len(s)
      PROVE  /\ Kept(l, types)[i] = KeptAt(l, types, Kept(l, types), i)
             /\ Kept(s, types)[i] = KeptAt(s, types, Kept(s, types), i)
  <2>1. i \in 0..Len(l) /\ Len(l) \in Nat
    BY <1>1
  <2>2. Kept(l, types) = [j \in 0..Len(l) |-> KeptAt(l, types, Kept(l, types), j)]
    BY <2>1, KeptExists
  <2>3. Kept(s, types) = [j \in 0..Len(s) |-> KeptAt(s, types, Kept(s, types), j)]
    BY <1>1, KeptExists
  <2> QED
    BY <2>1, <2>2, <2>3, Zenon
<1>3. 0 \in Good
  BY <1>1, <1>2 DEF KeptAt
<1>4. ASSUME NEW n \in Nat, n \in Good PROVE n + 1 \in Good
  <2> SUFFICES ASSUME n + 1 <= Len(s) PROVE Kept(l, types)[n + 1] = Kept(s, types)[n + 1]
    OBVIOUS
  <2>1. n + 1 \in 0..Len(s) /\ n + 1 \in 1..Len(s) /\ n + 1 # 0 /\ (n + 1) - 1 = n
    BY <1>1
  <2>2. Kept(l, types)[n] = Kept(s, types)[n] /\ l[n + 1] = s[n + 1]
    BY <1>1, <1>4, <2>1
  <2> QED
    BY <1>2, <2>1, <2>2 DEF KeptAt
<1> HIDE DEF Good
<1>5. Nat \subseteq Good
  BY <1>3, <1>4, NumbersInduction
<1> QED
  BY <1>1, <1>5 DEF Good, l

\* One more NALU is kept or not.
LEMMA OfTypesAppend ==
  ASSUME NEW N, NEW s \in Seq(N), NEW x \in N, NEW types
  PROVE  OfTypes(Append(s, x), types) =
           IF x.typ \in types THEN Append(OfTypes(s, types), x) ELSE OfTypes(s, types)
<1> DEFINE l == Append(s, x)
           n == Len(s)
<1>1. n \in Nat /\ Len(l) = n + 1 /\ l[n + 1] = x
  BY LenProperties, AppendProperties
<1>2. Kept(l, types)[n] = Kept(s, types)[n]
  BY <1>1, KeptPrefix
<1> HIDE DEF l, n
<1>3. n + 1 \in 0..(n + 1) /\ n + 1 # 0 /\ (n + 1) - 1 = n /\ Len(l) \in Nat
  BY <1>1
<1>4. Kept(l, types) = [j \in 0..Len(l) |-> KeptAt(l, types, Kept(l, types), j)]
  BY <1>3, KeptExists
<1>5. Kept(l, types)[n + 1] = KeptAt(l, types, Kept(l, types), n + 1)
  BY <1>1, <1>3, <1>4, Zenon
<1> QED
  BY <1>1, <1>2, <1>3, <1>5, OfTypesIsKept DEF KeptAt, l, n

\* A single NALU is kept or not.
LEMMA OfTypesSingle ==
  ASSUME NEW x, NEW types
  PROVE  OfTypes(<<x>>, types) = IF x.typ \in types THEN <<x>> ELSE <<>>
<1>1. <<>> \in Seq({x}) /\ x \in {x}
  BY EmptySeq
<1>2. OfTypes(Append(<<>>, x), types) =
        IF x.typ \in types THEN Append(OfTypes(<<>>, types), x) ELSE OfTypes(<<>>, types)
  BY <1>1, OfTypesAppend
<1>3. Append(<<>>, x) = <<x>>
  OBVIOUS
<1> QED
  BY <1>2, <1>3, OfTypesEmpty

\* What is kept are NALUs of the sequence, of the types asked for, and no more of them.
LEMMA OfTypesType ==
  ASSUME NEW N, NEW s \in Seq(N), NEW types
  PROVE  /\ OfTypes(s, types) \in Seq({x \in N : x.typ \in types})
         /\ OfTypes(s, types) \in Seq(N)
         /\ Len(OfTypes(s, types)) <= Len(s)
<1> DEFINE M == {x \in N : x.typ \in types}
           S == {t \in Seq(N) : OfTypes(t, types) \in Seq(M) /\ Len(OfTypes(t, types)) <= Len(t)}
<1>1. <<>> \in S
  <2>1. <<>> \in Seq(M) /\ <<>> \in Seq(N) /\ Len(<<>>) <= Len(<<>>)
    BY EmptySeq
  <2>2. OfTypes(<<>>, types) = <<>>
    BY OfTypesEmpty
  <2> QED
    BY <2>1, <2>2, Zenon
<1>2. ASSUME NEW t \in Seq(N), NEW x \in N, t \in S PROVE Append(t, x) \in S
  <2> DEFINE k == OfTypes(t, types)
  <2>1. k \in Seq(M) /\ Len(k) <= Len(t)
    BY <1>2
  <2>2. Len(k) \in Nat /\ Len(t) \in Nat /\ Append(t, x) \in Seq(N) /\ Len(Append(t, x)) = Len(t) + 1
    BY <2>1, LenProperties, AppendProperties
  <2>3. OfTypes(Append(t, x), types) = IF x.typ \in types THEN Append(k, x) ELSE k
    BY OfTypesAppend
  <2>4. x.typ \in types => Append(k, x) \in Seq(M) /\ Len(Append(k, x)) = Len(k) + 1
    BY <2>1, AppendProperties
  <2>5. OfTypes(Append(t, x), types) \in Seq(M) /\ Len(OfTypes(Append(t, x), types)) <= Len(t) + 1
    <3> HIDE DEF k, M
    <3> QED
      BY <2>1, <2>2, <2>3, <2>4
  <2> QED
    BY <2>2, <2>5
<1> HIDE DEF S
<1>3. Seq(N) \subseteq S
  BY <1>1, <1>2, SequencesInduction
<1>4. M \subseteq N
  OBVIOUS
<1>5. OfTypes(s, types) \in Seq(M) /\ Len(OfTypes(s, types)) <= Len(s)
  BY <1>3 DEF S
<1> QED
  BY <1>4, <1>5, SeqMonotonic

\* A sequence after another, one element further.
LEMMA ConcatAppend ==
  ASSUME NEW N, NEW s \in Seq(N), NEW t \in Seq(N), NEW x \in N
  PROVE  s \o Append(t, x) = Append(s \o t, x)
<1>1. <<x>> \in Seq(N)
  OBVIOUS
<1>2. s \o t \in Seq(N)
  BY ConcatProperties
<1>3. Append(t, x) = t \o <<x>>
  BY AppendIsConcat
<1>4. Append(s \o t, x) = (s \o t) \o <<x>>
  BY <1>2, AppendIsConcat
<1>5. (s \o t) \o <<x>> = s \o (t \o <<x>>)
  BY <1>1, ConcatAssociative
<1> QED
  BY <1>3, <1>4, <1>5, Zenon

\* What is kept of two sequences, one after the other.
LEMMA OfTypesConcat ==
  ASSUME NEW N, NEW s \in Seq(N), NEW t \in Seq(N), NEW types
  PROVE  OfTypes(s \o t, types) = OfTypes(s, types) \o OfTypes(t, types)
<1> DEFINE S == {u \in Seq(N) : OfTypes(s \o u, types) = OfTypes(s, types) \o OfTypes(u, types)}
<1>1. <<>> \in S
  <2>1. <<>> \in Seq(N) /\ OfTypes(s, types) \in Seq(N)
    BY EmptySeq, OfTypesType
  <2>2. s \o <<>> = s /\ OfTypes(s, types) \o <<>> = OfTypes(s, types)
    BY <2>1, ConcatEmptySeq
  <2> QED
    BY <2>1, <2>2, OfTypesEmpty
<1>2. ASSUME NEW u \in Seq(N), NEW x \in N, u \in S PROVE Append(u, x) \in S
  <2> DEFINE a == OfTypes(s, types)
             b == OfTypes(u, types)
  <2>1. a \in Seq(N) /\ b \in Seq(N)
    BY OfTypesType
  <2>2. s \o u \in Seq(N) /\ Append(u, x) \in Seq(N)
    BY ConcatProperties, AppendProperties
  <2>3. s \o Append(u, x) = Append(s \o u, x)
    BY ConcatAppend
  <2>4. a \o Append(b, x) = Append(a \o b, x)
    BY <2>1, ConcatAppend
  <2>5. OfTypes(s \o u, types) = a \o b
    BY <1>2
  <2>6. OfTypes(Append(u, x), types) = IF x.typ \in types THEN Append(b, x) ELSE b
    BY OfTypesAppend
  <2>a. OfTypes(Append(s \o u, x), types) =
          IF x.typ \in types THEN Append(OfTypes(s \o u, types), x) ELSE OfTypes(s \o u, types)
    BY <2>2, OfTypesAppend
  <2> HIDE DEF a, b, S
  <2>7. OfTypes(Append(s \o u, x), types) = IF x.typ \in types THEN Append(a \o b, x) ELSE a \o b
    BY <2>5, <2>a, Zenon
  <2>8. OfTypes(s \o Append(u, x), types) = a \o OfTypes(Append(u, x), types)
    BY <2>3, <2>4, <2>6, <2>7
  <2> QED
    BY <2>2, <2>8 DEF a, S
<1> HIDE DEF S
<1>3. Seq(N) \subseteq S
  BY <1>1, <1>2, SequencesInduction
<1> QED
  BY <1>3 DEF S

\* Keeping some of what was kept.
LEMMA OfTypesTwice ==
  ASSUME NEW N, NEW s \in Seq(N), NEW types, NEW others
  PROVE  OfTypes(OfTypes(s, types), others) = OfTypes(s, types \cap others)
<1> DEFINE both == types \cap others
           S == {u \in Seq(N) : OfTypes(OfTypes(u, types), others) = OfTypes(u, both)}
<1>1. <<>> \in S
  BY EmptySeq, OfTypesEmpty
<1>2. ASSUME NEW u \in Seq(N), NEW x \in N, u \in S PROVE Append(u, x) \in S
  <2> DEFINE k == OfTypes(u, types)
  <2>1. k \in Seq(N) /\ Append(u, x) \in Seq(N)
    BY OfTypesType, AppendProperties
  <2>2. OfTypes(Append(u, x), types) = IF x.typ \in types THEN Append(k, x) ELSE k
    BY OfTypesAppend
  <2>3. OfTypes(Append(k, x), others) = IF x.typ \in others THEN Append(OfTypes(k, others), x)
                                        ELSE OfTypes(k, others)
    BY <2>1, OfTypesAppend
  <2>4. OfTypes(Append(u, x), both) = IF x.typ \in both THEN Append(OfTypes(u, both), x)
                                      ELSE OfTypes(u, both)
    BY OfTypesAppend
  <2>5. OfTypes(k, others) = OfTypes(u, both)
    BY <1>2
  <2> HIDE DEF k
  <2>6. OfTypes(OfTypes(Append(u, x), types), others) = OfTypes(Append(u, x), both)
    <3>1. x.typ \in both <=> x.typ \in types /\ x.typ \in others
      OBVIOUS
    <3> HIDE DEF both
    <3>2. CASE x.typ \in types
      BY <2>2, <2>3, <2>4, <2>5, <3>1, <3>2
    <3>3. CASE x.typ \notin types
      BY <2>2, <2>4, <2>5, <3>1, <3>3
    <3> QED
      BY <3>2, <3>3
  <2> QED
    BY <2>1, <2>6
<1> HIDE DEF S
<1>3. Seq(N) \subseteq S
  BY <1>1, <1>2, SequencesInduction
<1> QED
  BY <1>3 DEF S

\* Something is kept if there is something to keep.
LEMMA OfTypesSome ==
  ASSUME NEW N, NEW s \in Seq(N), NEW types
  PROVE  OfTypes(s, types) # <<>> <=> \E i \in 1..Len(s) : s[i].typ \in types
<1> DEFINE Some(u) == \E i \in 1..Len(u) : u[i].typ \in types
           S == {u \in Seq(N) : OfTypes(u, types) # <<>> <=> Some(u)}
<1>1. <<>> \in S
  BY EmptySeq, OfTypesEmpty
<1>2. ASSUME NEW u \in Seq(N), NEW x \in N, u \in S PROVE Append(u, x) \in S
  <2> DEFINE k == OfTypes(u, types)
             l == Append(u, x)
  <2>1. /\ l \in Seq(N) /\ Len(u) \in Nat /\ Len(l) = Len(u) + 1
        /\ l[Len(u) + 1] = x /\ \A i \in 1..Len(u) : l[i] = u[i]
    BY LenProperties, AppendProperties
  <2>2. OfTypes(l, types) = IF x.typ \in types THEN Append(k, x) ELSE k
    BY OfTypesAppend
  <2>3. k \in Seq(N)
    BY OfTypesType
  <2>4. Append(k, x) # <<>>
    BY <2>3, AppendProperties
  <2>5. Some(l) <=> Some(u) \/ x.typ \in types
    <3> HIDE DEF l
    <3>1. \A i \in 1..Len(l) : i \in 1..Len(u) \/ i = Len(u) + 1
      BY <2>1
    <3>2. \A i \in 1..Len(u) : i \in 1..Len(l)
      BY <2>1
    <3>3. Len(u) + 1 \in 1..Len(l)
      BY <2>1
    <3> QED
      BY <2>1, <3>1, <3>2, <3>3
  <2>6. k # <<>> <=> Some(u)
    BY <1>2
  <2> HIDE DEF k, l, Some
  <2>7. OfTypes(l, types) # <<>> <=> Some(l)
    BY <2>2, <2>4, <2>5, <2>6
  <2> QED
    BY <2>1, <2>7 DEF l
<1> HIDE DEF S
<1>3. Seq(N) \subseteq S
  BY <1>1, <1>2, SequencesInduction
<1> QED
  BY <1>3 DEF S

-----------------------------------------------------------------------------
(***************************************************************************)
(* LastOf.                                                                 *)
(***************************************************************************)

\* The last NALU of a type is one of the sequence and of the type.
LEMMA LastOfType ==
  ASSUME NEW N, NEW s \in Seq(N), NEW t
  PROVE  \/ LastOf(s, t) = Nil /\ OfTypes(s, {t}) = <<>>
         \/ LastOf(s, t) \in N /\ LastOf(s, t).typ = t /\ OfTypes(s, {t}) # <<>>
<1> DEFINE M == {x \in N : x.typ \in {t}}
           same == OfTypes(s, {t})
<1>1. same \in Seq(M)
  BY OfTypesType
<1>2. CASE same = <<>>
  BY <1>2 DEF LastOf
<1>3. CASE same # <<>>
  <2>1. Len(same) \in 1..Len(same)
    BY <1>1, <1>3, EmptySeq
  <2>2. same[Len(same)] \in M
    BY <1>1, <2>1, ElementOfSeq
  <2>3. LastOf(s, t) = same[Len(same)]
    BY <1>3 DEF LastOf, Last
  <2> QED
    BY <1>3, <2>2, <2>3
<1> QED
  BY <1>2, <1>3

\* There is one if one of the sequence has the type.
LEMMA LastOfSome ==
  ASSUME NEW N, NEW s \in Seq(N), NEW t, t # "nil"
  PROVE  LastOf(s, t) # Nil <=> \E i \in 1..Len(s) : s[i].typ = t
<1>1. LastOf(s, t) # Nil <=> OfTypes(s, {t}) # <<>>
  BY LastOfType DEF Nil
<1>2. OfTypes(s, {t}) # <<>> <=> \E i \in 1..Len(s) : s[i].typ \in {t}
  BY OfTypesSome
<1> QED
  BY <1>1, <1>2

\* The last one of a single NALU, and of none.
LEMMA LastOfSingle ==
  ASSUME NEW x, NEW t
  PROVE  LastOf(<<x>>, t) = (IF x.typ = t THEN x ELSE Nil) /\ LastOf(<<>>, t) = Nil
<1>1. OfTypes(<<x>>, {t}) = (IF x.typ = t THEN <<x>> ELSE <<>>) /\ OfTypes(<<>>, {t}) = <<>>
  BY OfTypesSingle, OfTypesEmpty
<1>2. <<x>> # <<>> /\ Len(<<x>>) = 1 /\ <<x>>[1] = x
  OBVIOUS
<1> QED
  BY <1>1, <1>2 DEF LastOf, Last

\* The last one of two sequences is that of the second, if it has one.
LEMMA LastOfConcat ==
  ASSUME NEW N, NEW s \in Seq(N), NEW u \in Seq(N), NEW t, t # "nil"
  PROVE  LastOf(s \o u, t) = IF LastOf(u, t) = Nil THEN LastOf(s, t) ELSE LastOf(u, t)
<1> DEFINE a == OfTypes(s, {t})
           b == OfTypes(u, {t})
<1>1. a \in Seq(N) /\ b \in Seq(N)
  BY OfTypesType
<1>2. OfTypes(s \o u, {t}) = a \o b
  BY OfTypesConcat
<1>3. LastOf(u, t) # Nil <=> b # <<>>
  BY LastOfType DEF Nil
<1>4. CASE b = <<>>
  <2>1. a \o b = a
    BY <1>1, <1>4, ConcatEmptySeq
  <2> QED
    BY <1>2, <1>3, <1>4, <2>1 DEF LastOf
<1>5. CASE b # <<>>
  <2> HIDE DEF a, b
  <2>1. Len(b) \in Nat \ {0} /\ Len(a) \in Nat
    BY <1>1, <1>5, EmptySeq, LenProperties
  <2>2. /\ Len(a \o b) = Len(a) + Len(b)
        /\ \A i \in 1..(Len(a) + Len(b)) :
             (a \o b)[i] = IF i <= Len(a) THEN a[i] ELSE b[i - Len(a)]
    BY <1>1, ConcatProperties
  <2>3. Len(a) + Len(b) \in 1..(Len(a) + Len(b)) /\ ~(Len(a) + Len(b) <= Len(a))
        /\ (Len(a) + Len(b)) - Len(a) = Len(b)
    BY <2>1
  <2>4. (a \o b)[Len(a) + Len(b)] = b[Len(b)]
    BY <2>2, <2>3
  <2>5. a \o b # <<>>
    BY <1>1, <1>5, ConcatEqualIffEmpty
  <2>6. LastOf(s \o u, t) = (a \o b)[Len(a \o b)]
    BY <1>2, <2>5 DEF LastOf, Last
  <2>7. LastOf(u, t) = b[Len(b)]
    BY <1>5 DEF LastOf, Last, b
  <2>8. LastOf(u, t) # Nil
    BY <1>3, <1>5
  <2> QED
    BY <2>2, <2>4, <2>6, <2>7, <2>8
<1> QED
  BY <1>4, <1>5
=============================================================================
