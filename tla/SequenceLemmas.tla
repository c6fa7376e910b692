--------------------------- MODULE SequenceLemmas ---------------------------
(***************************************************************************)
(* Facts about the prefixes and suffixes of the community module           *)
(* SequencesExt that the proofs about Chat need.                           *)
(***************************************************************************)
EXTENDS Integers, Sequences, SequencesExt, SequenceTheorems, TLAPS

\* A prefix has the same elements at the same places, and no more.
LEMMA PrefixElements ==
    ASSUME NEW S, NEW s \in Seq(S), NEW t \in Seq(S)
    PROVE  IsPrefix(s, t) <=> Len(s) <= Len(t) /\ \A i \in 1..Len(s) : s[i] = t[i]
<1>1. ASSUME Len(s) <= Len(t)
      PROVE  /\ SubSeq(s, 1, Len(s)) = s
             /\ SubSeq(t, 1, Len(s)) \in Seq(S)
             /\ Len(SubSeq(t, 1, Len(s))) = Len(s)
             /\ \A i \in 1..Len(s) : SubSeq(t, 1, Len(s))[i] = t[i]
  <2>1. Len(s) \in Nat /\ Len(t) \in Nat
    BY LenProperties
  <2>2. \A i \in 1..Len(s) : t[i] \in S
    BY <1>1, <2>1, ElementOfSeq
  <2>3. SubSeq(s, 1, Len(s)) = s
    BY SubSeqFull
  <2>4. /\ SubSeq(t, 1, Len(s)) \in Seq(S)
        /\ Len(SubSeq(t, 1, Len(s))) = IF 1 <= Len(s) THEN Len(s) - 1 + 1 ELSE 0
        /\ \A i \in 1..(Len(s) - 1 + 1) : SubSeq(t, 1, Len(s))[i] = t[1 + i - 1]
    BY <2>1, <2>2, SubSeqProperties
  <2> QED BY <2>1, <2>3, <2>4
<1>2. ASSUME IsPrefix(s, t) PROVE Len(s) <= Len(t) /\ \A i \in 1..Len(s) : s[i] = t[i]
  BY <1>1, <1>2 DEF IsPrefix
<1>3. ASSUME Len(s) <= Len(t), \A i \in 1..Len(s) : s[i] = t[i] PROVE IsPrefix(s, t)
  <2>1. SubSeq(t, 1, Len(s)) = s
    BY <1>1, <1>3, SeqEqual
  <2> QED BY <1>1, <1>3, <2>1 DEF IsPrefix
<1> QED BY <1>2, <1>3

\* Nothing but more at the end keeps a prefix a prefix.
LEMMA PrefixOfMore ==
    ASSUME NEW S, NEW s \in Seq(S), NEW t \in Seq(S), NEW u \in Seq(S)
    PROVE  /\ IsPrefix(s, s)
           /\ IsPrefix(s, t) => IsPrefix(s, t \o u)
           /\ IsPrefix(s, t) /\ IsPrefix(t, u) => IsPrefix(s, u)
<1>1. Len(s) \in Nat /\ Len(t) \in Nat /\ Len(u) \in Nat
  BY LenProperties
<1>2. IsPrefix(s, s)
  BY <1>1, PrefixElements
<1>3. ASSUME IsPrefix(s, t) PROVE IsPrefix(s, t \o u)
  <2>1. Len(s) <= Len(t) /\ \A i \in 1..Len(s) : s[i] = t[i]
    BY <1>3, PrefixElements
  <2>2. /\ t \o u \in Seq(S) /\ Len(t \o u) = Len(t) + Len(u)
        /\ \A i \in 1..Len(t) : (t \o u)[i] = t[i]
    BY <1>1, ConcatProperties
  <2>3. Len(s) <= Len(t \o u) /\ \A i \in 1..Len(s) : s[i] = (t \o u)[i]
    BY <1>1, <2>1, <2>2
  <2> QED BY <2>2, <2>3, PrefixElements
<1>4. ASSUME IsPrefix(s, t), IsPrefix(t, u) PROVE IsPrefix(s, u)
  <2>1. Len(s) <= Len(t) /\ \A i \in 1..Len(s) : s[i] = t[i]
    BY <1>4, PrefixElements
  <2>2. Len(t) <= Len(u) /\ \A i \in 1..Len(t) : t[i] = u[i]
    BY <1>4, PrefixElements
  <2> QED BY <1>1, <2>1, <2>2, PrefixElements
<1> QED BY <1>2, <1>3, <1>4

\* The part of a text after a prefix completes the prefix.
LEMMA PrefixCompleted ==
    ASSUME NEW S, NEW s \in Seq(S), NEW t \in Seq(S), IsPrefix(s, t)
    PROVE  /\ SubSeq(t, Len(s) + 1, Len(t)) \in Seq(S)
           /\ s \o SubSeq(t, Len(s) + 1, Len(t)) = t
<1>1. Len(s) \in Nat /\ Len(t) \in Nat
  BY LenProperties
<1>2. Len(s) <= Len(t) /\ \A i \in 1..Len(s) : s[i] = t[i]
  BY PrefixElements
<1> DEFINE r == SubSeq(t, Len(s) + 1, Len(t))
<1>3. \A i \in Len(s) + 1 .. Len(t) : t[i] \in S
  BY <1>1, ElementOfSeq
<1>4. /\ r \in Seq(S)
      /\ Len(r) = IF Len(s) + 1 <= Len(t) THEN Len(t) - (Len(s) + 1) + 1 ELSE 0
      /\ \A i \in 1 .. Len(t) - (Len(s) + 1) + 1 : r[i] = t[Len(s) + 1 + i - 1]
  <2>1. Len(s) + 1 \in Int /\ Len(t) \in Int
    BY <1>1
  <2> QED BY <1>3, <2>1, SubSeqProperties
<1>5. Len(r) = Len(t) - Len(s) /\ \A i \in 1..Len(r) : r[i] = t[Len(s) + i]
  BY <1>1, <1>2, <1>4
<1> HIDE DEF r
<1>6. /\ s \o r \in Seq(S) /\ Len(s \o r) = Len(s) + Len(r)
      /\ \A i \in 1 .. Len(s) + Len(r) : (s \o r)[i] = IF i <= Len(s) THEN s[i] ELSE r[i - Len(s)]
  BY <1>4, ConcatProperties
<1>7. ASSUME NEW i \in 1..Len(t) PROVE (s \o r)[i] = t[i]
  <2>1. CASE i <= Len(s)
    BY <1>1, <1>2, <1>5, <1>6, <2>1
  <2>2. CASE ~(i <= Len(s))
    <3>1. i - Len(s) \in 1..Len(r) /\ Len(s) + (i - Len(s)) = i
      BY <1>1, <1>5, <2>2
    <3>2. r[i - Len(s)] = t[i]
      BY <1>5, <3>1
    <3>3. i \in 1 .. Len(s) + Len(r) /\ ~(i <= Len(s))
      BY <1>1, <1>2, <1>5, <2>2
    <3>4. (s \o r)[i] = IF i <= Len(s) THEN s[i] ELSE r[i - Len(s)]
      BY <1>6, <3>3
    <3> QED BY <3>2, <3>3, <3>4
  <2> QED BY <2>1, <2>2
<1>8. Len(s \o r) = Len(t)
  BY <1>1, <1>2, <1>5, <1>6
<1>9. s \o r = t
  BY <1>6, <1>7, <1>8, SeqEqual
<1> QED BY <1>4, <1>9 DEF r

\* A suffix has the same elements, counted from the end.
LEMMA SuffixElements ==
    ASSUME NEW S, NEW s \in Seq(S), NEW t \in Seq(S)
    PROVE  IsSuffix(s, t) <=> /\ Len(s) <= Len(t)
                              /\ \A i \in 1..Len(s) : s[Len(s) - i + 1] = t[Len(t) - i + 1]
<1>1. Len(s) \in Nat /\ Len(t) \in Nat
  BY LenProperties
<1>2. ASSUME NEW v \in Seq(S)
      PROVE  /\ Reverse(v) \in Seq(S) /\ Len(Reverse(v)) = Len(v)
             /\ \A i \in 1..Len(v) : Reverse(v)[i] = v[Len(v) - i + 1]
  <2>1. Len(v) \in Nat
    BY LenProperties
  <2>2. \A i \in 1..Len(v) : v[Len(v) - i + 1] \in S
    BY <2>1, ElementOfSeq
  <2>3. Reverse(v) \in [1..Len(v) -> S]
    BY <2>2 DEF Reverse
  <2>4. Reverse(v) \in Seq(S)
    BY <2>1, <2>3, SeqDef
  <2>5. Len(Reverse(v)) = Len(v)
    BY <2>1, <2>3, <2>4, LenProperties
  <2> QED BY <2>4, <2>5 DEF Reverse
<1>3. IsPrefix(Reverse(s), Reverse(t))
        <=> Len(s) <= Len(t) /\ \A i \in 1..Len(s) : Reverse(s)[i] = Reverse(t)[i]
  BY <1>2, PrefixElements
<1>4. CASE Len(s) <= Len(t)
  <2>1. \A i \in 1..Len(s) : Reverse(s)[i] = s[Len(s) - i + 1]
    BY <1>2
  <2>2. \A i \in 1..Len(s) : Reverse(t)[i] = t[Len(t) - i + 1]
    <3>1. \A i \in 1..Len(s) : i \in 1..Len(t)
      BY <1>1, <1>4
    <3> QED BY <1>2, <3>1
  <2>3. (\A i \in 1..Len(s) : Reverse(s)[i] = Reverse(t)[i])
          <=> \A i \in 1..Len(s) : s[Len(s) - i + 1] = t[Len(t) - i + 1]
    <3>1. ASSUME NEW i \in 1..Len(s)
          PROVE  Reverse(s)[i] = Reverse(t)[i] <=> s[Len(s) - i + 1] = t[Len(t) - i + 1]
      BY <2>1, <2>2
    <3> QED BY <3>1, Zenon
  <2> QED BY <1>3, <1>4, <2>3, Zenon DEF IsSuffix
<1> QED BY <1>3, <1>4 DEF IsSuffix

\* What is put in front of a suffix, or behind both, leaves it a suffix.
LEMMA SuffixOfMore ==
    ASSUME NEW S, NEW s \in Seq(S), NEW t \in Seq(S), NEW u \in Seq(S)
    PROVE  /\ IsSuffix(s, t \o s)
           /\ IsSuffix(s, t) => IsSuffix(s \o u, t \o u)
<1>1. Len(s) \in Nat /\ Len(t) \in Nat /\ Len(u) \in Nat
  BY LenProperties
<1>2. IsSuffix(s, t \o s)
  <2>1. /\ t \o s \in Seq(S) /\ Len(t \o s) = Len(t) + Len(s)
        /\ \A i \in 1..Len(t) + Len(s) : (t \o s)[i] = IF i <= Len(t) THEN t[i] ELSE s[i - Len(t)]
    BY ConcatProperties
  <2>2. ASSUME NEW i \in 1..Len(s) PROVE s[Len(s) - i + 1] = (t \o s)[Len(t \o s) - i + 1]
    <3> DEFINE j == Len(t) + Len(s) - i + 1
    <3>1. j \in 1..Len(t) + Len(s) /\ ~(j <= Len(t)) /\ j - Len(t) = Len(s) - i + 1
      BY <1>1
    <3>2. (t \o s)[j] = s[j - Len(t)]
      BY <2>1, <3>1
    <3> QED BY <2>1, <3>1, <3>2
  <2>3. Len(s) <= Len(t \o s)
    BY <1>1, <2>1
  <2> QED BY <2>1, <2>2, <2>3, SuffixElements
<1>3. ASSUME IsSuffix(s, t) PROVE IsSuffix(s \o u, t \o u)
  <2>1. Len(s) <= Len(t) /\ \A i \in 1..Len(s) : s[Len(s) - i + 1] = t[Len(t) - i + 1]
    BY <1>3, SuffixElements
  <2>2. /\ t \o u \in Seq(S) /\ Len(t \o u) = Len(t) + Len(u)
        /\ \A i \in 1..Len(t) + Len(u) : (t \o u)[i] = IF i <= Len(t) THEN t[i] ELSE u[i - Len(t)]
    BY ConcatProperties
  <2>3. /\ s \o u \in Seq(S) /\ Len(s \o u) = Len(s) + Len(u)
        /\ \A i \in 1..Len(s) + Len(u) : (s \o u)[i] = IF i <= Len(s) THEN s[i] ELSE u[i - Len(s)]
    BY ConcatProperties
  <2>4. ASSUME NEW i \in 1..Len(s \o u)
        PROVE  (s \o u)[Len(s \o u) - i + 1] = (t \o u)[Len(t \o u) - i + 1]
    <3> DEFINE j == Len(s) + Len(u) - i + 1
               k == Len(t) + Len(u) - i + 1
    <3>1. j \in 1..Len(s) + Len(u) /\ k \in 1..Len(t) + Len(u)
      BY <1>1, <2>1, <2>3
    <3>2. CASE i <= Len(u)
      <4>1. ~(j <= Len(s)) /\ ~(k <= Len(t)) /\ j - Len(s) = k - Len(t)
        BY <1>1, <3>2
      <4>2. (s \o u)[j] = u[j - Len(s)] /\ (t \o u)[k] = u[k - Len(t)]
        BY <2>2, <2>3, <3>1, <4>1
      <4> QED BY <2>2, <2>3, <4>1, <4>2
    <3>3. CASE ~(i <= Len(u))
      <4> DEFINE n == i - Len(u)
      <4>1. n \in 1..Len(s) /\ j <= Len(s) /\ k <= Len(t) /\ j = Len(s) - n + 1 /\ k = Len(t) - n + 1
        BY <1>1, <2>1, <2>3, <3>3
      <4>2. (s \o u)[j] = s[j] /\ (t \o u)[k] = t[k]
        BY <2>2, <2>3, <3>1, <4>1
      <4>3. s[j] = t[k]
        BY <2>1, <4>1
      <4>4. Len(s \o u) - i + 1 = j /\ Len(t \o u) - i + 1 = k
        BY <2>2, <2>3
      <4> HIDE DEF j, k
      <4> QED BY <4>2, <4>3, <4>4
    <3> QED BY <3>2, <3>3
  <2>5. Len(s \o u) <= Len(t \o u)
    BY <1>1, <2>1, <2>2, <2>3
  <2> QED BY <2>2, <2>3, <2>4, <2>5, SuffixElements
<1> QED BY <1>2, <1>3
=============================================================================
