---------------------------- MODULE ListingProofs ----------------------------
(***************************************************************************)
(* Theorems about Listing: for which settings the mappings of keys to the  *)
(* backend agree, that the way back undoes them, and that a client is shown*)
(* what it asked for, all of it, once, and under keys that it can read.    *)
(***************************************************************************)
EXTENDS Listing, SequenceTheorems, FiniteSetTheorems, WellFoundedInduction, TLAPS

-----------------------------------------------------------------------------
(* Least numbers, for Trimmed and Min                                      *)

LEMMA LeastNumber ==
  ASSUME NEW S, S \subseteq Nat, S # {}
  PROVE  \E n \in S : \A i \in S : n <= i
<1> DEFINE R == {ss \in Nat \X Nat : ss[1] < ss[2]}
<1>1. IsWellFoundedOn(R, Nat)
  BY NatLessThanWellFounded, Zenon DEF OpToRel
<1> HIDE DEF R
<1>2. PICK n \in S : \A i \in S : <<i, n>> \notin R
  BY <1>1, WFMin, Zenon
<1>3. ASSUME NEW i \in S, i < n  PROVE FALSE
  <2>1. <<i, n>> \in Nat \X Nat  OBVIOUS
  <2>2. <<i, n>>[1] = i /\ <<i, n>>[2] = n  OBVIOUS
  <2>3. <<i, n>> \in R  BY <2>1, <2>2, <1>3, Zenon DEF R
  <2> QED  BY <2>3, <1>2
<1>4. \A i \in S : n <= i  BY <1>3
<1> QED  BY <1>4

LEMMA MinIsIn ==
  ASSUME NEW S, S \subseteq Nat, S # {}
  PROVE  Min(S) \in S
BY LeastNumber DEF Min

-----------------------------------------------------------------------------
(* Prefixes                                                                *)

\* IsPrefix, by its characters
LEMMA PrefixChars ==
  ASSUME NEW s \in Seq(Nat), NEW t \in Seq(Nat)
  PROVE  IsPrefix(s, t) <=> Len(s) <= Len(t) /\ \A i \in 1..Len(s) : s[i] = t[i]
<1>1. Len(s) \in Nat /\ Len(t) \in Nat  BY LenProperties
<1>2. SubSeq(s, 1, Len(s)) = s  BY SubSeqFull
<1>3. ASSUME Len(s) <= Len(t)
      PROVE  s = SubSeq(t, 1, Len(s)) <=> \A i \in 1..Len(s) : s[i] = t[i]
  <2> DEFINE u == SubSeq(t, 1, Len(s))
  <2>1. \A i \in 1..Len(s) : t[i] \in Nat  BY <1>1, <1>3, ElementOfSeq
  <2>2. u \in Seq(Nat) /\ Len(u) = Len(s) /\ \A i \in 1..Len(s) : u[i] = t[i]
    BY <2>1, <1>1, SubSeqProperties
  <2> HIDE DEF u
  <2>3. (\A i \in 1..Len(s) : s[i] = u[i]) => s = u
    BY <2>2, SeqEqual
  <2> QED  BY <2>2, <2>3 DEF u
<1> QED  BY <1>2, <1>3 DEF IsPrefix

\* What strip_prefix leaves, and that the prefix makes it whole again.
LEMMA StripAndPrepend ==
  ASSUME NEW s \in Seq(Nat), NEW t \in Seq(Nat), IsPrefix(s, t)
  PROVE  /\ SubSeq(t, Len(s) + 1, Len(t)) \in Seq(Nat)
         /\ s \o SubSeq(t, Len(s) + 1, Len(t)) = t
<1> DEFINE rest == SubSeq(t, Len(s) + 1, Len(t))
<1>1. Len(s) \in Nat /\ Len(t) \in Nat /\ Len(s) <= Len(t)
  BY LenProperties DEF IsPrefix
<1>2. \A i \in 1..Len(t) : t[i] \in Nat  BY ElementOfSeq
<1>3. /\ rest \in Seq(Nat)
      /\ Len(rest) = Len(t) - Len(s)
      /\ \A i \in 1..(Len(t) - Len(s)) : rest[i] = t[Len(s) + i]
  BY <1>1, <1>2, SubSeqProperties
<1> HIDE DEF rest
<1>4. s \o rest \in Seq(Nat) /\ Len(s \o rest) = Len(t)
  BY <1>1, <1>3, ConcatProperties
<1>5. ASSUME NEW i \in 1..Len(t)  PROVE (s \o rest)[i] = t[i]
  <2>1. (s \o rest)[i] = IF i <= Len(s) THEN s[i] ELSE rest[i - Len(s)]
    BY <1>1, <1>3, ConcatProperties
  <2>2. CASE i <= Len(s)
    BY <2>1, <2>2, <1>1, PrefixChars
  <2>3. CASE i > Len(s)
    <3>1. i - Len(s) \in 1..(Len(t) - Len(s))  BY <2>3, <1>1
    <3>2. rest[i - Len(s)] = t[Len(s) + (i - Len(s))]  BY <3>1, <1>3
    <3>3. Len(s) + (i - Len(s)) = i  BY <1>1
    <3>4. ~(i <= Len(s))  BY <2>3, <1>1
    <3> QED  BY <2>1, <3>2, <3>3, <3>4, Zenon
  <2>4. i <= Len(s) \/ i > Len(s)  BY <1>1
  <2> QED  BY <2>2, <2>3, <2>4
<1>6. s \o rest = t
  BY <1>4, <1>5, SeqEqual
<1> QED  BY <1>3, <1>6 DEF rest

LEMMA PrefixOfConcat ==
  ASSUME NEW s \in Seq(Nat), NEW t \in Seq(Nat)
  PROVE  /\ s \o t \in Seq(Nat)
         /\ IsPrefix(s, s \o t)
         /\ SubSeq(s \o t, Len(s) + 1, Len(s \o t)) = t
<1>1. /\ Len(s) \in Nat /\ Len(t) \in Nat
      /\ s \o t \in Seq(Nat) /\ Len(s \o t) = Len(s) + Len(t)
      /\ \A i \in 1..Len(s) : (s \o t)[i] = s[i]
  BY ConcatProperties, LenProperties
<1> DEFINE u == s \o t
<1>2. IsPrefix(s, u)
  <2>1. u \in Seq(Nat) /\ Len(s) <= Len(u)  BY <1>1
  <2>2. \A i \in 1..Len(s) : s[i] = u[i]  BY <1>1
  <2> HIDE DEF u
  <2> QED  BY <2>1, <2>2, PrefixChars
<1>3. s \o SubSeq(s \o t, Len(s) + 1, Len(s \o t)) = s \o t
  BY <1>1, <1>2, StripAndPrepend
<1>4. SubSeq(s \o t, Len(s) + 1, Len(s \o t)) \in Seq(Nat)
  BY <1>1, <1>2, StripAndPrepend
<1>5. \A v, w \in Seq(Nat) : s \o v = s \o w => v = w
  BY ConcatSimplifications
<1> QED  BY <1>1, <1>2, <1>3, <1>4, <1>5

LEMMA PrefixTransitive ==
  ASSUME NEW s \in Seq(Nat), NEW t \in Seq(Nat), NEW u \in Seq(Nat),
         IsPrefix(s, t), IsPrefix(t, u)
  PROVE  IsPrefix(s, u)
<1>1. Len(s) \in Nat /\ Len(t) \in Nat /\ Len(u) \in Nat  BY LenProperties
<1> QED  BY <1>1, PrefixChars

-----------------------------------------------------------------------------
(* The order of keys                                                       *)

\* Where two keys part: after n characters the first ends, or is behind.
LessAt(s, t, n) ==
    /\ n < Len(t) /\ \A j \in 1..n : s[j] = t[j]
    /\ n = Len(s) \/ (n < Len(s) /\ s[n + 1] < t[n + 1])

LEMMA LessIsAt ==
  ASSUME NEW s \in Seq(Nat), NEW t \in Seq(Nat)
  PROVE  Less(s, t) <=> \E n \in 0..Len(s) : LessAt(s, t, n)
<1>1. Len(s) \in Nat /\ Len(t) \in Nat  BY LenProperties
<1>2. ASSUME IsStrictPrefix(s, t)
      PROVE  LessAt(s, t, Len(s)) /\ Len(s) \in 0..Len(s)
  <2>1. Len(s) <= Len(t) /\ (\A i \in 1..Len(s) : s[i] = t[i]) /\ s # t
    BY <1>2, PrefixChars DEF IsStrictPrefix
  <2>2. Len(s) # Len(t)  BY <2>1, SeqEqual
  <2> QED  BY <1>1, <2>1, <2>2 DEF LessAt
<1>3. ASSUME NEW i \in 1..Len(s), i <= Len(t), s[i] < t[i],
             \A j \in 1..(i - 1) : s[j] = t[j]
      PROVE  i - 1 \in 0..Len(s) /\ LessAt(s, t, i - 1)
  <2>1. i - 1 \in 0..Len(s) /\ i - 1 + 1 = i /\ i - 1 < Len(s) /\ i - 1 < Len(t)
    BY <1>1, <1>3
  <2> QED  BY <1>3, <2>1 DEF LessAt
<1>4. ASSUME NEW n \in 0..Len(s), LessAt(s, t, n)  PROVE Less(s, t)
  <2>1. CASE n = Len(s)
    <3>1. IsPrefix(s, t) /\ s # t
      BY <1>1, <1>4, <2>1, PrefixChars DEF LessAt
    <3> QED  BY <3>1 DEF Less, IsStrictPrefix
  <2>2. CASE n # Len(s)
    <3>1. /\ n + 1 \in 1..Len(s) /\ n + 1 <= Len(t) /\ s[n + 1] < t[n + 1]
          /\ n + 1 - 1 = n /\ \A j \in 1..n : s[j] = t[j]
      BY <1>1, <1>4, <2>2 DEF LessAt
    <3> QED  BY <3>1 DEF Less
  <2> QED  BY <2>1, <2>2
<1>5. Less(s, t) => \E n \in 0..Len(s) : LessAt(s, t, n)
  BY <1>2, <1>3 DEF Less
<1> QED  BY <1>4, <1>5

LEMMA LessIrreflexive ==
  ASSUME NEW s \in Seq(Nat)
  PROVE  ~Less(s, s)
<1>1. Len(s) \in Nat /\ \A i \in 1..Len(s) : s[i] \in Nat
  BY LenProperties, ElementOfSeq
<1>2. \A n \in 0..Len(s) : ~LessAt(s, s, n)
  BY <1>1 DEF LessAt
<1> QED  BY <1>2, LessIsAt

LEMMA LessTransitive ==
  ASSUME NEW s \in Seq(Nat), NEW t \in Seq(Nat), NEW u \in Seq(Nat),
         Less(s, t), Less(t, u)
  PROVE  Less(s, u)
<1>1. /\ Len(s) \in Nat /\ Len(t) \in Nat /\ Len(u) \in Nat
      /\ \A i \in 1..Len(s) : s[i] \in Nat
      /\ \A i \in 1..Len(t) : t[i] \in Nat
      /\ \A i \in 1..Len(u) : u[i] \in Nat
  BY LenProperties, ElementOfSeq
<1>2. PICK n \in 0..Len(s) : LessAt(s, t, n)  BY LessIsAt
<1>3. PICK m \in 0..Len(t) : LessAt(t, u, m)  BY LessIsAt
<1>4. /\ n < Len(t) /\ (\A j \in 1..n : s[j] = t[j])
      /\ n = Len(s) \/ (n < Len(s) /\ s[n + 1] < t[n + 1])
      /\ m < Len(u) /\ (\A j \in 1..m : t[j] = u[j])
      /\ m = Len(t) \/ (m < Len(t) /\ t[m + 1] < u[m + 1])
  BY <1>2, <1>3 DEF LessAt
<1>5. CASE n < m
  <2>1. n + 1 \in 1..m /\ n < Len(u)  BY <1>1, <1>4, <1>5
  <2>2. t[n + 1] = u[n + 1]  BY <1>4, <2>1
  <2>3. \A j \in 1..n : s[j] = u[j]  BY <1>1, <1>4, <1>5
  <2>4. LessAt(s, u, n)  BY <1>4, <2>1, <2>2, <2>3 DEF LessAt
  <2> QED  BY <2>4, LessIsAt
<1>6. CASE n = m
  <2>1. m < Len(t) /\ t[m + 1] < u[m + 1]  BY <1>1, <1>4, <1>6
  <2>2. \A j \in 1..n : s[j] = u[j]  BY <1>4, <1>6
  <2>3. n < Len(s) => s[n + 1] \in Nat /\ t[n + 1] \in Nat /\ u[n + 1] \in Nat
    BY <1>1, <1>4, <1>6
  <2>4. n < Len(u)  BY <1>4, <1>6
  <2>5. CASE n = Len(s)
    <3>1. LessAt(s, u, n)  BY <2>2, <2>4, <2>5 DEF LessAt
    <3> QED  BY <3>1, LessIsAt
  <2>6. CASE n < Len(s)
    <3>1. s[n + 1] < t[n + 1]  BY <1>1, <1>4, <2>6
    <3>2. t[n + 1] < u[n + 1]  BY <1>6, <2>1
    <3>3. s[n + 1] < u[n + 1]  BY <2>3, <2>6, <3>1, <3>2
    <3>4. LessAt(s, u, n)  BY <2>2, <2>4, <2>6, <3>3 DEF LessAt
    <3> QED  BY <3>4, LessIsAt
  <2> QED  BY <1>1, <2>5, <2>6
<1>7. CASE n > m
  <2>0. /\ m < n /\ n <= Len(s) /\ n < Len(t) /\ m \in Nat /\ n \in Nat
        /\ Len(s) \in Nat /\ Len(t) \in Nat
    <3>1. Len(s) \in Nat /\ Len(t) \in Nat  BY <1>1
    <3> QED  BY <1>4, <1>7, <3>1
  <2>1. /\ m \in 0..Len(s) /\ m < Len(s) /\ m + 1 \in 1..n
        /\ m < Len(t) /\ t[m + 1] < u[m + 1]
    <3>1. m \in 0..Len(s) /\ m < Len(s) /\ m + 1 \in 1..n /\ m < Len(t)
      BY <2>0
    <3>2. m # Len(t)  BY <2>0
    <3> QED  BY <1>4, <3>1, <3>2
  <2>2. s[m + 1] = t[m + 1]  BY <1>4, <2>1
  <2>3. \A j \in 1..m : s[j] = u[j]  BY <1>1, <1>4, <1>7
  <2>4. LessAt(s, u, m)  BY <1>4, <2>1, <2>2, <2>3 DEF LessAt
  <2> QED  BY <2>1, <2>4, LessIsAt
<1> QED  BY <1>1, <1>5, <1>6, <1>7

LEMMA LessTotal ==
  ASSUME NEW s \in Seq(Nat), NEW t \in Seq(Nat), s # t
  PROVE  Less(s, t) \/ Less(t, s)
<1> DEFINE Parts == {n \in Nat : \/ n >= Len(s) \/ n >= Len(t)
                                 \/ s[n + 1] # t[n + 1]}
<1>1. /\ Len(s) \in Nat /\ Len(t) \in Nat
      /\ \A i \in 1..Len(s) : s[i] \in Nat
      /\ \A i \in 1..Len(t) : t[i] \in Nat
  BY LenProperties, ElementOfSeq
<1>2. Parts \subseteq Nat /\ Len(s) \in Parts  BY <1>1
<1>3. PICK n \in Parts : \A i \in Parts : n <= i  BY <1>2, LeastNumber
<1>4. n \in Nat /\ n <= Len(s) /\ n <= Len(t)
  <2>1. Len(t) \in Parts  BY <1>1
  <2> QED  BY <1>2, <1>3, <2>1
<1>5. ASSUME NEW j \in 1..n  PROVE s[j] = t[j]
  <2>1. j - 1 \in Nat /\ ~(n <= j - 1) /\ j - 1 + 1 = j  BY <1>4
  <2>2. j - 1 \notin Parts  BY <1>3, <2>1
  <2> QED  BY <2>1, <2>2
<1>6. n < Len(s) \/ n < Len(t)
  <2>1. SUFFICES ASSUME n = Len(s), n = Len(t)  PROVE FALSE
    BY <1>1, <1>4
  <2> HIDE DEF Parts
  <2>2. Len(s) = Len(t) /\ \A j \in 1..Len(s) : s[j] = t[j]
    BY <1>5, <2>1
  <2>3. s = t  BY <2>2, SeqEqual
  <2> QED  BY <2>3
<1>7. n < Len(s) /\ n < Len(t) => s[n + 1] # t[n + 1]
  BY <1>1, <1>4
<1> HIDE DEF Parts
<1>8. \/ LessAt(s, t, n) \/ LessAt(t, s, n)
  <2>1. n < Len(s) => s[n + 1] \in Nat  BY <1>1, <1>4
  <2>2. n < Len(t) => t[n + 1] \in Nat  BY <1>1, <1>4
  <2>3. \A j \in 1..n : s[j] = t[j]  BY <1>5
  <2> QED  BY <1>1, <1>4, <1>6, <1>7, <2>1, <2>2, <2>3 DEF LessAt
<1> QED  BY <1>1, <1>4, <1>8, LessIsAt

\* What comes before a key comes before all that begins with it,
LEMMA LessThanLonger ==
  ASSUME NEW s \in Seq(Nat), NEW t \in Seq(Nat), NEW u \in Seq(Nat),
         Less(s, t), IsPrefix(t, u)
  PROVE  Less(s, u)
<1>1. /\ Len(s) \in Nat /\ Len(t) \in Nat /\ Len(u) \in Nat
      /\ Len(t) <= Len(u) /\ \A i \in 1..Len(t) : t[i] = u[i]
  BY LenProperties, PrefixChars
<1>2. PICK n \in 0..Len(s) : LessAt(s, t, n)  BY LessIsAt
<1>3. LessAt(s, u, n)
  <2>1. n < Len(u) /\ n + 1 \in 1..Len(t)  BY <1>1, <1>2 DEF LessAt
  <2>2. \A j \in 1..n : s[j] = u[j]  BY <1>1, <1>2 DEF LessAt
  <2> QED  BY <1>1, <1>2, <2>1, <2>2 DEF LessAt
<1> QED  BY <1>3, LessIsAt

\* and all that begins with a key comes before what comes after that key and
\* does not begin with it.
LEMMA LongerIsLess ==
  ASSUME NEW s \in Seq(Nat), NEW t \in Seq(Nat), NEW u \in Seq(Nat),
         Less(s, t), ~IsPrefix(s, t), IsPrefix(s, u)
  PROVE  Less(u, t)
<1>1. /\ Len(s) \in Nat /\ Len(t) \in Nat /\ Len(u) \in Nat
      /\ Len(s) <= Len(u) /\ \A i \in 1..Len(s) : s[i] = u[i]
  BY LenProperties, PrefixChars
<1>2. PICK n \in 0..Len(s) : LessAt(s, t, n)  BY LessIsAt
<1>3. n # Len(s)
  <2>1. SUFFICES ASSUME n = Len(s)  PROVE FALSE  OBVIOUS
  <2>2. Len(s) < Len(t) /\ \A i \in 1..Len(s) : s[i] = t[i]
    BY <1>1, <1>2, <2>1 DEF LessAt
  <2>3. Len(s) <= Len(t)  BY <1>1, <2>2
  <2> QED  BY <2>2, <2>3, PrefixChars
<1>4. n < Len(s) /\ n + 1 \in 1..Len(s) /\ n < Len(u) /\ n \in 0..Len(u)
  BY <1>1, <1>3
<1>5. LessAt(u, t, n)
  <2>1. \A j \in 1..n : u[j] = t[j]  BY <1>1, <1>2, <1>4 DEF LessAt
  <2> QED  BY <1>1, <1>2, <1>4, <2>1 DEF LessAt
<1> QED  BY <1>4, <1>5, LessIsAt

LEMMA PrefixIsLess ==
  ASSUME NEW s \in Seq(Nat), NEW t \in Seq(Nat), IsPrefix(s, t), s # t
  PROVE  Less(s, t)
BY DEF Less, IsStrictPrefix

\* Of a key, and what begins with it, s comes before the second: then before
\* the first too, or it begins with the first.
LEMMA LessThanShorter ==
  ASSUME NEW s \in Seq(Nat), NEW t \in Seq(Nat), NEW u \in Seq(Nat),
         Less(s, u), IsPrefix(t, u)
  PROVE  Less(s, t) \/ IsPrefix(t, s)
<1>1. SUFFICES ASSUME ~Less(s, t), ~IsPrefix(t, s)  PROVE FALSE
  OBVIOUS
<1>2. IsPrefix(t, t)  BY LenProperties, PrefixChars
<1>3. Less(t, s)  BY <1>1, <1>2, LessTotal
<1>4. Less(u, s)  BY <1>1, <1>3, LongerIsLess
<1>5. Less(u, u)  BY <1>4, LessTransitive
<1> QED  BY <1>5, LessIrreflexive

LEMMA CommonPrefix ==
  ASSUME NEW b \in Seq(Nat), NEW s \in Seq(Nat), NEW t \in Seq(Nat)
  PROVE  /\ Less(b \o s, b \o t) <=> Less(s, t)
         /\ IsPrefix(b \o s, b \o t) <=> IsPrefix(s, t)
<1> DEFINE u == b \o s
           v == b \o t
           m == Len(b)
<1>1. /\ m \in Nat /\ Len(s) \in Nat /\ Len(t) \in Nat
      /\ u \in Seq(Nat) /\ Len(u) = m + Len(s)
      /\ v \in Seq(Nat) /\ Len(v) = m + Len(t)
      /\ \A i \in 1..m : u[i] = b[i] /\ v[i] = b[i]
      /\ \A i \in 1..Len(s) : u[m + i] = s[i]
      /\ \A i \in 1..Len(t) : v[m + i] = t[i]
  BY LenProperties, ConcatProperties
<1>2. /\ \A i \in 1..m : b[i] \in Nat
      /\ \A i \in 1..Len(s) : s[i] \in Nat
      /\ \A i \in 1..Len(t) : t[i] \in Nat
  BY LenProperties, ElementOfSeq
<1> HIDE DEF u, v, m
<1>0. /\ m \in Nat /\ Len(s) \in Nat /\ Len(t) \in Nat
      /\ Len(u) = m + Len(s) /\ Len(v) = m + Len(t)
  BY <1>1
<1>3. ASSUME NEW n \in 0..Len(s), LessAt(s, t, n)
      PROVE  m + n \in 0..Len(u) /\ LessAt(u, v, m + n)
  <2>1. ASSUME NEW j \in 1..(m + n)  PROVE u[j] = v[j]
    <3>1. CASE j <= m
      BY <1>1, <3>1
    <3>2. CASE j > m
      <4>1. j - m \in 1..n /\ m + (j - m) = j /\ j - m \in 1..Len(s) /\ j - m \in 1..Len(t)
        BY <1>1, <1>3, <3>2 DEF LessAt
      <4>2. s[j - m] = t[j - m]  BY <1>3, <4>1 DEF LessAt
      <4>3. u[m + (j - m)] = s[j - m] /\ v[m + (j - m)] = t[j - m]
        BY <1>1, <4>1
      <4> QED  BY <4>1, <4>2, <4>3
    <3> QED  BY <1>1, <3>1, <3>2
  <2>2. m + n \in 0..Len(u) /\ m + n < Len(v)  BY <1>1, <1>3 DEF LessAt
  <2>3. CASE n = Len(s)
    BY <1>1, <2>1, <2>2, <2>3 DEF LessAt
  <2>4. CASE n # Len(s)
    <3>0. n < Len(s) /\ n < Len(t) /\ s[n + 1] < t[n + 1] /\ n \in Nat
      BY <1>3, <2>4 DEF LessAt
    <3>1. /\ n + 1 \in 1..Len(s) /\ n + 1 \in 1..Len(t)
          /\ m + n < Len(u) /\ m + n + 1 = m + (n + 1)
      BY <1>0, <3>0
    <3>2. u[m + (n + 1)] = s[n + 1] /\ v[m + (n + 1)] = t[n + 1]
      BY <1>1, <3>1
    <3>3. u[m + n + 1] < v[m + n + 1]
      BY <3>0, <3>1, <3>2
    <3> QED  BY <2>1, <2>2, <3>1, <3>3 DEF LessAt
  <2> QED  BY <2>3, <2>4
<1>4. ASSUME NEW n \in 0..Len(u), LessAt(u, v, n)
      PROVE  n - m \in 0..Len(s) /\ LessAt(s, t, n - m)
  <2>1. n >= m
    <3>1. SUFFICES ASSUME n < m  PROVE FALSE  BY <1>1
    <3>2. n + 1 \in 1..m /\ n # Len(u)  BY <1>1, <3>1
    <3>3. u[n + 1] = b[n + 1] /\ v[n + 1] = b[n + 1] /\ b[n + 1] \in Nat
      BY <1>1, <1>2, <3>2
    <3> QED  BY <1>4, <3>2, <3>3 DEF LessAt
  <2>2. n - m \in 0..Len(s) /\ n - m < Len(t) /\ m + (n - m) = n
    BY <1>1, <1>4, <2>1 DEF LessAt
  <2>3. ASSUME NEW j \in 1..(n - m)  PROVE s[j] = t[j]
    <3>1. j \in 1..Len(s) /\ j \in 1..Len(t) /\ m + j \in 1..n
      BY <1>0, <2>2
    <3>2. u[m + j] = v[m + j]  BY <1>4, <3>1 DEF LessAt
    <3>3. u[m + j] = s[j] /\ v[m + j] = t[j]  BY <1>1, <3>1
    <3> QED  BY <3>2, <3>3
  <2>4. CASE n = Len(u)
    <3>1. n - m = Len(s)  BY <1>1, <2>4
    <3> QED  BY <2>2, <2>3, <3>1 DEF LessAt
  <2>5. CASE n # Len(u)
    <3>0. n \in Nat /\ n < m + Len(s) /\ n - m \in Nat
      <4>1. Len(u) \in Nat  BY <1>0
      <4>2. n \in Nat /\ n < Len(u)  BY <2>5, <4>1
      <4> QED  BY <1>0, <2>1, <4>2
    <3>1. /\ n - m < Len(s) /\ (n - m) + 1 \in 1..Len(s)
          /\ (n - m) + 1 \in 1..Len(t) /\ m + ((n - m) + 1) = n + 1
      BY <1>0, <2>2, <3>0
    <3>2. u[n + 1] < v[n + 1]  BY <1>4, <2>5 DEF LessAt
    <3>3. u[m + ((n - m) + 1)] = s[(n - m) + 1] /\ v[m + ((n - m) + 1)] = t[(n - m) + 1]
      BY <1>1, <3>1
    <3>4. s[(n - m) + 1] < t[(n - m) + 1]
      BY <3>1, <3>2, <3>3
    <3> QED  BY <2>2, <2>3, <3>1, <3>4 DEF LessAt
  <2> QED  BY <2>4, <2>5
<1>5. Less(u, v) <=> Less(s, t)
  BY <1>1, <1>3, <1>4, LessIsAt
<1>6. IsPrefix(u, v) <=> IsPrefix(s, t)
  <2>1. ASSUME IsPrefix(s, t)  PROVE IsPrefix(u, v)
    <3>1. Len(s) <= Len(t) /\ \A i \in 1..Len(s) : s[i] = t[i]
      BY <2>1, PrefixChars
    <3>2. ASSUME NEW i \in 1..Len(u)  PROVE u[i] = v[i]
      <4>1. CASE i <= m
        BY <1>1, <4>1
      <4>2. CASE i > m
        <5>0. Len(s) <= Len(t)  BY <3>1
        <5>1. i - m \in 1..Len(s) /\ i - m \in 1..Len(t) /\ m + (i - m) = i
          BY <1>0, <4>2, <5>0
        <5>2. u[m + (i - m)] = s[i - m] /\ v[m + (i - m)] = t[i - m]
          BY <1>1, <5>1
        <5>3. s[i - m] = t[i - m]  BY <3>1, <5>1
        <5> QED  BY <5>1, <5>2, <5>3
      <4> QED  BY <1>1, <4>1, <4>2
    <3>3. Len(u) <= Len(v)  BY <1>0, <3>1
    <3>4. u \in Seq(Nat) /\ v \in Seq(Nat)  BY <1>1
    <3> QED  BY <3>2, <3>3, <3>4, PrefixChars
  <2>2. ASSUME IsPrefix(u, v)  PROVE IsPrefix(s, t)
    <3>1. Len(u) <= Len(v) /\ \A i \in 1..Len(u) : u[i] = v[i]
      BY <1>1, <2>2, PrefixChars
    <3>2. Len(s) <= Len(t)  BY <1>1, <3>1
    <3>3. ASSUME NEW i \in 1..Len(s)  PROVE s[i] = t[i]
      <4>1. m + i \in 1..Len(u) /\ i \in 1..Len(t)  BY <1>1, <3>2
      <4>2. u[m + i] = v[m + i]  BY <3>1, <4>1
      <4>3. u[m + i] = s[i] /\ v[m + i] = t[i]  BY <1>1, <4>1
      <4> QED  BY <4>2, <4>3
    <3> QED  BY <3>2, <3>3, PrefixChars
  <2> QED  BY <2>1, <2>2
<1> QED  BY <1>5, <1>6 DEF u, v

-----------------------------------------------------------------------------
(* Trimmed and the root of a bucket                                        *)

\* The first characters of a key.
LEMMA Beginning ==
  ASSUME NEW s \in Seq(Nat), NEW n \in 0..Len(s)
  PROVE  /\ SubSeq(s, 1, n) \in Seq(Nat) /\ Len(SubSeq(s, 1, n)) = n
         /\ \A i \in 1..n : SubSeq(s, 1, n)[i] = s[i]
<1>1. n \in Nat /\ Len(s) \in Nat /\ n <= Len(s)  BY LenProperties
<1>2. \A i \in 1..n : s[i] \in Nat  BY <1>1, ElementOfSeq
<1>3. /\ SubSeq(s, 1, n) \in Seq(Nat)
      /\ Len(SubSeq(s, 1, n)) = IF 1 <= n THEN n - 1 + 1 ELSE 0
      /\ \A i \in 1..(n - 1 + 1) : SubSeq(s, 1, n)[i] = s[1 + i - 1]
  BY <1>1, <1>2, SubSeqProperties
<1>4. /\ n - 1 + 1 = n
      /\ \A i \in 1..n : i \in 1..(n - 1 + 1) /\ 1 + i - 1 = i
  BY <1>1
<1> QED  BY <1>1, <1>3, <1>4

\* Where trim_end_matches cuts, as Trimmed chooses it.
TrimmedAt(s, n) ==
    /\ n = 0 \/ s[n] # Slash
    /\ \A i \in (n + 1)..Len(s) : s[i] = Slash

LEMMA TrimmedIsCut ==
  ASSUME NEW s \in Seq(Nat)
  PROVE  \E n \in 0..Len(s) : TrimmedAt(s, n) /\ Trimmed(s) = SubSeq(s, 1, n)
<1> DEFINE Tails == {n \in 0..Len(s) : \A i \in (n + 1)..Len(s) : s[i] = Slash}
<1>1. Len(s) \in Nat  BY LenProperties
<1>2. Tails \subseteq Nat /\ Len(s) \in Tails  BY <1>1
<1>3. PICK n \in Tails : \A i \in Tails : n <= i  BY <1>2, LeastNumber
<1>4. n = 0 \/ s[n] # Slash
  <2>1. SUFFICES ASSUME n # 0, s[n] = Slash  PROVE FALSE  OBVIOUS
  <2>2. n - 1 \in 0..Len(s) /\ ~(n <= n - 1)  BY <1>1, <2>1
  <2>3. \A i \in (n - 1 + 1)..Len(s) : s[i] = Slash  BY <1>1, <2>1
  <2> QED  BY <2>2, <2>3, <1>3
<1>5. n \in 0..Len(s) /\ TrimmedAt(s, n)  BY <1>4 DEF TrimmedAt
<1> HIDE DEF Tails
<1>6. Trimmed(s) = SubSeq(s, 1, CHOOSE k \in 0..Len(s) : TrimmedAt(s, k))
  BY Zenon DEF Trimmed, TrimmedAt
<1> QED  BY <1>5, <1>6

LEMMA TrimmedProperties ==
  ASSUME NEW s \in Seq(Nat)
  PROVE  Trimmed(s) \in Seq(Nat) /\ ~EndsInSlash(Trimmed(s))
<1>1. PICK n \in 0..Len(s) : TrimmedAt(s, n) /\ Trimmed(s) = SubSeq(s, 1, n)
  BY TrimmedIsCut
<1>2. Len(s) \in Nat /\ \A i \in 1..Len(s) : s[i] \in Nat
  BY LenProperties, ElementOfSeq
<1> DEFINE t == SubSeq(s, 1, n)
<1>3. t \in Seq(Nat) /\ Len(t) = n /\ \A i \in 1..n : t[i] = s[i]
  BY Beginning
<1> HIDE DEF t
<1>4. t # <<>> => n # 0  BY <1>3, EmptySeq
<1>5. ~EndsInSlash(t)
  BY <1>1, <1>3, <1>4 DEF TrimmedAt, EndsInSlash, Last
<1> QED  BY <1>1, <1>3, <1>5 DEF t

\* A key that ends in one slash loses that slash and no more.
LEMMA TrimmedOnce ==
  ASSUME NEW s, Segmented(s), EndsInSlash(s)
  PROVE  Trimmed(s) = Front(s)
<1>1. s \in Seq(Nat) /\ s # <<>> /\ s[1] # Slash /\ s[Len(s)] = Slash
  BY DEF Segmented, EndsInSlash, Last
<1>2. Len(s) \in Nat /\ Len(s) >= 2
  BY <1>1, LenProperties, EmptySeq
<1>3. s[Len(s) - 1] # Slash
  BY <1>1, <1>2 DEF Segmented
<1>4. PICK n \in 0..Len(s) : TrimmedAt(s, n) /\ Trimmed(s) = SubSeq(s, 1, n)
  BY <1>1, TrimmedIsCut
<1>5. n = Len(s) - 1
  <2>1. n # Len(s)  BY <1>1, <1>2, <1>4 DEF TrimmedAt
  <2>2. ~(n < Len(s) - 1)
    <3>1. SUFFICES ASSUME n < Len(s) - 1  PROVE FALSE  OBVIOUS
    <3>2. Len(s) - 1 \in (n + 1)..Len(s)  BY <3>1, <1>2
    <3> QED  BY <3>2, <1>3, <1>4 DEF TrimmedAt
  <2> QED  BY <2>1, <2>2, <1>2
<1> QED  BY <1>4, <1>5 DEF Front

LEMMA RootProperties ==
  ASSUME config \in Configs
  PROVE  /\ Root \in Seq(Nat) /\ ~EndsInSlash(Root)
         /\ Base \in Seq(Nat)
         /\ Regular => Root = <<>> \/ Segmented(Root)
<1>1. Root \in Seq(Nat) /\ ~EndsInSlash(Root)
  <2>1. CASE config = NoPrefix
    BY <2>1, EmptySeq DEF Root, EndsInSlash
  <2>2. CASE config # NoPrefix
    BY <2>2, TrimmedProperties, ListingAssumption DEF Root
  <2> QED  BY <2>1, <2>2
<1>2. Base \in Seq(Nat)
  BY <1>1, EmptySeq, ListingAssumption DEF Base
<1>3. Regular => Root = <<>> \/ Segmented(Root)
  BY DEF Regular, Root
<1> QED  BY <1>1, <1>2, <1>3

-----------------------------------------------------------------------------
(* The mappings                                                            *)

\* The way back (rewrite_key) undoes the mapping, and the mapping the way back
\* on every key under the root of the bucket.
THEOREM RoundTrip ==
  ASSUME config \in Configs
  PROVE  /\ \A key \in Seq(Nat) : ClientKey(BackendKey(key)) = key
         /\ \A raw \in Seq(Nat) : IsPrefix(Base, raw) =>
               ClientKey(raw) \in Seq(Nat) /\ BackendKey(ClientKey(raw)) = raw
<1>1. Base \in Seq(Nat)  BY RootProperties
<1>2. ASSUME NEW key \in Seq(Nat)  PROVE ClientKey(BackendKey(key)) = key
  BY <1>1, PrefixOfConcat DEF ClientKey, BackendKey
<1>3. ASSUME NEW raw \in Seq(Nat), IsPrefix(Base, raw)
      PROVE  ClientKey(raw) \in Seq(Nat) /\ BackendKey(ClientKey(raw)) = raw
  BY <1>1, <1>3, StripAndPrepend DEF ClientKey, BackendKey
<1> QED  BY <1>2, <1>3

\* The characters of a root, a slash and a key.
LEMMA JoinChars ==
  ASSUME NEW s \in Seq(Nat), NEW t \in Seq(Nat), NEW c \in Nat
  PROVE  /\ Append(s, c) \o t \in Seq(Nat)
         /\ Len(Append(s, c) \o t) = Len(s) + 1 + Len(t)
         /\ \A i \in 1..Len(s) : (Append(s, c) \o t)[i] = s[i]
         /\ (Append(s, c) \o t)[Len(s) + 1] = c
         /\ \A i \in 1..Len(t) : (Append(s, c) \o t)[Len(s) + 1 + i] = t[i]
<1> DEFINE b == Append(s, c)
           u == b \o t
<1>1. /\ Len(s) \in Nat /\ Len(t) \in Nat
      /\ b \in Seq(Nat) /\ Len(b) = Len(s) + 1
      /\ \A i \in 1..Len(s) : b[i] = s[i]
      /\ b[Len(s) + 1] = c
  BY LenProperties
<1> HIDE DEF b
<1>2. /\ u \in Seq(Nat) /\ Len(u) = Len(b) + Len(t)
      /\ \A i \in 1..(Len(b) + Len(t)) :
            u[i] = IF i <= Len(b) THEN b[i] ELSE t[i - Len(b)]
  BY <1>1, ConcatProperties
<1> HIDE DEF u
<1>3. \A i \in 1..Len(s) : u[i] = s[i]
  <2>1. SUFFICES ASSUME NEW i \in 1..Len(s)  PROVE u[i] = s[i]  OBVIOUS
  <2>2. i \in 1..(Len(b) + Len(t)) /\ i <= Len(b)  BY <1>1
  <2>3. u[i] = b[i]  BY <1>2, <2>2
  <2> QED  BY <1>1, <2>3
<1>4. u[Len(s) + 1] = c
  <2>1. Len(b) \in 1..(Len(b) + Len(t)) /\ Len(b) <= Len(b)  BY <1>1
  <2>2. u[Len(b)] = b[Len(b)]  BY <1>2, <2>1
  <2> QED  BY <1>1, <2>2
<1>5. ASSUME NEW i \in 1..Len(t)  PROVE u[Len(s) + 1 + i] = t[i]
  <2>1. /\ Len(b) + i \in 1..(Len(b) + Len(t)) /\ ~(Len(b) + i <= Len(b))
        /\ (Len(b) + i) - Len(b) = i
    BY <1>1
  <2>2. u[Len(b) + i] = t[(Len(b) + i) - Len(b)]  BY <1>2, <2>1
  <2> QED  BY <1>1, <2>1, <2>2
<1> QED  BY <1>1, <1>2, <1>3, <1>4, <1>5 DEF u, b

LEMMA JoinSegmented ==
  ASSUME NEW s, NEW t, Segmented(s), Segmented(t), ~EndsInSlash(s), ~EndsInSlash(t)
  PROVE  /\ Segmented(Append(s, Slash) \o t)
         /\ ~EndsInSlash(Append(s, Slash) \o t)
<1> DEFINE u == Append(s, Slash) \o t
           n == Len(s)
           m == Len(t)
<1>1. /\ s \in Seq(Nat) /\ n \in Nat /\ n >= 1 /\ s[1] # Slash /\ s[n] # Slash
      /\ t \in Seq(Nat) /\ m \in Nat /\ m >= 1 /\ t[1] # Slash /\ t[m] # Slash
  BY LenProperties, EmptySeq DEF Segmented, EndsInSlash, Last
<1>2. /\ u \in Seq(Nat) /\ Len(u) = n + 1 + m
      /\ \A i \in 1..n : u[i] = s[i]
      /\ \A i \in 1..m : u[n + 1 + i] = t[i]
  BY <1>1, JoinChars, ListingAssumption
<1>3. /\ \A i \in 2..n : ~(s[i - 1] = Slash /\ s[i] = Slash)
      /\ \A i \in 2..m : ~(t[i - 1] = Slash /\ t[i] = Slash)
  BY DEF Segmented
<1> HIDE DEF u, n, m
<1>4. u[1] # Slash /\ u[n] # Slash /\ u[n + 1 + 1] # Slash /\ u[n + 1 + m] # Slash
  <2>1. 1 \in 1..n /\ n \in 1..n /\ 1 \in 1..m /\ m \in 1..m  BY <1>1
  <2>2. u[1] = s[1] /\ u[n] = s[n] /\ u[n + 1 + 1] = t[1] /\ u[n + 1 + m] = t[m]
    BY <1>2, <2>1
  <2> QED  BY <1>1, <2>2
<1>5. ASSUME NEW i \in 2..Len(u), u[i - 1] = Slash, u[i] = Slash
      PROVE  FALSE
  <2>0. i \in Int /\ 2 <= i /\ i <= n + 1 + m  BY <1>1, <1>2
  <2>1. CASE i <= n
    <3>1. i \in 2..n /\ i \in 1..n /\ i - 1 \in 1..n  BY <2>0, <2>1, <1>1
    <3>2. s[i - 1] = Slash /\ s[i] = Slash  BY <3>1, <1>2, <1>5
    <3> QED  BY <3>1, <3>2, <1>3
  <2>2. CASE i = n + 1
    <3>1. i - 1 = n  BY <2>2, <1>1
    <3> QED  BY <3>1, <1>4, <1>5
  <2>3. CASE i = n + 1 + 1
    BY <2>3, <1>4, <1>5
  <2>4. CASE i > n + 1 + 1
    <3> DEFINE j == i - (n + 1)
    <3>1. /\ j \in 2..m /\ j \in 1..m /\ j - 1 \in 1..m
          /\ n + 1 + j = i /\ n + 1 + (j - 1) = i - 1
      BY <2>0, <2>4, <1>1
    <3> HIDE DEF j
    <3>2. t[j - 1] = u[n + 1 + (j - 1)] /\ t[j] = u[n + 1 + j]  BY <3>1, <1>2
    <3>3. t[j - 1] = Slash /\ t[j] = Slash  BY <3>1, <3>2, <1>5
    <3> QED  BY <3>1, <3>3, <1>3
  <2>5. i <= n \/ i = n + 1 \/ i = n + 1 + 1 \/ i > n + 1 + 1  BY <2>0, <1>1
  <2> QED  BY <2>1, <2>2, <2>3, <2>4, <2>5
<1>6. u # <<>>  BY <1>1, <1>2, EmptySeq
<1> QED  BY <1>2, <1>4, <1>5, <1>6 DEF u, Segmented, EndsInSlash, Last

\* A key without its last character.
LEMMA FrontOfKey ==
  ASSUME NEW s \in Seq(Nat), EndsInSlash(s)
  PROVE  Front(s) \in Seq(Nat) /\ Len(Front(s)) = Len(s) - 1
<1>1. Len(s) \in Nat \ {0}  BY EmptySeq DEF EndsInSlash
<1>2. \A i \in 1..(Len(s) - 1) : s[i] \in Nat  BY <1>1, ElementOfSeq
<1> DEFINE n == Len(s) - 1
<1>4. n \in Nat /\ n <= Len(s) /\ \A i \in 1..n : s[i] \in Nat  BY <1>1, <1>2
<1> HIDE DEF n
<1>5. SubSeq(s, 1, n) \in Seq(Nat)
  BY <1>4, SubSeqProperties
<1>6. Len(SubSeq(s, 1, n)) = IF 1 <= n THEN n - 1 + 1 ELSE 0
  BY <1>1, <1>4, SubSeqProperties
<1>7. Len(SubSeq(s, 1, n)) = n  BY <1>4, <1>6
<1> QED  BY <1>5, <1>7, Zenon DEF n, Front

\* A path of object_store is a sequence of characters too,
LEMMA LocationType ==
  ASSUME NEW raw \in Seq(Nat)
  PROVE  Location(raw) \in Seq(Nat)
<1> DEFINE path == Unrooted(raw)
<1>1. path \in Seq(Nat)
  BY HeadTailProperties DEF Unrooted
<1> HIDE DEF path
<1>2. EndsInSlash(path) => Front(path) \in Seq(Nat)
  BY <1>1, FrontOfKey
<1>3. Location(raw) = IF EndsInSlash(path) THEN Front(path) ELSE path
  BY DEF Location, path
<1> QED  BY <1>1, <1>2, <1>3

\* and is the key itself when no slash is to be lost.
LEMMA LocationIsKey ==
  ASSUME NEW raw \in Seq(Nat), raw # <<>>, raw[1] # Slash
  PROVE  /\ Unrooted(raw) = raw
         /\ Location(raw) = IF EndsInSlash(raw) THEN Front(raw) ELSE raw
<1>1. Head(raw) # Slash  OBVIOUS
<1>2. Unrooted(raw) = raw  BY <1>1 DEF Unrooted
<1> QED  BY <1>2 DEF Location

LEMMA LocationOfSegmented ==
  ASSUME NEW raw, Segmented(raw), ~EndsInSlash(raw)
  PROVE  Location(raw) = raw /\ Parses(raw)
BY LocationIsKey DEF Segmented, Parses

\* The last character of a key is also its last in the backend.
LEMMA EndOfKey ==
  ASSUME NEW b \in Seq(Nat), NEW f \in Seq(Nat), f # <<>>, ~EndsInSlash(f)
  PROVE  b \o f \in Seq(Nat) /\ b \o f # <<>> /\ ~EndsInSlash(b \o f)
<1> DEFINE u == b \o f
<1>1. /\ Len(b) \in Nat /\ Len(f) \in Nat /\ Len(f) # 0
      /\ u \in Seq(Nat) /\ Len(u) = Len(b) + Len(f)
      /\ u[Len(b) + Len(f)] = f[Len(f)]
  BY LenProperties, EmptySeq, ConcatProperties
<1> HIDE DEF u
<1>2. u # <<>>  BY <1>1, EmptySeq
<1>3. u[Len(u)] # Slash  BY <1>1 DEF EndsInSlash, Last
<1> QED  BY <1>1, <1>2, <1>3 DEF u, EndsInSlash, Last

LEMMA LocationOfFile ==
  ASSUME NEW raw \in Seq(Nat), raw # <<>>, ~EndsInSlash(raw)
  PROVE  Location(raw) \in Seq(Nat) /\ Location(raw) # <<>>
<1>1. Len(raw) \in Nat /\ Len(raw) # 0 /\ raw[Len(raw)] # Slash
  BY EmptySeq DEF EndsInSlash, Last
<1>2. CASE raw[1] # Slash
  BY <1>2, LocationIsKey
<1>3. CASE raw[1] = Slash
  <2>1. Len(raw) >= 2  BY <1>1, <1>3
  <2> DEFINE t == Tail(raw)
  <2>2. t \in Seq(Nat) /\ Len(t) = Len(raw) - 1 /\ t[Len(raw) - 1] = raw[Len(raw)]
    <3>1. \A i \in 1..(Len(raw) - 1) : t[i] = raw[i + 1]
      BY <2>1
    <3>2. Len(raw) - 1 \in 1..(Len(raw) - 1) /\ (Len(raw) - 1) + 1 = Len(raw)
      BY <1>1, <2>1
    <3> QED  BY <3>1, <3>2, HeadTailProperties
  <2>3. Head(raw) = Slash  BY <1>3
  <2>4. Unrooted(raw) = t  BY <2>3 DEF Unrooted
  <2> HIDE DEF t
  <2>5. t # <<>> /\ ~EndsInSlash(t)
    BY <1>1, <2>1, <2>2, EmptySeq DEF EndsInSlash, Last
  <2> QED  BY <2>2, <2>4, <2>5 DEF Location
<1> QED  BY <1>2, <1>3

\* Under a regular setting, a key of a client stays a proper key in the
\* backend,
LEMMA BackendKeySegmented ==
  ASSUME config \in Configs, Regular, NEW key, Segmented(key), ~EndsInSlash(key)
  PROVE  Segmented(BackendKey(key)) /\ ~EndsInSlash(BackendKey(key))
<1>1. key \in Seq(Nat)  BY DEF Segmented
<1>2. CASE Root = <<>>
  BY <1>1, <1>2, ConcatEmptySeq DEF BackendKey, Base
<1>3. CASE Root # <<>>
  BY <1>3, RootProperties, JoinSegmented DEF BackendKey, Base
<1> QED  BY <1>2, <1>3

\* and every path puts it in the same place.
LEMMA RegularKeys ==
  ASSUME config \in Configs, Regular, NEW key, Segmented(key), ~EndsInSlash(key)
  PROVE  /\ Parses(BackendKey(key))
         /\ PathKey(key) = BackendKey(key)
         /\ UploadKey(key) = BackendKey(key)
<1>1. key \in Seq(Nat)  BY DEF Segmented
<1>2. Parses(BackendKey(key)) /\ PathKey(key) = BackendKey(key)
  BY BackendKeySegmented, LocationOfSegmented DEF PathKey
<1>3. CASE config = NoPrefix
  <2>1. UploadKey(key) = key  BY <1>3 DEF UploadKey
  <2>2. BackendKey(key) = key
    BY <1>1, <1>3, ConcatEmptySeq DEF BackendKey, Base, Root
  <2> QED  BY <1>2, <2>1, <2>2
<1>4. CASE config # NoPrefix
  <2>1. Root = Trimmed(config) /\ Root # <<>>
    BY <1>4 DEF Regular, Root, Segmented
  <2>2. UploadKey(key) = BackendKey(key)
    BY <1>4, <2>1 DEF UploadKey, BackendKey, Base
  <2> QED  BY <1>2, <2>2
<1> QED  BY <1>3, <1>4

LEMMA RootOfSegmented ==
  ASSUME NEW s \in Seq(Nat), s # <<>>, NEW t \in Seq(Nat),
         Segmented(Append(s, Slash) \o t)
  PROVE  Segmented(s)
<1> DEFINE u == Append(s, Slash) \o t
<1>1. /\ Len(s) \in Nat /\ Len(s) >= 1 /\ Len(t) \in Nat
      /\ Len(u) = Len(s) + 1 + Len(t)
      /\ \A i \in 1..Len(s) : u[i] = s[i]
  BY LenProperties, EmptySeq, JoinChars, ListingAssumption
<1>2. u[1] # Slash /\ \A i \in 2..Len(u) : ~(u[i - 1] = Slash /\ u[i] = Slash)
  BY DEF Segmented
<1> HIDE DEF u
<1>3. s[1] # Slash  BY <1>1, <1>2
<1>4. ASSUME NEW i \in 2..Len(s)  PROVE ~(s[i - 1] = Slash /\ s[i] = Slash)
  <2>1. i \in 2..Len(u) /\ i \in 1..Len(s) /\ i - 1 \in 1..Len(s)  BY <1>1
  <2> QED  BY <1>1, <1>2, <2>1
<1> QED  BY <1>3, <1>4 DEF Segmented

\* For every setting of backend_prefix, whatever it is: the presigned path
\* (build_object_path) and the raw-signed path (build_backend_url) take a key
\* of a client to one object exactly if the setting is regular, and then that
\* object is also where listings, batch deletes and the sources of copies look
\* (apply_backend_prefix, build_list_prefix).
THEOREM OneMapping ==
  ASSUME config \in Configs, NEW key, Segmented(key), ~EndsInSlash(key)
  PROVE  /\ Regular <=> Parses(BackendKey(key)) /\ PathKey(key) = UploadKey(key)
         /\ Regular => PathKey(key) = BackendKey(key)
<1>1. key \in Seq(Nat) /\ key # <<>>  BY DEF Segmented
<1>2. CASE Regular
  BY <1>2, RegularKeys
<1>3. CASE ~Regular
  <2> DEFINE u == Append(Root, Slash) \o key
  <2>1. /\ config # NoPrefix /\ Root = Trimmed(config) /\ ~Segmented(Root)
        /\ UploadKey(key) = u
    BY <1>3 DEF Regular, Root, UploadKey
  <2>2. /\ Root \in Seq(Nat) /\ Len(Root) \in Nat /\ Len(key) \in Nat
        /\ u \in Seq(Nat) /\ Len(u) = Len(Root) + 1 + Len(key)
        /\ \A i \in 1..Len(Root) : u[i] = Root[i]
    BY <1>1, RootProperties, LenProperties, JoinChars, ListingAssumption
  <2> HIDE DEF u
  <2>3. ASSUME Parses(BackendKey(key)), PathKey(key) = UploadKey(key)
        PROVE  FALSE
    <3>1. CASE Root = <<>>
      <4>1. BackendKey(key) = key
        BY <1>1, <3>1, ConcatEmptySeq DEF BackendKey, Base
      <4>2. PathKey(key) = key
        BY <4>1, LocationOfSegmented DEF PathKey
      <4>3. Len(u) # Len(key)  BY <2>2
      <4> QED  BY <2>1, <2>3, <4>2, <4>3
    <3>2. CASE Root # <<>>
      <4>1. BackendKey(key) = u /\ u # <<>> /\ u[1] = Root[1]
        <5>1. Len(Root) >= 1 /\ Len(u) # 0  BY <2>2, <3>2, EmptySeq
        <5>2. u # <<>> /\ u[1] = Root[1]  BY <2>2, <5>1, EmptySeq
        <5> QED  BY <3>2, <5>2 DEF BackendKey, Base, u
      <4>2. CASE Root[1] # Slash
        <5>1. Unrooted(u) = u  BY <2>2, <4>1, <4>2, LocationIsKey
        <5>2. Segmented(u)  BY <2>3, <4>1, <5>1 DEF Parses
        <5> QED  BY <1>1, <2>1, <2>2, <3>2, <5>2, RootOfSegmented DEF u
      <4>3. CASE Root[1] = Slash
        <5>1. Head(u) = Slash  BY <4>1, <4>3
        <5> DEFINE t == Tail(u)
        <5>2. Unrooted(u) = t  BY <4>1, <5>1 DEF Unrooted
        <5>3. t \in Seq(Nat) /\ Len(t) = Len(u) - 1
          BY <2>2, <4>1, HeadTailProperties
        <5>0. Len(t) \in Nat /\ Len(u) \in Nat  BY <2>2, <5>3, LenProperties
        <5> HIDE DEF t
        <5>4. Len(Location(u)) <= Len(t)
          <6>1. CASE EndsInSlash(t)
            <7>1. Len(Front(t)) = Len(t) - 1
              BY <5>3, <6>1, FrontOfKey
            <7>2. Location(u) = Front(t)  BY <5>2, <6>1 DEF Location
            <7> QED  BY <5>0, <7>1, <7>2
          <6>2. CASE ~EndsInSlash(t)
            <7>1. Location(u) = t  BY <5>2, <6>2 DEF Location
            <7> QED  BY <5>0, <7>1
          <6> QED  BY <6>1, <6>2
        <5>5. Location(u) = u  BY <2>1, <2>3, <4>1 DEF PathKey
        <5> QED  BY <2>2, <5>3, <5>4, <5>5
      <4> QED  BY <4>2, <4>3
    <3> QED  BY <3>1, <3>2
  <2> QED  BY <1>3, <2>3
<1> QED  BY <1>2, <1>3

\* Where a write puts a file, and where it is looked for.
LEMMA KeyPlaces ==
  ASSUME config \in Configs, NEW f \in Files
  PROVE  /\ BackendKey(f) \in Seq(Nat) /\ BackendKey(f) # <<>>
         /\ PathKey(f) \in Seq(Nat) /\ PathKey(f) # <<>>
         /\ UploadKey(f) \in Seq(Nat) /\ UploadKey(f) # <<>>
         /\ Regular => /\ PathKey(f) = BackendKey(f) /\ UploadKey(f) = BackendKey(f)
                       /\ Segmented(BackendKey(f)) /\ ~EndsInSlash(BackendKey(f))
<1>1. f \in Seq(Nat) /\ f # <<>> /\ Segmented(f) /\ ~EndsInSlash(f)
  BY ListingAssumption DEF Segmented
<1>2. BackendKey(f) \in Seq(Nat) /\ BackendKey(f) # <<>> /\ ~EndsInSlash(BackendKey(f))
  BY <1>1, RootProperties, EndOfKey DEF BackendKey
<1>3. PathKey(f) \in Seq(Nat) /\ PathKey(f) # <<>>
  BY <1>2, LocationOfFile DEF PathKey
<1>4. UploadKey(f) \in Seq(Nat) /\ UploadKey(f) # <<>>
  <2>1. CASE config = NoPrefix
    BY <1>1, <2>1 DEF UploadKey
  <2>2. CASE config # NoPrefix
    <3>1. Trimmed(config) \in Seq(Nat)
      BY <2>2, ListingAssumption, TrimmedProperties
    <3>2. Append(Trimmed(config), Slash) \in Seq(Nat)
      BY <3>1, ListingAssumption
    <3> QED  BY <1>1, <2>2, <3>2, EndOfKey DEF UploadKey
  <2> QED  BY <2>1, <2>2
<1> QED  BY <1>1, <1>2, <1>3, <1>4, RegularKeys, BackendKeySegmented

-----------------------------------------------------------------------------
(* The invariant                                                           *)

\* What the backend holds: under a regular setting proper keys only, and data
\* only under the keys of files.
Stored ==
    \A o \in objects :
        /\ o \in Seq(Nat) /\ o # <<>>
        /\ Regular => Segmented(o) /\ (EndsInSlash(o) => o \in empties)

\* The query, but for the token, of which only its place matters here.
Queried ==
    query \in [v2 : BOOLEAN, prefix : Seq(Nat), delimited : BOOLEAN,
               start : Starts \union {NoStart},
               limit : Limits \union {1}, token : {query.token}]

ReadablePage(page) ==
    Regular =>
        /\ \A c \in page.contents :
              \/ PathKey(c.key) = c.raw
              \/ EndsInSlash(c.raw) /\ ~query.delimited
        /\ \A c \in page.prefixes : BackendKey(c.key) = c.raw

ListInv ==
    /\ config \in Configs
    /\ Stored
    /\ Queried
    /\ \E S : pages \in Seq(S)
    /\ phase = "idle" => pages = <<>>
    /\ \A i \in DOMAIN pages : ReadablePage(pages[i])

LEMMA ReadablePages ==
  ASSUME \A i \in DOMAIN pages : ReadablePage(pages[i])
  PROVE  ShownIsReadable
BY DEF ReadablePage, ShownIsReadable, AllContents, AllPrefixes

LEMMA AppendedPage ==
  ASSUME NEW S, NEW s \in Seq(S), NEW p
  PROVE  /\ Append(s, p) \in Seq(S \union {p})
         /\ \A i \in DOMAIN Append(s, p) :
               (i \in DOMAIN s /\ Append(s, p)[i] = s[i]) \/ Append(s, p)[i] = p
<1>1. s \in Seq(S \union {p})  BY SeqMonotonic
<1>2. /\ Len(s) \in Nat /\ DOMAIN s = 1..Len(s)
      /\ Append(s, p) \in Seq(S \union {p})
      /\ DOMAIN Append(s, p) = 1..(Len(s) + 1)
      /\ \A i \in 1..Len(s) : Append(s, p)[i] = s[i]
      /\ Append(s, p)[Len(s) + 1] = p
  BY <1>1, LenProperties
<1>3. \A i \in 1..(Len(s) + 1) : i \in 1..Len(s) \/ i = Len(s) + 1
  BY <1>2
<1> QED  BY <1>2, <1>3

-----------------------------------------------------------------------------
(* One page                                                                *)

\* An entry of the backend's page begins with the prefix asked for; unless it
\* is rolled up, it is an object when it is no longer than that prefix.
LEMMA EntryProperties ==
  ASSUME NEW raw \in Seq(Nat), Full \in Seq(Nat), IsPrefix(Full, raw)
  PROVE  /\ Entry(raw) \in Seq(Nat)
         /\ IsPrefix(Full, Entry(raw))
         /\ Entry(raw) = raw \/ (query.delimited /\ Len(Entry(raw)) > Len(Full))
<1> DEFINE slashes == {i \in (Len(Full) + 1)..Len(raw) : raw[i] = Slash}
           n == Min(slashes)
           e == SubSeq(raw, 1, n)
<1>1. Len(Full) \in Nat /\ Len(raw) \in Nat /\ \A i \in 1..Len(raw) : raw[i] \in Nat
  BY LenProperties, ElementOfSeq
<1>2. CASE ~(query.delimited /\ slashes # {})
  BY <1>2 DEF Entry
<1>3. CASE query.delimited /\ slashes # {}
  <2>1. slashes \subseteq Nat  BY <1>1
  <2>2. n \in slashes  BY <2>1, <1>3, MinIsIn
  <2>3. n \in (Len(Full) + 1)..Len(raw)  BY <2>2
  <2>4. Entry(raw) = e  BY <1>3 DEF Entry
  <2> HIDE DEF n
  <2>5. /\ e \in Seq(Nat) /\ Len(e) = n
        /\ \A i \in 1..n : e[i] = raw[i]
    BY <1>1, <2>3, SubSeqProperties
  <2> HIDE DEF e
  <2>6. /\ Len(Full) <= Len(raw)
        /\ \A i \in 1..Len(Full) : Full[i] = raw[i]
    BY PrefixChars
  <2>7. IsPrefix(Full, e)
    <3>1. Len(Full) <= Len(e)  BY <1>1, <2>3, <2>5
    <3>2. ASSUME NEW i \in 1..Len(Full)  PROVE Full[i] = e[i]
      <4>1. i \in 1..n  BY <1>1, <2>3
      <4> QED  BY <2>5, <2>6, <4>1
    <3> QED  BY <2>5, <3>1, <3>2, PrefixChars
  <2>8. Len(e) > Len(Full)  BY <1>1, <2>3, <2>5
  <2> QED  BY <1>3, <2>4, <2>5, <2>7, <2>8
<1> QED  BY <1>2, <1>3

\* An entry of a listing: at most one slash after the prefix, at its end.
AnEntry(e) ==
    /\ e \in Seq(Nat) /\ IsPrefix(Full, e)
    /\ \A i \in (Len(Full) + 1)..Len(e) :
          query.delimited /\ e[i] = Slash => i = Len(e)

LEMMA MinIsLeast ==
  ASSUME NEW S, S \subseteq Nat, NEW i \in S
  PROVE  Min(S) <= i
BY LeastNumber DEF Min

LEMMA EntryShape ==
  ASSUME NEW raw \in Seq(Nat), Full \in Seq(Nat), IsPrefix(Full, raw)
  PROVE  /\ AnEntry(Entry(raw))
         /\ IsPrefix(Entry(raw), raw)
         /\ Entry(raw) = raw \/ IsRolled(Entry(raw))
<1> DEFINE slashes == {i \in (Len(Full) + 1)..Len(raw) : raw[i] = Slash}
           n == Min(slashes)
           e == SubSeq(raw, 1, n)
<1>1. Len(Full) \in Nat /\ Len(raw) \in Nat /\ \A i \in 1..Len(raw) : raw[i] \in Nat
  BY LenProperties, ElementOfSeq
<1>2. Entry(raw) \in Seq(Nat) /\ IsPrefix(Full, Entry(raw))
  BY EntryProperties
<1>3. CASE ~(query.delimited /\ slashes # {})
  <2>1. Entry(raw) = raw  BY <1>3 DEF Entry
  <2>2. IsPrefix(raw, raw)  BY <1>1, PrefixChars
  <2>3. \A i \in (Len(Full) + 1)..Len(raw) : ~(query.delimited /\ raw[i] = Slash)
    BY <1>3
  <2> QED  BY <1>2, <2>1, <2>2, <2>3 DEF AnEntry
<1>4. CASE query.delimited /\ slashes # {}
  <2>1. slashes \subseteq Nat  BY <1>1
  <2>2. n \in slashes /\ \A i \in slashes : n <= i
    BY <2>1, <1>4, MinIsIn, MinIsLeast
  <2>3. n \in (Len(Full) + 1)..Len(raw) /\ raw[n] = Slash
    BY <2>2
  <2>4. Entry(raw) = e  BY <1>4 DEF Entry
  <2> HIDE DEF n
  <2>5. /\ e \in Seq(Nat) /\ Len(e) = n
        /\ \A i \in 1..n : e[i] = raw[i]
    BY <1>1, <2>3, SubSeqProperties
  <2> HIDE DEF e
  <2>6. ASSUME NEW i \in (Len(Full) + 1)..Len(e), e[i] = Slash
        PROVE  i = Len(e)
    <3>1. i \in 1..n /\ i \in (Len(Full) + 1)..Len(raw)  BY <1>1, <2>3, <2>5
    <3>2. i \in slashes  BY <2>5, <2>6, <3>1
    <3>3. n <= i  BY <2>2, <3>2
    <3> QED  BY <1>1, <2>3, <2>5, <3>1, <3>3
  <2>7. IsPrefix(e, raw)
    <3>1. n <= Len(raw)  BY <1>1, <2>3
    <3> QED  BY <2>5, <3>1, PrefixChars
  <2>8. IsRolled(e)
    <3>1. n \in 1..n /\ n > Len(Full)  BY <1>1, <2>3
    <3>2. e[n] = Slash /\ e # <<>>  BY <2>3, <2>5, <3>1, EmptySeq
    <3> QED  BY <1>4, <2>5, <3>1, <3>2 DEF IsRolled, EndsInSlash, Last
  <2> QED  BY <1>2, <2>4, <2>6, <2>7, <2>8 DEF AnEntry
<1> QED  BY <1>3, <1>4

\* In a listing with a delimiter, the only entry with a slash at its end that
\* is not rolled up is the marker of the prefix itself, which is filtered out.
LEMMA MarkerIsFiltered ==
  ASSUME Regular, Stored, NEW raw \in objects, Full \in Seq(Nat),
         IsPrefix(Full, raw), query.delimited, ~IsRolled(Entry(raw)), EndsInSlash(Entry(raw)), NEW folders
  PROVE  IsDirectoryMarker(Entry(raw), folders)
<1>1. Segmented(raw) /\ raw \in Seq(Nat)  BY DEF Stored, Segmented
<1> DEFINE e == Entry(raw)
<1>2. /\ e \in Seq(Nat) /\ IsPrefix(Full, e)
      /\ e = raw \/ Len(e) > Len(Full)
  BY <1>1, EntryProperties
<1>3. ~(Len(e) > Len(Full))  BY DEF IsRolled
<1>4. e = raw  BY <1>2, <1>3
<1> HIDE DEF e
<1>5. e = Full
  <2>1. Len(e) \in Nat /\ Len(Full) \in Nat  BY <1>2, LenProperties
  <2>2. Len(Full) <= Len(e) /\ \A i \in 1..Len(Full) : Full[i] = e[i]
    BY <1>2, PrefixChars
  <2>3. Len(Full) = Len(e)  BY <1>3, <2>1, <2>2
  <2> QED  BY <1>2, <2>2, <2>3, SeqEqual
<1>6. EndsInSlash(e) /\ Segmented(e) /\ e \in empties
  BY <1>1, <1>4 DEF e, Stored
<1>7. Location(e) = Trimmed(Full)
  <2>1. Location(e) = Front(e)
    BY <1>6, LocationIsKey DEF Segmented
  <2> QED  BY <1>5, <1>6, <2>1, TrimmedOnce
<1> QED  BY <1>6, <1>7 DEF IsDirectoryMarker, e

\* A common prefix is read as a path, and gets its slash again.
LEMMA SlashBack ==
  ASSUME NEW g \in Seq(Nat), g[1] # Slash, EndsInSlash(g)
  PROVE  /\ Location(g) \in Seq(Nat)
         /\ Append(Location(g), Slash) = g
<1>1. Len(g) \in Nat \ {0} /\ g # <<>> /\ g[Len(g)] = Slash
  BY EmptySeq DEF EndsInSlash, Last
<1>2. Location(g) = SubSeq(g, 1, Len(g) - 1)
  BY <1>1, LocationIsKey DEF Front
<1>3. \A i \in 1..(Len(g) - 1) : g[i] \in Nat  BY <1>1, ElementOfSeq
<1>4. SubSeq(g, 1, Len(g) - 1) \in Seq(Nat)  BY <1>1, <1>3, SubSeqProperties
<1>5. SubSeq(g, 1, Len(g)) = SubSeq(g, 1, Len(g) - 1) \o <<g[Len(g)]>>
  BY <1>1, SubSeqRecursiveSecond
<1>6. SubSeq(g, 1, Len(g)) = g  BY SubSeqFull
<1>7. Append(SubSeq(g, 1, Len(g) - 1), Slash) = SubSeq(g, 1, Len(g) - 1) \o <<Slash>>
  BY <1>4, ListingAssumption, AppendIsConcat
<1> QED  BY <1>1, <1>2, <1>4, <1>5, <1>6, <1>7

LEMMA HeadOfPrefix ==
  ASSUME NEW e \in Seq(Nat), e # <<>>, NEW raw, Segmented(raw), IsPrefix(e, raw)
  PROVE  e[1] # Slash
<1>1. raw \in Seq(Nat) /\ raw[1] # Slash  BY DEF Segmented
<1>2. Len(e) \in Nat /\ Len(e) # 0  BY EmptySeq
<1>3. 1 \in 1..Len(e)  BY <1>2
<1> QED  BY <1>1, <1>3, PrefixChars

\* Entries under a regular setting, and their paths.
LEMMA EntryPaths ==
  ASSUME Regular, Stored, Full \in Seq(Nat), NEW raw \in objects, IsPrefix(Full, raw)
  PROVE  /\ ~EndsInSlash(Entry(raw)) => Location(Entry(raw)) = Entry(raw)
         /\ EndsInSlash(Entry(raw)) => Append(Location(Entry(raw)), Slash) = Entry(raw)
<1> DEFINE e == Entry(raw)
<1>1. Segmented(raw) /\ raw \in Seq(Nat) /\ raw # <<>>  BY DEF Stored
<1>2. e \in Seq(Nat) /\ IsPrefix(e, raw) /\ (e = raw \/ IsRolled(e))
  BY <1>1, EntryShape DEF AnEntry
<1>3. e # <<>>
  BY <1>1, <1>2 DEF IsRolled, EndsInSlash
<1> HIDE DEF e
<1>4. e[1] # Slash  BY <1>1, <1>2, <1>3, HeadOfPrefix
<1> QED  BY <1>2, <1>3, <1>4, SlashBack, LocationIsKey DEF e

LEMMA PageIsReadable ==
  ASSUME config \in Configs, Stored, Queried, NEW batch, batch \subseteq Pending
  PROVE  ReadablePage(Page(batch))
<1> SUFFICES ASSUME Regular  PROVE ReadablePage(Page(batch))
  BY DEF ReadablePage
<1>1. Base \in Seq(Nat) /\ query.prefix \in Seq(Nat)
  BY RootProperties DEF Queried
<1>2. Full \in Seq(Nat) /\ IsPrefix(Base, Full)
  BY <1>1, PrefixOfConcat DEF Full, BackendKey
<1>3. ASSUME NEW e \in batch
      PROVE  \E raw \in objects : raw \in Seq(Nat) /\ IsPrefix(Full, raw) /\ e = Entry(raw)
  BY <1>3 DEF Pending, IsPending, Stored
<1>8. ASSUME NEW e \in batch
      PROVE  /\ ~EndsInSlash(e) => Location(e) = e
             /\ EndsInSlash(e) => Append(Location(e), Slash) = e
  BY <1>2, <1>3, EntryPaths
<1>4. ASSUME NEW e \in batch
      PROVE  BackendKey(ClientKey(e)) = e
  <2>1. PICK raw \in objects : raw \in Seq(Nat) /\ IsPrefix(Full, raw) /\ e = Entry(raw)
    BY <1>3
  <2>2. e \in Seq(Nat) /\ IsPrefix(Full, e)  BY <1>2, <2>1, EntryProperties
  <2>3. IsPrefix(Base, e)  BY <1>1, <1>2, <2>2, PrefixTransitive
  <2> QED  BY <2>2, <2>3, RoundTrip
<1> DEFINE folders == {Location(f) : f \in Rolled(batch)}
           shown == {f \in Keyed(batch) : ~IsDirectoryMarker(f, folders)}
<1>5. ASSUME NEW e \in shown
      PROVE  \/ PathKey(ClientKey(Location(e))) = e
             \/ EndsInSlash(e) /\ ~query.delimited
  <2>1. e \in batch /\ ~IsRolled(e) /\ ~IsDirectoryMarker(e, folders)
    BY DEF Keyed
  <2>2. CASE ~EndsInSlash(e)
    BY <2>1, <2>2, <1>4, <1>8 DEF PathKey
  <2>3. CASE EndsInSlash(e) /\ query.delimited
    <3>1. PICK raw \in objects : raw \in Seq(Nat) /\ IsPrefix(Full, raw) /\ e = Entry(raw)
      BY <1>3, <2>1
    <3> QED  BY <1>2, <2>1, <2>3, <3>1, MarkerIsFiltered
  <2>4. CASE EndsInSlash(e) /\ ~query.delimited
    BY <2>4
  <2> QED  BY <2>2, <2>3, <2>4
<1>6. \A e \in Rolled(batch) : BackendKey(ClientKey(Append(Location(e), Slash))) = e
  BY <1>4, <1>8 DEF Rolled, IsRolled
<1>7. /\ Page(batch).contents = {[raw |-> e, key |-> ClientKey(Location(e))] : e \in shown}
      /\ Page(batch).prefixes = {[raw |-> e, key |-> ClientKey(Append(Location(e), Slash))] :
                                   e \in Rolled(batch)}
  BY DEF Page
<1> HIDE DEF shown, folders
<1> QED  BY <1>5, <1>6, <1>7 DEF ReadablePage

-----------------------------------------------------------------------------
(* The steps                                                               *)

LEMMA InitListInv == Init => ListInv
<1> SUFFICES ASSUME Init  PROVE ListInv  OBVIOUS
<1>1. config \in Configs /\ pages = <<>> /\ query = NoQuery  BY DEF Init
<1>2. Stored
  <2>1. PICK others \in SUBSET Foreign :
          objects = {PathKey(f) : f \in held} \union others
    BY DEF Init
  <2>2. \A o \in objects : EndsInSlash(o) => o \in empties  BY DEF Init
  <2>3. \A f \in held : /\ PathKey(f) \in Seq(Nat) /\ PathKey(f) # <<>>
                        /\ Regular => Segmented(PathKey(f))
    BY <1>1, KeyPlaces DEF Init
  <2>4. \A o \in others : o \in Seq(Nat) /\ o # <<>> /\ Segmented(o)
    BY ListingAssumption DEF Segmented
  <2> QED  BY <2>1, <2>2, <2>3, <2>4 DEF Stored
<1>3. Queried
  BY <1>1, EmptySeq DEF Queried, NoQuery
<1> QED  BY <1>1, <1>2, <1>3 DEF ListInv

\* The places where a file is written: one place under a regular setting.
Places(f) == {PathKey(f), UploadKey(f), BackendKey(f)}

LEMMA PlacesOfFile ==
  ASSUME config \in Configs, NEW f \in Files, NEW raw \in Places(f)
  PROVE  /\ raw \in Seq(Nat) /\ raw # <<>>
         /\ Regular => /\ raw = BackendKey(f) /\ raw = PathKey(f)
                       /\ Segmented(raw) /\ ~EndsInSlash(raw)
BY KeyPlaces DEF Places

LEMMA SameSettings ==
  ASSUME config' = config
  PROVE  /\ Root' = Root /\ Base' = Base /\ (Regular' <=> Regular)
         /\ \A f : BackendKey(f)' = BackendKey(f) /\ PathKey(f)' = PathKey(f)
<1>1. Root' = Root /\ Base' = Base  BY DEF Root, Base
<1>2. Regular' <=> Regular  BY <1>1 DEF Regular
<1>3. \A f : BackendKey(f)' = BackendKey(f)  BY <1>1 DEF BackendKey
<1>4. \A f : PathKey(f)' = PathKey(f)  BY <1>3 DEF PathKey
<1> QED  BY <1>1, <1>2, <1>3, <1>4

LEMMA ReadableStays ==
  ASSUME config' = config, query'.delimited = query.delimited
  PROVE  \A page : ReadablePage(page)' <=> ReadablePage(page)
BY SameSettings DEF ReadablePage

LEMMA WriteKeeps ==
  ASSUME ListInv, NEW f \in Files, NEW data \in BOOLEAN, NEW raw \in Places(f),
         Write(raw, f, data)
  PROVE  ListInv'
<1>1. /\ raw \in Seq(Nat) /\ raw # <<>>
      /\ Regular => Segmented(raw) /\ ~EndsInSlash(raw)
  BY PlacesOfFile DEF ListInv
<1>2. config' = config /\ query' = query /\ phase' = phase /\ pages' = pages
  BY DEF Write
<1>3. Stored'
  <2>1. SUFFICES ASSUME NEW o \in objects'
        PROVE  /\ o \in Seq(Nat) /\ o # <<>>
               /\ Regular => Segmented(o) /\ (EndsInSlash(o) => o \in empties')
    BY <1>2, SameSettings DEF Stored
  <2>2. CASE o = raw
    BY <1>1, <2>2
  <2>3. CASE o # raw
    BY <2>3 DEF Write, ListInv, Stored
  <2> QED  BY <2>2, <2>3
<1>4. \A i \in DOMAIN pages' : ReadablePage(pages[i])'
  BY <1>2, ReadableStays DEF ListInv
<1> QED  BY <1>2, <1>3, <1>4 DEF ListInv, Queried

LEMMA EraseKeeps ==
  ASSUME ListInv, NEW f, NEW raw, Erase(raw, f)
  PROVE  ListInv'
<1>1. config' = config /\ query' = query /\ phase' = phase /\ pages' = pages
  BY DEF Erase
<1>2. Stored'
  <2>1. SUFFICES ASSUME NEW o \in objects'
        PROVE  /\ o \in Seq(Nat) /\ o # <<>>
               /\ Regular => Segmented(o) /\ (EndsInSlash(o) => o \in empties')
    BY <1>1, SameSettings DEF Stored
  <2> QED  BY DEF Erase, ListInv, Stored
<1>3. \A i \in DOMAIN pages' : ReadablePage(pages[i])'
  BY <1>1, ReadableStays DEF ListInv
<1> QED  BY <1>1, <1>2, <1>3 DEF ListInv, Queried

LEMMA ListKeeps ==
  ASSUME ListInv, List
  PROVE  ListInv'
<1> DEFINE batch == First(Pending, query.limit)
<1>1. /\ phase = "listing"
      /\ pages' = Append(pages, Page(batch))
      /\ Continue(batch, batch # Pending)
      /\ UNCHANGED <<config, objects, empties>>
  BY DEF List, bucket
<1>2. ReadablePage(Page(batch))
  BY PageIsReadable DEF ListInv, First
<1> HIDE DEF batch
<1>3. /\ Queried' /\ query'.delimited = query.delimited
      /\ phase' \in {"listing", "ended", "stuck"}
  BY <1>1 DEF Continue, Queried, ListInv
<1>4. Stored'  BY <1>1, SameSettings DEF Stored, ListInv
<1>5. PICK S : pages \in Seq(S)  BY DEF ListInv
<1>6. /\ pages' \in Seq(S \union {Page(batch)})
      /\ \A i \in DOMAIN pages' :
            (i \in DOMAIN pages /\ pages'[i] = pages[i]) \/ pages'[i] = Page(batch)
  BY <1>1, <1>5, AppendedPage
<1>7. ASSUME NEW i \in DOMAIN pages'  PROVE ReadablePage(pages[i])'
  <2>1. ReadablePage(pages'[i])
    BY <1>2, <1>6 DEF ListInv
  <2> QED  BY <1>1, <1>3, <2>1, ReadableStays
<1>8. \E T : pages' \in Seq(T)  BY <1>6
<1> QED  BY <1>1, <1>3, <1>4, <1>7, <1>8 DEF ListInv

LEMMA NextListInv == ListInv /\ [Next]_vars => ListInv'
<1> SUFFICES ASSUME ListInv, [Next]_vars  PROVE ListInv'  OBVIOUS
<1>1. CASE \E f \in Files, data \in BOOLEAN : Put(f, data) \/ Upload(f, data)
  BY <1>1, WriteKeeps DEF Put, Upload, Places
<1>3. CASE \E f \in Files : Delete(f) \/ DeleteBatch(f)
  BY <1>3, EraseKeeps DEF Delete, DeleteBatch
<1>4. CASE \E q \in Request : StartListing(q)
  <2>1. PICK q \in Request : StartListing(q)  BY <1>4
  <2>2. Queried'
    BY <2>1, ListingAssumption DEF StartListing, Request, Queried
  <2>3. pages' = <<>>  BY <2>1 DEF StartListing, ListInv
  <2>4. DOMAIN pages' = {}  BY <2>3
  <2>5. config' = config /\ objects' = objects /\ empties' = empties /\ config \in Configs
    BY <2>1 DEF StartListing, bucket, ListInv
  <2>6. Stored'  BY <2>5, SameSettings DEF Stored, ListInv
  <2> QED  BY <2>2, <2>3, <2>4, <2>5, <2>6, EmptySeq DEF ListInv
<1>5. CASE List
  BY <1>5, ListKeeps
<1>6. CASE Leave
  <2>1. pages' = <<>> /\ DOMAIN pages' = {}  BY <1>6 DEF Leave
  <2>2. Queried'  BY <1>6, EmptySeq DEF Leave, NoQuery, Queried, ListInv
  <2>3. config' = config /\ objects' = objects /\ empties' = empties /\ config \in Configs
    BY <1>6 DEF Leave, bucket, ListInv
  <2>4. Stored'  BY <2>3, SameSettings DEF Stored, ListInv
  <2> QED  BY <2>1, <2>2, <2>3, <2>4, EmptySeq DEF ListInv
<1>7. CASE UNCHANGED vars
  <2>1. /\ config' = config /\ objects' = objects /\ empties' = empties
        /\ query' = query /\ phase' = phase /\ pages' = pages
    BY <1>7 DEF vars
  <2>2. Stored'  BY <2>1, SameSettings DEF Stored, ListInv
  <2>3. \A i \in DOMAIN pages' : ReadablePage(pages[i])'
    BY <2>1, ReadableStays DEF ListInv
  <2> QED  BY <2>1, <2>2, <2>3 DEF ListInv, Queried
<1> QED  BY <1>1, <1>3, <1>4, <1>5, <1>6, <1>7 DEF Next

\* The invariant holds in every state, for any settings, keys and queries.
THEOREM ListingInductive == Spec => []ListInv
<1>1. Init => ListInv  BY InitListInv
<1>2. ListInv /\ [Next]_vars => ListInv'  BY NextListInv
<1> QED  BY <1>1, <1>2, PTL DEF Spec

\* Whatever a listing shows can be read under the key that it shows
\* (collect_list_entries, rewrite_key, apply_backend_prefix).
THEOREM ListingReadable == Spec => []ShownIsReadable
<1>1. ListInv => ShownIsReadable  BY ReadablePages DEF ListInv
<1> QED  BY <1>1, ListingInductive, PTL

-----------------------------------------------------------------------------
(* First and last in a finite set of keys                                  *)

LEMMA LeastCount ==
  ASSUME NEW S, S # {}, NEW count \in [S -> Nat]
  PROVE  \E e \in S : \A f \in S : count[e] <= count[f]
<1> DEFINE Counts == {count[e] : e \in S}
<1>1. Counts \subseteq Nat /\ Counts # {}  OBVIOUS
<1>2. PICK n \in Counts : \A i \in Counts : n <= i  BY <1>1, LeastNumber
<1>3. PICK e \in S : n = count[e]  OBVIOUS
<1> QED  BY <1>2, <1>3

LEMMA FirstExists ==
  ASSUME NEW S, IsFiniteSet(S), S \subseteq Seq(Nat), S # {}
  PROVE  \E e \in S : \A f \in S : ~Less(f, e)
<1> DEFINE Before(e) == {f \in S : Less(f, e)}
           count == [e \in S |-> Cardinality(Before(e))]
<1>1. \A e \in S : IsFiniteSet(Before(e)) /\ Cardinality(Before(e)) \in Nat
  BY FS_Subset, FS_CardinalityType
<1>2. count \in [S -> Nat]  BY <1>1
<1>3. PICK e \in S : \A f \in S : count[e] <= count[f]
  <2> HIDE DEF count
  <2> QED  BY <1>2, LeastCount
<1>4. ASSUME NEW f \in S, Less(f, e)  PROVE FALSE
  <2>1. Before(f) \subseteq Before(e)  BY <1>4, LessTransitive
  <2>2. f \in Before(e) /\ f \notin Before(f)  BY <1>4, LessIrreflexive
  <2>3. Cardinality(Before(e)) <= Cardinality(Before(f))  BY <1>3
  <2> HIDE DEF Before
  <2>4. /\ Cardinality(Before(f)) <= Cardinality(Before(e))
        /\ Cardinality(Before(e)) = Cardinality(Before(f)) => Before(e) = Before(f)
    BY <1>1, <2>1, FS_Subset
  <2>5. Cardinality(Before(e)) \in Nat /\ Cardinality(Before(f)) \in Nat
    BY <1>1
  <2> QED  BY <2>2, <2>3, <2>4, <2>5
<1> QED  BY <1>4

LEMMA LatestExists ==
  ASSUME NEW S, IsFiniteSet(S), S \subseteq Seq(Nat), S # {}
  PROVE  Latest(S) \in S /\ \A f \in S : f = Latest(S) \/ Less(f, Latest(S))
<1> DEFINE Behind(e) == {f \in S : Less(e, f)}
           count == [e \in S |-> Cardinality(Behind(e))]
<1>1. \A e \in S : IsFiniteSet(Behind(e)) /\ Cardinality(Behind(e)) \in Nat
  BY FS_Subset, FS_CardinalityType
<1>2. count \in [S -> Nat]  BY <1>1
<1>3. PICK e \in S : \A f \in S : count[e] <= count[f]
  <2> HIDE DEF count
  <2> QED  BY <1>2, LeastCount
<1>4. ASSUME NEW f \in S, Less(e, f)  PROVE FALSE
  <2>1. Behind(f) \subseteq Behind(e)  BY <1>4, LessTransitive
  <2>2. f \in Behind(e) /\ f \notin Behind(f)  BY <1>4, LessIrreflexive
  <2>3. Cardinality(Behind(e)) <= Cardinality(Behind(f))  BY <1>3
  <2> HIDE DEF Behind
  <2>4. /\ Cardinality(Behind(f)) <= Cardinality(Behind(e))
        /\ Cardinality(Behind(e)) = Cardinality(Behind(f)) => Behind(e) = Behind(f)
    BY <1>1, <2>1, FS_Subset
  <2>5. Cardinality(Behind(e)) \in Nat /\ Cardinality(Behind(f)) \in Nat
    BY <1>1
  <2> QED  BY <2>2, <2>3, <2>4, <2>5
<1>5. \A f \in S : f = e \/ Less(f, e)  BY <1>4, LessTotal
<1> QED  BY <1>5 DEF Latest

\* A page of the backend is the beginning of what is pending, and not empty
\* when something is.
LEMMA FirstIsBeginning ==
  ASSUME NEW S, IsFiniteSet(S), S \subseteq Seq(Nat), NEW n \in Nat \ {0}
  PROVE  /\ First(S, n) \subseteq S
         /\ IsFiniteSet(First(S, n))
         /\ \A e \in First(S, n), f \in S \ First(S, n) : Less(e, f)
         /\ S # {} => First(S, n) # {}
<1> DEFINE Before(e) == {f \in S : Less(f, e)}
<1>1. \A e \in S : IsFiniteSet(Before(e)) /\ Cardinality(Before(e)) \in Nat
  BY FS_Subset, FS_CardinalityType
<1>2. First(S, n) = {e \in S : Cardinality(Before(e)) < n}  BY DEF First
<1>3. IsFiniteSet(First(S, n))  BY <1>2, FS_Subset
<1>4. ASSUME NEW e \in First(S, n), NEW f \in S \ First(S, n)
      PROVE  Less(e, f)
  <2>1. SUFFICES ASSUME ~Less(e, f)  PROVE FALSE  OBVIOUS
  <2>2. e \in S /\ e # f  BY <1>2
  <2>3. Less(f, e)  BY <2>1, <2>2, LessTotal
  <2>4. Before(f) \subseteq Before(e)  BY <2>2, <2>3, LessTransitive
  <2> HIDE DEF Before
  <2>5. Cardinality(Before(f)) <= Cardinality(Before(e))
    BY <1>1, <2>2, <2>4, FS_Subset
  <2>6. Cardinality(Before(e)) < n /\ ~(Cardinality(Before(f)) < n)
    BY <1>2
  <2> QED  BY <1>1, <2>2, <2>5, <2>6
<1>5. ASSUME S # {}  PROVE First(S, n) # {}
  <2>1. PICK e \in S : \A f \in S : ~Less(f, e)  BY <1>5, FirstExists
  <2>2. Before(e) = {}  BY <2>1
  <2>3. Cardinality(Before(e)) = 0  BY <2>2, FS_EmptySet
  <2> HIDE DEF Before
  <2> QED  BY <1>2, <2>3
<1> QED  BY <1>2, <1>3, <1>4, <1>5

-----------------------------------------------------------------------------
(* Entries and the place of the next page                                  *)

\* After start-after, or a folder that start-after is in.
PastStart(e) ==
    query.start # NoStart =>
        \/ Less(BackendKey(query.start), e)
        \/ IsRolled(e) /\ IsPrefix(e, BackendKey(query.start))

\* No common prefix is the beginning of another entry.
LEMMA RolledIsWhole ==
  ASSUME Full \in Seq(Nat), NEW e \in Seq(Nat), IsRolled(e),
         NEW f, AnEntry(f), IsPrefix(e, f)
  PROVE  e = f
<1>1. f \in Seq(Nat)  BY DEF AnEntry
<1>2. Len(e) \in Nat /\ Len(f) \in Nat /\ Len(Full) \in Nat
  BY <1>1, LenProperties
<1>3. Len(e) <= Len(f) /\ \A i \in 1..Len(e) : e[i] = f[i]
  BY <1>1, PrefixChars
<1>4. query.delimited /\ Len(e) > Len(Full) /\ e[Len(e)] = Slash
  BY DEF IsRolled, EndsInSlash, Last
<1>5. Len(e) \in 1..Len(e) /\ Len(e) \in (Len(Full) + 1)..Len(f)
  BY <1>2, <1>3, <1>4
<1>6. f[Len(e)] = Slash  BY <1>3, <1>4, <1>5
<1>7. Len(e) = Len(f)  BY <1>4, <1>5, <1>6 DEF AnEntry
<1> QED  BY <1>1, <1>3, <1>7, SeqEqual

\* What is pending in a V2 listing is an entry after the token,
LEMMA PendingAfterToken ==
  ASSUME Full \in Seq(Nat), query.v2, query.token # NoToken, AnEntry(query.token),
         NEW raw \in Seq(Nat), IsPending(raw)
  PROVE  Less(query.token, Entry(raw))
<1> DEFINE t == query.token
           e == Entry(raw)
<1>1. /\ IsPrefix(Full, raw) /\ t \in Seq(Nat)
      /\ Less(t, raw) /\ ~(IsRolled(t) /\ IsPrefix(t, raw))
  BY DEF IsPending, AnEntry
<1>2. /\ AnEntry(e) /\ e \in Seq(Nat) /\ IsPrefix(e, raw)
      /\ e = raw \/ IsRolled(e)
  BY <1>1, EntryShape DEF AnEntry
<1> HIDE DEF e
<1>3. SUFFICES ASSUME IsPrefix(e, t)  PROVE FALSE
  BY <1>1, <1>2, LessThanShorter DEF e
<1>4. CASE e = raw
  <2>1. CASE raw = t
    BY <1>1, <2>1, LessIrreflexive
  <2>2. CASE raw # t
    <3>1. Less(raw, t)  BY <1>1, <1>3, <1>4, <2>2, PrefixIsLess
    <3>2. Less(t, t)  BY <1>1, <3>1, LessTransitive
    <3> QED  BY <1>1, <3>2, LessIrreflexive
  <2> QED  BY <2>1, <2>2
<1>5. CASE IsRolled(e)
  <2>1. e = t  BY <1>2, <1>3, <1>5, RolledIsWhole
  <2> QED  BY <1>1, <1>2, <1>5, <2>1
<1> QED  BY <1>2, <1>4, <1>5

\* and after start-after.
LEMMA PendingPastStart ==
  ASSUME config \in Configs, Queried, query.v2, query.start # NoStart,
         query.token # NoToken => AnEntry(query.token) /\ PastStart(query.token),
         NEW raw \in Seq(Nat), IsPending(raw)
  PROVE  Less(BackendKey(query.start), raw)
<1> DEFINE s == BackendKey(query.start)
<1>1. query.start \in Seq(Nat)  BY ListingAssumption DEF Queried
<1>2. s \in Seq(Nat)
  BY <1>1, RootProperties, PrefixOfConcat DEF BackendKey
<1>3. CASE query.token = NoToken
  <2>1. After = query.start /\ Offset = s  BY <1>3 DEF After, Offset
  <2>2. Offset # NoStart  BY <1>2, <2>1, ListingAssumption
  <2> QED  BY <1>3, <2>1, <2>2 DEF IsPending
<1>4. CASE query.token # NoToken
  <2> DEFINE t == query.token
  <2>1. /\ t \in Seq(Nat) /\ Less(t, raw) /\ ~(IsRolled(t) /\ IsPrefix(t, raw))
    BY <1>4 DEF IsPending, AnEntry
  <2>2. Less(s, t) \/ (IsRolled(t) /\ IsPrefix(t, s))
    BY <1>4 DEF PastStart
  <2> HIDE DEF s, t
  <2>3. CASE Less(s, t)
    BY <1>2, <2>1, <2>3, LessTransitive DEF s
  <2>4. CASE IsRolled(t) /\ IsPrefix(t, s)
    BY <1>2, <2>1, <2>4, LongerIsLess DEF s
  <2> QED  BY <2>2, <2>3, <2>4
<1> QED  BY <1>3, <1>4

LEMMA EntryPastStart ==
  ASSUME config \in Configs, Queried, Full \in Seq(Nat), NEW raw \in Seq(Nat),
         IsPrefix(Full, raw),
         query.start # NoStart => Less(BackendKey(query.start), raw)
  PROVE  PastStart(Entry(raw))
<1>1. SUFFICES ASSUME query.start # NoStart  PROVE PastStart(Entry(raw))
  BY DEF PastStart
<1>2. query.start \in Seq(Nat) /\ BackendKey(query.start) \in Seq(Nat)
  BY <1>1, ListingAssumption, RootProperties, PrefixOfConcat DEF Queried, BackendKey
<1>3. /\ Entry(raw) \in Seq(Nat) /\ IsPrefix(Entry(raw), raw)
      /\ Entry(raw) = raw \/ IsRolled(Entry(raw))
  BY EntryShape DEF AnEntry
<1>4. Less(BackendKey(query.start), Entry(raw)) \/ IsPrefix(Entry(raw), BackendKey(query.start))
  BY <1>1, <1>2, <1>3, LessThanShorter
<1> QED  BY <1>1, <1>3, <1>4 DEF PastStart

-----------------------------------------------------------------------------
(* The invariant of paging                                                 *)

\* The keys of the backend behind what a page shows.
Raws(page) == {c.raw : c \in page.contents \union page.prefixes}

\* The bucket is finite, and under a regular setting files are where the
\* clients left them.
StockInv ==
    /\ IsFiniteSet(objects) /\ empties \subseteq objects
    /\ held \subseteq Files /\ steady \subseteq held
    /\ Regular => \A f \in held : BackendKey(f) \in objects

\* The client, and its token or marker.
ClientInv ==
    /\ phase \in {"idle", "listing", "ended", "stuck"}
    /\ phase = "stuck" => ~query.v2 /\ query.delimited
    /\ Len(pages) <= MaxPages
    /\ writes \in 0..MaxWrites
    /\ query.token # NoToken => pages # <<>> /\ query.token \in Seq(Nat)

\* The token of a V2 listing is an entry, and the last one that was shown.
TokenInv ==
    query.v2 =>
        /\ query.token # NoToken => AnEntry(query.token) /\ PastStart(query.token)
        /\ phase = "listing" =>
              IF query.token = NoToken THEN pages = <<>>
              ELSE \A i \in DOMAIN pages : \A raw \in Raws(pages[i]) :
                      raw = query.token \/ Less(raw, query.token)

AskedPage(page) ==
    \A c \in page.contents : Regular /\ ~EndsInSlash(c.raw) =>
        /\ IsPrefix(query.prefix, c.key)
        /\ (query.v2 /\ query.start # NoStart) => Less(query.start, c.key)

\* What was shown: keys under the prefix, after start-after, and none twice.
PagesInv ==
    /\ \A i \in DOMAIN pages :
          Raws(pages[i]) \subseteq Seq(Nat) /\ AskedPage(pages[i])
    /\ query.v2 =>
          \A i, j \in DOMAIN pages :
             i # j => Raws(pages[i]) \intersect Raws(pages[j]) = {}

\* A key that was there all along is still to come, or its turn has been.
Accounted(f) == IsShown(f) \/ TakenForMarker(f)

AskedInv ==
    Regular /\ query.v2 =>
        /\ phase = "listing" =>
              \A f \in Asked : IsPending(BackendKey(f)) \/ Accounted(f)
        /\ phase = "ended" => \A f \in Asked : Accounted(f)

PagingInv ==
    ListInv /\ StockInv /\ ClientInv /\ TokenInv /\ PagesInv /\ AskedInv

\* Names that a step leaves alone with the settings and the query.
LEMMA SameNames ==
  ASSUME config' = config, query'.v2 = query.v2, query'.prefix = query.prefix,
         query'.delimited = query.delimited, query'.start = query.start
  PROVE  /\ Base' = Base /\ Root' = Root /\ Full' = Full /\ (Regular' <=> Regular)
         /\ \A f : BackendKey(f)' = BackendKey(f) /\ PathKey(f)' = PathKey(f)
         /\ \A e : IsRolled(e)' <=> IsRolled(e)
         /\ \A e : AnEntry(e)' <=> AnEntry(e)
         /\ \A e : PastStart(e)' <=> PastStart(e)
         /\ \A page : AskedPage(page)' <=> AskedPage(page)
<1>1. Base' = Base /\ Root' = Root /\ Full' = Full /\ (Regular' <=> Regular)
  BY SameSettings DEF Full, BackendKey
<1>2. \A f : BackendKey(f)' = BackendKey(f) /\ PathKey(f)' = PathKey(f)
  BY SameSettings
<1>3. \A e : IsRolled(e)' <=> IsRolled(e)  BY <1>1 DEF IsRolled
<1>4. \A e : AnEntry(e)' <=> AnEntry(e)  BY <1>1 DEF AnEntry
<1>5. \A e : PastStart(e)' <=> PastStart(e)  BY <1>2, <1>3 DEF PastStart
<1>6. \A page : AskedPage(page)' <=> AskedPage(page)  BY <1>1 DEF AskedPage
<1> QED  BY <1>1, <1>2, <1>3, <1>4, <1>5, <1>6

LEMMA BackendKeyInjective ==
  ASSUME config \in Configs, NEW f \in Seq(Nat), NEW g \in Seq(Nat),
         BackendKey(f) = BackendKey(g)
  PROVE  f = g
BY RoundTrip

LEMMA FilesAreKeys ==
  \A f \in Files : f \in Seq(Nat) /\ Segmented(f) /\ ~EndsInSlash(f) /\ f # <<>>
BY ListingAssumption DEF Segmented

-----------------------------------------------------------------------------
(* The bucket between two pages                                            *)

LEMMA ViewStays ==
  ASSUME TokenInv, PagesInv, UNCHANGED <<config, query, phase, pages>>
  PROVE  TokenInv' /\ PagesInv'
<1>1. /\ \A e : AnEntry(e)' <=> AnEntry(e)
      /\ \A e : PastStart(e)' <=> PastStart(e)
      /\ \A page : AskedPage(page)' <=> AskedPage(page)
  BY SameNames
<1>2. TokenInv'  BY <1>1 DEF TokenInv, Raws
<1>3. PagesInv'  BY <1>1 DEF PagesInv, Raws
<1> QED  BY <1>2, <1>3

\* What a client waits for is not touched by what others write or delete.
LEMMA AskedStays ==
  ASSUME PagingInv, UNCHANGED <<config, query, phase, pages>>,
         steady' \subseteq steady,
         Regular => \A g \in steady' : PathKey(g) \in empties => PathKey(g) \in empties'
  PROVE  AskedInv'
<1>1. (Regular' <=> Regular)
      /\ \A g : BackendKey(g)' = BackendKey(g) /\ PathKey(g)' = PathKey(g)
  BY SameNames
<1>2. \A g \in Asked' : g \in Asked /\ g \in steady'
  BY DEF Asked
<1>3. ASSUME Regular, NEW g \in Asked', Accounted(g)  PROVE Accounted(g)'
  <2>1. PathKey(g) \in empties => PathKey(g)' \in empties'
    BY <1>1, <1>2, <1>3
  <2>2. AllContents' = AllContents /\ AllPrefixes' = AllPrefixes
    BY DEF AllContents, AllPrefixes
  <2> QED  BY <1>3, <2>1, <2>2 DEF Accounted, IsShown, TakenForMarker
<1>4. ASSUME NEW g \in Asked', IsPending(BackendKey(g))
      PROVE  IsPending(BackendKey(g))'
  <2>1. IsPending(BackendKey(g))' <=> IsPending(BackendKey(g))
    BY <1>1 DEF IsPending, Full, BackendKey, Base, Root, Offset, After, IsRolled
  <2> QED  BY <1>4, <2>1
<1> QED  BY <1>1, <1>2, <1>3, <1>4 DEF PagingInv, AskedInv

\* A write of one file, or its deletion, is none of another's business.
LEMMA OthersStay ==
  ASSUME PagingInv, NEW f \in Files, NEW place \in Places(f),
         UNCHANGED <<config, query, phase, pages>>, steady' = steady \ {f},
         \A raw : raw # place => (raw \in empties' <=> raw \in empties)
  PROVE  AskedInv'
<1>1. config \in Configs /\ steady \subseteq Files
  BY DEF PagingInv, ListInv, StockInv
<1>2. \A g \in steady' : g \in Files /\ g # f
  BY <1>1
<1>3. ASSUME Regular, NEW g \in steady'  PROVE PathKey(g) # place
  <2>1. PathKey(g) = BackendKey(g) /\ place = BackendKey(f)
    BY <1>1, <1>2, <1>3, KeyPlaces, PlacesOfFile
  <2>2. BackendKey(g) # BackendKey(f)
    BY <1>1, <1>2, FilesAreKeys, BackendKeyInjective
  <2> QED  BY <2>1, <2>2
<1> QED  BY <1>3, AskedStays

LEMMA WriteKeepsPaging ==
  ASSUME PagingInv, NEW f \in Files, NEW data \in BOOLEAN, NEW raw \in Places(f),
         Write(raw, f, data)
  PROVE  PagingInv'
<1>1. ListInv'  BY WriteKeeps DEF PagingInv
<1>2. UNCHANGED <<config, query, phase, pages>>  BY DEF Write
<1>3. TokenInv' /\ PagesInv'  BY <1>2, ViewStays DEF PagingInv
<1>4. AskedInv'  BY <1>2, OthersStay DEF Write
<1>5. StockInv'
  <2>1. (Regular' <=> Regular) /\ \A g : BackendKey(g)' = BackendKey(g)
    BY <1>2, SameNames
  <2>2. IsFiniteSet(objects')
    BY FS_AddElement DEF PagingInv, StockInv, Write
  <2>3. Regular => raw = BackendKey(f)
    BY PlacesOfFile DEF PagingInv, ListInv
  <2> QED  BY <2>1, <2>2, <2>3 DEF PagingInv, StockInv, Write
<1>6. ClientInv'
  BY <1>2, ListingAssumption DEF PagingInv, ClientInv, Write
<1> QED  BY <1>1, <1>3, <1>4, <1>5, <1>6 DEF PagingInv

LEMMA EraseKeepsPaging ==
  ASSUME PagingInv, NEW f \in Files, NEW raw \in Places(f), Erase(raw, f)
  PROVE  PagingInv'
<1>0. ListInv'  BY EraseKeeps DEF PagingInv
<1>1. UNCHANGED <<config, query, phase, pages>>  BY DEF Erase
<1>2. TokenInv' /\ PagesInv'  BY <1>1, ViewStays DEF PagingInv
<1>3. AskedInv'  BY <1>1, OthersStay DEF Erase
<1>4. StockInv'
  <2>1. (Regular' <=> Regular) /\ \A g : BackendKey(g)' = BackendKey(g)
    BY <1>1, SameNames
  <2>2. IsFiniteSet(objects')
    BY FS_RemoveElement DEF PagingInv, StockInv, Erase
  <2>3. \A g \in held' : BackendKey(g) # BackendKey(f)
    BY FilesAreKeys, BackendKeyInjective DEF PagingInv, ListInv, StockInv, Erase
  <2>4. Regular => raw = BackendKey(f)
    BY PlacesOfFile DEF PagingInv, ListInv
  <2> QED  BY <2>1, <2>2, <2>3, <2>4 DEF PagingInv, StockInv, Erase
<1>5. ClientInv'
  BY <1>1, ListingAssumption DEF PagingInv, ClientInv, Erase
<1> QED  BY <1>0, <1>2, <1>3, <1>4, <1>5 DEF PagingInv

-----------------------------------------------------------------------------
(* The first page, and the end of a listing                                *)

AtFirstPage ==
    /\ config \in Configs /\ Queried /\ query.token = NoToken
    /\ steady \subseteq Files

\* Everything that was asked for is still to come.
LEMMA AllToCome ==
  AtFirstPage => \A f \in Asked : IsPending(BackendKey(f))
<1> SUFFICES ASSUME AtFirstPage, NEW f \in Asked  PROVE IsPending(BackendKey(f))
  OBVIOUS
<1>1. /\ f \in Seq(Nat) /\ query.prefix \in Seq(Nat) /\ Base \in Seq(Nat)
      /\ IsPrefix(query.prefix, f)
  BY FilesAreKeys, RootProperties DEF AtFirstPage, Asked, Queried
<1>2. IsPrefix(Full, BackendKey(f))
  BY <1>1, CommonPrefix DEF Full, BackendKey
<1>3. Offset = NoStart \/ Less(Offset, BackendKey(f))
  <2>1. After = query.start  BY DEF AtFirstPage, After
  <2>2. CASE query.start = NoStart
    BY <2>1, <2>2 DEF Offset
  <2>3. CASE query.start # NoStart
    <3>1. query.start \in Seq(Nat) /\ Less(query.start, f)
      BY <2>3, ListingAssumption DEF AtFirstPage, Queried, Asked
    <3>2. Less(BackendKey(query.start), BackendKey(f))
      BY <1>1, <3>1, CommonPrefix DEF BackendKey
    <3> QED  BY <2>1, <2>3, <3>2 DEF Offset
  <2> QED  BY <2>2, <2>3
<1> QED  BY <1>2, <1>3 DEF IsPending, AtFirstPage

LEMMA StartKeepsPaging ==
  ASSUME PagingInv, ListInv', NEW q \in Request, StartListing(q)
  PROVE  PagingInv'
<1>1. /\ pages' = <<>> /\ pages = <<>> /\ DOMAIN pages' = {} /\ query' = q
      /\ query'.token = NoToken /\ phase' = "listing" /\ steady' = held
      /\ UNCHANGED <<config, objects, empties, held, writes>>
  BY DEF StartListing, Request, bucket, PagingInv, ListInv
<1>2. StockInv'
  BY <1>1, SameSettings DEF PagingInv, StockInv
<1>3. ClientInv'
  BY <1>1 DEF PagingInv, ClientInv
<1>4. TokenInv' /\ PagesInv'
  BY <1>1 DEF TokenInv, PagesInv
<1>5. AskedInv'
  <2>1. AtFirstPage'
    BY <1>1, <1>2 DEF AtFirstPage, ListInv, StockInv
  <2>2. AtFirstPage' => (\A f \in Asked : IsPending(BackendKey(f)))'
    BY AllToCome, PTL
  <2> QED  BY <1>1, <2>1, <2>2 DEF AskedInv
<1> QED  BY <1>2, <1>3, <1>4, <1>5 DEF PagingInv

LEMMA LeaveKeepsPaging ==
  ASSUME PagingInv, ListInv', Leave
  PROVE  PagingInv'
<1>1. /\ pages' = <<>> /\ DOMAIN pages' = {} /\ Len(pages') = 0
      /\ query'.token = NoToken /\ phase' = "idle" /\ steady' = {}
      /\ UNCHANGED <<config, objects, empties, held, writes>>
  BY EmptySeq DEF Leave, NoQuery, bucket
<1>2. StockInv'
  BY <1>1, SameSettings DEF PagingInv, StockInv
<1>3. ClientInv'
  BY <1>1, ListingAssumption DEF ClientInv, PagingInv
<1>4. TokenInv' /\ PagesInv' /\ AskedInv'
  BY <1>1 DEF TokenInv, PagesInv, AskedInv
<1> QED  BY <1>2, <1>3, <1>4 DEF PagingInv

LEMMA InitPaging ==
  Init => PagingInv
<1> SUFFICES ASSUME Init  PROVE PagingInv  OBVIOUS
<1>1. ListInv  BY InitListInv
<1>2. StockInv
  <2>1. PICK others \in SUBSET Foreign :
          IsFiniteSet(others) /\ objects = {PathKey(f) : f \in held} \union others
    BY DEF Init
  <2>2. /\ held \subseteq Files /\ IsFiniteSet(held) /\ steady = {}
        /\ config \in Configs
    BY DEF Init
  <2> DEFINE own == {PathKey(f) : f \in held}
             h == [f \in held |-> PathKey(f)]
  <2>3. h \in Surjection(held, own)  BY DEF Surjection
  <2>4. IsFiniteSet(own)  BY <2>2, <2>3, FS_Surjection
  <2>5. IsFiniteSet(objects)  BY <2>1, <2>4, FS_Union
  <2>6. empties \subseteq objects  BY <2>1 DEF Init
  <2>7. Regular => \A f \in held : BackendKey(f) \in objects
    BY <2>1, <2>2, KeyPlaces
  <2> QED  BY <2>1, <2>2, <2>5, <2>6, <2>7 DEF StockInv
<1>3. /\ pages = <<>> /\ DOMAIN pages = {} /\ Len(pages) = 0
      /\ query.token = NoToken /\ phase = "idle" /\ writes = 0
  BY EmptySeq DEF Init, NoQuery
<1>4. ClientInv  BY <1>3, ListingAssumption DEF ClientInv
<1>5. TokenInv /\ PagesInv /\ AskedInv
  BY <1>3 DEF TokenInv, PagesInv, AskedInv
<1> QED  BY <1>1, <1>2, <1>4, <1>5 DEF PagingInv

-----------------------------------------------------------------------------
(* One page, and what becomes of a key on it                               *)

LEMMA TrimmedUnique ==
  ASSUME NEW s \in Seq(Nat), NEW n \in 0..Len(s), TrimmedAt(s, n)
  PROVE  Trimmed(s) = SubSeq(s, 1, n)
<1>1. PICK k \in 0..Len(s) : TrimmedAt(s, k) /\ Trimmed(s) = SubSeq(s, 1, k)
  BY TrimmedIsCut
<1>2. Len(s) \in Nat  BY LenProperties
<1>3. ASSUME NEW i \in 0..Len(s), NEW j \in 0..Len(s), i < j,
             TrimmedAt(s, i), TrimmedAt(s, j)
      PROVE  FALSE
  <2>1. j \in (i + 1)..Len(s) /\ j # 0  BY <1>2, <1>3
  <2> QED  BY <1>3, <2>1 DEF TrimmedAt
<1>4. k = n  BY <1>1, <1>2, <1>3
<1> QED  BY <1>1, <1>4

\* A root before a prefix does not change what is trimmed behind it.
LEMMA TrimmedBehind ==
  ASSUME NEW b \in Seq(Nat), NEW p \in Seq(Nat), NEW f \in Seq(Nat), f # <<>>,
         b \o f = Trimmed(b \o p)
  PROVE  f = Trimmed(p)
<1> DEFINE u == b \o p
           v == b \o f
           k == Len(b)
           m == Len(f)
<1>1. /\ k \in Nat /\ m \in Nat /\ m >= 1 /\ Len(p) \in Nat
      /\ u \in Seq(Nat) /\ Len(u) = k + Len(p)
      /\ v \in Seq(Nat) /\ Len(v) = k + m
      /\ \A i \in 1..Len(p) : u[k + i] = p[i]
      /\ \A i \in 1..m : v[k + i] = f[i]
  <2>1. m # 0  BY EmptySeq
  <2>2. /\ k \in Nat /\ m \in Nat /\ Len(p) \in Nat
        /\ u \in Seq(Nat) /\ Len(u) = k + Len(p)
        /\ v \in Seq(Nat) /\ Len(v) = k + m
    BY LenProperties, ConcatProperties
  <2>3. \A i \in 1..Len(p) : u[k + i] = p[i]
    BY LenProperties, ConcatProperties
  <2>4. \A i \in 1..m : v[k + i] = f[i]
    BY LenProperties, ConcatProperties
  <2> HIDE DEF u, v, k, m
  <2>5. m >= 1  BY <2>1, <2>2
  <2> QED  BY <2>2, <2>3, <2>4, <2>5
<1>2. v = Trimmed(u)  OBVIOUS
<1>3. /\ \A i \in 1..Len(u) : u[i] \in Nat
      /\ \A i \in 1..Len(p) : p[i] \in Nat
  BY <1>1, ElementOfSeq
<1> HIDE DEF u, v, k, m
<1>4. PICK n \in 0..Len(u) : TrimmedAt(u, n) /\ Trimmed(u) = SubSeq(u, 1, n)
  BY <1>1, TrimmedIsCut
<1>5. Len(SubSeq(u, 1, n)) = n /\ \A i \in 1..n : SubSeq(u, 1, n)[i] = u[i]
  BY <1>1, Beginning
<1>6. n = k + m /\ m <= Len(p) /\ m \in 0..Len(p)
  BY <1>1, <1>2, <1>4, <1>5
<1>7. TrimmedAt(p, m)
  <2>1. p[m] # Slash
    <3>1. n # 0 /\ u[n] # Slash  BY <1>1, <1>4, <1>6 DEF TrimmedAt
    <3>2. m \in 1..Len(p)  BY <1>1, <1>6
    <3> QED  BY <1>1, <1>6, <3>1, <3>2
  <2>2. ASSUME NEW i \in (m + 1)..Len(p)  PROVE p[i] = Slash
    <3>1. k + i \in (n + 1)..Len(u) /\ i \in 1..Len(p)  BY <1>1, <1>6
    <3>2. u[k + i] = Slash  BY <1>4, <3>1 DEF TrimmedAt
    <3> QED  BY <1>1, <3>1, <3>2
  <2> QED  BY <2>1, <2>2 DEF TrimmedAt
<1>8. Trimmed(p) = SubSeq(p, 1, m)
  BY <1>6, <1>7, TrimmedUnique
<1>9. /\ SubSeq(p, 1, m) \in Seq(Nat) /\ Len(SubSeq(p, 1, m)) = m
      /\ \A i \in 1..m : SubSeq(p, 1, m)[i] = p[i]
  BY <1>1, <1>6, Beginning
<1>10. ASSUME NEW i \in 1..m  PROVE f[i] = p[i]
  <2>1. k + i \in 1..n /\ i \in 1..Len(p)  BY <1>1, <1>6
  <2>2. v[k + i] = u[k + i]  BY <1>2, <1>4, <1>5, <2>1
  <2> QED  BY <1>1, <2>1, <2>2
<1>11. f = SubSeq(p, 1, m)
  BY <1>9, <1>10, SeqEqual DEF m
<1> QED  BY <1>8, <1>11

\* The key of a folder is the key of a file and a slash.
LEMMA FolderKey ==
  ASSUME config \in Configs, NEW f \in Seq(Nat)
  PROVE  ClientKey(Append(BackendKey(f), Slash)) = Append(f, Slash)
<1>1. Base \in Seq(Nat) /\ <<Slash>> \in Seq(Nat) /\ Append(f, Slash) \in Seq(Nat)
  BY RootProperties, ListingAssumption
<1>2. BackendKey(f) \in Seq(Nat)  BY <1>1, PrefixOfConcat DEF BackendKey
<1>3. Append(BackendKey(f), Slash) = BackendKey(f) \o <<Slash>>
  BY <1>2, ListingAssumption, AppendIsConcat
<1>4. Append(f, Slash) = f \o <<Slash>>
  BY ListingAssumption, AppendIsConcat
<1>5. (Base \o f) \o <<Slash>> = Base \o (f \o <<Slash>>)
  BY <1>1, ConcatAssociative
<1>6. Append(BackendKey(f), Slash) = BackendKey(Append(f, Slash))
  BY <1>3, <1>4, <1>5 DEF BackendKey
<1> QED  BY <1>1, <1>6, RoundTrip

LEMMA NoFileIsRoot ==
  ASSUME config \in Configs, NEW f \in Seq(Nat), f # <<>>
  PROVE  BackendKey(f) # Root
<1>1. Len(f) \in Nat /\ Len(f) # 0  BY EmptySeq
<1>2. CASE Root = <<>>
  <2>1. BackendKey(f) = f  BY <1>2, ConcatEmptySeq DEF BackendKey, Base
  <2> QED  BY <1>2, <2>1
<1>3. CASE Root # <<>>
  <2>1. Root \in Seq(Nat) /\ Len(Root) \in Nat  BY RootProperties, LenProperties
  <2>2. Len(Append(Root, Slash) \o f) = Len(Root) + 1 + Len(f)
    BY <2>1, JoinChars, ListingAssumption
  <2>3. BackendKey(f) = Append(Root, Slash) \o f  BY <1>3 DEF BackendKey, Base
  <2> QED  BY <1>1, <2>1, <2>2, <2>3
<1> QED  BY <1>2, <1>3

\* A page of entries that are pending.
Listable(batch) ==
    /\ config \in Configs /\ Stored /\ Queried
    /\ batch \subseteq Pending

LEMMA PendingFacts ==
  ASSUME config \in Configs, Stored, Queried
  PROVE  /\ Full \in Seq(Nat) /\ IsPrefix(Base, Full) /\ Base \in Seq(Nat)
         /\ \A e \in Pending : \E raw \in objects :
               /\ raw \in Seq(Nat) /\ IsPending(raw)
               /\ IsPrefix(Full, raw) /\ e = Entry(raw)
         /\ \A e \in Pending :
               /\ AnEntry(e) /\ e \in Seq(Nat) /\ IsPrefix(Base, e)
               /\ BackendKey(ClientKey(e)) = e /\ ClientKey(e) \in Seq(Nat)
<1>1. Base \in Seq(Nat) /\ query.prefix \in Seq(Nat)
  BY RootProperties DEF Queried
<1>2. Full \in Seq(Nat) /\ IsPrefix(Base, Full)
  BY <1>1, PrefixOfConcat DEF Full, BackendKey
<1>3. ASSUME NEW e \in Pending
      PROVE  \E raw \in objects :
                /\ raw \in Seq(Nat) /\ IsPending(raw)
                /\ IsPrefix(Full, raw) /\ e = Entry(raw)
  BY DEF Pending, IsPending, Stored
<1>4. ASSUME NEW e \in Pending
      PROVE  /\ AnEntry(e) /\ e \in Seq(Nat) /\ IsPrefix(Base, e)
             /\ BackendKey(ClientKey(e)) = e /\ ClientKey(e) \in Seq(Nat)
  <2>1. PICK raw \in objects : raw \in Seq(Nat) /\ IsPrefix(Full, raw) /\ e = Entry(raw)
    BY <1>3
  <2>2. AnEntry(e)  BY <1>2, <2>1, EntryShape
  <2>3. e \in Seq(Nat) /\ IsPrefix(Full, e)  BY <2>2 DEF AnEntry
  <2>4. IsPrefix(Base, e)  BY <1>1, <1>2, <2>3, PrefixTransitive
  <2> QED  BY <2>2, <2>3, <2>4, RoundTrip
<1> QED  BY <1>1, <1>2, <1>3, <1>4

\* Under a regular setting an entry is read as it is, but for its last slash.
LEMMA PendingPaths ==
  ASSUME config \in Configs, Regular, Stored, Queried, NEW e \in Pending
  PROVE  /\ ~EndsInSlash(e) => Location(e) = e
         /\ EndsInSlash(e) => Append(Location(e), Slash) = e
BY PendingFacts, EntryPaths

LEMMA PendingFinite ==
  ASSUME IsFiniteSet(objects)
  PROVE  IsFiniteSet(Pending)
<1> DEFINE raws == {o \in objects : IsPending(o)}
           h == [raw \in raws |-> Entry(raw)]
<1>1. IsFiniteSet(raws)  BY FS_Subset
<1>2. h \in Surjection(raws, Pending)  BY DEF Surjection, Pending
<1> QED  BY <1>1, <1>2, FS_Surjection

LEMMA RawsOfPage ==
  ASSUME NEW batch
  PROVE  Raws(Page(batch)) \subseteq batch
<1> SUFFICES ASSUME NEW c \in Page(batch).contents \union Page(batch).prefixes
             PROVE  c.raw \in batch
  BY DEF Raws
<1>1. CASE c \in Page(batch).contents
  <2>1. PICK e \in Keyed(batch) : c = [raw |-> e, key |-> ClientKey(Location(e))]
    BY <1>1 DEF Page
  <2> QED  BY <2>1 DEF Keyed
<1>2. CASE c \in Page(batch).prefixes
  <2>1. PICK e \in Rolled(batch) :
          c = [raw |-> e, key |-> ClientKey(Append(Location(e), Slash))]
    BY <1>2 DEF Page
  <2> QED  BY <2>1 DEF Rolled
<1> QED  BY <1>1, <1>2

\* What is shown as an object is an object, unless it ends in a slash.
LEMMA KeyedEntries ==
  ASSUME NEW batch, Listable(batch), NEW e \in Keyed(batch)
  PROVE  e \in objects /\ IsPending(e)
<1>1. e \in Pending /\ ~IsRolled(e)  BY DEF Keyed, Listable
<1>2. PICK raw \in objects :
        raw \in Seq(Nat) /\ IsPending(raw) /\ IsPrefix(Full, raw) /\ e = Entry(raw)
  BY <1>1, PendingFacts DEF Listable
<1>3. e = raw  BY <1>1, <1>2, EntryShape, PendingFacts DEF Listable
<1> QED  BY <1>2, <1>3

\* A page shows keys under the prefix and after start-after.
LEMMA PageIsAsked ==
  ASSUME NEW batch, Listable(batch), TokenInv
  PROVE  AskedPage(Page(batch))
<1>1. config \in Configs /\ Stored /\ Queried /\ batch \subseteq Pending
  BY DEF Listable
<1> SUFFICES ASSUME NEW c \in Page(batch).contents, Regular, ~EndsInSlash(c.raw)
             PROVE  /\ IsPrefix(query.prefix, c.key)
                    /\ (query.v2 /\ query.start # NoStart) => Less(query.start, c.key)
  BY DEF AskedPage
<1>2. PICK e \in Keyed(batch) : c = [raw |-> e, key |-> ClientKey(Location(e))]
  BY DEF Page
<1>3. e \in batch /\ e \in Pending /\ Location(e) = e /\ c.key = ClientKey(e)
  <2>1. e \in batch /\ e \in Pending /\ ~EndsInSlash(e)
    BY <1>1, <1>2 DEF Keyed
  <2>2. Location(e) = e  BY <1>1, <2>1, PendingPaths
  <2> QED  BY <1>2, <2>1, <2>2
<1>4. e \in objects /\ IsPending(e)  BY <1>2, KeyedEntries
<1>5. /\ e \in Seq(Nat) /\ BackendKey(c.key) = e /\ c.key \in Seq(Nat)
      /\ Base \in Seq(Nat) /\ query.prefix \in Seq(Nat)
  BY <1>1, <1>3, PendingFacts DEF Queried
<1>6. IsPrefix(query.prefix, c.key)
  <2>1. IsPrefix(Base \o query.prefix, Base \o c.key)
    BY <1>4, <1>5 DEF IsPending, Full, BackendKey
  <2> QED  BY <1>5, <2>1, CommonPrefix
<1>7. ASSUME query.v2, query.start # NoStart
      PROVE  Less(query.start, c.key)
  <2>1. query.start \in Seq(Nat)  BY <1>1, <1>7, ListingAssumption DEF Queried
  <2>2. Less(BackendKey(query.start), e)
    BY <1>1, <1>4, <1>5, <1>7, PendingPastStart DEF TokenInv
  <2>3. Less(Base \o query.start, Base \o c.key)
    BY <1>5, <2>2 DEF BackendKey
  <2> QED  BY <1>5, <2>1, <2>3, CommonPrefix
<1> QED  BY <1>6, <1>7

\* What pending entries are in a V2 listing.
LEMMA PendingPlaces ==
  ASSUME config \in Configs, Stored, Queried, TokenInv, query.v2, NEW e \in Pending
  PROVE  /\ AnEntry(e) /\ PastStart(e)
         /\ query.token # NoToken => Less(query.token, e)
<1>1. Full \in Seq(Nat) /\ AnEntry(e)  BY PendingFacts
<1>2. PICK raw \in objects :
        raw \in Seq(Nat) /\ IsPending(raw) /\ IsPrefix(Full, raw) /\ e = Entry(raw)
  BY PendingFacts
<1>3. query.start # NoStart => Less(BackendKey(query.start), raw)
  BY <1>2, PendingPastStart DEF TokenInv
<1>4. PastStart(e)  BY <1>1, <1>2, <1>3, EntryPastStart
<1>5. query.token # NoToken => Less(query.token, e)
  BY <1>1, <1>2, PendingAfterToken DEF TokenInv
<1> QED  BY <1>1, <1>4, <1>5

\* What a page says of a file whose entry is on it.
AccountedOn(page, f) ==
    \/ \E c \in page.contents : c.key = f
    \/ \E c \in page.prefixes : IsPrefix(c.key, f)
    \/ /\ PathKey(f) \in empties
       /\ \/ \E c \in page.prefixes : c.key = Append(f, Slash)
          \/ f = Trimmed(query.prefix)

LEMMA PageAccounts ==
  ASSUME Regular, NEW batch, Listable(batch), NEW f \in Files,
         IsPrefix(Full, BackendKey(f)), Entry(BackendKey(f)) \in batch
  PROVE  AccountedOn(Page(batch), f)
<1> DEFINE raw == BackendKey(f)
           e == Entry(raw)
           folders == {Location(g) : g \in Rolled(batch)}
<1>1. /\ config \in Configs /\ Stored /\ Queried /\ batch \subseteq Pending
      /\ f \in Seq(Nat) /\ f # <<>> /\ Segmented(f) /\ ~EndsInSlash(f)
  BY FilesAreKeys DEF Listable
<1>2. /\ raw \in Seq(Nat) /\ ~EndsInSlash(raw) /\ PathKey(f) = raw
      /\ Full \in Seq(Nat) /\ Base \in Seq(Nat) /\ query.prefix \in Seq(Nat)
  BY <1>1, KeyPlaces, PendingFacts DEF Queried
<1>3. /\ e \in batch /\ e \in Pending /\ e \in Seq(Nat) /\ IsPrefix(e, raw)
      /\ e = raw \/ IsRolled(e)
      /\ BackendKey(ClientKey(e)) = e /\ ClientKey(e) \in Seq(Nat)
      /\ ~EndsInSlash(e) => Location(e) = e
      /\ EndsInSlash(e) => Append(Location(e), Slash) = e
  BY <1>1, <1>2, EntryShape, PendingFacts, PendingPaths
<1>p. /\ Page(batch).contents = {[raw |-> g, key |-> ClientKey(Location(g))] :
                     g \in {h \in Keyed(batch) : ~IsDirectoryMarker(h, folders)}}
      /\ Page(batch).prefixes = {[raw |-> g, key |-> ClientKey(Append(Location(g), Slash))] :
                                   g \in Rolled(batch)}
  BY DEF Page
<1> HIDE DEF e, folders
<1>4. CASE IsRolled(e)
  <2>1. IsPrefix(Base \o ClientKey(e), Base \o f)
    BY <1>3 DEF BackendKey
  <2>2. IsPrefix(ClientKey(e), f)  BY <1>1, <1>2, <1>3, <2>1, CommonPrefix
  <2>3. [raw |-> e, key |-> ClientKey(e)] \in Page(batch).prefixes
    BY <1>3, <1>4, <1>p DEF Rolled, IsRolled
  <2> QED  BY <2>2, <2>3 DEF AccountedOn
<1>5. CASE ~IsRolled(e) /\ ~IsDirectoryMarker(e, folders)
  <2>1. e = raw /\ Location(e) = raw  BY <1>2, <1>3, <1>5
  <2>2. ClientKey(Location(e)) = f  BY <1>1, <2>1, RoundTrip
  <2>3. [raw |-> e, key |-> ClientKey(Location(e))] \in Page(batch).contents
    BY <1>3, <1>5, <1>p DEF Keyed
  <2> QED  BY <2>2, <2>3 DEF AccountedOn
<1>6. CASE ~IsRolled(e) /\ IsDirectoryMarker(e, folders)
  <2>1. e = raw /\ Location(e) = raw  BY <1>2, <1>3, <1>6
  <2>2. raw \in empties /\ raw \in folders \union {Root, Trimmed(Full)}
    BY <1>6, <2>1 DEF IsDirectoryMarker
  <2>3. CASE raw \in folders
    <3>1. PICK g \in Rolled(batch) : raw = Location(g)
      BY <2>3 DEF folders
    <3>2. g \in Pending /\ EndsInSlash(g)
      BY <1>1, <3>1 DEF Rolled, IsRolled
    <3>3. g = Append(raw, Slash) /\ g = Append(Location(g), Slash)
      BY <1>1, <3>1, <3>2, PendingPaths
    <3>4. ClientKey(g) = Append(f, Slash)  BY <1>1, <3>3, FolderKey
    <3>5. [raw |-> g, key |-> ClientKey(g)] \in Page(batch).prefixes
      BY <3>1, <3>3, <1>p
    <3> QED  BY <1>2, <2>2, <3>4, <3>5 DEF AccountedOn
  <2>4. raw # Root  BY <1>1, NoFileIsRoot
  <2>5. CASE raw = Trimmed(Full)
    <3>1. Base \o f = Trimmed(Base \o query.prefix)
      BY <2>5 DEF Full, BackendKey
    <3>2. f = Trimmed(query.prefix)  BY <1>1, <1>2, <3>1, TrimmedBehind
    <3> QED  BY <1>2, <2>2, <3>2 DEF AccountedOn
  <2> QED  BY <2>2, <2>3, <2>4, <2>5
<1> QED  BY <1>3, <1>4, <1>5, <1>6

\* What a page leaves out is still pending after it.
LEMMA LeftOutStaysPending ==
  ASSUME config \in Configs, Stored, Queried, IsFiniteSet(objects),
         NEW batch, batch = First(Pending, query.limit), NEW raw \in objects,
         IsPending(raw), Entry(raw) \notin batch
  PROVE  /\ batch # {} /\ Latest(batch) \in Pending
         /\ Less(Latest(batch), raw)
         /\ ~(IsRolled(Latest(batch)) /\ IsPrefix(Latest(batch), raw))
<1> DEFINE e == Entry(raw)
           t == Latest(batch)
<1>1. /\ Full \in Seq(Nat) /\ Pending \subseteq Seq(Nat) /\ IsFiniteSet(Pending)
      /\ \A x \in Pending : AnEntry(x)
  BY PendingFacts, PendingFinite
<1>2. query.limit \in Nat \ {0}  BY ListingAssumption DEF Queried
<1>3. /\ raw \in Seq(Nat) /\ IsPrefix(Full, raw) /\ e \in Pending
  BY DEF Stored, IsPending, Pending
<1>4. /\ batch \subseteq Pending /\ IsFiniteSet(batch) /\ batch # {}
      /\ \A x \in batch : Less(x, e)
  BY <1>1, <1>2, <1>3, FirstIsBeginning
<1>5. t \in batch /\ t \in Pending /\ t \in Seq(Nat)
  BY <1>1, <1>4, LatestExists
<1>6. /\ AnEntry(e) /\ e \in Seq(Nat) /\ IsPrefix(e, raw)
  BY <1>1, <1>3, EntryShape DEF AnEntry
<1>7. Less(t, e)  BY <1>4, <1>5
<1> HIDE DEF e, t
<1>8. Less(t, raw)  BY <1>3, <1>5, <1>6, <1>7, LessThanLonger
<1>9. ASSUME IsRolled(t), IsPrefix(t, raw)  PROVE FALSE
  <2>1. CASE IsPrefix(t, e)
    <3>1. t = e  BY <1>1, <1>5, <1>6, <1>9, <2>1, RolledIsWhole
    <3> QED  BY <1>6, <1>7, <3>1, LessIrreflexive
  <2>2. CASE ~IsPrefix(t, e)
    <3>1. Less(raw, e)  BY <1>3, <1>5, <1>6, <1>7, <1>9, <2>2, LongerIsLess
    <3>2. Less(raw, raw)  BY <1>3, <1>6, <3>1, LessThanLonger
    <3> QED  BY <1>3, <3>2, LessIrreflexive
  <2> QED  BY <2>1, <2>2
<1> QED  BY <1>4, <1>5, <1>8, <1>9 DEF t

-----------------------------------------------------------------------------
(* The step to the next page                                               *)

NextBatch == First(Pending, query.limit)

LEMMA ListSteps ==
  ASSUME PagingInv, List
  PROVE  /\ phase = "listing" /\ Len(pages) < MaxPages /\ Len(pages) \in Nat
         /\ Continue(NextBatch, NextBatch # Pending)
         /\ UNCHANGED <<config, objects, empties, held, steady, writes>>
         /\ query'.v2 = query.v2 /\ query'.prefix = query.prefix
         /\ query'.delimited = query.delimited /\ query'.start = query.start
         /\ DOMAIN pages = 1..Len(pages) /\ DOMAIN pages' = 1..(Len(pages) + 1)
         /\ Len(pages') = Len(pages) + 1 /\ pages' # <<>>
         /\ \A i \in DOMAIN pages : pages'[i] = pages[i]
         /\ pages'[Len(pages) + 1] = Page(NextBatch)
<1>1. /\ phase = "listing" /\ Len(pages) < MaxPages
      /\ pages' = Append(pages, Page(NextBatch))
      /\ Continue(NextBatch, NextBatch # Pending)
      /\ UNCHANGED <<config, objects, empties, held, steady, writes>>
  BY DEF List, bucket, NextBatch
<1>2. /\ query'.v2 = query.v2 /\ query'.prefix = query.prefix
      /\ query'.delimited = query.delimited /\ query'.start = query.start
  BY <1>1 DEF Continue, Queried, ListInv, PagingInv
<1>3. PICK S : pages \in Seq(S)  BY DEF ListInv, PagingInv
<1> DEFINE p == Page(NextBatch)
<1> HIDE DEF p
<1>4. pages \in Seq(S \union {p}) /\ p \in S \union {p}  BY <1>3, SeqMonotonic
<1>5. /\ Len(pages) \in Nat /\ DOMAIN pages = 1..Len(pages)
      /\ Append(pages, p) # <<>> /\ Len(Append(pages, p)) = Len(pages) + 1
      /\ \A i \in 1..Len(pages) : Append(pages, p)[i] = pages[i]
      /\ Append(pages, p)[Len(pages) + 1] = p
      /\ Append(pages, p) \in Seq(S \union {p})
  BY <1>4, LenProperties, AppendProperties
<1>6. DOMAIN Append(pages, p) = 1..(Len(pages) + 1)
  BY <1>5, LenProperties
<1> QED  BY <1>1, <1>2, <1>5, <1>6 DEF p

LEMMA BatchFacts ==
  ASSUME PagingInv
  PROVE  /\ Listable(NextBatch) /\ Pending \subseteq Seq(Nat)
         /\ NextBatch \subseteq Pending /\ IsFiniteSet(NextBatch)
         /\ NextBatch # Pending => NextBatch # {}
         /\ NextBatch # {} =>
               /\ Latest(NextBatch) \in NextBatch
               /\ \A e \in NextBatch :
                     e = Latest(NextBatch) \/ Less(e, Latest(NextBatch))
<1>1. config \in Configs /\ Stored /\ Queried /\ IsFiniteSet(objects)
  BY DEF PagingInv, ListInv, StockInv
<1>2. Pending \subseteq Seq(Nat) /\ IsFiniteSet(Pending)
  BY <1>1, PendingFacts, PendingFinite
<1>3. query.limit \in Nat \ {0}  BY <1>1, ListingAssumption DEF Queried
<1>4. /\ NextBatch \subseteq Pending /\ IsFiniteSet(NextBatch)
      /\ Pending # {} => NextBatch # {}
  BY <1>2, <1>3, FirstIsBeginning DEF NextBatch
<1>5. ASSUME NextBatch # {}
      PROVE  /\ Latest(NextBatch) \in NextBatch
             /\ \A e \in NextBatch :
                   e = Latest(NextBatch) \/ Less(e, Latest(NextBatch))
  BY <1>2, <1>4, <1>5, LatestExists
<1> QED  BY <1>1, <1>2, <1>4, <1>5 DEF Listable

\* Where a V2 listing goes on.
LEMMA TokenMoves ==
  ASSUME PagingInv, List, query.v2, phase' = "listing"
  PROVE  /\ query'.token = Latest(NextBatch) /\ NextBatch # {}
         /\ query'.token \in Pending /\ query'.token # NoToken
         /\ query.token # NoToken => Less(query.token, query'.token)
<1>1. query'.token = Latest(NextBatch) /\ NextBatch # Pending
  BY ListSteps DEF Continue, NextToken, PagingInv, ListInv, Queried
<1>2. NextBatch # {} /\ query'.token \in Pending /\ query'.token \in Seq(Nat)
  BY <1>1, BatchFacts
<1>3. query'.token # NoToken  BY <1>2, ListingAssumption
<1>4. query.token # NoToken => Less(query.token, query'.token)
  BY <1>2, PendingPlaces DEF PagingInv, ListInv
<1> QED  BY <1>1, <1>2, <1>3, <1>4

LEMMA ListKeepsClient ==
  ASSUME PagingInv, List
  PROVE  ClientInv'
<1> DEFINE batch == NextBatch
<1>1. /\ ClientInv /\ phase = "listing"
      /\ Continue(batch, batch # Pending)
      /\ query'.v2 = query.v2 /\ query'.delimited = query.delimited
      /\ writes' = writes /\ pages' # <<>> /\ Len(pages') = Len(pages) + 1
      /\ Len(pages) < MaxPages /\ Len(pages) \in Nat
  BY ListSteps DEF PagingInv
<1>2. Len(pages') <= MaxPages  BY <1>1, ListingAssumption
<1>3. batch \subseteq Seq(Nat) /\ IsFiniteSet(batch) /\ (batch # Pending => batch # {})
  BY BatchFacts
<1> HIDE DEF batch
<1>4. CASE batch = Pending
  BY <1>1, <1>2, <1>4 DEF Continue, ClientInv
<1>5. CASE batch # Pending /\ query.v2
  <2>1. query'.token = Latest(batch) /\ phase' = phase
    BY <1>1, <1>5 DEF Continue, NextToken, PagingInv, ListInv, Queried
  <2>2. query'.token \in Seq(Nat)
    BY <1>3, <1>5, <2>1, LatestExists
  <2> QED  BY <1>1, <1>2, <2>1, <2>2 DEF ClientInv
<1>6. CASE batch # Pending /\ ~query.v2 /\ Keyed(batch) # {}
  <2>1. query'.token = Location(Latest(Keyed(batch))) /\ phase' = phase
    BY <1>1, <1>6 DEF Continue, NextMarker, PagingInv, ListInv, Queried
  <2>2. Keyed(batch) \subseteq Seq(Nat) /\ IsFiniteSet(Keyed(batch))
    <3>1. Keyed(batch) \in SUBSET batch  BY DEF Keyed
    <3> QED  BY <1>3, <3>1, FS_Subset
  <2>3. Latest(Keyed(batch)) \in Seq(Nat)
    BY <1>6, <2>2, LatestExists
  <2>4. query'.token \in Seq(Nat)
    BY <2>1, <2>3, LocationType
  <2> QED  BY <1>1, <1>2, <2>1, <2>4 DEF ClientInv
<1>7. CASE batch # Pending /\ ~query.v2 /\ Keyed(batch) = {}
  <2>1. query' = query /\ phase' = "stuck"
    BY <1>1, <1>7 DEF Continue
  <2>2. query.delimited
    <3>1. PICK e \in batch : TRUE  BY <1>3, <1>7
    <3>2. IsRolled(e)  BY <1>7, <3>1 DEF Keyed
    <3> QED  BY <3>2 DEF IsRolled
  <2> QED  BY <1>1, <1>2, <1>7, <2>1, <2>2 DEF ClientInv
<1> QED  BY <1>4, <1>5, <1>6, <1>7

LEMMA ListKeepsToken ==
  ASSUME PagingInv, List
  PROVE  TokenInv'
<1>1. CASE ~query.v2
  BY <1>1, ListSteps DEF TokenInv
<1>2. CASE query.v2 /\ phase' # "listing"
  <2>1. query' = query
    BY <1>2, ListSteps DEF Continue
  <2>2. /\ AnEntry(query.token)' <=> AnEntry(query.token)
        /\ PastStart(query.token)' <=> PastStart(query.token)
    BY <2>1, ListSteps
    DEF AnEntry, PastStart, IsRolled, Full, BackendKey, Base, Root
  <2> QED  BY <1>2, <2>1, <2>2 DEF TokenInv, PagingInv
<1>3. CASE query.v2 /\ phase' = "listing"
  <2> DEFINE t == query'.token
  <2>1. /\ t = Latest(NextBatch) /\ NextBatch # {} /\ t \in Pending /\ t # NoToken
        /\ query.token # NoToken => Less(query.token, t)
    BY <1>3, TokenMoves
  <2>2. AnEntry(t) /\ PastStart(t) /\ t \in Seq(Nat)
    BY <1>3, <2>1, PendingPlaces DEF PagingInv, ListInv, AnEntry
  <2>3. AnEntry(query.token)' /\ PastStart(query.token)'
    BY <2>2, ListSteps
    DEF AnEntry, PastStart, IsRolled, Full, BackendKey, Base, Root
  <2>4. ASSUME NEW i \in DOMAIN pages', NEW raw \in Raws(pages'[i])
        PROVE  raw = t \/ Less(raw, t)
    <3>1. CASE i \in DOMAIN pages
      <4>1. pages # <<>>  BY <3>1, EmptySeq
      <4>2. /\ query.token # NoToken /\ AnEntry(query.token)
            /\ raw = query.token \/ Less(raw, query.token)
        BY <1>3, <3>1, <4>1, ListSteps DEF PagingInv, TokenInv
      <4>3. raw \in Seq(Nat) /\ query.token \in Seq(Nat) /\ Less(query.token, t)
        BY <2>1, <3>1, <4>2, ListSteps DEF PagingInv, PagesInv, AnEntry
      <4> HIDE DEF t
      <4> QED  BY <2>2, <4>2, <4>3, LessTransitive
    <3>2. CASE i \notin DOMAIN pages
      <4>1. i = Len(pages) + 1  BY <3>2, ListSteps
      <4>2. raw \in NextBatch  BY <4>1, ListSteps, RawsOfPage
      <4> QED  BY <2>1, <4>2, BatchFacts
    <3> QED  BY <3>1, <3>2
  <2> QED  BY <2>1, <2>3, <2>4 DEF TokenInv, Raws
<1> QED  BY <1>1, <1>2, <1>3

LEMMA ListKeepsPages ==
  ASSUME PagingInv, List
  PROVE  PagesInv'
<1> DEFINE n == Len(pages)
<1>1. /\ n \in Nat /\ DOMAIN pages = 1..n /\ DOMAIN pages' = 1..(n + 1)
      /\ \A i \in 1..n : pages'[i] = pages[i]
      /\ pages'[n + 1] = Page(NextBatch)
      /\ query'.v2 = query.v2 /\ phase = "listing"
  BY ListSteps
<1>2. NextBatch \subseteq Seq(Nat)  BY BatchFacts
<1>3. Raws(Page(NextBatch)) \subseteq NextBatch  BY RawsOfPage
<1>4. \A page : AskedPage(page)' <=> AskedPage(page)
  BY ListSteps, SameNames
<1>5. AskedPage(Page(NextBatch))
  BY BatchFacts, PageIsAsked DEF PagingInv
<1> HIDE DEF n
<1>6. ASSUME NEW i \in DOMAIN pages'
      PROVE  Raws(pages'[i]) \subseteq Seq(Nat) /\ AskedPage(pages'[i])
  <2>1. CASE i \in 1..n
    BY <1>1, <2>1 DEF PagingInv, PagesInv
  <2>2. CASE i = n + 1
    BY <1>1, <1>2, <1>3, <1>5, <2>2
  <2> QED  BY <1>1, <2>1, <2>2
<1>7. ASSUME query.v2, NEW i \in 1..n
      PROVE  Raws(pages[i]) \intersect NextBatch = {}
  <2>1. SUFFICES ASSUME NEW raw \in Raws(pages[i]), raw \in NextBatch  PROVE FALSE
    OBVIOUS
  <2>2. pages # <<>>  BY <1>1, <1>7, EmptySeq DEF n
  <2>3. /\ query.token # NoToken /\ AnEntry(query.token)
        /\ raw = query.token \/ Less(raw, query.token)
    BY <1>1, <1>7, <2>2 DEF PagingInv, TokenInv
  <2>4. raw \in Pending /\ raw \in Seq(Nat) /\ query.token \in Seq(Nat)
    BY <1>2, <2>1, <2>3, BatchFacts DEF AnEntry
  <2>5. Less(query.token, raw)
    BY <1>7, <2>3, <2>4, PendingPlaces DEF PagingInv, ListInv
  <2>6. Less(raw, raw)  BY <2>3, <2>4, <2>5, LessTransitive
  <2> QED  BY <2>4, <2>6, LessIrreflexive
<1>8. ASSUME query.v2, NEW i \in DOMAIN pages', NEW j \in DOMAIN pages', i # j
      PROVE  Raws(pages'[i]) \intersect Raws(pages'[j]) = {}
  <2>1. CASE i \in 1..n /\ j \in 1..n
    BY <1>1, <1>8, <2>1 DEF PagingInv, PagesInv
  <2>2. CASE i \in 1..n /\ j = n + 1
    BY <1>1, <1>3, <1>7, <1>8, <2>2
  <2>3. CASE i = n + 1 /\ j \in 1..n
    BY <1>1, <1>3, <1>7, <1>8, <2>3
  <2> QED  BY <1>1, <1>8, <2>1, <2>2, <2>3
<1> QED  BY <1>1, <1>4, <1>6, <1>8 DEF PagesInv, Raws

LEMMA ListKeepsAsked ==
  ASSUME PagingInv, List
  PROVE  AskedInv'
<1> USE DEF NextBatch
<1> SUFFICES ASSUME Regular', query'.v2, phase' \in {"listing", "ended"},
                    NEW f \in Asked'
             PROVE  \/ phase' = "listing" /\ IsPending(BackendKey(f))'
                    \/ Accounted(f)'
  BY DEF AskedInv
<1> DEFINE raw == BackendKey(f)
           P == Page(NextBatch)
<1>1. /\ Regular /\ query.v2 /\ phase = "listing" /\ f \in Asked
      /\ query'.prefix = query.prefix /\ empties' = empties
      /\ BackendKey(f)' = raw /\ PathKey(f)' = PathKey(f)
  BY ListSteps, SameNames DEF Asked
<1>2. f \in Files /\ raw \in objects /\ config \in Configs /\ Stored /\ Queried
      /\ IsFiniteSet(objects)
  BY <1>1 DEF Asked, PagingInv, StockInv, ListInv
<1>3. \/ IsPending(raw)
      \/ Accounted(f)
  BY <1>1 DEF PagingInv, AskedInv
<1>4. /\ AllContents \subseteq AllContents' /\ P.contents \subseteq AllContents'
      /\ AllPrefixes \subseteq AllPrefixes' /\ P.prefixes \subseteq AllPrefixes'
  <2>1. /\ \A i \in DOMAIN pages : i \in DOMAIN pages' /\ pages'[i] = pages[i]
        /\ Len(pages) + 1 \in DOMAIN pages' /\ pages'[Len(pages) + 1] = P
    BY ListSteps
  <2> HIDE DEF P
  <2> QED  BY <2>1 DEF AllContents, AllPrefixes
<1> HIDE DEF P
<1>5. CASE Accounted(f)
  BY <1>1, <1>4, <1>5 DEF Accounted, IsShown, TakenForMarker
<1>6. CASE IsPending(raw) /\ Entry(raw) \in NextBatch
  <2>1. AccountedOn(P, f)
    BY <1>1, <1>2, <1>6, BatchFacts, PageAccounts DEF IsPending, P
  <2>2. Accounted(f)'
    BY <1>1, <1>4, <2>1 DEF AccountedOn, Accounted, IsShown, TakenForMarker
  <2> QED  BY <2>2
<1>7. CASE IsPending(raw) /\ Entry(raw) \notin NextBatch
  <2> DEFINE t == Latest(NextBatch)
  <2>1. Less(t, raw) /\ ~(IsRolled(t) /\ IsPrefix(t, raw))
    BY <1>2, <1>7, LeftOutStaysPending
  <2>2. Entry(raw) \in Pending  BY <1>2, <1>7 DEF Pending
  <2>3. NextBatch # Pending  BY <1>7, <2>2
  <2>4. phase' = "listing"
    BY <1>1, <2>3, ListSteps DEF Continue
  <2>5. query'.token = t /\ query'.token # NoToken
    BY <1>1, <2>4, TokenMoves
  <2>6. Full' = Full
    BY ListSteps, SameNames
  <2>7. IsRolled(query.token)' <=> IsRolled(query'.token)
    BY <2>6, ListSteps DEF IsRolled
  <2>8. IsPending(BackendKey(f))'
    <3> DEFINE later == BackendKey(f)'
    <3>1. later = raw  BY <1>1
    <3> HIDE DEF later
    <3>2. IsPrefix(Full', later) /\ query'.v2
      BY <1>1, <1>7, <2>6, <3>1 DEF IsPending
    <3>3. Less(query'.token, later) /\ ~(IsRolled(query.token)' /\ IsPrefix(query'.token, later))
      <4>1. IsRolled(query'.token) = IsRolled(t)  BY <2>5
      <4> QED  BY <2>1, <2>5, <2>7, <3>1
    <3> QED  BY <2>5, <3>2, <3>3 DEF IsPending, later
  <2> QED  BY <2>4, <2>8
<1> QED  BY <1>3, <1>5, <1>6, <1>7

LEMMA ListKeepsPaging ==
  ASSUME PagingInv, ListInv', List
  PROVE  PagingInv'
<1>1. StockInv'
  <2>1. (Regular' <=> Regular) /\ \A g : BackendKey(g)' = BackendKey(g)
    BY ListSteps, SameNames
  <2> QED  BY <2>1, ListSteps DEF PagingInv, StockInv
<1> QED
  BY <1>1, ListKeepsClient, ListKeepsToken, ListKeepsPages, ListKeepsAsked
  DEF PagingInv

LEMMA NextPaging == PagingInv /\ [Next]_vars => PagingInv'
<1> SUFFICES ASSUME PagingInv, [Next]_vars  PROVE PagingInv'  OBVIOUS
<1>1. ListInv'  BY NextListInv DEF PagingInv
<1>2. CASE \E f \in Files, data \in BOOLEAN : Put(f, data) \/ Upload(f, data)
  BY <1>2, WriteKeepsPaging DEF Put, Upload, Places
<1>4. CASE \E f \in Files : Delete(f) \/ DeleteBatch(f)
  BY <1>4, EraseKeepsPaging DEF Delete, DeleteBatch, Places
<1>5. CASE \E q \in Request : StartListing(q)
  BY <1>1, <1>5, StartKeepsPaging
<1>6. CASE List
  BY <1>1, <1>6, ListKeepsPaging
<1>7. CASE Leave
  BY <1>1, <1>7, LeaveKeepsPaging
<1>8. CASE UNCHANGED vars
  <2>1. UNCHANGED <<config, objects, empties, held, steady, query, phase, pages, writes>>
    BY <1>8 DEF vars
  <2>2. TokenInv' /\ PagesInv'  BY <2>1, ViewStays DEF PagingInv
  <2>3. StockInv' /\ ClientInv'
    BY <2>1, SameSettings DEF PagingInv, StockInv, ClientInv
  <2>4. AskedInv'  BY <2>1, AskedStays
  <2> QED  BY <1>1, <2>2, <2>3, <2>4 DEF PagingInv
<1> QED  BY <1>2, <1>4, <1>5, <1>6, <1>7, <1>8 DEF Next

-----------------------------------------------------------------------------
(* What a client may rely on                                               *)

\* Where a listing has come to, what it has shown and what is still to come
\* agree in every state, whatever is written between two pages, for any keys,
\* prefixes and limits (handle_list, collect_list_entries).
THEOREM PagingInductive == Spec => []PagingInv
<1>1. Init => PagingInv  BY InitPaging
<1>2. PagingInv /\ [Next]_vars => PagingInv'  BY NextPaging
<1> QED  BY <1>1, <1>2, PTL DEF Spec

\* A token or a marker comes with a page and is a key, and only a V1 listing
\* with a delimiter can be truncated without one (proxy.rs:1332-1363).
THEOREM ListingTyped == Spec => []TypeOK
<1>1. PagingInv => TypeOK
  <2> SUFFICES ASSUME PagingInv  PROVE TypeOK  OBVIOUS
  <2>1. \A o \in objects : o \in Seq(Nat) /\ o # <<>>
    BY DEF PagingInv, ListInv, Stored
  <2>2. /\ query.v2 \in BOOLEAN /\ query.delimited \in BOOLEAN
        /\ query.prefix \in Seq(Nat) /\ query.start \in Seq(Nat) \union {NoStart}
    BY ListingAssumption DEF PagingInv, ListInv, Queried
  <2> QED  BY <2>1, <2>2 DEF PagingInv, ListInv, StockInv, ClientInv, TypeOK
<1> QED  BY <1>1, PagingInductive, PTL

\* Under a regular setting of backend_prefix, a file is found by the presigned
\* path wherever it was written from (build_object_path, build_backend_url).
THEOREM WrittenIsFound == Spec => []FoundWhereWritten
<1>1. PagingInv => FoundWhereWritten
  <2> SUFFICES ASSUME PagingInv, Regular, NEW f \in held  PROVE PathKey(f) \in objects
    BY DEF FoundWhereWritten
  <2>1. config \in Configs /\ f \in Files /\ BackendKey(f) \in objects
    BY DEF PagingInv, ListInv, StockInv
  <2> QED  BY <2>1, KeyPlaces
<1> QED  BY <1>1, PagingInductive, PTL

\* A listing shows only what was asked for: the prefix and start-after that go
\* to the backend mapped say on the backend's keys what the client's say on
\* the client's (proxy.rs:1286-1297, list.rs:90-107).
THEOREM ListingAsked == Spec => []ShownIsAsked
<1>1. PagingInv => ShownIsAsked
  BY DEF PagingInv, PagesInv, AskedPage, ShownIsAsked, AllContents
<1> QED  BY <1>1, PagingInductive, PTL

\* No object and no common prefix is shown on two pages of a V2 listing,
\* whatever others write in between (proxy.rs:1332-1346).
THEOREM ListingOnce == Spec => []OnceEach
<1>1. PagingInv => OnceEach
  <2> SUFFICES ASSUME PagingInv, query.v2,
                      NEW i \in DOMAIN pages, NEW j \in DOMAIN pages, i # j
               PROVE  /\ pages[i].contents \intersect pages[j].contents = {}
                      /\ pages[i].prefixes \intersect pages[j].prefixes = {}
    BY DEF OnceEach
  <2>1. Raws(pages[i]) \intersect Raws(pages[j]) = {}
    BY DEF PagingInv, PagesInv
  <2>2. \A c \in pages[i].contents \union pages[i].prefixes : c.raw \in Raws(pages[i])
    BY DEF Raws
  <2>3. \A c \in pages[j].contents \union pages[j].prefixes : c.raw \in Raws(pages[j])
    BY DEF Raws
  <2> QED  BY <2>1, <2>2, <2>3
<1> QED  BY <1>1, PagingInductive, PTL

\* A client that follows the tokens to the end was shown every object that was
\* there all along, but for those that a folder hides (handle_list).
THEOREM ListingComplete == Spec => []Complete
<1>1. PagingInv => Complete
  BY DEF PagingInv, AskedInv, Accounted, Complete
<1> QED  BY <1>1, PagingInductive, PTL

\* Each page but the last moves the token of a V2 listing forward, so a client
\* never asks for the same page twice (proxy.rs:1332-1346).
THEOREM ListingAdvances == Spec => TokenAdvances
<1> DEFINE Forward ==
      query.v2 /\ pages' # pages /\ phase' = "listing" =>
          query.token = NoToken \/ Less(query.token, query'.token)
<1>1. ASSUME PagingInv, [Next]_vars  PROVE [Forward]_vars
  <2> SUFFICES ASSUME query.v2, pages' # pages, phase' = "listing"
               PROVE  query.token = NoToken \/ Less(query.token, query'.token)
    OBVIOUS
  <2>1. CASE List
    BY <1>1, <2>1, TokenMoves
  <2>3. \A q : ~StartListing(q)
    BY DEF StartListing
  <2>4. ~Leave
    BY DEF Leave
  <2>5. \A f, d : ~(Put(f, d) \/ Upload(f, d))
    BY DEF Put, Upload, Write
  <2>6. \A f : ~(Delete(f) \/ DeleteBatch(f))
    BY DEF Delete, DeleteBatch, Erase
  <2> QED  BY <1>1, <2>1, <2>3, <2>4, <2>5, <2>6 DEF Next, vars
<1> HIDE DEF Forward
<1>2. Spec => [][Forward]_vars
  BY <1>1, PagingInductive, PTL DEF Spec
<1> QED  BY <1>2 DEF Forward, TokenAdvances

==============================================================================
